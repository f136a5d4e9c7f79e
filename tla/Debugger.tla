------------------------------ MODULE Debugger ------------------------------
(***************************************************************************)
(* LuaDebugger: interactive sessions on the one lua_State the debugger     *)
(* knows, opened by a C function that calls Debug() or by the debug hook   *)
(* that the command n arms.  Sessions nest: the command p runs Lua code,   *)
(* which may call a C function that opens a session of its own.            *)
(*                                                                         *)
(* acts is the chain of activations, innermost last: "lua" and "c" belong  *)
(* to the debugger's lua_State, "co" to a coroutine, whose state has hooks *)
(* of its own.  lua_getstack's level 0 is the innermost activation of the  *)
(* debugger's state.  A session is at its prompt when the activation it    *)
(* was opened in is innermost again; otherwise its p is still running.     *)
(* The commands bt, l and help change nothing and are left out.            *)
(***************************************************************************)
EXTENDS LuaStack, SequencesExt

CONSTANTS
  Uses,         \* what this host and its scripts do (see Features)
  Levels,       \* the numbers the user may give to f
  MaxActs,      \* bound: nested activations
  MaxSessions   \* bound: nested sessions

Features == {"nested", "coroutine", "host", "strict", "eof"}

ASSUME ConstantsAssumption ==
  /\ Uses \subseteq Features
  /\ Levels \subseteq Nat
  /\ MaxActs \in Nat /\ MaxSessions \in Nat

VARIABLES
  acts,         \* the activations, innermost last
  sessions,     \* the open calls of Debug(), innermost last
  isDebugging,  \* m_isDebugging
  armed,        \* the hook is set, with its three masks
  crashed,      \* a null command was compared (end of input)
  raisedOut     \* history: an error has left a Debug() in the middle

vars == <<acts, sessions, isDebugging, armed, crashed, raisedOut>>

Init ==
  /\ acts = << >>
  /\ sessions = << >>
  /\ isDebugging = FALSE
  /\ armed = FALSE
  /\ crashed = FALSE
  /\ raisedOut = FALSE

Session == TopOf(sessions)
Base == IF sessions = << >> THEN 0 ELSE Session.at
LuaRuns  == ~crashed /\ Len(acts) > Base
AtPrompt == ~crashed /\ sessions # << >> /\ Len(acts) = Base
HostRuns == ~crashed /\ sessions = << >> /\ acts = << >>

\* The activations lua_getstack(m_pState, ...) finds, and which of its levels.
OnState(a) == a # "co"
StateActs == SelectSeq(acts, OnState)
LevelExists(level) == level < Len(StateActs)

-----------------------------------------------------------------------------
(* The hook *)

OpenSessionFault(event) ==
  /\ Len(sessions) < MaxSessions
  /\ sessions' = Append(sessions, [event |-> event, at |-> Len(acts'), level |-> -1])
  /\ isDebugging' = TRUE
\* Debug() up to its first prompt.
OpenSession(event) ==
  /\ Len(sessions) < MaxSessions
  /\ sessions' = Append(sessions, [event |-> event, at |-> Len(acts'), level |-> 1])
  /\ isDebugging' = TRUE

\* Lua calls no hook inside a hook; a coroutine's events are another state's.
HooksAllowed == \A i \in 1 .. Len(sessions) : sessions[i].event = "debug"
Fires(a) == armed /\ HooksAllowed /\ OnState(a)

\* HookCallback for a focused event: one stop, unless a session drives this code.
HookCallback(event, before, after) ==
  /\ armed' = FALSE
  /\ IF isDebugging THEN acts' = after /\ UNCHANGED <<sessions, isDebugging>>
                    ELSE acts' = before /\ OpenSession(event)

\* A step of the interpreter with a hook event: the event sees the activations
\* before, and the interpreter goes on with the activations after.
Step(event, before, after) ==
  /\ IF Fires(TopOf(before)) THEN HookCallback(event, before, after)
     ELSE acts' = after /\ UNCHANGED <<sessions, isDebugging, armed>>
  /\ UNCHANGED <<crashed, raisedOut>>

CallStep(kind) ==
  /\ Len(acts) < MaxActs
  /\ Step("call", Append(acts, kind), Append(acts, kind))

\* The host or running code calls a function.  A coroutine is resumed by a C
\* function; code on a coroutine reaches the debugger's state through the host.
LuaCalls(kind) ==
  /\ HostRuns \/ LuaRuns
  /\ kind = "co" => "coroutine" \in Uses /\ acts # << >> /\ TopOf(acts) # "lua"
  /\ CallStep(kind)

LuaReturns == LuaRuns /\ Step("return", acts, Pop(acts, 1))

LuaLine == LuaRuns /\ TopOf(acts) = "lua" /\ Step("line", acts, acts)

\* Where a Lua error may stop: in the lua_pcall of the host or of the innermost
\* session's p, or in a pcall of the code itself, which is a C activation.
CatchersFault == {k \in 0 .. Len(acts) - 1 : k = 0 \/ acts[k] # "lua"}
Catchers == {k \in Base .. Len(acts) - 1 : k = Base \/ acts[k] # "lua"}

LuaRaises ==
  /\ LuaRuns
  /\ \E k \in Catchers : acts' = SetTop(acts, k)
  /\ UNCHANGED <<sessions, isDebugging, armed, crashed, raisedOut>>

-----------------------------------------------------------------------------
(* The session *)

\* A C function of the host, or the host outside Lua, calls Debug().
Debug ==
  /\ \/ LuaRuns /\ TopOf(acts) # "lua" /\ (sessions = << >> \/ "nested" \in Uses)
     \/ HostRuns /\ "host" \in Uses
  /\ UNCHANGED <<acts, armed, crashed, raisedOut>>
  /\ OpenSession("debug")

\* p: print the value found, or run print(...) as a chunk; both are protected.
\* A level that does not exist, or a chunk that does not compile, does nothing.
PrintVariable(kind) ==
  /\ AtPrompt /\ LevelExists(Session.level)
  /\ CallStep(kind)

\* The lookup of a global may raise (a strict global table): it is not
\* protected, so the error leaves Debug() and m_isDebugging stays set.
PrintRaises ==
  /\ "strict" \in Uses /\ AtPrompt /\ LevelExists(Session.level)
  /\ sessions' = Pop(sessions, 1)
  /\ LET floor == IF Len(sessions) = 1 THEN 0 ELSE sessions[Len(sessions) - 1].at
         catchers == {k \in floor .. Len(acts) - 1 :
                        k = floor \/ (acts[k] = "c" /\ acts[k + 1] # "co")}
     IN \E k \in catchers : acts' = SetTop(acts, k)
  /\ raisedOut' = TRUE
  /\ UNCHANGED <<isDebugging, armed, crashed>>

\* f: the level is stored before it is checked, so a refused one stays.
PrintFrame(level) ==
  /\ AtPrompt
  /\ sessions' = [sessions EXCEPT ![Len(sessions)].level = level]
  /\ UNCHANGED <<acts, isDebugging, armed, crashed, raisedOut>>

\* The end of Debug(), which resets the flag for the outer sessions too; an
\* activation that stopped at its return goes on returning.
LeaveFault ==
  /\ AtPrompt
  /\ sessions' = Pop(sessions, 1)
  /\ acts' = IF Session.event = "return" THEN Pop(acts, 1) ELSE acts
  /\ UNCHANGED <<isDebugging, crashed, raisedOut>>
Leave ==
  /\ AtPrompt
  /\ sessions' = Pop(sessions, 1)
  /\ acts' = IF Session.event = "return" THEN Pop(acts, 1) ELSE acts
  /\ isDebugging' = FALSE
  /\ UNCHANGED <<crashed, raisedOut>>

\* c and n
Continue == Leave /\ UNCHANGED armed
StepInto == Leave /\ armed' = TRUE

\* ReadWord returns NULL at the end of input, and strcmp reads it.
EndOfInput ==
  /\ "eof" \in Uses /\ AtPrompt
  /\ crashed' = TRUE
  /\ UNCHANGED <<acts, sessions, isDebugging, armed, raisedOut>>

LuaMoves == (\E kind \in {"lua", "c", "co"} : LuaCalls(kind)) \/ LuaReturns \/ LuaLine

Next ==
  \/ LuaMoves
  \/ LuaRaises
  \/ Debug
  \/ \E kind \in {"lua", "c"} : PrintVariable(kind)
  \/ PrintRaises
  \/ \E level \in Levels : PrintFrame(level)
  \/ Continue
  \/ StepInto
  \/ EndOfInput

Spec == Init /\ [][Next]_vars

\* The interpreter does not stop in the middle of Lua code.
FairSpec == Spec /\ WF_vars(LuaRuns /\ LuaMoves)

-----------------------------------------------------------------------------
(* Properties *)

SessionState == [event : {"debug", "call", "return", "line"}, at : Nat, level : Nat]

TypeOK ==
  /\ acts \in Seq({"lua", "c", "co"})
  /\ sessions \in Seq(SessionState)
  /\ isDebugging \in BOOLEAN /\ armed \in BOOLEAN /\ crashed \in BOOLEAN
  /\ raisedOut \in BOOLEAN

\* Whatever p runs and however it ends, the activation a session was opened in
\* is still there when the session gets its prompt back (PrintLua's lua_pcall),
\* and a session opened later is further in.
SessionsNested ==
  /\ \A i \in 1 .. Len(sessions) : sessions[i].at <= Len(acts)
  /\ \A i, j \in 1 .. Len(sessions) : i < j => sessions[i].at < sessions[j].at

\* The flag left behind by nested sessions is never stuck: with no session
\* open, the next event may open one.  Only a lookup that raises keeps it.
NoFlagWithoutSession == ~raisedOut /\ sessions = << >> => ~isDebugging

\* "n": the event of running code that uses a pending step up opens a session;
\* only the call of a p typed while the step is pending uses it up for nothing.
NoStepLost ==
  [][~raisedOut /\ armed /\ LuaRuns /\ ~armed' => Len(sessions') > Len(sessions)]_vars

\* After n, code on the debugger's state comes back to a prompt, ends, or hands
\* over to a coroutine, whose state has hooks of its own.
StepStops ==
  (~raisedOut /\ armed /\ LuaRuns /\ HooksAllowed /\ OnState(TopOf(acts)))
    ~> (raisedOut \/ AtPrompt \/ acts = << >> \/ TopOf(acts) = "co")
=============================================================================
