----------------------------- MODULE Coroutines -----------------------------
(***************************************************************************)
(* What Lua promises of coroutines and protected calls, without the C      *)
(* stack: every thread has its own calls; a resume makes another thread    *)
(* run; a yield gives back the control with the calls kept; an error ends  *)
(* the calls up to the innermost protected one of the running thread, or   *)
(* the whole coroutine.                                                    *)
(***************************************************************************)
EXTENDS Integers, Sequences

CONSTANTS
  Main, Cos,     \* the main thread, the coroutines
  Kinds          \* the functions that call another one

VARIABLES
  calls,         \* of each thread, its functions, the running one last
  state,         \* of each thread, what coroutine.status says
  running,       \* the thread that runs; Main also when the host does
  resumer        \* of each thread, the one that waits for it; itself without one

vars == <<calls, state, running, resumer>>
Threads == {Main} \cup Cos
InLua == calls[Main] # << >>
Frames(t) == DOMAIN calls[t]

Init ==
  /\ calls = [t \in Threads |-> IF t = Main THEN <<"lua">> ELSE << >>]
  /\ state = [t \in Threads |-> IF t = Main THEN "running" ELSE "suspended"]
  /\ running = Main
  /\ resumer = [t \in Threads |-> t]

\* The running function calls f, which is run by the function via.
Call(via) ==
  /\ InLua
  /\ calls' = [calls EXCEPT ![running] = @ \o via]
  /\ UNCHANGED <<state, running, resumer>>

\* It returns: so do the functions that had called it, down to a Lua function.
Returns(s) ==
  LET lua == {i \in 1 .. Len(s) - 1 : s[i] \in {"lua", "handler"}}
  IN IF lua = {} THEN << >> ELSE SubSeq(s, 1, CHOOSE i \in lua : \A j \in lua : j <= i)

\* The thread that runs ends, well or not; the one that had resumed it goes on.
Leave(t, s, rest) ==
  LET r == resumer[t]
  IN /\ calls' = [calls EXCEPT ![t] = rest, ![r] = SubSeq(@, 1, Len(@) - 1)]
     /\ state' = [state EXCEPT ![t] = s, ![r] = "running"]
     /\ running' = r
     /\ resumer' = [resumer EXCEPT ![t] = t]

\* The calls that are left to the running thread; the host goes on without any.
Keeps(rest) == calls' = [calls EXCEPT ![running] = rest] /\ UNCHANGED <<state, running, resumer>>

Return ==
  /\ InLua
  /\ LET rest == Returns(calls[running])
     IN IF rest # << >> \/ running = Main THEN Keeps(rest) ELSE Leave(running, "dead", << >>)

Resume(c) ==
  /\ InLua /\ state[c] = "suspended"
  /\ calls' = [calls EXCEPT ![running] = Append(@, "resume"),
                            ![c] = IF @ = << >> THEN <<"lua">> ELSE SubSeq(@, 1, Len(@) - 1)]
  /\ state' = [state EXCEPT ![running] = "normal", ![c] = "running"]
  /\ running' = c
  /\ resumer' = [resumer EXCEPT ![c] = running]

\* Only C functions without a continuation cannot be left by a yield.
Yieldable(t) == t # Main /\ \A i \in Frames(t) : calls[t][i] \notin {"sort", "handler"}
Yield ==
  InLua /\ Yieldable(running) /\ Leave(running, "suspended", Append(calls[running], "yield"))

\* The innermost protected call of t returns its error; the coroutine dies without one.
Protected(t) == {i \in Frames(t) : calls[t][i] \in {"pcall", "xpcall"}}
Innermost(t) == CHOOSE i \in Protected(t) : \A j \in Protected(t) : j <= i
Caught(t) == IF Protected(t) = {} THEN << >> ELSE SubSeq(calls[t], 1, Innermost(t) - 1)
Error ==
  /\ InLua
  /\ IF Protected(running) # {} \/ running = Main THEN Keeps(Caught(running))
     ELSE Leave(running, "dead", << >>)

\* The host raises an error of the main thread while c runs: every coroutine that
\* waits is left as it was, and can never be resumed.
RaiseOnMain ==
  /\ running # Main
  /\ calls' = [calls EXCEPT ![Main] = Caught(Main)]
  /\ state' = [state EXCEPT ![running] = "normal", ![Main] = "running"]
  /\ running' = Main
  /\ resumer' = [t \in Threads |-> t]

Create(c) ==
  /\ state[c] = "dead"
  /\ calls' = [calls EXCEPT ![c] = << >>] /\ state' = [state EXCEPT ![c] = "suspended"]
  /\ UNCHANGED <<running, resumer>>

HostCalls ==
  /\ ~InLua
  /\ calls' = [calls EXCEPT ![Main] = <<"lua">>] /\ UNCHANGED <<state, running, resumer>>

Next ==
  \/ \E via \in {<<"lua">>, <<"handler">>} \cup (Kinds \X {"lua", "handler"}) : Call(via)
  \/ Return \/ Yield \/ Error \/ RaiseOnMain \/ HostCalls
  \/ \E c \in Cos : Resume(c) \/ Create(c)

Spec == Init /\ [][Next]_vars
=============================================================================
