---------------------------- MODULE CallerStack ----------------------------
(***************************************************************************)
(* The Lua stack as LuaWrapper's C++ side uses it: LuaCaller builds a      *)
(* protected call on it, LuaResult reads the results from it, LuaManager   *)
(* reads variables through it and runs chunks on it, and Lua code calls    *)
(* back into C functions that do the same one level up.                    *)
(*                                                                         *)
(* A frame is one C activation (the host's base level, or a C function     *)
(* that Lua called) with its own window of the stack.  When a frame runs   *)
(* lua_pcall it is suspended: calling[d] says for whom, and frame d+1, if  *)
(* there is one, is a C function called by the Lua code that runs on top   *)
(* of it.  Lua code is an environment: it returns any results, raises, or  *)
(* calls C with any arguments.  C++ objects are destroyed in the reverse   *)
(* order of construction; an error raised in C longjmps over them.         *)
(***************************************************************************)
EXTENDS LuaStack, SequencesExt

CONSTANTS
  Callers,      \* the host's LuaCaller objects, each with its LuaResult
  Brackets,     \* the host's BeginGetTable .. EndGetTable brackets
  Functions, Ints, Strings, Tables,   \* Lua values, by type
  Nil,
  Globals,      \* the values global variables and table fields may have
  Traceback,    \* the C function LuaCaller::Traceback
  FunTable,     \* the registry's handler table
  Chunk,        \* "who called": ExecuteString, ExecuteFile or ReloadFile
  None,
  Uses,         \* the parts of the interface this host uses (see Features)
  MaxDepth,     \* bound: nested C activations
  MaxArgs,      \* bound: arguments of one call
  MaxResults,   \* bound: results of one Lua function
  MaxStack      \* bound: height of one window

Features == {"handler", "field", "global", "table", "chunk", "unchecked", "outer", "raise"}
Callable == Functions \cup {Traceback}
Indexable == Tables \cup Strings \cup {FunTable}
Value == Functions \cup Ints \cup Strings \cup Tables \cup {Nil, Traceback, FunTable}
Item  == Callers \cup Brackets
Frame == 1 .. MaxDepth

ASSUME ConstantsAssumption ==
  /\ Callers \cap Brackets = {}
  /\ {Chunk, None} \cap Callers = {} /\ Chunk # None
  /\ Globals \subseteq Functions \cup Ints \cup Strings \cup Tables \cup {Nil}
  /\ Uses \subseteq Features
  /\ MaxDepth \in Nat \ {0}
  /\ MaxArgs \in Nat /\ MaxResults \in Nat /\ MaxStack \in Nat

\* The types of Lua values do not overlap.
ASSUME ValuesAssumption ==
  /\ {Nil, FunTable, Traceback} \cap (Functions \cup Ints \cup Strings \cup Tables) = {}
  /\ Nil # Traceback /\ Nil # FunTable /\ Traceback # FunTable
  /\ Functions \cap (Ints \cup Strings \cup Tables) = {}
  /\ Ints \cap (Strings \cup Tables) = {} /\ Strings \cap Tables = {}

VARIABLES
  status,   \* "running", "aborted" (panic) or "crashed" (null lua_State)
  depth,    \* the innermost C activation
  stk,      \* stk[d]: the window of frame d, without what a running callee took
  scope,    \* scope[d]: the C++ objects alive in frame d, oldest first
  calling,  \* calling[d]: for whom a lua_pcall suspends frame d, or None
  tb,       \* tb[x]: LuaCaller::m_tb, or the slot of a bracket's table; 0: dead
  caller,   \* caller[c]: the other members of a LuaCaller and its LuaResult
  \* History, read by the properties only:
  entry,    \* entry[d]: the window of frame d when it was entered
  below,    \* below[x]: the window under x when x was constructed
  hist      \* hist[c]: what c found, and what passed through it

vars == <<status, depth, stk, scope, calling, tb, caller, entry, below, hist>>

NewCaller == [numArgs |-> 0, called |-> FALSE, resultSet |-> FALSE, resultCount |-> 0]
NoHistory == [found |-> Nil, args |-> << >>, passed |-> << >>,
              ret |-> << >>, got |-> << >>]

Init ==
  /\ status  = "running"
  /\ depth   = 1
  /\ stk     = [d \in Frame |-> << >>]
  /\ scope   = [d \in Frame |-> << >>]
  /\ calling = [d \in Frame |-> None]
  /\ tb      = [x \in Item |-> 0]
  /\ caller  = [c \in Callers |-> NewCaller]
  /\ entry   = [d \in Frame |-> << >>]
  /\ below   = [x \in Item |-> << >>]
  /\ hist    = [c \in Callers |-> NoHistory]

HostRuns == status = "running" /\ calling[depth] = None
LuaRuns  == status = "running" /\ calling[depth] # None
Window   == stk[depth]
Room(n)  == Len(Window) + n <= MaxStack
Alive(x) == tb[x] # 0
LiveIn(d) == {scope[d][i] : i \in 1 .. Len(scope[d])}
\* The last object constructed and alive.  Automatic objects end in the reverse of
\* the order in which they began; arguments and calls, too, are given here to the
\* innermost caller only, though the interface allows it for others.
Innermost(x) == scope[depth] # << >> /\ TopOf(scope[depth]) = x

SetWindow(s) == stk' = [stk EXCEPT ![depth] = s]
EnterScope(x) ==
  /\ scope' = [scope EXCEPT ![depth] = Append(@, x)]
  /\ tb'    = [tb EXCEPT ![x] = Len(Window) + 1]
  /\ below' = [below EXCEPT ![x] = Window]
\* The end of the lifetime of the objects X of the running frame.
Bury(X) ==
  /\ tb'     = [x \in Item |-> IF x \in X THEN 0 ELSE tb[x]]
  /\ below'  = [x \in Item |-> IF x \in X THEN << >> ELSE below[x]]
  /\ caller' = [c \in Callers |-> IF c \in X THEN NewCaller ELSE caller[c]]
  /\ hist'   = [c \in Callers |-> IF c \in X THEN NoHistory ELSE hist[c]]
LeaveScope(x) ==
  /\ scope' = [scope EXCEPT ![depth] = Pop(@, 1)]
  /\ Bury({x})

-----------------------------------------------------------------------------
(* Errors *)

\* The lua_pcall that suspends the running frame's caller fails: what it took
\* is gone; its message handler (Traceback returns no value) leaves nil, and
\* a chunk, run without one, leaves the message.
ErrorValues(who) == IF who = Chunk THEN Strings ELSE {Nil}

\* A Lua error raised in the running C activation.  With no lua_pcall below,
\* Panic returns and Lua aborts.  Otherwise the activation is unwound, its
\* C++ objects without their destructors, and the error stops at a pcall of
\* the Lua code itself or at the lua_pcall that suspends the frame below.
RaiseError ==
  IF depth = 1
  THEN /\ status' = "aborted"
       /\ UNCHANGED <<depth, stk, scope, calling, tb, caller, entry, below, hist>>
  ELSE /\ depth' = depth - 1
       /\ entry' = [entry EXCEPT ![depth] = << >>]
       /\ scope' = [scope EXCEPT ![depth] = << >>]
       /\ Bury(LiveIn(depth))
       /\ \/ /\ SetWindow(<< >>)
             /\ UNCHANGED calling
          \/ \E v \in ErrorValues(calling[depth - 1]) :
               /\ stk' = [stk EXCEPT ![depth] = << >>, ![depth - 1] = Append(@, v)]
               /\ calling' = [calling EXCEPT ![depth - 1] = None]
       /\ UNCHANGED status

\* GenerateLuaError, or any C function of the host that raises.
GenerateLuaError ==
  /\ "raise" \in Uses /\ HostRuns /\ depth > 1
  /\ RaiseError

-----------------------------------------------------------------------------
(* LuaCaller *)

\* What a constructor pushes above the traceback.
ByGlobal(v) == <<v>>
ByField(t, v) == IF t \in Tables THEN <<v>> ELSE <<t>>
ByHandler(v) == <<FunTable, v>>

Lookups ==
  {ByGlobal(v) : v \in Globals}
  \cup (IF "field" \in Uses THEN {ByField(t, v) : t \in Globals, v \in Globals} ELSE {})
  \cup (IF "handler" \in Uses THEN {ByHandler(v) : v \in Functions \cup {Nil}} ELSE {})

Construct(c, look) ==
  /\ HostRuns /\ ~Alive(c) /\ Room(1 + Len(look))
  /\ SetWindow(Window \o (<<Traceback>> \o look))
  /\ EnterScope(c)
  /\ caller' = [caller EXCEPT ![c] = NewCaller]
  /\ hist'   = [hist EXCEPT ![c] = [NoHistory EXCEPT !.found = TopOf(look)]]
  /\ UNCHANGED <<status, depth, calling, entry>>

\* An Arg overload; the host gives arguments to the caller constructed last.
Arg(c, v) ==
  /\ HostRuns /\ Innermost(c) /\ ~caller[c].called
  /\ caller[c].numArgs < MaxArgs /\ Room(1)
  /\ SetWindow(Append(Window, v))
  /\ caller' = [caller EXCEPT ![c].numArgs = @ + 1]
  /\ hist'   = [hist EXCEPT ![c].args = Append(@, v)]
  /\ UNCHANGED <<status, depth, scope, calling, tb, entry, below>>

\* Where lua_pcall finds the function: under the arguments.
FunctionSlotFault(c) == Len(Window) - caller[c].numArgs - 1
FunctionSlot(c) == Len(Window) - caller[c].numArgs

\* LuaCaller::Call up to the point where Lua code runs.  lua_pcall takes the
\* value under the arguments as the function; a value that cannot be called
\* is an error at once.
Call(c) ==
  LET slot == FunctionSlot(c)
      kept == SetTop(Window, slot - 1)
  IN /\ HostRuns /\ Innermost(c)
     /\ IF caller[c].called THEN UNCHANGED <<stk, calling, caller, hist>>
        ELSE /\ caller' = [caller EXCEPT ![c].called = TRUE]
             /\ hist'   = [hist EXCEPT ![c].passed = SubSeq(Window, slot, Len(Window))]
             /\ IF Window[slot] \in Callable
                THEN SetWindow(kept) /\ calling' = [calling EXCEPT ![depth] = c]
                ELSE SetWindow(Append(kept, Nil)) /\ UNCHANGED calling
     /\ UNCHANGED <<status, depth, scope, tb, entry, below>>

\* SetResultCount and SetLuaState, with top results of the call above m_tb.
ReadyFaultCount(c, top) == [caller[c] EXCEPT !.resultSet = TRUE, !.resultCount = tb[c] - top]
ReadyFaultState(c, top) == [caller[c] EXCEPT !.resultCount = top - tb[c]]
Ready(c, top) == [caller[c] EXCEPT !.resultSet = TRUE, !.resultCount = top - tb[c]]

\* The rest of Call after lua_pcall returned LUA_OK.  A null result pointer is
\* a LuaResult nobody reads.
CallReturns(c, rs) ==
  /\ LuaRuns /\ calling[depth] = c /\ Room(Len(rs))
  /\ SetWindow(Window \o rs)
  /\ calling' = [calling EXCEPT ![depth] = None]
  /\ caller'  = [caller EXCEPT ![c] = Ready(c, Len(Window) + Len(rs))]
  /\ hist'    = [hist EXCEPT ![c].ret = rs]
  /\ UNCHANGED <<status, depth, scope, tb, entry, below>>

\* LuaCaller::~LuaCaller
DestroyFault(c) ==
  /\ HostRuns /\ Innermost(c)
  /\ SetWindow(SetTop(Window, tb[c]))
  /\ LeaveScope(c)
  /\ UNCHANGED <<status, depth, calling, entry>>
Destroy(c) ==
  /\ HostRuns /\ Innermost(c)
  /\ SetWindow(SetTop(Window, tb[c] - 1))
  /\ LeaveScope(c)
  /\ UNCHANGED <<status, depth, calling, entry>>

-----------------------------------------------------------------------------
(* LuaResult *)

\* The values the slot of index idx may hold: the slot just above the top
\* (index 0) holds whatever was left there, and an index past the top none.
Readable(idx) == IF idx = 0 THEN Value
                 ELSE IF IsSlot(Window, idx) THEN {ValueAt(Window, idx)} ELSE {Nil}

ResultIndexFault(c) == 1 - caller[c].resultCount
ResultIndex(c) == -caller[c].resultCount

\* GetResult for a type whose conversion raises (luaL_checkinteger) or for
\* bool, which converts anything.  The host reads while GetResultCount() is
\* not 0; CallLuaFunction<T> ("unchecked") reads once whatever Call did, and
\* some hosts read while callers constructed later are alive ("outer").
GetResult(c, checked) ==
  /\ HostRuns /\ caller[c].called
  /\ Innermost(c) \/ ("outer" \in Uses /\ c \in LiveIn(depth))
  /\ \/ caller[c].resultCount > 0
     \/ "unchecked" \in Uses /\ hist[c].got = << >> /\ caller[c].resultCount = 0
  /\ IF ~caller[c].resultSet
     THEN /\ status' = "crashed"
          /\ UNCHANGED <<depth, stk, scope, calling, tb, caller, entry, below, hist>>
     ELSE \E v \in Readable(ResultIndex(c)) :
            IF checked /\ v \notin Ints
            THEN RaiseError
            ELSE /\ caller' = [caller EXCEPT ![c].resultCount = @ - 1]
                 /\ hist'   = [hist EXCEPT ![c].got = Append(@, v)]
                 /\ UNCHANGED <<status, depth, stk, scope, calling, tb, entry, below>>

-----------------------------------------------------------------------------
(* LuaManager: variables, tables and chunks *)

\* DoGetGlobalVarible: the value stays on the stack.
GetGlobalVarible(v, checked) ==
  /\ "global" \in Uses /\ HostRuns /\ Room(1)
  /\ IF checked /\ v \notin Ints
     THEN RaiseError
     ELSE /\ SetWindow(Append(Window, v))
          /\ UNCHANGED <<status, depth, scope, calling, tb, caller, entry, below, hist>>

BeginGetTable(b, v) ==
  /\ "table" \in Uses /\ HostRuns /\ ~Alive(b) /\ Room(1)
  /\ SetWindow(Append(Window, v))
  /\ EnterScope(b)
  /\ UNCHANGED <<status, depth, calling, caller, entry, hist>>

\* The table is looked up in the value on top of the stack.
BeginGetTableTable(b, v) ==
  /\ "table" \in Uses /\ HostRuns /\ ~Alive(b) /\ Room(1)
  /\ scope[depth] # << >> /\ TopOf(scope[depth]) \in Brackets
  /\ IF TopOf(Window) \in Indexable
     THEN /\ SetWindow(Append(Window, v))
          /\ EnterScope(b)
          /\ UNCHANGED <<status, depth, calling, caller, entry, hist>>
     ELSE RaiseError

GetTableVaribleFault(v, checked) ==
  /\ "table" \in Uses /\ HostRuns /\ Room(1)
  /\ scope[depth] # << >> /\ TopOf(scope[depth]) \in Brackets
  /\ IF TopOf(Window) \in Indexable /\ (checked => v \in Ints)
     THEN /\ SetWindow(Append(Window, v))
          /\ UNCHANGED <<status, depth, scope, calling, tb, caller, entry, below, hist>>
     ELSE RaiseError
\* DoGetTableVarible: the value is popped again, unless reading it raises.
GetTableVarible(v, checked) ==
  /\ "table" \in Uses /\ HostRuns
  /\ scope[depth] # << >> /\ TopOf(scope[depth]) \in Brackets
  /\ IF TopOf(Window) \in Indexable /\ (checked => v \in Ints)
     THEN UNCHANGED vars
     ELSE RaiseError

\* EndGetTable and EndGetTableTable
EndGetTable(b) ==
  /\ HostRuns /\ Innermost(b)
  /\ SetWindow(Pop(Window, 1))
  /\ LeaveScope(b)
  /\ UNCHANGED <<status, depth, calling, entry>>

\* ExecuteString, ExecuteFile, ReloadFile: a chunk that compiles runs in a
\* lua_pcall without message handler, one that does not leaves the message.
RunChunk ==
  /\ "chunk" \in Uses /\ HostRuns /\ Room(1)
  /\ \/ calling' = [calling EXCEPT ![depth] = Chunk] /\ UNCHANGED stk
     \/ (\E msg \in Strings : SetWindow(Append(Window, msg))) /\ UNCHANGED calling
  /\ UNCHANGED <<status, depth, scope, tb, caller, entry, below, hist>>

\* What the chunk returns stays on the stack.
ChunkReturns(rs) ==
  /\ LuaRuns /\ calling[depth] = Chunk /\ Room(Len(rs))
  /\ SetWindow(Window \o rs)
  /\ calling' = [calling EXCEPT ![depth] = None]
  /\ UNCHANGED <<status, depth, scope, tb, caller, entry, below, hist>>

-----------------------------------------------------------------------------
(* Lua code *)

LuaRaises ==
  /\ LuaRuns
  /\ \E v \in ErrorValues(calling[depth]) : SetWindow(Append(Window, v))
  /\ calling' = [calling EXCEPT ![depth] = None]
  /\ UNCHANGED <<status, depth, scope, tb, caller, entry, below, hist>>

\* Lua calls a registered C function, which starts with its arguments on a
\* window of its own.
LuaCallsC(as) ==
  /\ LuaRuns /\ depth < MaxDepth
  /\ depth' = depth + 1
  /\ stk'   = [stk EXCEPT ![depth + 1] = as]
  /\ entry' = [entry EXCEPT ![depth + 1] = as]
  /\ UNCHANGED <<status, scope, calling, tb, caller, below, hist>>

\* The C function returns to the Lua code that called it.
CReturns ==
  /\ HostRuns /\ depth > 1 /\ scope[depth] = << >>
  /\ depth' = depth - 1
  /\ SetWindow(<< >>)
  /\ entry' = [entry EXCEPT ![depth] = << >>]
  /\ UNCHANGED <<status, scope, calling, tb, caller, below, hist>>

Results == SeqOf(Ints \cup Strings, MaxResults)

Next ==
  \/ \E c \in Callers :
       \/ \E look \in Lookups : Construct(c, look)
       \/ \E v \in Ints : Arg(c, v)
       \/ Call(c)
       \/ \E rs \in Results : CallReturns(c, rs)
       \/ \E checked \in BOOLEAN : GetResult(c, checked)
       \/ Destroy(c)
  \/ \E v \in Globals, checked \in BOOLEAN :
       \/ GetGlobalVarible(v, checked)
       \/ GetTableVarible(v, checked)
  \/ \E b \in Brackets :
       \/ \E v \in Globals : BeginGetTable(b, v) \/ BeginGetTableTable(b, v)
       \/ EndGetTable(b)
  \/ RunChunk
  \/ \E rs \in Results : ChunkReturns(rs)
  \/ LuaRaises
  \/ \E as \in SeqOf(Ints, 1) : LuaCallsC(as)
  \/ CReturns
  \/ GenerateLuaError

Spec == Init /\ [][Next]_vars

-----------------------------------------------------------------------------
(* Properties *)

CallerState == [numArgs : 0 .. MaxArgs, called : BOOLEAN, resultSet : BOOLEAN,
                resultCount : -1 .. MaxStack]
History == [found : Value, args : Seq(Ints),
            passed : Seq(Value), ret : Seq(Value), got : Seq(Value)]

TypeOK ==
  /\ status \in {"running", "aborted", "crashed"}
  /\ depth \in Frame
  /\ stk \in [Frame -> Seq(Value)]
  /\ scope \in [Frame -> Seq(Item)]
  /\ calling \in [Frame -> Callers \cup {Chunk, None}]
  /\ tb \in [Item -> Nat]
  /\ caller \in [Callers -> CallerState]
  /\ entry \in [Frame -> Seq(Value)]
  /\ below \in [Item -> Seq(Value)]
  /\ hist \in [Callers -> History]

\* Whatever nested calls, errors and leaks did, the window under a live object
\* is the one its constructor found, and a caller's message handler is still
\* where m_tb says: the calls, reads and destructors of the objects above it
\* never reach down to it (lua_caller.cpp: lua_pcall with m_tb, ~LuaCaller).
ScopesIntact ==
  \A d \in 1 .. depth : \A x \in LiveIn(d) :
    /\ tb[x] \in 1 .. Len(stk[d])
    /\ SetTop(stk[d], tb[x] - 1) = below[x]
    /\ x \in Callers => stk[d][tb[x]] = Traceback

\* ~LuaCaller leaves the stack as the constructor found it.
CallerRestoresStack ==
  [][\A c \in Callers : Alive(c) /\ ~Alive(c)' /\ depth' = depth
        => stk'[depth] = below[c]]_vars

\* Without the operations that leave values behind, a frame with no live
\* object has the stack it was entered with, and the table of the innermost
\* bracket is on top, where GetTableVarible and EndGetTable expect it.
StackBalanced ==
  \A d \in 1 .. depth :
    IF scope[d] = << >> THEN stk[d] = entry[d]
    ELSE TopOf(scope[d]) \in Brackets => tb[TopOf(scope[d])] = Len(stk[d])

\* lua_pcall gets what the constructor found and the arguments, in order.
CallPassesArguments ==
  \A c \in Callers : Alive(c) /\ caller[c].called
    => hist[c].passed = <<hist[c].found>> \o hist[c].args

\* The results of a call come out once each and in order, and GetResultCount
\* says how many are left (the loop of tests/main.cpp over fReturnTwo).
ResultsInOrder ==
  \A c \in Callers : Alive(c) /\ caller[c].resultSet
    => /\ hist[c].got = SubSeq(hist[c].ret, 1, Len(hist[c].got))
       /\ caller[c].resultCount = Len(hist[c].ret) - Len(hist[c].got)

\* By name and without leaks, the stack implements the abstract call: the slots
\* between m_tb and the top are what was given, and later what is left to read.
FrameOf(c) == CHOOSE d \in 1 .. depth : c \in LiveIn(d)
Phase(c) == IF ~Alive(c) THEN "none"
            ELSE IF ~caller[c].called THEN "open"
            ELSE IF \E d \in Frame : calling[d] = c THEN "running"
            ELSE IF caller[c].resultSet THEN "done" ELSE "failed"
Given(c) == IF Phase(c) = "open"
            THEN SubSeq(stk[FrameOf(c)], tb[c] + 1, tb[c] + 1 + caller[c].numArgs)
            ELSE hist[c].passed
Queue(c) == LET last == tb[c] + Len(hist[c].ret)
            IN IF Phase(c) = "done"
               THEN SubSeq(stk[FrameOf(c)], last - caller[c].resultCount + 1, last)
               ELSE << >>

SC == INSTANCE ScriptCall WITH
        Values <- Value,
        phase <- [c \in Callers |-> Phase(c)],
        given <- [c \in Callers |-> Given(c)],
        queue <- [c \in Callers |-> Queue(c)],
        taken <- [c \in Callers |-> hist[c].got]
ImplementsScriptCall == SC!Spec

\* A host that reads only while results are left never uses a null lua_State.
NoCrash == status # "crashed"
=============================================================================
