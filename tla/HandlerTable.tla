---------------------------- MODULE HandlerTable ----------------------------
(***************************************************************************)
(* The script handlers of LuaManager: a table in the Lua registry maps     *)
(* numbers to the callbacks that Lua handed to C functions of the host.    *)
(* A component of the host (a client) keeps the number it was given, calls *)
(* the callback through it and gives it back with RemoveScriptHandler.     *)
(***************************************************************************)
EXTENDS LuaStack, SequencesExt

CONSTANTS
  Clients,       \* components of the host that register callbacks
  Functions,     \* Lua functions
  Others,        \* Lua values that are not functions
  Nil,
  FunTable,      \* the table itself, which LuaToScriptHandler pushes
  NoHandler,
  Indices,       \* the indices at which C functions expect the callback
  States,        \* where Lua calls them: "main", "coroutine"
  Careful,       \* the host checks the state and the type before it registers
  MaxHandlers,   \* bound: registrations in the life of the program
  MaxArgs        \* bound: arguments of a C function

Handler == 0 .. MaxHandlers - 1
Value == Functions \cup Others \cup Handler \cup {Nil, FunTable}

ASSUME ConstantsAssumption ==
  /\ MaxHandlers \in Nat \ {0} /\ MaxArgs \in Nat
  /\ Indices \subseteq Int \ {0}
  /\ States \subseteq {"main", "coroutine"}
  /\ Careful \in BOOLEAN
  /\ NoHandler \notin Int

ASSUME ValuesAssumption ==
  /\ Functions \cap (Others \cup Handler \cup {Nil, FunTable}) = {}
  /\ Nil \notin Others \cup Handler \cup {FunTable}

VARIABLES
  globalhandler,   \* the next handler
  funTable,        \* the handler table; a number without entry has Nil
  handler,         \* handler[c]: what client c was given and still holds
  fired,           \* the last event: whose it was, and the function it ran
  meant,           \* history, meant[c]: the callback c wanted to register
  given            \* history: the handlers handed out so far

vars == <<globalhandler, funTable, handler, fired, meant, given>>

NoEvent == [client |-> Nil, ran |-> Nil]

\* InitScript
Init ==
  /\ globalhandler = 0
  /\ funTable = [h \in Handler |-> Nil]
  /\ handler  = [c \in Clients |-> NoHandler]
  /\ fired    = NoEvent
  /\ meant    = [c \in Clients |-> Nil]
  /\ given    = {}

Holds(c) == handler[c] # NoHandler
Argument(args, idx) == IF IsSlot(args, idx) THEN ValueAt(args, idx) ELSE Nil
ValidFault(state, args, idx) == state = "main"
Valid(state, args, idx) == state = "main" /\ Argument(args, idx) \in Functions

\* PushFunScriptTable and lua_pushnumber come before lua_pushvalue(idx).
PushedValueFault(args, idx) == ValueAt(args \o <<FunTable, globalhandler>>, idx + 1)
PushedValue(args, idx) == ValueAt(args \o <<FunTable, globalhandler>>, idx)

NextHandlerFault == globalhandler
NextHandler == globalhandler + 1

\* A C function of client c, called by Lua with args, registers its argument
\* at idx.  A failed registration returns 0, and so does the first one that
\* succeeds.
LuaToScriptHandler(c, state, args, idx) ==
  /\ ~Holds(c) /\ globalhandler < MaxHandlers
  /\ AbsIndex(args, idx) >= 1
  /\ Careful => Valid(state, args, idx)
  /\ IF Valid(state, args, idx)
     THEN /\ globalhandler' = NextHandler
          /\ funTable' = [funTable EXCEPT ![globalhandler] = PushedValue(args, idx)]
          /\ handler'  = [handler EXCEPT ![c] = globalhandler]
          /\ meant'    = [meant EXCEPT ![c] = Argument(args, idx)]
          /\ given'    = given \cup {globalhandler}
     ELSE /\ handler'  = [handler EXCEPT ![c] = 0]
          /\ UNCHANGED <<globalhandler, funTable, meant, given>>
  /\ UNCHANGED fired

\* The client gives its handler back and forgets it.
RemoveScriptHandlerFault(c) ==
  /\ Holds(c)
  /\ handler' = [handler EXCEPT ![c] = NoHandler]
  /\ meant'   = [meant EXCEPT ![c] = Nil]
  /\ UNCHANGED <<globalhandler, funTable, fired, given>>
RemoveScriptHandler(c) ==
  /\ Holds(c)
  /\ funTable' = [funTable EXCEPT ![handler[c]] = Nil]
  /\ handler'  = [handler EXCEPT ![c] = NoHandler]
  /\ meant'    = [meant EXCEPT ![c] = Nil]
  /\ UNCHANGED <<globalhandler, fired, given>>

\* LuaCaller(pState, handler) and Call: a value that is no function is an
\* error that Call reports by returning false.
Fire(c) ==
  /\ Holds(c) /\ funTable[handler[c]] \in Functions
  /\ fired' = [client |-> c, ran |-> funTable[handler[c]]]
  /\ UNCHANGED <<globalhandler, funTable, handler, meant, given>>

Windows == SeqOf(Functions \cup Others, MaxArgs)

Next ==
  \E c \in Clients :
    \/ \E state \in States, args \in Windows, idx \in Indices :
         LuaToScriptHandler(c, state, args, idx)
    \/ RemoveScriptHandler(c)
    \/ Fire(c)

Spec == Init /\ [][Next]_vars

-----------------------------------------------------------------------------
(* Properties *)

TypeOK ==
  /\ globalhandler \in 0 .. MaxHandlers
  /\ funTable \in [Handler -> Value]
  /\ handler \in [Clients -> Handler \cup {NoHandler}]
  /\ fired \in [client : Clients, ran : Functions] \cup {NoEvent}
  /\ meant \in [Clients -> Functions \cup {Nil}]
  /\ given \subseteq Handler

\* A client that holds a handler has its own callback behind it, whatever the
\* other clients registered and removed; a client without one has none.
OwnCallback ==
  \A c \in Clients : IF Holds(c) THEN meant[c] # Nil /\ funTable[handler[c]] = meant[c]
                                 ELSE meant[c] = Nil

\* Every callback the table keeps alive is some client's.
NoOrphan ==
  \A h \in Handler : funTable[h] # Nil => \E c \in Clients : handler[c] = h

\* A number never comes to mean another callback: an old copy of a handler
\* finds its own function or nothing.
HandlersNotReused ==
  [][\A h \in given : funTable'[h] \in {funTable[h], Nil}]_vars

\* The table implements one subscription per client.
CB == INSTANCE Callbacks WITH
        NoFunction <- Nil,
        subscribed <- [c \in Clients |-> IF Holds(c) THEN funTable[handler[c]] ELSE Nil]
ImplementsCallbacks == CB!Spec
=============================================================================
