------------------------- MODULE HandlerTableProofs -------------------------
(***************************************************************************)
(* Theorems about HandlerTable, for any number of clients, functions and   *)
(* registrations: no number comes to mean another callback, and clients    *)
(* that check what they register and address it from the bottom of their   *)
(* window always find their own callback.                                  *)
(***************************************************************************)
EXTENDS HandlerTable, SequenceTheorems, TLAPS

\* The numbers from globalhandler on have not been handed out.
Fresh ==
  /\ \A h \in given : h < globalhandler
  /\ \A h \in Handler : h >= globalhandler => funTable[h] = Nil

\* What a careful client holds was handed out, to it alone.
Separate ==
  Careful => /\ \A c \in Clients : Holds(c) => handler[c] < globalhandler
             /\ \A c, d \in Clients : Holds(c) /\ handler[c] = handler[d] => c = d

\* The callbacks are addressed from the bottom of the window.
FromBottom == Indices \subseteq Nat \ {0}

IInv ==
  /\ TypeOK
  /\ Fresh
  /\ Separate
  /\ Careful /\ FromBottom => OwnCallback

-----------------------------------------------------------------------------
(* Types *)

\* The argument at a slot, and what lua_pushvalue copies at the same index.
LEMMA PushedArgument ==
  ASSUME NEW args \in Windows, NEW idx \in Int \ {0}, IsSlot(args, idx),
         globalhandler \in Handler
  PROVE  /\ Argument(args, idx) \in Value /\ PushedValue(args, idx) \in Value
         /\ idx > 0 => PushedValue(args, idx) = Argument(args, idx)
<1>1. PICK n \in 0 .. MaxArgs : args \in [1 .. n -> Functions \cup Others]
  BY DEF Windows, SeqOf
<1>2. n \in Nat /\ args \in [1 .. n -> Value]
  BY <1>1, ConstantsAssumption DEF Value
<1>3. args \in Seq(Value) /\ Len(args) \in Nat
  BY <1>2
<1> DEFINE two == <<FunTable, globalhandler>>
<1>4. two \in Seq(Value) /\ Len(two) = 2
  BY DEF Value
<1> HIDE DEF two
<1>5. /\ args \o two \in Seq(Value) /\ Len(args \o two) = Len(args) + 2
      /\ \A i \in 1 .. Len(args) : (args \o two)[i] = args[i]
  <2>1. /\ args \o two \in Seq(Value) /\ Len(args \o two) = Len(args) + Len(two)
        /\ \A i \in 1 .. Len(args) + Len(two) :
             (args \o two)[i] = IF i <= Len(args) THEN args[i] ELSE two[i - Len(args)]
    BY ONLY <1>3, <1>4, ConcatProperties
  <2>2. \A i \in 1 .. Len(args) : i \in 1 .. Len(args) + Len(two) /\ i <= Len(args)
    BY ONLY <1>3, <1>4
  <2> QED
    BY ONLY <2>1, <2>2, <1>4
<1>6. AbsIndex(args, idx) \in 1 .. Len(args)
  BY DEF IsSlot
<1>7. AbsIndex(args \o two, idx) \in 1 .. Len(args \o two)
  BY <1>3, <1>5, <1>6 DEF AbsIndex
<1>8. PushedValue(args, idx) = (args \o two)[AbsIndex(args \o two, idx)]
  BY DEF PushedValue, ValueAt, two
<1>9. Argument(args, idx) = args[AbsIndex(args, idx)]
  BY DEF Argument, ValueAt
<1>10. ASSUME idx > 0 PROVE PushedValue(args, idx) = Argument(args, idx)
  BY <1>5, <1>6, <1>8, <1>9, <1>10 DEF AbsIndex
<1> QED
  BY <1>3, <1>5, <1>6, <1>7, <1>8, <1>9, <1>10

\* What a registration that succeeds does, with the values it stores typed.
LEMMA Registration ==
  ASSUME TypeOK, NEW c \in Clients, NEW state, NEW args \in Windows, NEW idx \in Indices,
         LuaToScriptHandler(c, state, args, idx), Valid(state, args, idx)
  PROVE  \E v \in Value, f \in Functions :
           /\ FromBottom => v = f
           /\ globalhandler \in Handler /\ ~Holds(c)
           /\ globalhandler' = globalhandler + 1
           /\ funTable' = [funTable EXCEPT ![globalhandler] = v]
           /\ handler' = [handler EXCEPT ![c] = globalhandler]
           /\ meant' = [meant EXCEPT ![c] = f]
           /\ given' = given \cup {globalhandler}
           /\ fired' = fired
<1>1. globalhandler \in Handler
  BY ConstantsAssumption DEF LuaToScriptHandler, TypeOK, Handler
<1>2. Argument(args, idx) \in Functions /\ Nil \notin Functions
  BY ValuesAssumption DEF Valid
<1>3. IsSlot(args, idx) /\ idx \in Int \ {0}
  BY <1>2, ConstantsAssumption DEF Argument
<1>4. PushedValue(args, idx) \in Value
  BY <1>1, <1>3, PushedArgument
<1>5. FromBottom => PushedValue(args, idx) = Argument(args, idx)
  BY <1>1, <1>3, PushedArgument DEF FromBottom
<1> QED
  BY <1>1, <1>2, <1>4, <1>5 DEF LuaToScriptHandler, NextHandler

LEMMA InitIInv == Init => IInv
<1> SUFFICES ASSUME Init PROVE IInv
  OBVIOUS
<1>1. \A c \in Clients : ~Holds(c) /\ meant[c] = Nil
  BY DEF Init, Holds
<1>2. TypeOK
  BY ConstantsAssumption DEF Init, TypeOK, Handler, Value
<1>3. Fresh
  BY DEF Init, Fresh
<1> QED
  BY <1>1, <1>2, <1>3 DEF IInv, Separate, OwnCallback

-----------------------------------------------------------------------------
(* Every action preserves the invariant *)

LEMMA RegisterStep ==
  ASSUME IInv, NEW c \in Clients, NEW v \in Value, NEW f \in Functions,
         FromBottom => v = f, globalhandler \in Handler, ~Holds(c),
         globalhandler' = globalhandler + 1,
         funTable' = [funTable EXCEPT ![globalhandler] = v],
         handler' = [handler EXCEPT ![c] = globalhandler],
         meant' = [meant EXCEPT ![c] = f],
         given' = given \cup {globalhandler}, fired' = fired
  PROVE  IInv'
<1>1. TypeOK /\ Fresh /\ Separate /\ Handler \subseteq Int /\ NoHandler \notin Handler
  BY ConstantsAssumption DEF IInv, Handler
<1>2. TypeOK'
  BY <1>1, ConstantsAssumption DEF TypeOK, Handler
<1>3. Fresh'
  BY <1>1 DEF Fresh, TypeOK, Handler
<1>4. /\ handler'[c] = globalhandler /\ Holds(c)' /\ meant'[c] = f
      /\ funTable'[globalhandler] = v
      /\ \A d \in Clients : d # c => handler'[d] = handler[d] /\ meant'[d] = meant[d]
      /\ \A h \in Handler : h # globalhandler => funTable'[h] = funTable[h]
  BY <1>1 DEF TypeOK, Holds
<1>5. ASSUME Careful
      PROVE  Separate'
  <2>1. \A d \in Clients : Holds(d) => handler[d] < globalhandler /\ handler[d] \in Handler
    BY <1>1, <1>5 DEF Separate, TypeOK, Holds
  <2>2. ASSUME NEW d \in Clients, Holds(d)' PROVE handler'[d] < globalhandler'
    <3>1. CASE d = c
      BY <1>1, <1>4, <3>1
    <3>2. CASE d # c
      <4>1. handler'[d] = handler[d] /\ Holds(d)
        BY <1>4, <2>2, <3>2 DEF Holds
      <4>2. handler[d] \in Int /\ globalhandler \in Int /\ handler[d] < globalhandler
        BY <1>1, <2>1, <4>1
      <4>3. globalhandler' = globalhandler + 1
        OBVIOUS
      <4> QED
        BY ONLY <4>1, <4>2, <4>3
    <3> QED
      BY <3>1, <3>2
  <2>3. ASSUME NEW d \in Clients, NEW e \in Clients, Holds(d)', handler'[d] = handler'[e]
        PROVE  d = e
    <3>1. Holds(e)'
      BY <2>3 DEF Holds
    <3>2. ASSUME NEW x \in Clients, x # c, Holds(x)' PROVE handler'[x] # globalhandler
      BY <1>1, <1>4, <2>1, <3>2 DEF Holds
    <3>3. CASE d = c \/ e = c
      BY <1>4, <2>3, <3>1, <3>2, <3>3
    <3>4. CASE d # c /\ e # c
      BY <1>1, <1>4, <1>5, <2>3, <3>4 DEF Separate, Holds
    <3> QED
      BY <3>3, <3>4
  <2> QED
    BY <2>2, <2>3 DEF Separate
<1>6. ASSUME Careful, FromBottom
      PROVE  OwnCallback'
  <2>1. ASSUME NEW d \in Clients, d # c, Holds(d)'
        PROVE  meant'[d] # Nil /\ funTable'[handler'[d]] = meant'[d]
    <3>1. /\ Holds(d) /\ handler'[d] = handler[d] /\ handler[d] < globalhandler
          /\ handler[d] \in Handler
      BY <1>1, <1>4, <1>6, <2>1 DEF Separate, Holds, TypeOK
    <3>2. meant[d] # Nil /\ funTable[handler[d]] = meant[d]
      BY <1>6, <3>1 DEF IInv, OwnCallback
    <3> QED
      BY <1>1, <1>4, <2>1, <3>1, <3>2
  <2>2. ASSUME NEW d \in Clients, ~Holds(d)' PROVE meant'[d] = Nil
    BY <1>4, <1>6, <2>2 DEF IInv, OwnCallback, Holds
  <2>3. meant'[c] # Nil /\ funTable'[handler'[c]] = meant'[c]
    BY <1>4, <1>6, ValuesAssumption
  <2> QED
    BY <2>1, <2>2, <2>3 DEF OwnCallback
<1> QED
  BY <1>2, <1>3, <1>5, <1>6 DEF IInv, Separate

\* A registration that fails stores no callback and changes a careless client.
LEMMA FailedStep ==
  ASSUME IInv, NEW c \in Clients, ~Careful, handler' = [handler EXCEPT ![c] = 0],
         UNCHANGED <<globalhandler, funTable, meant, given, fired>>
  PROVE  IInv'
<1>1. 0 \in Handler
  BY ConstantsAssumption DEF Handler
<1>2. TypeOK'
  BY <1>1 DEF IInv, TypeOK
<1>3. Fresh'
  BY DEF IInv, Fresh
<1> QED
  BY <1>2, <1>3 DEF IInv, Separate

LEMMA RemoveStep ==
  ASSUME IInv, NEW c \in Clients, RemoveScriptHandler(c)
  PROVE  IInv'
<1>1. /\ TypeOK /\ Fresh /\ Separate /\ Holds(c)
      /\ funTable' = [funTable EXCEPT ![handler[c]] = Nil]
      /\ handler' = [handler EXCEPT ![c] = NoHandler]
      /\ meant' = [meant EXCEPT ![c] = Nil]
      /\ UNCHANGED <<globalhandler, fired, given>>
  BY DEF IInv, RemoveScriptHandler
<1>2. handler[c] \in Handler
  BY <1>1 DEF TypeOK, Holds
<1>3. TypeOK'
  BY <1>1 DEF TypeOK, Value
<1>4. Fresh'
  BY <1>1, <1>2 DEF Fresh, TypeOK
<1>5. /\ ~Holds(c)' /\ meant'[c] = Nil
      /\ \A d \in Clients : d # c => handler'[d] = handler[d] /\ meant'[d] = meant[d]
      /\ \A h \in Handler : h # handler[c] => funTable'[h] = funTable[h]
  BY <1>1 DEF TypeOK, Holds
<1>6. \A d \in Clients : Holds(d)' => d # c /\ Holds(d) /\ handler'[d] = handler[d]
  BY <1>5 DEF Holds
<1>7. ASSUME Careful PROVE Separate'
  <2>1. \A d \in Clients : Holds(d)' => handler'[d] < globalhandler'
    BY <1>1, <1>6, <1>7 DEF Separate
  <2>2. \A d, e \in Clients : Holds(d)' /\ handler'[d] = handler'[e] => d = e
    <3>1. SUFFICES ASSUME NEW d \in Clients, NEW e \in Clients, Holds(d)',
                          handler'[d] = handler'[e]
                   PROVE  d = e
      OBVIOUS
    <3>2. Holds(e)'
      BY <3>1 DEF Holds
    <3> QED
      BY <1>1, <1>6, <1>7, <3>1, <3>2 DEF Separate
  <2> QED
    BY <2>1, <2>2 DEF Separate
<1>8. ASSUME Careful, FromBottom PROVE OwnCallback'
  <2>1. ASSUME NEW d \in Clients, Holds(d)'
        PROVE  meant'[d] # Nil /\ funTable'[handler'[d]] = meant'[d]
    <3>1. d # c /\ Holds(d) /\ handler'[d] = handler[d] /\ handler[d] \in Handler
      BY <1>1, <1>6, <2>1 DEF TypeOK, Holds
    <3>2. handler[d] # handler[c]
      BY <1>1, <1>8, <3>1 DEF Separate
    <3>3. meant[d] # Nil /\ funTable[handler[d]] = meant[d]
      BY <1>8, <3>1 DEF IInv, OwnCallback
    <3> QED
      BY <1>5, <3>1, <3>2, <3>3
  <2>2. ASSUME NEW d \in Clients, ~Holds(d)' PROVE meant'[d] = Nil
    BY <1>5, <1>8, <2>2 DEF IInv, OwnCallback, Holds
  <2> QED
    BY <2>1, <2>2 DEF OwnCallback
<1> QED
  BY <1>3, <1>4, <1>7, <1>8 DEF IInv, Separate

LEMMA SameStep ==
  ASSUME IInv, UNCHANGED <<globalhandler, funTable, handler, meant, given>>,
         fired' = fired \/ fired' \in [client : Clients, ran : Functions]
  PROVE  IInv'
<1>1. TypeOK'
  BY DEF IInv, TypeOK
<1>2. Fresh' /\ Separate'
  BY DEF IInv, Fresh, Separate, Holds
<1>3. OwnCallback => OwnCallback'
  BY DEF OwnCallback, Holds
<1> QED
  BY <1>1, <1>2, <1>3 DEF IInv

LEMMA IInvStep ==
  ASSUME IInv, [Next]_vars
  PROVE  IInv'
<1>1. ASSUME NEW c \in Clients, NEW state \in States, NEW args \in Windows,
             NEW idx \in Indices, LuaToScriptHandler(c, state, args, idx)
      PROVE  IInv'
  <2>1. CASE Valid(state, args, idx)
    BY <1>1, <2>1, Registration, RegisterStep DEF IInv
  <2>2. CASE ~Valid(state, args, idx)
    BY <1>1, <2>2, FailedStep DEF LuaToScriptHandler
  <2> QED
    BY <2>1, <2>2
<1>2. ASSUME NEW c \in Clients, RemoveScriptHandler(c) PROVE IInv'
  BY <1>2, RemoveStep
<1>3. ASSUME NEW c \in Clients, Fire(c) PROVE IInv'
  BY <1>3, SameStep DEF Fire
<1>4. CASE UNCHANGED vars
  BY <1>4, SameStep DEF vars
<1> QED
  BY <1>1, <1>2, <1>3, <1>4 DEF Next

-----------------------------------------------------------------------------
(* The theorems *)

LEMMA Invariance == Spec => []IInv
<1> QED
  BY InitIInv, IInvStep, PTL DEF Spec

\* The handler table holds Lua values only, and clients hold numbers that
\* LuaToScriptHandler can return, whatever Lua passes to the C functions.
THEOREM HandlerTypes == Spec => []TypeOK
<1>1. IInv => TypeOK
  BY DEF IInv
<1> QED
  BY <1>1, Invariance, PTL

\* When the C functions check the callback they register and address it from
\* the bottom of their window, a client's handler always leads to the callback
\* it registered, whatever other clients register and remove.
THEOREM CarefulClients ==
  ASSUME Careful, Indices \subseteq Nat \ {0}
  PROVE  Spec => []OwnCallback
<1>1. IInv => OwnCallback
  BY DEF IInv, FromBottom
<1> QED
  BY <1>1, Invariance, PTL

LEMMA OrphanStep ==
  ASSUME IInv, NoOrphan, [Next]_vars
  PROVE  NoOrphan'
<1>1. TypeOK /\ NoHandler \notin Handler
  BY ConstantsAssumption DEF IInv, Handler
<1>2. ASSUME NEW c \in Clients, NEW state \in States, NEW args \in Windows,
             NEW idx \in Indices, LuaToScriptHandler(c, state, args, idx),
             NEW h \in Handler, funTable'[h] # Nil
      PROVE  \E d \in Clients : handler'[d] = h
  <2>1. ~Holds(c) /\ \A d \in Clients : d # c => handler'[d] = handler[d]
    BY <1>1, <1>2 DEF LuaToScriptHandler, TypeOK
  <2>2. funTable[h] # Nil => \E d \in Clients : d # c /\ handler[d] = h
    BY <1>1, <2>1 DEF NoOrphan, Holds
  <2>3. CASE Valid(state, args, idx)
    <3>1. PICK v \in Value : /\ funTable' = [funTable EXCEPT ![globalhandler] = v]
                             /\ handler' = [handler EXCEPT ![c] = globalhandler]
      BY <1>1, <1>2, <2>3, Registration
    <3> QED
      BY <1>1, <1>2, <2>1, <2>2, <3>1 DEF TypeOK
  <2>4. CASE ~Valid(state, args, idx)
    BY <1>2, <2>1, <2>2, <2>4 DEF LuaToScriptHandler
  <2> QED
    BY <2>3, <2>4
<1>3. ASSUME NEW c \in Clients, RemoveScriptHandler(c),
             NEW h \in Handler, funTable'[h] # Nil
      PROVE  \E d \in Clients : handler'[d] = h
  <2>1. h # handler[c] /\ funTable[h] # Nil
    BY <1>1, <1>3 DEF RemoveScriptHandler, TypeOK
  <2>2. PICK d \in Clients : handler[d] = h
    BY <2>1 DEF NoOrphan
  <2> QED
    BY <1>1, <1>3, <2>1, <2>2 DEF RemoveScriptHandler, TypeOK
<1>4. CASE (\E c \in Clients : Fire(c)) \/ UNCHANGED vars
  BY <1>4 DEF NoOrphan, Fire, vars
<1> QED
  BY <1>2, <1>3, <1>4 DEF NoOrphan, Next

\* The table keeps no callback alive that no client can give back, whatever Lua
\* passed to the C functions and even when clients do not check it: a failed
\* registration stores nothing, and a removal clears the entry it names.
THEOREM NoCallbackLeaks == Spec => []NoOrphan
<1>1. Init => NoOrphan
  BY DEF Init, NoOrphan
<1> QED
  BY <1>1, OrphanStep, Invariance, PTL DEF Spec

LEMMA NotReusedStep ==
  ASSUME IInv, [Next]_vars, NEW h \in given
  PROVE  funTable'[h] \in {funTable[h], Nil}
<1>1. TypeOK /\ h \in Handler /\ h < globalhandler /\ Handler \subseteq Int
  BY DEF IInv, TypeOK, Fresh, Handler
<1>2. ASSUME NEW c \in Clients, NEW state \in States, NEW args \in Windows,
             NEW idx \in Indices, LuaToScriptHandler(c, state, args, idx)
      PROVE  funTable'[h] = funTable[h]
  <2>1. CASE Valid(state, args, idx)
    <3>1. PICK v \in Value : /\ globalhandler \in Handler
                             /\ funTable' = [funTable EXCEPT ![globalhandler] = v]
      BY <1>1, <1>2, <2>1, Registration
    <3>2. h # globalhandler
      BY <1>1, <3>1
    <3> QED
      BY <1>1, <3>1, <3>2 DEF TypeOK
  <2>2. CASE ~Valid(state, args, idx)
    BY <1>2, <2>2 DEF LuaToScriptHandler
  <2> QED
    BY <2>1, <2>2
<1>3. ASSUME NEW c \in Clients, RemoveScriptHandler(c)
      PROVE  funTable'[h] \in {funTable[h], Nil}
  BY <1>1, <1>3 DEF RemoveScriptHandler, TypeOK
<1>4. CASE (\E c \in Clients : Fire(c)) \/ UNCHANGED vars
  BY <1>4 DEF Fire, vars
<1> QED
  BY <1>2, <1>3, <1>4 DEF Next

\* A number that LuaToScriptHandler handed out never leads to another callback:
\* an old copy of it finds its own function or nothing.
THEOREM NumbersNotReused == Spec => HandlersNotReused
<1>1. IInv /\ [Next]_vars
      => [\A h \in given : funTable'[h] \in {funTable[h], Nil}]_vars
  BY NotReusedStep
<1> QED
  BY <1>1, Invariance, PTL DEF Spec, HandlersNotReused

\* The subscriptions of careful clients: the refinement mapping of CB.
Subscribed == [c \in Clients |-> IF Holds(c) THEN funTable[handler[c]] ELSE Nil]

LEMMA SubscribedIsMeant == TypeOK /\ OwnCallback => Subscribed = meant
BY DEF TypeOK, OwnCallback, Subscribed

LEMMA RefineStep ==
  ASSUME IInv, IInv', Careful, FromBottom, [Next]_vars
  PROVE  [CB!Next]_<<Subscribed, fired>>
<1>1. TypeOK /\ OwnCallback /\ Subscribed = meant
  BY SubscribedIsMeant DEF IInv
<1>2. Subscribed' = meant'
  <2>1. TypeOK' /\ OwnCallback'
    BY DEF IInv, FromBottom
  <2> QED
    BY <2>1 DEF TypeOK, OwnCallback, Subscribed
<1>3. ASSUME NEW c \in Clients, NEW state \in States, NEW args \in Windows,
             NEW idx \in Indices, LuaToScriptHandler(c, state, args, idx)
      PROVE  CB!Next
  <2>1. Valid(state, args, idx)
    BY <1>3 DEF LuaToScriptHandler
  <2>2. PICK f \in Functions : /\ ~Holds(c) /\ meant' = [meant EXCEPT ![c] = f]
                               /\ fired' = fired
    BY <1>1, <1>3, <2>1, Registration
  <2>3. meant[c] = Nil
    BY <1>1, <2>2 DEF OwnCallback
  <2>4. CB!Subscribe(c, f)
    BY <1>1, <1>2, <2>2, <2>3 DEF CB!Subscribe, Subscribed
  <2> QED
    BY <2>4 DEF CB!Next
<1>4. ASSUME NEW c \in Clients, RemoveScriptHandler(c) PROVE CB!Next
  <2>1. meant[c] # Nil /\ meant' = [meant EXCEPT ![c] = Nil] /\ fired' = fired
    BY <1>1, <1>4 DEF RemoveScriptHandler, OwnCallback
  <2>2. CB!Unsubscribe(c)
    BY <1>1, <1>2, <2>1 DEF CB!Unsubscribe, Subscribed
  <2> QED
    BY <2>2 DEF CB!Next
<1>5. ASSUME NEW c \in Clients, Fire(c) PROVE CB!Next
  <2>1. /\ meant[c] # Nil /\ meant' = meant
        /\ fired' = [client |-> c, ran |-> meant[c]]
    BY <1>1, <1>5 DEF Fire, OwnCallback
  <2>2. CB!Fire(c)
    BY <1>1, <1>2, <2>1 DEF CB!Fire, Subscribed
  <2> QED
    BY <2>2 DEF CB!Next
<1>6. CASE UNCHANGED vars
  BY <1>1, <1>2, <1>6 DEF vars
<1> QED
  BY <1>3, <1>4, <1>5, <1>6 DEF Next

\* Careful clients see one subscription each: registering, removing and calling
\* through the table is subscribing, unsubscribing and firing in Callbacks.
THEOREM TableImplementsCallbacks ==
  ASSUME Careful, Indices \subseteq Nat \ {0}
  PROVE  Spec => ImplementsCallbacks
<1>1. Init => CB!Init
  BY DEF Init, CB!Init, NoEvent, CB!NoEvent, Holds
<1>2. IInv /\ IInv' /\ [Next]_vars => [CB!Next]_(CB!vars)
  BY RefineStep DEF FromBottom, CB!vars, Subscribed
<1> QED
  BY <1>1, <1>2, Invariance, PTL DEF Spec, ImplementsCallbacks, CB!Spec
=============================================================================
