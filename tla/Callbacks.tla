----------------------------- MODULE Callbacks -----------------------------
(***************************************************************************)
(* What the script handlers promise to the host's components: a component  *)
(* subscribes one Lua function at a time, that function and no other is    *)
(* the one its event runs, and nobody else's subscription changes it.      *)
(***************************************************************************)
CONSTANTS
  Clients, Functions,
  NoFunction           \* no member of Functions

VARIABLES
  subscribed,   \* subscribed[c]: the function of component c
  fired         \* the last event: whose it was, and what it ran

vars == <<subscribed, fired>>

Event == [client : Clients, ran : Functions]
NoEvent == [client |-> NoFunction, ran |-> NoFunction]

Init ==
  /\ subscribed = [c \in Clients |-> NoFunction]
  /\ fired = NoEvent

Subscribe(c, f) ==
  /\ subscribed[c] = NoFunction
  /\ subscribed' = [subscribed EXCEPT ![c] = f]
  /\ UNCHANGED fired

Unsubscribe(c) ==
  /\ subscribed[c] # NoFunction
  /\ subscribed' = [subscribed EXCEPT ![c] = NoFunction]
  /\ UNCHANGED fired

Fire(c) ==
  /\ subscribed[c] # NoFunction
  /\ fired' = [client |-> c, ran |-> subscribed[c]]
  /\ UNCHANGED subscribed

Next ==
  \E c \in Clients :
    \/ \E f \in Functions : Subscribe(c, f)
    \/ Unsubscribe(c)
    \/ Fire(c)

Spec == Init /\ [][Next]_vars
=============================================================================
