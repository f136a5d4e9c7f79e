---------------------------- MODULE MapWithNext -----------------------------
(***************************************************************************)
(* What a Lua table promises a script: it is a function from keys to       *)
(* values, and next visits every entry once, whatever happens to the       *)
(* entries that exist, as long as no new key is assigned meanwhile.        *)
(***************************************************************************)
EXTENDS FiniteSets

CONSTANTS Keys, Values, Nil

VARIABLES
  content,  \* the value of every key
  walking,  \* a script traverses the table and has assigned no new key
  owed      \* the keys the traversal has still to visit

vars == <<content, walking, owed>>

Init == content \in [Keys -> Values \cup {Nil}] /\ walking = FALSE /\ owed = {}

\* Assigning to a key that has a value does not disturb a traversal.
Set(old, new, k) ==
  /\ new = [old EXCEPT ![k] = new[k]]
  /\ IF old[k] = Nil THEN walking' = FALSE /\ owed' = {}
     ELSE walking' = walking /\ owed' = IF new[k] = Nil THEN owed \ {k} ELSE owed

\* The constructor assigns a list of values, before a script has the table.
SetList(old, new) ==
  /\ ~walking /\ UNCHANGED <<walking, owed>>
  /\ \E ks \in SUBSET Keys, v \in {new[k] : k \in Keys} :
       new = [k \in Keys |-> IF k \in ks THEN v ELSE old[k]]

\* Two keys exchange their values, when a list is sorted.
Exchange(old, new) ==
  /\ ~walking /\ UNCHANGED <<walking, owed>>
  /\ \E k, l \in Keys : new = [old EXCEPT ![k] = old[l], ![l] = old[k]]

Begin(old) == ~walking /\ walking' = TRUE /\ owed' = {k \in Keys : old[k] # Nil}
Visit(k) == walking /\ k \in owed /\ walking' = TRUE /\ owed' = owed \ {k}
End == walking /\ owed = {} /\ walking' = FALSE /\ owed' = {}

Step(old, new) ==
  \/ new = old /\ UNCHANGED <<walking, owed>>
  \/ \E k \in Keys : Set(old, new, k)
  \/ new = old /\ (Begin(old) \/ (\E k \in Keys : Visit(k)) \/ End)
  \/ SetList(old, new)
  \/ Exchange(old, new)
\* The content before and after a step is computed once.
Next == \E old \in {content}, new \in {content'} : new \in [Keys -> Values \cup {Nil}] /\ Step(old, new)

Spec == Init /\ [][Next]_vars
=============================================================================
