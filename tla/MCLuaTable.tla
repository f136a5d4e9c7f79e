----------------------------- MODULE MCLuaTable -----------------------------
(***************************************************************************)
(* The keys 1, 2 (assigned as 2.0) and 3, which can make an array part of  *)
(* four places, a string that shares its main position with 1 in every     *)
(* hash part, and 1.5; so the tables go up to eight nodes.                 *)
(* The library gets lists of up to 4 values to move, and to sort every     *)
(* list of up to 5 values out of 3 and lists of 7 values whose partition   *)
(* is out of balance, so that the pivot becomes random.                    *)
(***************************************************************************)
EXTENDS TableLibrary

SomeInts == {1, 3}
SomeStrs == {1}
SomeHalves == {3, 4}
SomeLists == {2}
SomeItems == { [i \in 1 .. n |-> i + 1] : n \in 0 .. 4 }
SomeSorted ==
  ((UNION { [1 .. n -> 1 .. 3] : n \in 2 .. 5 } \cup { <<1, 2, 3, 7, 4, 5, 6>>, <<7, 6, 5, 1, 4, 3, 2>> })
     \X {"less"})
    \cup ({ [i \in 1 .. n |-> i] : n \in {4, 5, 7} } \X {"any"})
SomePositions == 0 .. 5
=============================================================================
