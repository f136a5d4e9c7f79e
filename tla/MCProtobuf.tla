----------------------------- MODULE MCProtobuf -----------------------------
(***************************************************************************)
(* Message types that nest, repeat and contain themselves, files that know *)
(* some of them, and tables that fit their types or do not; lists have     *)
(* their elements in the array part, in the hash part in every order, and  *)
(* in both.                                                                *)
(***************************************************************************)
EXTENDS Protobuf

Field(name, kind, label) == [name |-> name, kind |-> kind, label |-> label, of |-> {}]
Part(name, type, label) == [name |-> name, kind |-> "message", label |-> label, of |-> type]

Schema == [
  Point  |-> <<Field("x", "int32", "required"), Field("label", "string", "optional")>>,
  Shape  |-> <<Field("id", "int64", "optional"),
               [name |-> "style", kind |-> "enum", label |-> "optional", of |-> {0, 1}],
               Part("points", "Point", "repeated"), Part("center", "Point", "optional"),
               Field("filled", "bool", "optional"), Field("tags", "string", "repeated"),
               Field("size", "double", "optional")>>,
  Scale  |-> <<Field("by", "float", "repeated"), Field("mask", "uint32", "optional"),
               Field("serial", "uint64", "repeated")>>,
  Node   |-> <<Field("x", "int32", "optional"), Part("next", "Node", "optional")>>,
  Forest |-> <<Part("nodes", "Node", "repeated")>>,
  Tree   |-> <<Field("x", "int32", "optional"), Part("kids", "Tree", "repeated")>>]

Known == [shapes |-> {"Point", "Shape", "Scale"}, trees |-> {"Tree", "Node", "Forest"},
          broken |-> {}]
Compiled == {"Point", "Tree", "Scale"}

\* Tables: the hash part in the orders ord, for one order or every order.
Nodes(f, ord) == [i \in DOMAIN ord |-> [k |-> ord[i], v |-> f[ord[i]]]]
Plain(f) == Table(Nodes(f, SetToSeq(DOMAIN f)), << >>)
List(a) == Table(<< >>, a)
Mixed(a, f) == {Table(Nodes(f, ord), a) : ord \in SetToSeqs(DOMAIN f)}
At(n) == Plain([x |-> Num(n)])
RECURSIVE Chain(_)
Chain(n) == IF n = 0 THEN At(0) ELSE Plain([x |-> Num(n), kids |-> List(<<At(n), Chain(n - 1)>>)])
RECURSIVE Path(_)
Path(n) == IF n = 0 THEN At(0) ELSE Plain([next |-> Path(n - 1)])

Points == {At(1), At(9), Plain([x |-> Str("7"), label |-> Num(5)]), Plain([x |-> Str("q")]),
           Plain([label |-> Str("a")]), Num(1)}
Numbers == {Num(n) : n \in {-9, -1, 7, 11, 15, 17}}
Given == [
  Point  |-> Points,
  Shape  |-> {Plain([points |-> List(<<p, At(2)>>), center |-> At(3), filled |-> Num(0)]) : p \in Points}
             \cup {Plain([points |-> l]) : l \in Mixed(<<At(4)>>, [a |-> At(1), b |-> At(2), c |-> At(3)])}
             \cup {Plain([id |-> Str("12"), style |-> Num(n), tags |-> List(<<Str("a"), Num(2)>>)])
                      : n \in {1, 7, 17}}
             \cup {Plain([tags |-> l]) : l \in Mixed(<< >>, [one |-> Str("a"), two |-> Str("b")])}
             \cup {Plain([center |-> p, size |-> Num(5)]) : p \in Points}
             \cup {Plain([points |-> Num(1)])},
  Scale  |-> {Plain([by |-> List(<<n, Num(3)>>), mask |-> n, serial |-> List(<<n>>)]) : n \in Numbers}
             \cup {Plain([by |-> l]) : l \in Mixed(<<Num(1), Str("9")>>, [a |-> Num(-13), b |-> Num(2)])},
  Node   |-> {At(1), Plain([x |-> Num(1), next |-> At(2)]), Path(7)},
  Forest |-> {Plain([nodes |-> List(<< >>)]), Plain([nodes |-> List(<<At(1)>>)])},
  Tree   |-> {Chain(n) : n \in {0, 2, 5, 6, 7}}]
=============================================================================
