------------------------------ MODULE LuaTable ------------------------------
(***************************************************************************)
(* The tables of the embedded Lua (ltable.c): an array for the keys 1 .. n *)
(* and a hash of chained nodes, where a key that collides goes to a free   *)
(* node and never leaves the table before the next rehash.  The entries of *)
(* a table keep their places between rehashes, which is what next relies   *)
(* on, and the collector may mark a removed key dead (lgc.c, removeentry). *)
(*                                                                         *)
(* A key is <<type, number>>: an integer, a float of number / 2, or a      *)
(* short string by its hash.                                               *)
(***************************************************************************)
EXTENDS Integers, FiniteSets, SequencesExt, FiniteSetsExt

CONSTANTS
  Ints, Strs, Halves,   \* the keys used: integers, hashes, floats in halves
  Values,               \* a set of positive numbers
  MaxBits,              \* bound: MAXABITS
  Lists                 \* bound: the lengths of the constructor's lists

VARIABLES t, walk
vars == <<t, walk>>

Nil == 0
None == <<"nil", 0>>
IntKey(i) == <<"int", i>>
Str(h) == <<"str", h>>
Dead(h) == <<"dead", h>>
\* The keys that can be in a table: a float with an integral value becomes an integer.
Normal(k) == IF k[1] = "flt" /\ k[2] % 2 = 0 THEN IntKey(k[2] \div 2) ELSE k
Given == {IntKey(i) : i \in Ints} \cup {Str(h) : h \in Strs} \cup {<<"flt", n>> : n \in Halves}
Keys == {Normal(k) : k \in Given}

-----------------------------------------------------------------------------
(* Places.  t.lf is lastfree; -1 is NULL, of a table without a hash part.  *)

FreeNode == [k |-> None, v |-> Nil, nx |-> 0]
IsDummy(h) == h.lf = -1
SizeNode(h) == Cardinality(DOMAIN h.node)
CeilLog2(n) == CHOOSE i \in 0 .. 30 : 2^i >= n /\ (i > 0 => 2^(i - 1) < n)
\* l_hashfloat of n / 2: frexp gives n / 2 = m * 2^e with m in [1/2, 1).
HashFloat(n) == LET e == CeilLog2(n + 1) - 1 IN n * 2^(30 - e) + e
MainPosition(h, k) ==
  IF k[1] = "flt" THEN HashFloat(k[2]) % (2 * ((SizeNode(h) - 1) \div 2) + 1)
  ELSE k[2] % SizeNode(h)

RECURSIVE Search(_, _, _)
\* The node of the chain from n on that has one of the keys ks, or -1.
Search(h, n, ks) ==
  IF h.node[n].k \in ks THEN n
  ELSE IF h.node[n].nx = 0 THEN -1 ELSE Search(h, n + h.node[n].nx, ks)
NodeOf(h, k) == Search(h, MainPosition(h, k), {k})

InArray(h, k) == k[1] = "int" /\ k[2] \in DOMAIN h.arr
Get(h, key) ==
  LET k == Normal(key)
      n == NodeOf(h, k)
  IN IF InArray(h, k) THEN h.arr[k[2]] ELSE IF n = -1 THEN Nil ELSE h.node[n].v
GetInt(h, i) == Get(h, IntKey(i))

-----------------------------------------------------------------------------
(* Insertion *)

\* lastfree after getfreepos; 0 without a free place that can be given out.
FreePos(h) ==
  LET free == {n \in DOMAIN h.node : n < h.lf /\ h.node[n].k = None}
  IN IF free = {} THEN -1 ELSE CHOOSE n \in free : \A o \in free : o <= n

RECURSIVE Previous(_, _, _)
Previous(h, n, mp) == IF n + h.node[n].nx = mp THEN n ELSE Previous(h, n + h.node[n].nx, mp)

\* The node at mp is not in its main position: it moves to f, and its chain goes there.
MoveAway(h, mp, f) ==
  LET o == Previous(h, MainPosition(h, h.node[mp].k), mp)
      nx == h.node[mp].nx
  IN [h EXCEPT !.node[o].nx = f - o,
               !.node[f] = [h.node[mp] EXCEPT !.nx = IF nx = 0 THEN 0 ELSE nx + mp - f],
               !.node[mp] = [@ EXCEPT !.v = Nil, !.nx = 0]]
\* The node at mp is in its main position: the new one, f, becomes the second of the chain.
ChainAfter(h, mp, f) ==
  LET nx == h.node[mp].nx
  IN [h EXCEPT !.node[f].nx = IF nx = 0 THEN @ ELSE mp + nx - f, !.node[mp].nx = f - mp]

Slice(k) == CeilLog2(k)
IntegerKeys(h) ==
  {i \in DOMAIN h.arr : h.arr[i] # Nil}
    \cup {h.node[n].k[2] : n \in {n \in DOMAIN h.node : /\ h.node[n].v # Nil
                                                       /\ h.node[n].k[1] = "int"
                                                       /\ h.node[n].k[2] > 0}}
Used(h) == {i \in DOMAIN h.arr : h.arr[i] # Nil}
InHash(h) == {n \in DOMAIN h.node : h.node[n].v # Nil}

RECURSIVE Sizes(_, _, _, _, _)
\* computesizes: the size of the array part and how many keys go there.
Sizes(nums, pna, i, a, best) ==
  IF pna <= 2^i \div 2 THEN best
  ELSE LET a1 == a + nums[i]
       IN Sizes(nums, pna, i + 1, a1,
                IF nums[i] > 0 /\ a1 > 2^i \div 2 THEN [size |-> 2^i, na |-> a1] ELSE best)
ComputeSizes(nums, pna) == Sizes(nums, pna, 0, 0, [size |-> 0, na |-> 0])

\* setarrayvector and setnodevector: arr with nasize places, and an empty hash part.
Sized(arr, nasize, nhsize) ==
  LET n == IF nhsize = 0 THEN 1 ELSE 2^CeilLog2(nhsize)
  IN [arr |-> [i \in 1 .. nasize |-> IF i <= Len(arr) THEN arr[i] ELSE Nil],
      node |-> [i \in 0 .. n - 1 |-> FreeNode], lf |-> IF nhsize = 0 THEN -1 ELSE n]

RECURSIVE Set(_, _, _), SetAll(_, _), Resize(_, _, _), Rehash(_, _)
NewKey(h, k, v) ==
  LET mp == MainPosition(h, k)
      f == FreePos(h)
      g == [h EXCEPT !.lf = f]
      at(x, n) == [x EXCEPT !.node[n].k = k, !.node[n].v = v]
  IN IF h.node[mp].v = Nil /\ ~IsDummy(h) THEN at(h, mp)
     ELSE IF f = -1 THEN Set(Rehash(h, k), k, v)
     ELSE IF MainPosition(h, h.node[mp].k) # mp THEN at(MoveAway(g, mp, f), mp)
     ELSE at(ChainAfter(g, mp, f), f)

\* luaH_set and the assignment to the place it returns.
Set(h, key, v) ==
  LET k == Normal(key)
      n == NodeOf(h, k)
  IN IF InArray(h, k) THEN [h EXCEPT !.arr[k[2]] = v]
     ELSE IF n # -1 THEN [h EXCEPT !.node[n].v = v] ELSE NewKey(h, k, v)

SetAll(h, entries) ==
  IF entries = << >> THEN h ELSE SetAll(Set(h, Head(entries)[1], Head(entries)[2]), Tail(entries))

\* The array shrinks and its last values are inserted, then the old nodes, from the last.
Resize(h, nasize, nhsize) ==
  LET vanishing == SelectSeq([i \in 1 .. Len(h.arr) |-> <<IntKey(i), h.arr[i]>>],
                             LAMBDA e : e[2] # Nil /\ e[1][2] > nasize)
      olds == SelectSeq([j \in 1 .. SizeNode(h) |->
                           <<h.node[SizeNode(h) - j].k, h.node[SizeNode(h) - j].v>>],
                        LAMBDA e : e[2] # Nil)
  IN SetAll(Sized(h.arr, nasize, nhsize), vanishing \o olds)

NewSizesFault(h, k) ==
  LET nums == [i \in 0 .. MaxBits |-> Cardinality({x \in IntegerKeys(h) : Slice(x) = i})]
      s == ComputeSizes(nums, Cardinality(IntegerKeys(h)))
  IN [array |-> s.size, hash |-> Cardinality(Used(h)) + Cardinality(InHash(h)) + 1 - s.na]
\* The sizes for the keys of h and the key k.
NewSizes(h, k) ==
  LET extra == IF k[1] = "int" /\ k[2] > 0 THEN {k[2]} ELSE {}
      ints == IntegerKeys(h) \cup extra
      nums == [i \in 0 .. MaxBits |-> Cardinality({x \in ints : Slice(x) = i})]
      total == Cardinality(Used(h)) + Cardinality(InHash(h)) + 1
      s == ComputeSizes(nums, Cardinality(ints))
  IN [array |-> s.size, hash |-> total - s.na]
Rehash(h, k) == LET s == NewSizes(h, k) IN Resize(h, s.array, s.hash)

-----------------------------------------------------------------------------
(* Traversal and length *)

FindIndexFault(h, k) ==
  IF k = None THEN 0
  ELSE IF InArray(h, k) THEN k[2]
  ELSE IF NodeOf(h, k) = -1 THEN -1 ELSE NodeOf(h, k) + 1 + Len(h.arr)
\* findindex; -1 is the error "invalid key to 'next'".
FindIndex(h, k) ==
  LET n == Search(h, MainPosition(h, k), {k} \cup (IF k[1] = "str" THEN {Dead(k[2])} ELSE {}))
  IN IF k = None THEN 0
     ELSE IF InArray(h, k) THEN k[2]
     ELSE IF n = -1 THEN -1 ELSE n + 1 + Len(h.arr)
Index(h) == 0 .. Len(h.arr) + SizeNode(h) - 1
KeyAt(h, i) == IF i = -1 THEN None ELSE IF i < Len(h.arr) THEN IntKey(i + 1) ELSE h.node[i - Len(h.arr)].k
ValueAt(h, i) == IF i < Len(h.arr) THEN h.arr[i + 1] ELSE h.node[i - Len(h.arr)].v
\* What luaH_next has still to visit after k, by index; {-1} is its error.
After(h, k) ==
  LET from == FindIndex(h, k)
  IN IF from = -1 THEN {-1} ELSE {i \in Index(h) : i >= from /\ ValueAt(h, i) # Nil}

RECURSIVE Between(_, _, _)
\* The binary search of luaH_getn and of unbound_search.
Between(h, i, j) ==
  LET m == (i + j) \div 2
  IN IF j - i <= 1 THEN i ELSE IF GetInt(h, m) = Nil THEN Between(h, i, m) ELSE Between(h, m, j)
RECURSIVE Unbound(_, _, _)
Unbound(h, i, j) == IF GetInt(h, j) = Nil THEN Between(h, i, j) ELSE Unbound(h, j, 2 * j)
GetNFault(h) ==
  IF Len(h.arr) > 0 THEN Between(h, 0, Len(h.arr) + 1) ELSE Unbound(h, 0, 1)
GetN(h) ==
  LET j == Len(h.arr)
  IN IF j > 0 /\ h.arr[j] = Nil THEN Between(h, 0, j)
     ELSE IF IsDummy(h) THEN j ELSE Unbound(h, j, j + 1)

-----------------------------------------------------------------------------
(* Scripts and the collector *)

Off == [on |-> FALSE, key |-> None]

\* A script assigns: to a key without a value, any traversal is over.
Assign(k, v) ==
  /\ t' = Set(t, k, v)
  /\ walk' = IF Get(t, k) = Nil THEN Off ELSE walk

\* OP_SETLIST, in a constructor: from the last value to the first.
SetList(n, v) ==
  LET sized == IF n > Len(t.arr) THEN Resize(t, n, IF IsDummy(t) THEN 0 ELSE SizeNode(t)) ELSE t
  IN /\ ~walk.on
     /\ t' = SetAll(sized, [i \in 1 .. n |-> <<IntKey(n + 1 - i), v>>])
     /\ UNCHANGED walk

\* The collector meets an entry without a value and a key it has not marked.
Bury(n) ==
  /\ t.node[n].v = Nil /\ t.node[n].k[1] = "str"
  /\ t' = [t EXCEPT !.node[n].k = Dead(@[2])]
  /\ UNCHANGED walk

Begin == ~walk.on /\ walk' = [Off EXCEPT !.on = TRUE] /\ UNCHANGED t
Advance ==
  /\ walk.on
  /\ LET next == After(t, walk.key)
     IN walk' = IF next = {} THEN Off ELSE [walk EXCEPT !.key = KeyAt(t, Min(next))]
  /\ UNCHANGED t

Init == (\E na \in Lists \cup {0}, nh \in {0, 1} : t = Sized(<< >>, na, nh)) /\ walk = Off
Next ==
  \/ \E k \in Given, v \in Values \cup {Nil} : Assign(k, v)
  \/ \E n \in Lists, v \in Values : SetList(n, v)
  \/ \E n \in DOMAIN t.node : Bury(n)
  \/ Begin
  \/ Advance
Spec == Init /\ [][Next]_vars

-----------------------------------------------------------------------------
(* Properties *)

\* A table is a map, and a traversal visits every entry once: the chains lose no
\* key when a colliding node moves away, when the parts are resized and when a
\* dead key stays in the middle of a chain, and a removed or dead key still says
\* where its traversal goes on (luaH_newkey, luaH_resize, findindex).
Promise == INSTANCE MapWithNext WITH
  Values <- Nat,
  content <- [k \in Keys |-> Get(t, k)],
  walking <- walk.on,
  owed <- IF ~walk.on THEN {} ELSE {KeyAt(t, i) : i \in After(t, walk.key)}
KeepsThePromise == Promise!Spec

\* The length of a table is a border of its content, wherever its values are.
LengthIsABorder ==
  LET n == GetN(t) IN (n > 0 => GetInt(t, n) # Nil) /\ GetInt(t, n + 1) = Nil

\* The array part that a rehash makes is the largest power of two of which more
\* than half is in use, and the hash part has room for all the other keys.
RehashIsOptimal ==
  LET used == {x \in Keys \cup {IntKey(i) : i \in 0 .. 2^MaxBits} : Get(t, x) # Nil}
  IN \A k \in Keys \ used :
       LET keys == used \cup {k}
           dense(n) == 2 * Cardinality({x \in keys : x[1] = "int" /\ x[2] \in 1 .. n}) > n
           s == NewSizes(t, k)
       IN /\ s.array = Max({n \in {0} \cup {2^i : i \in 0 .. MaxBits} : n = 0 \/ dense(n)})
          /\ s.hash = Cardinality({x \in keys : ~(x[1] = "int" /\ x[2] \in 1 .. s.array)})
=============================================================================
