---------------------------- MODULE TableLibrary ----------------------------
(***************************************************************************)
(* The functions of the table library (ltablib.c) that move values of a    *)
(* list, over the tables of LuaTable: every lua_seti is a step, and so is  *)
(* every comparison of table.sort, which calls a function of the script    *)
(* that may answer anything.  The tables have no metamethods.              *)
(***************************************************************************)
EXTENDS LuaTable

CONSTANTS
  Items,                \* the lists that the script passes to insert, remove and move
  Sorted,               \* the lists that it passes to sort, and whether with an order or
                        \* with a function that answers "any"
  Positions,            \* the positions it asks for
  RanLimit, Imbalance   \* RANLIMIT and the 128 of auxsort, smaller here
ASSUME LimitAssumption == RanLimit >= 4 /\ Imbalance >= 1

VARIABLE call
lvars == <<t, walk, call>>

-----------------------------------------------------------------------------
(* Lists *)

\* table.pack makes the table, table.unpack gives its values back.
Pack(list) ==
  LET n == Len(list)
      entries == [i \in 1 .. n |-> <<IntKey(n + 1 - i), list[n + 1 - i]>>]
  IN SetAll(Sized(<< >>, n, 1), Append(entries, <<Str(1), n>>))
Unpack(h, i, e) == [k \in 1 .. e - i + 1 |-> GetInt(h, i + k - 1)]

Content(h) == [k \in 0 .. 2 * Max(Positions) |-> GetInt(h, k)]
Idle == [op |-> "none"]

\* What a function still has to do: <<from, to>> is t[to] = t[from], <<"value", to, v>> t[to] = v.
Moving(op, moves, args) ==
  [op |-> op, moves |-> moves, args |-> args, old |-> Content(t)]

TInsert(pos, v) ==
  LET e == GetN(t) + 1
  IN /\ 1 <= pos /\ pos <= e
     /\ call' = Moving("insert",
                       Append([x \in 1 .. e - pos |-> <<e - x, e - x + 1>>], <<"value", pos, v>>),
                       <<pos, v>>)

TRemoveFault(pos) ==
  LET size == GetN(t)
  IN /\ pos # size => 1 <= pos /\ pos <= size + 1
     /\ call' = Moving("remove",
                       Append([x \in 1 .. size - pos |-> <<pos + x, pos + x - 1>>],
                              <<"value", size, Nil>>), <<pos>>)
TRemove(pos) ==
  LET size == GetN(t)
      last == IF pos < size THEN size ELSE pos
  IN /\ pos # size => 1 <= pos /\ pos <= size + 1
     /\ call' = Moving("remove",
                       Append([x \in 1 .. size - pos |-> <<pos + x, pos + x - 1>>],
                              <<"value", last, Nil>>), <<pos>>)

TMove(f, e, to) ==
  LET n == IF e >= f THEN e - f + 1 ELSE 0
      up == [x \in 1 .. n |-> <<f + x - 1, to + x - 1>>]
  IN call' = Moving("move", IF to > e \/ to <= f THEN up ELSE Reverse(up), <<f, e, to>>)

\* The next lua_seti of insert, remove or move.
SetI ==
  /\ call.op \in {"insert", "remove", "move"} /\ call.moves # << >>
  /\ LET m == Head(call.moves)
     IN t' = Set(t, IntKey(m[2]), IF Len(m) = 3 THEN m[3] ELSE GetInt(t, m[1]))
  /\ call' = [call EXCEPT !.moves = Tail(@)]

-----------------------------------------------------------------------------
(* table.sort: pc is the comparison to be made next, todo the intervals    *)
(* that the callers of auxsort have still to sort.                         *)

Sort(order) ==
  /\ GetN(t) > 1
  /\ call' = [op |-> "sort", order |-> order, old |-> Unpack(t, 1, GetN(t)),
              pc |-> "ends", lo |-> 1, up |-> GetN(t), p |-> 0, i |-> 0, j |-> 0,
              random |-> FALSE, todo |-> << >>]

\* What sort_comp compares: is the first less than the second?
Compared ==
  CASE call.pc = "ends" -> <<call.up, call.lo>>
    [] call.pc = "low" -> <<call.p, call.lo>>
    [] call.pc = "high" -> <<call.up, call.p>>
    [] call.pc = "right" -> <<call.i, call.up - 1>>
    [] call.pc = "left" -> <<call.up - 1, call.j>>
Answers ==
  IF call.order = "any" THEN BOOLEAN
  ELSE {GetInt(t, Compared[1]) < GetInt(t, Compared[2])}

Swapped(h, i, j) == Set(Set(h, IntKey(i), GetInt(h, j)), IntKey(j), GetInt(h, i))

\* auxsort goes on with the first of the intervals, or sort is over.
Intervals(todo) ==
  call' = IF todo = << >> THEN [call EXCEPT !.pc = "done"]
          ELSE [call EXCEPT !.pc = "ends", !.lo = todo[1][1], !.up = todo[1][2],
                            !.random = todo[1][3], !.todo = Tail(todo)]

\* choosePivot; l_randomizePivot may also return 0.
Pivots ==
  LET r4 == (call.up - call.lo) \div 4
  IN {(call.lo + call.up) \div 2} \cup
     IF call.up - call.lo < RanLimit \/ ~call.random THEN {}
     ELSE {r + call.lo + r4 : r \in 0 .. 2 * r4 - 1}

Ends(less) ==
  /\ call.pc = "ends"
  /\ t' = IF less THEN Swapped(t, call.lo, call.up) ELSE t
  /\ IF call.up - call.lo = 1 THEN Intervals(call.todo)
     ELSE \E p \in Pivots : call' = [call EXCEPT !.pc = "low", !.p = p]

\* lo, p and up are in order: that is all, or the pivot goes to up - 1.
Middle ==
  /\ call.op = "sort" /\ call.pc = "middle"
  /\ IF call.up - call.lo = 2 THEN Intervals(call.todo) /\ UNCHANGED t
     ELSE /\ t' = Swapped(t, call.p, call.up - 1)
          /\ call' = [call EXCEPT !.pc = "right", !.i = call.lo + 1, !.j = call.up - 1]
Low(less) ==
  /\ call.pc = "low"
  /\ t' = IF less THEN Swapped(t, call.p, call.lo) ELSE t
  /\ call' = [call EXCEPT !.pc = IF less THEN "middle" ELSE "high"]
High(less) ==
  /\ call.pc = "high"
  /\ t' = IF less THEN Swapped(t, call.p, call.up) ELSE t
  /\ call' = [call EXCEPT !.pc = "middle"]

RightFault(less) ==
  /\ call.pc = "right" /\ UNCHANGED t
  /\ IF ~less THEN call' = [call EXCEPT !.pc = "left", !.j = @ - 1]
     ELSE call' = [call EXCEPT !.i = @ + 1]
\* An order function that says the pivot is less than itself is an error.
Right(less) ==
  /\ call.pc = "right" /\ UNCHANGED t
  /\ IF ~less THEN call' = [call EXCEPT !.pc = "left", !.j = @ - 1]
     ELSE IF call.i = call.up - 1 THEN call' = [call EXCEPT !.pc = "error"]
     ELSE call' = [call EXCEPT !.i = @ + 1]

\* The partition ends with the pivot at p: the smaller interval is sorted first.
Partitioned(p) ==
  LET lo == call.lo
      up == call.up
      low == <<lo, p - 1>>
      high == <<p + 1, up>>
      small == IF p - lo < up - p THEN low ELSE high
      large == IF p - lo < up - p THEN high ELSE low
      random == \/ call.random
                \/ (large[2] - large[1]) \div Imbalance > small[2] - small[1] + 1
      next == << Append(small, call.random), Append(large, random) >>
  IN Intervals(SelectSeq(next, LAMBDA x : x[1] < x[2]) \o call.todo)

Left(less) ==
  /\ call.pc = "left"
  /\ IF less THEN /\ UNCHANGED t
                  /\ call' = IF call.j < call.i THEN [call EXCEPT !.pc = "error"]
                             ELSE [call EXCEPT !.j = @ - 1]
     ELSE IF call.j < call.i THEN t' = Swapped(t, call.up - 1, call.i) /\ Partitioned(call.i)
     ELSE /\ t' = Swapped(t, call.i, call.j)
          /\ call' = [call EXCEPT !.pc = "right", !.i = @ + 1]

Compare ==
  /\ call.op = "sort" /\ call.pc \in {"ends", "low", "high", "right", "left"}
  /\ \E less \in Answers : Ends(less) \/ Low(less) \/ High(less) \/ Right(less) \/ Left(less)

-----------------------------------------------------------------------------

Call ==
  /\ call.op = "ready" /\ UNCHANGED t
  /\ \/ call.list \in Items /\ \E pos \in Positions :
          \/ TInsert(pos, 1)
          \/ TRemove(pos)
          \/ \E e, to \in Positions : TMove(pos, e, to)
     \/ \E order \in {"less", "any"} : <<call.list, order>> \in Sorted /\ Sort(order)

\* A script works with a table of its own, or passes a list to the library.
LibraryInit ==
  \/ Init /\ call = Idle
  \/ /\ \E list \in Items \cup {s[1] : s \in Sorted} : t = Pack(list) /\ call = [op |-> "ready", list |-> list]
     /\ walk = Off
LibraryNext ==
  \/ call = Idle /\ Next /\ UNCHANGED call
  \/ call # Idle /\ (Call \/ SetI \/ Compare \/ Middle) /\ UNCHANGED walk
LibrarySpec == LibraryInit /\ [][LibraryNext]_lvars

-----------------------------------------------------------------------------
(* Properties *)

\* What the list holds after insert, remove and move, by index.
Expected(k) ==
  LET a == call.args
      old == call.old
  IN CASE call.op = "insert" -> IF k < a[1] THEN old[k] ELSE IF k = a[1] THEN a[2] ELSE old[k - 1]
       [] call.op = "remove" -> IF k < a[1] \/ k + 1 \notin DOMAIN old THEN old[k] ELSE old[k + 1]
       [] call.op = "move" -> IF k \in a[3] .. a[3] + a[2] - a[1] THEN old[k - a[3] + a[1]] ELSE old[k]

\* insert and remove shift what follows the position, move copies an interval also
\* over itself, and sort puts a list in order when its order function is one, then
\* without an error: value by value, over tables that are resized meanwhile
\* (tinsert, tremove, tmove, auxsort of ltablib.c).
LibraryKeepsItsWord ==
  /\ call.op \in {"insert", "remove", "move"} /\ call.moves = << >> =>
       \A k \in DOMAIN call.old : GetInt(t, k) = Expected(k)
  /\ call.op = "sort" /\ call.order = "less" =>
       /\ call.pc # "error"
       /\ call.pc = "done" => \A k \in 2 .. Len(call.old) : GetInt(t, k - 1) <= GetInt(t, k)

\* Whatever the order function answers, whenever sort calls it and when sort ends
\* or raises its error, the list has all its values, and sort compares only places
\* of the interval it sorts; with an order, partition's invariant holds (the
\* comments of ltablib.c 285-291).
SortKeepsTheList ==
  call.op = "sort" =>
    LET n == Len(call.old)
        list == Unpack(t, 1, n)
        times(s, v) == Cardinality({k \in 1 .. n : s[k] = v})
    IN /\ \A k \in 1 .. n : times(list, list[k]) = times(call.old, list[k])
       /\ call.pc \notin {"middle", "done", "error"} =>
            \A k \in {Compared[1], Compared[2]} : call.lo <= k /\ k <= call.up
       /\ call.pc \in {"right", "left"} /\ call.order = "less" =>
            LET pivot == list[call.up - 1]
                tested == IF call.pc = "right" THEN call.j ELSE call.j + 1
            IN /\ \A k \in call.lo .. call.i - 1 : list[k] <= pivot
               /\ \A k \in tested .. call.up : pivot <= list[k]
=============================================================================
