------------------------------- MODULE LuaGC -------------------------------
(***************************************************************************)
(* The incremental collector of the embedded Lua (lgc.c) and a program     *)
(* that allocates, stores, captures and drops objects between its steps.   *)
(*                                                                         *)
(* An object is an id.  Its references are a (the array slot of a table,   *)
(* the value of a userdata, the constant of a prototype, the prototype of  *)
(* a Lua closure), k and v (the hash node of a table; v is the cache of a  *)
(* prototype), u (the upvalue of a Lua closure) and, of a thread, its      *)
(* stack.  Main is the main thread: its stack is the root and the only     *)
(* place the program computes with.  Metatables are only told apart by     *)
(* what the collector reads from them: a weak mode, or a finalizer "gc".   *)
(* Memory is ids: a freed one may be allocated again.                      *)
(***************************************************************************)
EXTENDS Integers, FiniteSets, SequencesExt

CONSTANTS
  Main, Ids,    \* the main thread, the other objects
  UpVals,       \* the upvalues (not collected: counted)
  Nil, Dead,    \* no object; the key of a dead node
  Menus,        \* what a program uses: kinds of objects and metatables
  Slots,        \* bound: the height of the main stack; a coroutine's is 1
  SweepMax,     \* GCSWEEPMAX: objects swept by one step
  Work          \* bound: single steps of one luaC_step

VARIABLES
  g,      \* the global_State and the heap
  menu    \* the menu of this program

vars == <<g, menu>>
Objects == Ids \cup {Main}

Init ==
  /\ menu \in Menus
  /\ g = [kind |-> [o \in Objects |-> IF o = Main THEN "thread" ELSE "free"],
          color |-> [o \in Objects |-> "white"], meta |-> [o \in Objects |-> ""],
          a |-> [o \in Objects |-> Nil], k |-> [o \in Objects |-> Nil],
          v |-> [o \in Objects |-> Nil], u |-> [o \in Objects |-> Nil],
          stk |-> [o \in Objects |-> [i \in 1 .. Slots |-> Nil]],
          uv |-> [w \in UpVals |-> [st |-> "free"]],
          fz |-> {}, allgc |-> << >>, finobj |-> << >>, tobefnz |-> << >>,
          gray |-> << >>, grayagain |-> << >>, weak |-> << >>, ephemeron |-> << >>,
          allweak |-> << >>, twups |-> << >>, sweepgc |-> "null",
          gcstate |-> "pause", gcfinnum |-> 0]

-----------------------------------------------------------------------------
(* Colours: "white" is the current white, "dead" the other one *)

IsWhite(h, o) == o # Nil /\ h.color[o] \in {"white", "dead"}
IsDead(h, o) == h.color[o] = "dead"
KeepInvariant(h) == h.gcstate \in {"propagate", "atomic"}
IsSweepPhase(h) == h.gcstate \in {"swpallgc", "swpfinobj", "swptobefnz", "swpend"}
MakeWhite(h, o) == [h EXCEPT !.color[o] = "white"]

\* reallymarkobject: leaves become black, the others wait in the gray list.
RECURSIVE Mark(_, _)
Mark(h, o) ==
  IF ~IsWhite(h, o) THEN h
  ELSE CASE h.kind[o] = "str" -> [h EXCEPT !.color[o] = "black"]
         [] h.kind[o] = "udata" -> Mark([h EXCEPT !.color[o] = "black"], h.a[o])
         [] OTHER -> [h EXCEPT !.color[o] = "gray", !.gray = <<o>> \o @]
MarkAll(h, s) == FoldLeft(Mark, h, s)

OpenIn(h, w, t) == h.uv[w].st = "open" /\ h.uv[w].th = t
OpenUpVals(h, t) == {w \in UpVals : OpenIn(h, w, t)}
UpValue(h, w) == IF h.uv[w].st = "open" THEN h.stk[h.uv[w].th][h.uv[w].i] ELSE h.uv[w].val

-----------------------------------------------------------------------------
(* Barriers *)

\* luaC_barrier: forward while marking; while sweeping, o is swept now.
Barrier(h, o, x) ==
  IF h.color[o] = "black" /\ IsWhite(h, x)
  THEN IF KeepInvariant(h) THEN Mark(h, x) ELSE MakeWhite(h, o)
  ELSE h

\* luaC_barrierback: the table becomes gray again.
BarrierBack(h, o, x) ==
  IF h.color[o] = "black" /\ IsWhite(h, x)
  THEN [h EXCEPT !.color[o] = "gray",
                 !.grayagain = IF KeepInvariant(h) THEN <<o>> \o @ ELSE @]
  ELSE h

UpValBarrierFault(h, w) == h
UpValBarrier(h, w) ==
  IF h.uv[w].st = "closed" /\ KeepInvariant(h) THEN Mark(h, h.uv[w].val) ELSE h

-----------------------------------------------------------------------------
(* Traversal: one gray object, already black *)

\* Strings are never removed from weak tables: looking marks them.
Cleared(h, o) == o \in Objects /\ h.kind[o] # "str" /\ IsWhite(h, o)
Looked(h, o) == IF o \in Objects /\ h.kind[o] = "str" THEN Mark(h, o) ELSE h
RemoveEntry(h, t) == IF h.k[t] # Dead /\ IsWhite(h, h.k[t]) THEN [h EXCEPT !.k[t] = Dead] ELSE h
Link(h, o, list) == [h EXCEPT ![list] = <<o>> \o @]

TraverseWeakValue(h, t) ==
  LET used == h.v[t] # Nil
      h1 == IF used THEN Mark(h, h.k[t]) ELSE RemoveEntry(h, t)
      h2 == IF used /\ h.a[t] = Nil THEN Looked(h1, h.v[t]) ELSE h1
  IN CASE h.gcstate = "propagate" -> Link(h2, t, "grayagain")
       [] h.gcstate # "propagate" /\ (h.a[t] # Nil \/ Cleared(h2, h.v[t])) -> Link(h2, t, "weak")
       [] OTHER -> h2

\* With the answer of traverseephemeron: whether anything was marked.
EphemeronNode(h, t, marked) ==
  LET used == h.v[t] # Nil
      clears == used /\ Cleared(h, h.k[t])
      value == IF used /\ ~clears THEN Mark(h, h.v[t]) ELSE h
      list == CASE h.gcstate = "propagate" -> "grayagain"
                [] h.gcstate # "propagate" /\ clears /\ IsWhite(h, h.v[t]) -> "ephemeron"
                [] h.gcstate # "propagate" /\ clears /\ ~IsWhite(h, h.v[t]) -> "allweak"
                [] OTHER -> "none"
  IN [h |-> IF list = "none" THEN value ELSE Link(value, t, list),
      marked |-> marked \/ (used /\ ~clears /\ IsWhite(h, h.v[t]))]
TraverseEphemeron(h, t) ==
  LET key(h1) == IF h1.v[t] # Nil THEN Looked(h1, h1.k[t]) ELSE RemoveEntry(h1, t)
  IN EphemeronNode(key(Mark(h, h.a[t])), t, IsWhite(h, h.a[t]))

TraverseStrongTable(h, t) ==
  IF h.v[t] = Nil THEN RemoveEntry(Mark(h, h.a[t]), t)
  ELSE MarkAll(h, <<h.a[t], h.k[t], h.v[t]>>)

TraverseTable(h, t) ==
  LET gray == [h EXCEPT !.color[t] = "gray"]
  IN CASE h.meta[t] = "v"  -> TraverseWeakValue(gray, t)
       [] h.meta[t] = "k"  -> TraverseEphemeron(gray, t).h
       [] h.meta[t] = "kv" -> Link(gray, t, "allweak")
       [] OTHER -> TraverseStrongTable(h, t)

\* The cache of a prototype does not keep a closure.
TraverseProto(h, p) ==
  Mark(IF IsWhite(h, h.v[p]) THEN [h EXCEPT !.v[p] = Nil] ELSE h, h.a[p])

\* The value of an open upvalue is its thread's business until the atomic phase.
TraverseLclosure(h, c) ==
  LET h1 == Mark(h, h.a[c])
      w == h.u[c]
  IN IF h.uv[w].st = "open" /\ h.gcstate # "insideatomic"
     THEN [h1 EXCEPT !.uv[w].touched = TRUE] ELSE Mark(h1, UpValue(h1, w))

TraverseThread(h, t) ==
  LET h1 == MarkAll([h EXCEPT !.color[t] = "gray", !.grayagain = <<t>> \o @], h.stk[t])
  IN IF /\ h.gcstate = "insideatomic" /\ OpenUpVals(h, t) # {}
        /\ t \notin ToSet(h.twups)
     THEN [h1 EXCEPT !.twups = <<t>> \o @] ELSE h1

PropagateMark(h) ==
  LET o == Head(h.gray)
      h1 == [h EXCEPT !.gray = Tail(@), !.color[o] = "black"]
  IN CASE h.kind[o] = "table"  -> TraverseTable(h1, o)
       [] h.kind[o] = "proto"  -> TraverseProto(h1, o)
       [] h.kind[o] = "lcl"    -> TraverseLclosure(h1, o)
       [] h.kind[o] = "thread" -> TraverseThread(h1, o)

RECURSIVE PropagateAll(_)
PropagateAll(h) == IF h.gray = << >> THEN h ELSE PropagateAll(PropagateMark(h))

RECURSIVE ConvergeEphemerons(_)
ConvergeEphemerons(h) ==
  LET visited(r, changed) == [h |-> IF r.marked THEN PropagateAll(r.h) ELSE r.h,
                              changed |-> changed \/ r.marked]
      visit(acc, t) == visited(TraverseEphemeron(acc.h, t), acc.changed)
      again(all) == IF all.changed THEN ConvergeEphemerons(all.h) ELSE all.h
  IN again(FoldLeft(visit, [h |-> [h EXCEPT !.ephemeron = << >>], changed |-> FALSE],
                    h.ephemeron))

-----------------------------------------------------------------------------
(* The atomic phase *)

\* A thread that is not marked leaves the list; the values of its upvalues that
\* marked closures share are marked in its place.
RemarkUpvalsKeepFault(h) ==
  [h EXCEPT !.twups = SelectSeq(@, LAMBDA t : OpenUpVals(h, t) # {})]
RemarkUpvalsFault(h) == [h EXCEPT !.twups = << >>]
RemarkUpvals(h) ==
  LET kept(t) == h.color[t] = "gray" /\ OpenUpVals(h, t) # {}
      gone == {t \in ToSet(h.twups) : ~kept(t)}
      touched == {w \in UpVals : \E t \in gone : OpenIn(h, w, t) /\ h.uv[w].touched}
      h1 == MarkAll(h, SetToSeq({UpValue(h, w) : w \in touched}))
  IN [h1 EXCEPT !.twups = SelectSeq(@, kept),
                !.uv = [w \in UpVals |-> IF w \in touched THEN [@[w] EXCEPT !.touched = FALSE]
                                         ELSE @[w]]]

ClearKeys(h, list) ==
  LET clear(acc, t) ==
        LET h1 == IF acc.v[t] # Nil THEN Looked(acc, acc.k[t]) ELSE acc
        IN IF h1.v[t] # Nil /\ Cleared(h1, h1.k[t])
           THEN RemoveEntry([h1 EXCEPT !.v[t] = Nil], t) ELSE h1
  IN FoldLeft(clear, h, list)

ClearValues(h, list) ==
  LET clear(acc, t) ==
        LET h1 == Looked(Looked(acc, acc.a[t]), acc.v[t])
            h2 == IF Cleared(h1, h1.a[t]) THEN [h1 EXCEPT !.a[t] = Nil] ELSE h1
        IN IF Cleared(h2, h2.v[t]) THEN RemoveEntry([h2 EXCEPT !.v[t] = Nil], t) ELSE h2
  IN FoldLeft(clear, h, list)

SeparateToBeFnzFault(h, all) == [h EXCEPT !.tobefnz = @ \o h.finobj, !.finobj = << >>]
\* Unmarked objects with a finalizer, or all of them, wait for its call.
SeparateToBeFnz(h, all) ==
  LET goes(o) == IsWhite(h, o) \/ all
      stays(o) == ~goes(o)
  IN [h EXCEPT !.tobefnz = @ \o SelectSeq(h.finobj, goes), !.finobj = SelectSeq(@, stays)]

\* The front of list that was linked after the list was old.
Newer(list, old) == SubSeq(list, 1, Len(list) - Len(old))

\* All that is accessible without a finalizer or an ephemeron's value is marked.
MarkAccessible(h) ==
  LET roots == PropagateAll(RemarkUpvals(Mark([h EXCEPT !.gcstate = "insideatomic",
                                                        !.grayagain = << >>], Main)))
  IN ConvergeEphemerons(PropagateAll([roots EXCEPT !.gray = h.grayagain]))

\* markbeingfnz, and what is accessible from there.
MarkBeingFnz(h) ==
  ConvergeEphemerons(PropagateAll(MarkAll([h EXCEPT !.gcfinnum = 1], h.tobefnz)))

\* Weak tables are cleared: values before objects are resurrected (old), then
\* keys, then the values of the tables that were found since.
ClearOldValues(h) == ClearValues(ClearValues(h, h.weak), h.allweak)
ClearAllKeys(h) == ClearKeys(ClearKeys(h, h.ephemeron), h.allweak)
ClearNewValues(h, old) ==
  ClearValues(ClearValues(h, Newer(h.weak, old.weak)), Newer(h.allweak, old.allweak))

\* The current white becomes the other one; the lists have been used.
FlipWhite(h) ==
  [h EXCEPT !.color = [o \in Objects |-> IF @[o] = "white" /\ h.kind[o] # "free"
                                         THEN "dead" ELSE @[o]],
            !.grayagain = << >>, !.weak = << >>, !.ephemeron = << >>, !.allweak = << >>]

FinishAtomic(h) ==
  LET finalizing == MarkBeingFnz(SeparateToBeFnz(ClearOldValues(h), FALSE))
  IN FlipWhite(ClearNewValues(ClearAllKeys(finalizing), h))
Atomic(h) == FinishAtomic(MarkAccessible(h))

-----------------------------------------------------------------------------
(* Sweeping *)

\* luaF_close: upvalues of t from slot i up get their value, or go.
CloseUpVals(h, t, i) ==
  LET close(acc, w) ==
        IF acc.uv[w].ref = 0 THEN [acc EXCEPT !.uv[w] = [st |-> "free"]]
        ELSE UpValBarrier([acc EXCEPT !.uv[w] =
                             [st |-> "closed", val |-> UpValue(acc, w), ref |-> @.ref]], w)
  IN FoldLeft(close, h, SetToSeq({w \in OpenUpVals(h, t) : h.uv[w].i >= i}))

UpValDecCount(h, w) ==
  IF h.uv[w].st = "closed" /\ h.uv[w].ref = 1 THEN [h EXCEPT !.uv[w] = [st |-> "free"]]
  ELSE [h EXCEPT !.uv[w].ref = @ - 1]

FreeObj(h, o) ==
  LET h1 == CASE h.kind[o] = "lcl" -> UpValDecCount(h, h.u[o])
              [] h.kind[o] = "thread" -> CloseUpVals(h, o, 1)
              [] OTHER -> h
  IN [h1 EXCEPT !.kind[o] = "free", !.color[o] = "white", !.meta[o] = "", !.a[o] = Nil,
                !.k[o] = Nil, !.v[o] = Nil, !.u[o] = Nil,
                !.stk[o] = [i \in 1 .. Slots |-> Nil], !.fz = @ \ {o}]

\* sweeplist from p, a pointer to the head of list or to an object's next field;
\* with where it stopped.
RECURSIVE SweepList(_, _, _, _)
SweepList(h, list, p, count) ==
  LET s == h[list]
      i == IF p = "head" THEN 1 ELSE 1 + CHOOSE j \in 1 .. Len(s) : s[j] = p
  IN CASE i > Len(s) -> [h |-> h, p |-> "null"]
       [] i <= Len(s) /\ count = 0 -> [h |-> h, p |-> p]
       [] i <= Len(s) /\ count > 0 /\ IsDead(h, s[i]) ->
            SweepList(FreeObj([h EXCEPT ![list] = RemoveAt(s, i)], s[i]), list, p, count - 1)
       [] OTHER -> SweepList(MakeWhite(h, s[i]), list, s[i], count - 1)

RECURSIVE SweepToLive(_, _, _)
SweepToLive(h, list, p) ==
  LET r == SweepList(h, list, p, 1)
  IN IF r.p = p THEN SweepToLive(r.h, list, p) ELSE r

EnterSweep(h) ==
  LET r == SweepList([h EXCEPT !.gcstate = "swpallgc"], "allgc", "head", 1)
  IN [r.h EXCEPT !.sweepgc = r.p]

SweptList(h) ==
  CASE h.gcstate = "swpallgc" -> "allgc" [] h.gcstate = "swpfinobj" -> "finobj"
    [] h.gcstate = "swptobefnz" -> "tobefnz"

\* The list sweepgc points into is not always the one this phase sweeps: an
\* object leaves tobefnz for allgc without a look at sweepgc.
PointsInto(h) ==
  IF h.sweepgc \in {"head", "null"} \/ h.sweepgc \in ToSet(h[SweptList(h)])
  THEN SweptList(h) ELSE "allgc"

SweepStep(h, nextstate, nextlist) ==
  LET r == IF h.sweepgc = "null" THEN [h |-> h, p |-> "null"]
           ELSE SweepList(h, PointsInto(h), h.sweepgc, SweepMax)
  IN IF r.p # "null" THEN [r.h EXCEPT !.sweepgc = r.p]
     ELSE [r.h EXCEPT !.gcstate = nextstate, !.sweepgc = nextlist]

-----------------------------------------------------------------------------
(* Finalizers *)

\* luaC_checkfinalizer, of an object that gets a metatable.
CheckFinalizer(h, o) ==
  IF o \in h.fz \/ h.meta[o] # "gc" THEN h
  ELSE LET h1 == IF IsSweepPhase(h) THEN MakeWhite(h, o) ELSE h
           r == IF IsSweepPhase(h) /\ h.sweepgc = o THEN SweepToLive(h1, "allgc", o)
                ELSE [h |-> h1, p |-> h.sweepgc]
           others(x) == x # o
       IN [r.h EXCEPT !.sweepgc = r.p, !.allgc = SelectSeq(@, others),
                      !.finobj = <<o>> \o @, !.fz = @ \cup {o}]
UData2FinalizeFault(h) ==
  LET o == Head(h.tobefnz)
  IN MakeWhite([h EXCEPT !.tobefnz = Tail(@), !.finobj = <<o>> \o @], o)
UData2Finalize(h) ==
  LET o == Head(h.tobefnz)
      h1 == [h EXCEPT !.tobefnz = Tail(@), !.allgc = <<o>> \o @, !.fz = @ \ {o}]
  IN IF IsSweepPhase(h) THEN MakeWhite(h1, o) ELSE h1

\* GCTM: the finalizer may store its argument where the program finds it.
GCTM(h, keep) ==
  LET h1 == UData2Finalize(h)
  IN IF keep THEN [h1 EXCEPT !.stk[Main][1] = Head(h.tobefnz)] ELSE h1

RECURSIVE CallFinalizers(_, _, _)
CallFinalizers(h, n, keep) ==
  IF n = 0 \/ h.tobefnz = << >> THEN h ELSE CallFinalizers(GCTM(h, keep), n - 1, keep)

\* An error in a finalizer stops the others and leaves gcfinnum.
RunAFewFinalizers(h, keep, fails) ==
  IF fails /\ h.tobefnz # << >> THEN GCTM(h, keep)
  ELSE LET h1 == CallFinalizers(h, h.gcfinnum, keep)
       IN [h1 EXCEPT !.gcfinnum = IF h1.tobefnz = << >> THEN 0 ELSE 2 * @]

-----------------------------------------------------------------------------
(* The collector *)

RestartCollection(h) ==
  MarkAll([h EXCEPT !.gray = << >>, !.grayagain = << >>, !.weak = << >>, !.allweak = << >>,
                    !.ephemeron = << >>, !.gcstate = "propagate"], <<Main>> \o h.tobefnz)

EndPropagate(h) == IF h.gray = << >> THEN [h EXCEPT !.gcstate = "atomic"] ELSE h

SingleStep(h, emergency, keep, fails) ==
  CASE h.gcstate = "pause"      -> RestartCollection(h)
    [] h.gcstate = "propagate"  -> EndPropagate(PropagateMark(h))
    [] h.gcstate = "atomic"     -> EnterSweep(Atomic(PropagateAll(h)))
    [] h.gcstate = "swpallgc"   -> SweepStep(h, "swpfinobj", "head")
    [] h.gcstate = "swpfinobj"  -> SweepStep(h, "swptobefnz", "head")
    [] h.gcstate = "swptobefnz" -> SweepStep(h, "swpend", "null")
    [] h.gcstate = "swpend"     -> [MakeWhite(h, Main) EXCEPT !.gcstate = "callfin"]
    [] h.gcstate = "callfin"    -> IF h.tobefnz # << >> /\ ~emergency
                                   THEN RunAFewFinalizers(h, keep, fails)
                                   ELSE [h EXCEPT !.gcstate = "pause"]

\* luaC_step: n single steps or up to the end of a cycle, then finalizers unless
\* a cycle has ended.
RECURSIVE SingleSteps(_, _, _, _)
SingleSteps(h, n, keep, fails) ==
  LET more(h1) == IF n = 1 \/ h1.gcstate = "pause" THEN h1 ELSE SingleSteps(h1, n - 1, keep, fails)
  IN more(SingleStep(h, FALSE, keep, fails))
EndStep(h, keep, fails) == IF h.gcstate = "pause" THEN h ELSE RunAFewFinalizers(h, keep, fails)
Step(n, keep, fails) ==
  g' = EndStep(SingleSteps(g, n, keep, fails), keep, fails) /\ UNCHANGED menu

RECURSIVE RunUntil(_, _, _, _)
RunUntil(h, states, emergency, keep) ==
  IF h.gcstate \in states THEN h
  ELSE RunUntil(SingleStep(h, emergency, keep, FALSE), states, emergency, keep)

NotPause == {"propagate", "atomic", "swpallgc", "swpfinobj", "swptobefnz", "swpend", "callfin"}

\* luaC_fullgc: collectgarbage(), or in emergency an allocation that failed.
FullGC(emergency, keep) ==
  /\ LET until(h, states) == RunUntil(h, states, emergency, keep)
     IN g' = FoldLeft(until, IF KeepInvariant(g) THEN EnterSweep(g) ELSE g,
                      <<{"pause"}, NotPause, {"callfin"}, {"pause"}>>)
  /\ UNCHANGED menu

-----------------------------------------------------------------------------
(* The program *)

Slot == 1 .. Slots
At(i) == g.stk[Main][i]
Of(i, kinds) == At(i) # Nil /\ g.kind[At(i)] \in kinds
Put(h, i, x) == g' = [h EXCEPT !.stk[Main][i] = x] /\ UNCHANGED menu
Becomes(h) == g' = h /\ UNCHANGED menu
FreeIds == {o \in Ids : g.kind[o] = "free"}
NewId == CHOOSE o \in FreeIds : TRUE
NewObj(h, o, kind) ==
  [h EXCEPT !.kind[o] = kind, !.color[o] = "white", !.allgc = <<o>> \o @]

\* A new object; a string with the same text is found again, dead or not.
New(kind, i) ==
  /\ kind # "lcl" /\ Cardinality({o \in Ids : g.kind[o] = kind}) < menu.kinds[kind]
  /\ LET same == {o \in Ids : kind = "str" /\ g.kind[o] = "str"}
     IN IF same # {}
        THEN LET o == CHOOSE x \in same : TRUE
             IN Put(IF IsDead(g, o) THEN MakeWhite(g, o) ELSE g, i, o)
        ELSE FreeIds # {} /\ Put(NewObj(g, NewId, kind), i, NewId)

Move(i, j) == "move" \in menu.fields /\ Put(g, i, At(j))
Drop(i) == At(i) # Nil /\ Put(g, i, Nil)

\* t[1] = x, or a userdata's user value.
SetArray(i, j) ==
  /\ "array" \in menu.fields /\ Of(i, {"table", "udata"})
  /\ LET o == At(i) h == [g EXCEPT !.a[o] = At(j)]
     IN Becomes(IF g.kind[o] = "table" THEN BarrierBack(h, o, At(j)) ELSE Barrier(h, o, At(j)))

\* t[k] = x: a new key, or the key the node has.
SetNode(i, n, j) ==
  /\ "node" \in menu.fields /\ Of(i, {"table"}) /\ At(n) # Nil
  /\ LET o == At(i)
         h == [g EXCEPT !.k[o] = At(n), !.v[o] = At(j)]
     IN /\ g.v[o] = Nil => At(j) # Nil
        /\ g.v[o] # Nil => g.k[o] = At(n)
        /\ Becomes(BarrierBack(IF g.k[o] # At(n) THEN BarrierBack(h, o, At(n)) ELSE h, o, At(j)))

Get(i, part, j) ==
  /\ Of(i, {"table", "udata"}) /\ g[part][At(i)] # Nil
  /\ part = "k" => g.v[At(i)] # Nil
  /\ Put(g, j, g[part][At(i)])

SetMetatable(i, m) ==
  /\ Of(i, {"table", "udata"}) /\ m \in menu.metas /\ g.meta[At(i)] # m
  /\ m \in {"", "gc"} \/ g.kind[At(i)] = "table"
  /\ Becomes(CheckFinalizer([g EXCEPT !.meta[At(i)] = m], At(i)))

\* Where the closures of this program are made: the main thread or a coroutine.
Capturing(i) ==
  IF "thread" \notin DOMAIN menu.kinds THEN {Main}
  ELSE IF Of(i, {"thread"}) THEN {At(i)} ELSE {}

\* A value is moved to a coroutine's stack (lua_xmove, lua_resume).
PushTo(i, j) == Of(i, {"thread"}) /\ Becomes([g EXCEPT !.stk[At(i)][1] = At(j)])

\* OP_CLOSURE for the prototype in slot p, in the thread t, capturing its slot n.
Closure(p, t, n, i) ==
  /\ Of(p, {"proto"})
  /\ LET open == {w \in OpenUpVals(g, t) : g.uv[w].i = n}
         c == g.v[At(p)]
         cached == c # Nil /\ g.u[c] \in open
         free == {w \in UpVals : g.uv[w].st = "free"}
         w == IF open # {} THEN CHOOSE x \in open : TRUE ELSE CHOOSE x \in free : TRUE
         h1 == IF open # {} THEN g
               ELSE [g EXCEPT !.uv[w] = [st |-> "open", th |-> t, i |-> n, touched |-> TRUE,
                                         ref |-> 0],
                              !.twups = IF t \in ToSet(@) THEN @ ELSE <<t>> \o @]
         h2 == [NewObj(h1, NewId, "lcl") EXCEPT !.a[NewId] = At(p), !.u[NewId] = w,
                                                !.uv[w].ref = @ + 1]
     IN IF cached THEN Put(g, i, c)
        ELSE /\ FreeIds # {} /\ open \cup free # {}
             /\ Put(IF g.color[At(p)] = "black" THEN h2 ELSE [h2 EXCEPT !.v[At(p)] = NewId],
                    i, NewId)

\* The scope of the slots from n up ends in the thread t (OP_JMP, OP_RETURN).
CloseScope(t, n) == OpenUpVals(g, t) # {} /\ Becomes(CloseUpVals(g, t, n))

\* OP_SETUPVAL and OP_GETUPVAL.
SetUpVal(i, j) ==
  /\ Of(i, {"lcl"})
  /\ LET w == g.u[At(i)]
     IN Becomes(IF g.uv[w].st = "open" THEN [g EXCEPT !.stk[g.uv[w].th][g.uv[w].i] = At(j)]
                ELSE UpValBarrier([g EXCEPT !.uv[w].val = At(j)], w))
GetUpVal(i, j) == Of(i, {"lcl"}) /\ Put(g, j, UpValue(g, g.u[At(i)]))

Program ==
  \E i, j \in Slot :
    \/ Move(i, j) \/ Drop(i)
    \/ \E kind \in DOMAIN menu.kinds : New(kind, i)
    \/ SetArray(i, j)
    \/ \E n \in Slot : SetNode(i, n, j)
    \/ PushTo(i, j)
    \/ \E part \in {"a", "k", "v"} : Get(i, part, j)
    \/ \E m \in menu.metas : SetMetatable(i, m)
    \/ \E t \in Capturing(i) :
         \E n \in IF t = Main THEN Slot ELSE {1} : Closure(j, t, n, i) \/ CloseScope(t, n)
    \/ SetUpVal(i, j) \/ GetUpVal(i, j)

\* What finalizers do, when there may be one to call.
Outcomes == IF g.fz = {} THEN {FALSE} ELSE BOOLEAN
Collector == \E n \in Work, keep, fails \in Outcomes : Step(n, keep, fails)

Next ==
  \/ Program
  \/ Collector
  \/ \E emergency, keep \in Outcomes : FullGC(emergency, keep)

Spec == Init /\ [][Next]_vars

\* A program that keeps allocating keeps the collector going, and finalizers do
\* not raise errors for ever.
FairSpec == Spec /\ \A n \in Work : []<><<Step(n, FALSE, FALSE)>>_vars
-----------------------------------------------------------------------------
(* Properties *)

\* The references of o, and those of them that keep an object alive when the
\* objects in live are alive.
Refs(o) ==
  ({g.a[o]} \cup (IF g.v[o] # Nil THEN {g.k[o], g.v[o]} ELSE {})
    \cup (IF g.kind[o] = "lcl" THEN {UpValue(g, g.u[o])} ELSE {})
    \cup ToSet(g.stk[o])) \ {Nil}
Strong(o, live) ==
  {x \in Refs(o) :
     \/ g.meta[o] \notin {"k", "v", "kv"} /\ ~(g.kind[o] = "proto" /\ x # g.a[o])
     \/ g.kind[x] = "str"
     \/ g.meta[o] = "v" /\ x = g.k[o]
     \/ g.meta[o] = "k" /\ (x = g.a[o] \/ (x = g.v[o] /\ g.k[o] \in live))}
RECURSIVE ReachFrom(_)
ReachFrom(live) ==
  LET more == live \cup UNION {Strong(o, live) : o \in live}
  IN IF more = live THEN live ELSE ReachFrom(more)
Reachable == ReachFrom({Main})
Usable == ReachFrom({Main} \cup ToSet(g.tobefnz))

\* "a black object can never point to a white one" (lgc.h:20): while marking,
\* what a black object keeps alive is marked, except the value of an open
\* upvalue, and every gray object waits in a list or is a weak table or thread.
MarkingInvariant ==
  KeepInvariant(g) =>
    \A o \in Objects : g.kind[o] # "free" =>
      /\ g.color[o] = "black" =>
           \A x \in Strong(o, {}) :
             ~IsWhite(g, x) \/ (g.kind[o] = "lcl" /\ g.uv[g.u[o]].st = "open")
      /\ g.color[o] = "gray" =>
           o \in ToSet(g.gray) \cup ToSet(g.grayagain) \cup ToSet(g.allweak)

\* Whatever the program can still read, weak entries, upvalues of coroutines
\* that are gone and cached closures included, or a finalizer will be given, has
\* not been freed and is not about to be.
NothingReadableIsDead ==
  \A o \in Usable : g.kind[o] # "free" /\ \A x \in Refs(o) : g.kind[x] # "free" /\ ~IsDead(g, x)

\* Between cycles every object is white again, in the list that its finalizer
\* bit says, and no thread that is gone is listed for its upvalues.
CleanPause ==
  g.gcstate = "pause" =>
    /\ \A o \in Objects : g.kind[o] # "free" => g.color[o] = "white"
    /\ ToSet(g.finobj) \cup ToSet(g.tobefnz) = g.fz
    /\ \A t \in ToSet(g.twups) : g.kind[t] = "thread"

\* A finalizer is called only for an object that the program had lost.
OnlyGarbageIsFinalized ==
  [][\A o \in ToSet(g.tobefnz') \ ToSet(g.tobefnz) : o \notin Reachable]_vars

\* What the program has lost is freed, unless a finalizer brings it back.
GarbageIsFreed ==
  \A o \in Ids :
    (g.kind[o] # "free" /\ o \notin Reachable) ~> (g.kind[o] = "free" \/ o \in Reachable)
=============================================================================
