-------------------------- MODULE LuaThreadLemmas ---------------------------
(***************************************************************************)
(* The invariant of LuaThread that LuaThreadProofs proves, and the lemmas  *)
(* its proof keeps needing: what the calls of a thread and the entries of  *)
(* the C stack are to each other, and what is left of that when a call or  *)
(* an entry is made, when some are cut off, and when lua_resume goes on.   *)
(***************************************************************************)
EXTENDS LuaThread, FiniteSetTheorems, WellFoundedInduction, TLAPS

-----------------------------------------------------------------------------
(* The invariant, of a machine m == [th, cs, lost] *)

Guarding == {"pcall", "xpcall"}
Blocking == {"noyield", "handler", "pcall"}  \* the entries a yield cannot cross
Code     == {"lua", "handler"}
Leaving  == {"resume", "wrap", "failed"}
Names    == Code \cup Guarding \cup Leaving \cup {"callk", "sort", "yield"}

FrameType == [f : Names, fresh : BOOLEAN, k : BOOLEAN, yp : BOOLEAN, old : Int]
StateType == [status : {"ok", "yield", "error"}, fn : BOOLEAN, ci : Seq(FrameType),
              nny : Int, nC : Int, errfunc : Int]
EntryType == [a : {"call", "noyield", "pcall", "handler", "resume"}, t : Threads, d : Nat,
              nny : Int, errfunc : Int, nC : Int]
Machine   == [th : [Threads -> StateType], cs : Seq(EntryType), lost : SUBSET Threads]
Positions == [Nat -> Nat]

\* h is the message handler of the first n calls of s: that of the innermost
\* protected one.
HandlerAt(t, s, n, h) ==
  \/ /\ \A i \in 1 .. n : s[i].f \notin Guarding
     /\ h = IF t = Main THEN Host ELSE 0
  \/ \E i \in 1 .. n : /\ s[i].f \in Guarding
                       /\ \A j \in i + 1 .. n : s[j].f \notin Guarding
                       /\ h = IF s[i].f = "xpcall" THEN i ELSE 0

\* The calls of a thread: Lua code calls C functions; what yields may cross was
\* called by a Lua function and has a continuation.
Framed(t, s) ==
  /\ s # << >>
  /\ s[1].f = "lua"
  /\ \A i \in 1 .. Len(s) :
       /\ s[i].f \notin Code => ~s[i].fresh
       /\ ~s[i].fresh => i > 1 /\ s[i - 1].f \in Code
       /\ s[i].k => i > 1 /\ s[i - 1].f = "lua" /\ s[i].f \in Guarding \cup {"callk"}
       /\ s[i].yp <=> s[i].k /\ s[i].f \in Guarding
       /\ s[i].yp => HandlerAt(t, s, i - 1, s[i].old)

\* The C stack: the entries of a thread lie together, the first of them made by
\* the host or by lua_resume.
HostEntry == [a |-> "pcall", t |-> Main, d |-> 0, nny |-> 1, errfunc |-> 0, nC |-> 0]
Together(c) ==
  \A i \in 1 .. Len(c) : \A k \in i .. Len(c) :
    c[i].t = c[k].t => \A j \in i .. k : c[j].t = c[i].t
Stacked(c) ==
  /\ c # << >> => c[1] = HostEntry
  /\ \A j \in 2 .. Len(c) :
       IF c[j].a = "resume" THEN c[j].nny = 1 /\ \A i \in 1 .. j - 1 : c[i].t # c[j].t
       ELSE c[j].t = c[j - 1].t
  /\ Together(c)
  /\ \A j \in 1 .. Len(c) : c[j].a \in {"pcall", "resume"} => c[j].nC < HandlingCCalls

\* v[j] is nny when the j-th entry has been made: 0 if its thread may yield.
Free(c, j) == c[j].t # Main /\ \A i \in 1 .. j : c[i].t = c[j].t => c[i].a \notin Blocking
Level(c, v) ==
  \A j \in 1 .. Len(c) :
    /\ (v[j] = 0) <=> Free(c, j)
    /\ j = 1 => v[j] = 2
    /\ j > 1 /\ c[j].a \in {"noyield", "pcall"} => v[j] = v[j - 1] + 1
    /\ j > 1 /\ c[j].a = "pcall" => c[j].nny = v[j - 1]
    /\ j > 1 /\ c[j].a = "call" => v[j] = v[j - 1]

\* The j-th entry e runs the p-th call of its thread: what the call below is.
Made(t, s, e, j, p) ==
  /\ j = 1 => p = 1
  /\ e.a = "call" => p > 1 /\ (s[p - 1].f \in Code \/ s[p - 1].k)
  /\ e.a = "noyield" => p > 1 /\ s[p - 1].f \in {"sort", "callk"} /\ ~s[p - 1].k
  /\ e.a = "pcall" /\ j > 1 => /\ p > 2 /\ s[p - 1].f \in Guarding /\ ~s[p - 1].k
                              /\ e.d = p - 1 /\ HandlerAt(t, s, p - 2, e.errfunc)
Entered(s, p) == p \in 1 .. Len(s) /\ s[p].f \in Code /\ s[p].fresh

\* A yield may leave the i-th call; or the entry e forbids it.
Leaves(s, i) == s[i].f = "lua" \/ s[i].k \/ (i = Len(s) /\ s[i].f \in Leaving)
Covers(e, p, i) == e.a \in Blocking /\ (i >= p \/ (e.a # "handler" /\ i = p - 1))
Own(c, t) == {j \in 1 .. Len(c) : c[j].t = t}

\* The entries of t on the C stack c, with its calls s: q[j] is the call that the
\* j-th entry runs, which may still have to be made if t is the thread that runs;
\* these are all that have a luaV_execute of their own.
Ordered(c, q, t) ==
  \A j, k \in Own(c, t) :
    j < k => q[j] < q[k] \/ (q[j] = q[k] /\ c[k].a = "handler")
Placed(c, s, q, t) ==
  \A j \in Own(c, t) : Entered(s, q[j]) \/ (c[Len(c)].t = t /\ q[j] = Len(s) + 1)
Claimed(c, s, q, t) ==
  \A j \in Own(c, t) : \A i \in q[j] + 1 .. Len(s) :
    s[i].fresh => \E k \in Own(c, t) : q[k] = i
AllMade(c, s, q, t) == \A j \in Own(c, t) : Made(t, s, c[j], j, q[j])
Stuck(c, s, q, t) ==
  \A j \in Own(c, t) : c[j].a \in Blocking => \A i \in q[j] .. Len(s) : ~s[i].k
Covered(c, s, q, t) ==
  t # Main => \A i \in 1 .. Len(s) :
    Leaves(s, i) \/ \E j \in Own(c, t) : Covers(c[j], q[j], i)
Linked(c, s, q, t) ==
  /\ Ordered(c, q, t) /\ Placed(c, s, q, t) /\ Claimed(c, s, q, t)
  /\ AllMade(c, s, q, t) /\ Stuck(c, s, q, t)
Manned(c, s, q, t) == Linked(c, s, q, t) /\ Covered(c, s, q, t)

\* What the last entry of t tells; if it is not the last of all, t has resumed
\* another thread.
Counted(c, v, t, r) ==
  \A j \in Own(c, t) : (\A k \in Own(c, t) : k <= j) =>
    /\ r.nny = v[j]
    /\ j < Len(c) => r.ci[Len(r.ci)].f \in {"resume", "wrap"} /\ r.nC < HandlingCCalls

\* A thread on the C stack.
Sound(t, r) ==
  r.status = "ok" /\ Framed(t, r.ci) /\ HandlerAt(t, r.ci, Len(r.ci), r.errfunc)
Busy(m, q, v, t) ==
  /\ Sound(t, m.th[t])
  /\ Manned(m.cs, m.th[t].ci, q, t)
  /\ Counted(m.cs, v, t, m.th[t])

\* One that is not: ended, suspended or new; or cut by a longjmp.
AtRest(t, s) ==
  /\ s.nny = 1
  /\ t = Main => s.status = "ok" /\ s.nC = 0 /\ s.errfunc = 0 /\ s.ci = << >>
  /\ t # Main /\ s.status = "ok" => s.ci = << >> /\ (s.fn => s.errfunc = 0)
  /\ s.status = "yield" =>
       /\ Framed(t, s.ci) /\ HandlerAt(t, s.ci, Len(s.ci), s.errfunc)
       /\ s.ci[Len(s.ci)].f = "yield"
       /\ \A i \in 1 .. Len(s.ci) - 1 : s.ci[i].f = "lua" \/ s.ci[i].k
Cut(t, s) == t # Main /\ s.status = "ok" /\ s.ci # << >>
Off(m, t) == IF t \in m.lost THEN Cut(t, m.th[t]) ELSE AtRest(t, m.th[t])

Fits(m, q, v, t) ==
  IF Own(m.cs, t) # {} THEN t \notin m.lost /\ Busy(m, q, v, t) ELSE Off(m, t)

Base(m, q, v) == Stacked(m.cs) /\ Level(m.cs, v) /\ \A t \in Threads : Fits(m, q, v, t)

\* The last thread runs: Lua code, or coroutine.wrap with an error to propagate.
Going(m) == m.cs[Len(m.cs)].t
Goes(m, q) ==
  m.cs # << >> => LET s == m.th[Going(m)]
                  IN /\ s.nC < HandlingCCalls /\ q[Len(m.cs)] <= Len(s.ci)
                     /\ s.ci[Len(s.ci)].f \in Code \cup {"failed"}

Good(m) == m \in Machine /\ \E q, v \in Positions : Base(m, q, v) /\ Goes(m, q)

-----------------------------------------------------------------------------
(* Prefixes and neighbours *)

\* A set of positions that is not empty has a last one.
LEMMA MaxExists ==
  ASSUME NEW n \in Nat, NEW S, S \subseteq 1 .. n, S # {}
  PROVE  \E x \in S : \A y \in S : y <= x
<1> DEFINE T == {z \in Nat : \E x \in S : z = n - x}
<1>0. \A x \in S : x \in Int /\ n - x \in Nat
  OBVIOUS
<1>1. T \subseteq Nat /\ T # {}
  BY <1>0, Zenon
<1>2. PICK z \in T : \A y \in T : ~(<<y, z>> \in OpToRel(<, Nat))
  BY <1>1, NatLessThanWellFounded, WFMin, Zenon
<1>3. \A y \in T : ~(y < z)
  BY <1>1, <1>2, Zenon DEF OpToRel
<1>4. PICK x \in S : z = n - x
  OBVIOUS
<1>5. ASSUME NEW y \in S PROVE y <= x
  <2>1. n - y \in T
    BY <1>0
  <2> QED
    BY <1>0, <1>3, <1>4, <2>1
<1> QED
  BY <1>4, <1>5

\* Max, whose definition chooses.
LEMMA MaxIs ==
  ASSUME NEW S, S \subseteq Int, NEW x \in S, \A y \in S : y <= x
  PROVE  Max(S) = x
<1>1. \A z \in S : (\A y \in S : z >= y) <=> z = x
  OBVIOUS
<1> QED
  BY <1>1, Zenon DEF Max

\* The same for the first.
LEMMA MinIs ==
  ASSUME NEW S, S \subseteq Int, NEW x \in S, \A y \in S : x <= y
  PROVE  Min(S) = x
<1>1. \A z \in S : (\A y \in S : z <= y) <=> z = x
  OBVIOUS
<1> QED
  BY <1>1, Zenon DEF Min

\* What a prefix holds.
LEMMA PrefixElements ==
  ASSUME NEW T, NEW c \in Seq(T), NEW n \in 0 .. Len(c)
  PROVE  /\ SubSeq(c, 1, n) \in Seq(T) /\ Len(SubSeq(c, 1, n)) = n
         /\ n \in Nat /\ Len(c) \in Nat /\ n <= Len(c)
         /\ \A i \in 1 .. n : SubSeq(c, 1, n)[i] = c[i]
OBVIOUS

\* The handler depends on the functions called.
LEMMA HandlerSame ==
  ASSUME NEW t, NEW s, NEW r, NEW n \in Int, NEW h, HandlerAt(t, s, n, h),
         \A i \in 1 .. n : r[i].f = s[i].f
  PROVE  HandlerAt(t, r, n, h)
BY DEF HandlerAt

\* The calls below a call are framed as all are.
LEMMA FramedPrefix ==
  ASSUME NEW t, NEW s \in Seq(FrameType), Framed(t, s), NEW n \in 1 .. Len(s)
  PROVE  Framed(t, SubSeq(s, 1, n))
<1> DEFINE r == SubSeq(s, 1, n)
<1>1. /\ r \in Seq(FrameType) /\ Len(r) = n /\ r # << >>
      /\ \A i \in 1 .. n : r[i] = s[i]
  OBVIOUS
<1> HIDE DEF r
<1>2. r[1].f = "lua"
  BY <1>1 DEF Framed
<1>3. ASSUME NEW i \in 1 .. n
      PROVE  /\ r[i].f \notin Code => ~r[i].fresh
             /\ ~r[i].fresh => i > 1 /\ r[i - 1].f \in Code
             /\ r[i].k => i > 1 /\ r[i - 1].f = "lua" /\ r[i].f \in Guarding \cup {"callk"}
             /\ r[i].yp <=> r[i].k /\ r[i].f \in Guarding
             /\ r[i].yp => HandlerAt(t, r, i - 1, r[i].old)
  <2>1. i \in 1 .. Len(s) /\ r[i] = s[i] /\ (i > 1 => r[i - 1] = s[i - 1])
    BY <1>1
  <2>2. s[i].yp => HandlerAt(t, s, i - 1, s[i].old)
    BY <2>1 DEF Framed
  <2>3. s[i].yp => HandlerAt(t, r, i - 1, s[i].old)
    <3>1. (\A x \in 1 .. i - 1 : r[x].f = s[x].f) /\ i - 1 \in Int
      BY <1>1
    <3> QED
      BY <2>2, <3>1, HandlerSame
  <2> QED
    BY <2>1, <2>3 DEF Framed
<1>4. Framed(t, r)
  BY <1>1, <1>2, <1>3 DEF Framed
<1> QED
  BY <1>4 DEF r

\* A call on top of others.
LEMMA FramedPush ==
  ASSUME NEW t, NEW s \in Seq(FrameType), Framed(t, s), NEW g \in FrameType,
         g.f \notin Code => ~g.fresh,
         ~g.fresh => s[Len(s)].f \in Code,
         g.k => s[Len(s)].f = "lua" /\ g.f \in Guarding \cup {"callk"},
         g.yp <=> g.k /\ g.f \in Guarding,
         g.yp => HandlerAt(t, s, Len(s), g.old)
  PROVE  Framed(t, Append(s, g))
<1> DEFINE r == Append(s, g)
           n == Len(s)
<1>1. /\ r \in Seq(FrameType) /\ Len(r) = n + 1 /\ r # << >> /\ n \in Nat /\ n > 0
      /\ \A i \in 1 .. n : r[i] = s[i]
      /\ r[n + 1] = g
  BY DEF Framed
<1> HIDE DEF r, n
<1>2. r[1].f = "lua"
  BY <1>1 DEF Framed, n
<1>3. ASSUME NEW i \in 1 .. n + 1
      PROVE  /\ r[i].f \notin Code => ~r[i].fresh
             /\ ~r[i].fresh => i > 1 /\ r[i - 1].f \in Code
             /\ r[i].k => i > 1 /\ r[i - 1].f = "lua" /\ r[i].f \in Guarding \cup {"callk"}
             /\ r[i].yp <=> r[i].k /\ r[i].f \in Guarding
             /\ r[i].yp => HandlerAt(t, r, i - 1, r[i].old)
  <2>1. (\A x \in 1 .. i - 1 : r[x] = s[x]) /\ i - 1 \in Int
    BY <1>1
  <2>2. r[i].yp => HandlerAt(t, s, i - 1, r[i].old)
    <3>1. CASE i \in 1 .. n
      BY <1>1, <3>1 DEF Framed, n
    <3>2. CASE i = n + 1
      <4>1. r[i] = g /\ i - 1 = n
        BY <1>1, <3>2
      <4> QED
        BY <4>1 DEF n
    <3> QED
      BY <1>1, <3>1, <3>2
  <2>3. r[i].yp => HandlerAt(t, r, i - 1, r[i].old)
    BY <2>1, <2>2, HandlerSame
  <2>4. CASE i \in 1 .. n
    <3>1. r[i] = s[i] /\ (i > 1 => r[i - 1] = s[i - 1])
      BY <1>1, <2>1, <2>4
    <3> QED
      BY <1>1, <2>3, <2>4, <3>1 DEF Framed, n
  <2>5. CASE i = n + 1
    <3>1. r[i] = g /\ r[i - 1] = s[n] /\ i > 1
      BY <1>1, <2>1, <2>5
    <3> QED
      BY <1>1, <2>3, <2>5, <3>1 DEF n
  <2> QED
    BY <1>1, <2>4, <2>5
<1>4. Framed(t, r)
  BY <1>1, <1>2, <1>3 DEF Framed
<1> QED
  BY <1>4 DEF r

\* So is the C stack below an entry.
LEMMA StackedPrefix ==
  ASSUME NEW c \in Seq(EntryType), NEW v \in Positions, Stacked(c), Level(c, v),
         NEW n \in 0 .. Len(c)
  PROVE  Stacked(SubSeq(c, 1, n)) /\ Level(SubSeq(c, 1, n), v)
<1> DEFINE b == SubSeq(c, 1, n)
<1>1. /\ b \in Seq(EntryType) /\ Len(b) = n /\ n <= Len(c)
      /\ \A i \in 1 .. n : b[i] = c[i]
  OBVIOUS
<1> HIDE DEF b
<1>2. b # << >> => b[1] = HostEntry
  BY <1>1 DEF Stacked
<1>3. Together(b)
  <2>1. Together(c)
    BY DEF Stacked
  <2>2. SUFFICES ASSUME NEW i \in 1 .. n, NEW k \in i .. n, b[i].t = b[k].t, NEW j \in i .. k
                 PROVE  b[j].t = b[i].t
    BY <1>1, Zenon DEF Together
  <2>3. b[i] = c[i] /\ b[k] = c[k] /\ b[j] = c[j]
    BY <1>1
  <2> QED
    BY <1>1, <2>1, <2>2, <2>3 DEF Together
<1>4. ASSUME NEW j \in 1 .. n PROVE Free(b, j) <=> Free(c, j)
  BY <1>1 DEF Free
<1>5. Level(b, v)
  <2>1. ASSUME NEW j \in 1 .. n
        PROVE  /\ j \in 1 .. Len(c) /\ b[j] = c[j] /\ (v[j] = 0 <=> Free(b, j))
               /\ j = 1 => v[j] = 2
               /\ j > 1 /\ c[j].a \in {"noyield", "pcall"} => v[j] = v[j - 1] + 1
               /\ j > 1 /\ c[j].a = "pcall" => c[j].nny = v[j - 1]
               /\ j > 1 /\ c[j].a = "call" => v[j] = v[j - 1]
    BY <1>1, <1>4 DEF Level
  <2> QED
    BY <1>1, <2>1 DEF Level
<1>6. Stacked(b)
  <2>1. ASSUME NEW j \in 2 .. n
        PROVE  IF b[j].a = "resume" THEN b[j].nny = 1 /\ \A i \in 1 .. j - 1 : b[i].t # b[j].t
               ELSE b[j].t = b[j - 1].t
    <3>1. /\ j \in 2 .. Len(c) /\ b[j] = c[j] /\ b[j - 1] = c[j - 1]
          /\ \A i \in 1 .. j - 1 : b[i] = c[i]
      BY <1>1
    <3> QED
      BY <3>1, Zenon DEF Stacked
  <2>2. ASSUME NEW j \in 1 .. n, b[j].a \in {"pcall", "resume"}
        PROVE  b[j].nC < HandlingCCalls
    BY <1>1, <2>2 DEF Stacked
  <2> QED
    BY <1>1, <1>2, <1>3, <2>1, <2>2 DEF Stacked
<1> QED
  BY <1>5, <1>6 DEF b

-----------------------------------------------------------------------------
(* Threads that a step leaves alone *)

\* The entries of t, and the calls they know, are the same in b.
LEMMA MannedKept ==
  ASSUME NEW c, NEW b, NEW s, NEW q, NEW p, NEW t, Manned(c, s, q, t),
         Own(b, t) = Own(c, t),
         Own(c, t) # {} => c[Len(c)].t # t,
         \A j \in Own(c, t) : b[j] = c[j] /\ p[j] = q[j]
  PROVE  Manned(b, s, p, t)
<1>1. Ordered(b, p, t)
  BY DEF Manned, Linked, Ordered
<1>2. Placed(b, s, p, t)
  BY DEF Manned, Linked, Placed
<1>3. Claimed(b, s, p, t)
  BY Zenon DEF Manned, Linked, Claimed
<1>4. AllMade(b, s, p, t)
  BY DEF Manned, Linked, AllMade
<1>5. Stuck(b, s, p, t)
  BY DEF Manned, Linked, Stuck
<1>6. Covered(b, s, p, t)
  BY DEF Manned, Covered
<1> QED
  BY <1>1, <1>2, <1>3, <1>4, <1>5, <1>6 DEF Manned, Linked

\* The entries of t, and what they know, are the same in m and w; t does not run
\* in either.
LEMMA FitsKept ==
  ASSUME NEW m, NEW q, NEW v, NEW w, NEW p, NEW x,
         NEW t, Fits(m, q, v, t),
         w.th[t] = m.th[t], t \in w.lost <=> t \in m.lost,
         Own(w.cs, t) = Own(m.cs, t), Len(m.cs) \in Nat, Len(w.cs) \in Nat,
         \A j \in Own(m.cs, t) : /\ j < Len(m.cs) /\ j < Len(w.cs)
                                 /\ w.cs[j] = m.cs[j] /\ p[j] = q[j] /\ x[j] = v[j]
  PROVE  Fits(w, p, x, t)
<1>1. CASE Own(m.cs, t) = {}
  BY <1>1 DEF Fits, Off
<1>2. CASE Own(m.cs, t) # {}
  <2>1. t \notin w.lost /\ Busy(m, q, v, t)
    BY <1>2 DEF Fits
  <2>2. Own(m.cs, t) \subseteq Nat
    BY DEF Own
  <2>3. Manned(w.cs, w.th[t].ci, p, t)
    <3>1. Own(m.cs, t) # {} => m.cs[Len(m.cs)].t # t
      <4>1. Len(m.cs) \notin Own(m.cs, t)
        BY <2>2
      <4>2. Own(m.cs, t) # {} => Len(m.cs) \in 1 .. Len(m.cs)
        BY DEF Own
      <4> QED
        BY <4>1, <4>2 DEF Own
    <3>2. Manned(m.cs, m.th[t].ci, q, t)
      BY <2>1 DEF Busy
    <3> QED
      BY <3>1, <3>2, MannedKept
  <2>4. Counted(w.cs, x, t, w.th[t])
    BY <2>1, <2>2 DEF Busy, Counted
  <2>5. Busy(w, p, x, t)
    BY <2>1, <2>3, <2>4 DEF Busy
  <2> QED
    BY <1>2, <2>1, <2>5 DEF Fits
<1> QED
  BY <1>1, <1>2

\* The threads of the first n entries keep them when the others are cut.
LEMMA OwnPrefix ==
  ASSUME NEW c \in Seq(EntryType), Together(c), NEW n \in 1 .. Len(c), NEW t,
         t # c[n].t, Own(SubSeq(c, 1, n), t) # {}
  PROVE  /\ Own(SubSeq(c, 1, n), t) = Own(c, t)
         /\ \A j \in Own(c, t) : j < n /\ SubSeq(c, 1, n)[j] = c[j]
<1> DEFINE b == SubSeq(c, 1, n)
<1>1. /\ b \in Seq(EntryType) /\ Len(b) = n /\ n <= Len(c) /\ n \in Nat /\ Len(c) \in Nat
      /\ \A i \in 1 .. n : b[i] = c[i]
  OBVIOUS
<1> HIDE DEF b
<1>2. PICK i \in 1 .. n : c[i].t = t
  BY <1>1 DEF Own, b
<1>3. ASSUME NEW j \in 1 .. Len(c), c[j].t = t PROVE j < n
  <2> SUFFICES ASSUME j >= n PROVE FALSE
    BY <1>1
  <2>1. i \in 1 .. Len(c) /\ j \in i .. Len(c) /\ n \in i .. j
    BY <1>1
  <2> QED
    BY <1>2, <1>3, <2>1 DEF Together
<1>4. ASSUME NEW j PROVE j \in Own(b, t) <=> j \in Own(c, t)
  BY <1>1, <1>3 DEF Own
<1> QED
  BY <1>1, <1>3, <1>4, Zenon DEF Own, b

-----------------------------------------------------------------------------
(* Cutting the C stack and the calls of a thread *)

\* What is left of the calls s of t when the first n entries stay, and p calls.
CutAt(c, s, q, t, n, p) ==
  \A j \in Own(c, t) :
    IF j <= n THEN q[j] <= p
    ELSE p < q[j] /\ (c[j].a \in {"noyield", "pcall"} => p < q[j] - 1)

\* The entries that are left still know the calls that are.
LEMMA MannedCut ==
  ASSUME NEW c \in Seq(EntryType), NEW s \in Seq(FrameType), NEW q \in Positions, NEW t,
         Manned(c, s, q, t), NEW n \in 1 .. Len(c), NEW p \in 1 .. Len(s), c[n].t = t,
         CutAt(c, s, q, t, n, p)
  PROVE  Manned(SubSeq(c, 1, n), SubSeq(s, 1, p), q, t)
<1> DEFINE b == SubSeq(c, 1, n)
           r == SubSeq(s, 1, p)
           O == Own(c, t)
           N == Own(b, t)
<1>1. /\ Len(b) = n /\ n <= Len(c) /\ n \in Nat \ {0} /\ Len(c) \in Nat
      /\ \A i \in 1 .. n : b[i] = c[i]
  OBVIOUS
<1>2. /\ Len(r) = p /\ p <= Len(s) /\ p \in Nat \ {0} /\ Len(s) \in Nat
      /\ \A i \in 1 .. p : r[i] = s[i]
  OBVIOUS
<1> HIDE DEF b, r, O, N
<1>3. \A j : j \in N <=> j \in O /\ j <= n
  <2>1. ASSUME NEW j PROVE j \in N <=> j \in O /\ j <= n
    BY <1>1 DEF Own, O, N
  <2> QED
    BY <2>1
<1>4. O \subseteq Nat \ {0} /\ (\A j \in O : q[j] \in Nat) /\ \A j \in N : b[j] = c[j]
  <2>1. O \subseteq Nat \ {0}
    BY <1>1 DEF Own, O
  <2>2. \A j \in N : b[j] = c[j]
    BY <1>1 DEF Own, N
  <2> QED
    BY <2>1, <2>2, Zenon DEF Positions
<1>5. \A j \in O : IF j <= n THEN q[j] <= p
                   ELSE p < q[j] /\ (c[j].a \in {"noyield", "pcall"} => p < q[j] - 1)
  BY DEF CutAt, O
<1>6. Manned(c, s, q, t)
  OBVIOUS
<1>7. Ordered(b, q, t)
  <2>1. \A j, k \in O : j < k => q[j] < q[k] \/ (q[j] = q[k] /\ c[k].a = "handler")
    BY <1>6 DEF Manned, Linked, Ordered, O
  <2>2. \A j, k \in N : j < k => q[j] < q[k] \/ (q[j] = q[k] /\ b[k].a = "handler")
    BY ONLY <1>3, <1>4, <2>1, Zenon
  <2> QED
    BY <2>2 DEF Ordered, N
<1>8. Placed(b, r, q, t)
  <2>1. \A j \in O : Entered(s, q[j]) \/ (c[Len(c)].t = t /\ q[j] = Len(s) + 1)
    BY <1>6 DEF Manned, Linked, Placed, O
  <2>2. ASSUME NEW j \in N PROVE Entered(r, q[j])
    <3>1. j \in O /\ q[j] \in Nat /\ q[j] <= p
      BY <1>3, <1>4, <1>5, Zenon
    <3>2. Entered(s, q[j])
      BY <1>2, <2>1, <3>1
    <3> QED
      BY <1>2, <3>1, <3>2 DEF Entered
  <2> QED
    BY <2>2 DEF Placed, N
<1>9. Claimed(b, r, q, t)
  <2>1. \A j \in O : \A i \in q[j] + 1 .. Len(s) : s[i].fresh => \E k \in O : q[k] = i
    BY <1>6 DEF Manned, Linked, Claimed, O
  <2>2. ASSUME NEW j \in N, NEW i \in q[j] + 1 .. Len(r), r[i].fresh
        PROVE  \E k \in N : q[k] = i
    <3>1. j \in O /\ q[j] \in Nat
      BY <1>3, <1>4, Zenon
    <3>2. i \in 1 .. p /\ i \in q[j] + 1 .. Len(s) /\ r[i] = s[i]
      BY <1>2, <3>1
    <3>3. PICK k \in O : q[k] = i
      BY <2>1, <2>2, <3>1, <3>2
    <3>4. k <= n
      BY <1>1, <1>2, <1>4, <1>5, <3>2, <3>3
    <3> QED
      BY <1>3, <3>3, <3>4
  <2> QED
    BY <2>2 DEF Claimed, N
<1>10. AllMade(b, r, q, t)
  <2>1. ASSUME NEW j \in N PROVE Made(t, r, b[j], j, q[j])
    <3>1. /\ j \in O /\ j <= n /\ q[j] \in Nat /\ b[j] = c[j] /\ j \in Nat
          /\ Made(t, s, c[j], j, q[j])
      BY <1>3, <1>4, <1>6 DEF Manned, Linked, AllMade, O
    <3>2. q[j] <= p + 1
      BY <1>2, <1>5, <3>1
    <3>3. q[j] > 1 => r[q[j] - 1] = s[q[j] - 1]
      BY <1>2, <3>1, <3>2
    <3>4. HandlerAt(t, s, q[j] - 2, c[j].errfunc) => HandlerAt(t, r, q[j] - 2, c[j].errfunc)
      <4>1. q[j] - 2 \in Int /\ \A i \in 1 .. q[j] - 2 : r[i].f = s[i].f
        BY <1>2, <3>1, <3>2
      <4> QED
        BY <4>1, HandlerSame
    <3>5. q[j] > 2 => q[j] > 1
      BY <3>1
    <3> QED
      BY <3>1, <3>3, <3>4, <3>5 DEF Made
  <2> QED
    BY <2>1 DEF AllMade, N
<1>11. Stuck(b, r, q, t)
  <2>1. ASSUME NEW j \in N, b[j].a \in Blocking, NEW i \in q[j] .. Len(r) PROVE ~r[i].k
    <3>1. j \in O /\ q[j] \in Nat /\ c[j].a \in Blocking
      BY <1>3, <1>4, <2>1, Zenon
    <3>2. i \in q[j] .. Len(s)
      BY <1>2, <3>1
    <3>3. ~s[i].k
      BY <1>6, <3>1, <3>2 DEF Manned, Linked, Stuck, O
    <3>4. q[j] > 0
      <4>1. Entered(s, q[j]) \/ q[j] = Len(s) + 1
        BY <1>6, <3>1 DEF Manned, Linked, Placed, O
      <4> QED
        BY <1>2, <4>1 DEF Entered
    <3> QED
      BY <1>2, <3>1, <3>2, <3>3, <3>4
  <2> QED
    BY <2>1 DEF Stuck, N
<1>12. Covered(b, r, q, t)
  <2>1. ASSUME t # Main, NEW i \in 1 .. Len(r)
        PROVE  Leaves(r, i) \/ \E j \in N : Covers(b[j], q[j], i)
    <3>1. i \in 1 .. Len(s) /\ r[i] = s[i] /\ i <= p /\ i \in Nat
      BY <1>2
    <3>2. CASE Leaves(s, i)
      BY <1>2, <3>1, <3>2 DEF Leaves
    <3>3. CASE ~Leaves(s, i)
      <4>1. PICK j \in O : Covers(c[j], q[j], i)
        BY <1>6, <2>1, <3>1, <3>3 DEF Manned, Covered, O
      <4>2. i >= q[j] \/ (c[j].a \in {"noyield", "pcall"} /\ i = q[j] - 1)
        BY <4>1 DEF Covers, Blocking
      <4>3. j <= n
        BY <1>1, <1>2, <1>4, <1>5, <3>1, <4>2
      <4>4. j \in N /\ b[j] = c[j]
        BY <1>3, <1>4, <4>3
      <4> QED
        BY <4>1, <4>4
    <3> QED
      BY <3>2, <3>3
  <2> QED
    BY <2>1 DEF Covered, N
<1>13. Manned(b, r, q, t)
  BY <1>7, <1>8, <1>9, <1>10, <1>11, <1>12 DEF Manned, Linked
<1> QED
  BY <1>13 DEF b, r

\* The other threads of w either are as in m, or have left the C stack.
Apart(m, q, v, w, t) ==
  \A u \in Threads \ {t} :
    IF Own(w.cs, u) # {} THEN Fits(m, q, v, u) /\ w.th[u] = m.th[u] /\ u \notin w.lost
    ELSE Off(w, u)

\* w has the first n entries of m; the last of them is one of t.
CutTo(m, q, v, n, w, t) ==
  /\ m \in Machine /\ q \in Positions /\ v \in Positions /\ w \in Machine /\ t \in Threads
  /\ Stacked(m.cs) /\ Level(m.cs, v)
  /\ n \in 1 .. Len(m.cs) /\ t = m.cs[n].t /\ w.cs = SubSeq(m.cs, 1, n)
  /\ Apart(m, q, v, w, t)

\* The threads but t.
LEMMA CutOthers ==
  ASSUME NEW m, NEW q, NEW v, NEW n, NEW w, NEW t, CutTo(m, q, v, n, w, t)
  PROVE  /\ Stacked(w.cs) /\ Level(w.cs, v) /\ Len(w.cs) = n /\ n \in Nat \ {0}
         /\ \A j \in 1 .. n : w.cs[j] = m.cs[j]
         /\ \A u \in Threads \ {t} : Fits(w, q, v, u)
<1> USE DEF CutTo
<1> DEFINE c == m.cs
           b == w.cs
<1>1. c \in Seq(EntryType)
  BY DEF Machine
<1>2. /\ b = SubSeq(c, 1, n) /\ Len(b) = n /\ n <= Len(c) /\ n \in Nat \ {0}
      /\ Len(c) \in Nat /\ n \in 0 .. Len(c) /\ \A i \in 1 .. n : b[i] = c[i]
  <2>1. c \in Seq(EntryType) /\ n \in 1 .. Len(c) /\ b = SubSeq(c, 1, n)
    BY <1>1
  <2> HIDE DEF c, b
  <2>2. n \in 0 .. Len(c) /\ n \in Nat \ {0}
    BY ONLY <2>1
  <2> QED
    BY ONLY <2>1, <2>2, PrefixElements
<1>3. Stacked(b) /\ Level(b, v)
  <2>1. Stacked(c) /\ Level(c, v) /\ v \in Positions
    OBVIOUS
  <2> HIDE DEF c, b
  <2> QED
    BY ONLY <1>1, <1>2, <2>1, StackedPrefix
<1>4. ASSUME NEW u \in Threads, u # t PROVE Fits(w, q, v, u)
  <2>1. CASE Own(b, u) = {}
    BY <1>4, <2>1 DEF Fits, Apart
  <2>2. CASE Own(b, u) # {}
    <3>1. Together(c) /\ u # c[n].t
      BY <1>4 DEF Stacked
    <3>2. Own(b, u) = Own(c, u) /\ \A j \in Own(c, u) : j < n /\ b[j] = c[j]
      <4>1. c \in Seq(EntryType) /\ n \in 1 .. Len(c)
        BY <1>1
      <4> HIDE DEF c, b
      <4> QED
        BY ONLY <1>2, <2>2, <3>1, <4>1, OwnPrefix, Zenon
    <3>3. Fits(m, q, v, u) /\ w.th[u] = m.th[u] /\ u \notin w.lost
      BY <1>4, <2>2 DEF Apart
    <3>4. u \notin m.lost
      BY <2>2, <3>2, <3>3 DEF Fits
    <3>5. \A j \in Own(c, u) : j < Len(c) /\ j < Len(b)
      <4> HIDE DEF c, b
      <4> QED
        BY ONLY <1>2, <3>2 DEF Own
    <3> QED
      BY <1>2, <3>2, <3>3, <3>4, <3>5, FitsKept, Zenon
  <2> QED
    BY <2>1, <2>2
<1> QED
  BY <1>2, <1>3, <1>4

\* The first n entries are left, and the first p calls of the thread of the n-th
\* one; the threads of the others are off the C stack.
LEMMA CutBase ==
  ASSUME NEW m, NEW q, NEW v, NEW n, NEW w, NEW t, CutTo(m, q, v, n, w, t),
         Manned(m.cs, m.th[t].ci, q, t), t \notin w.lost,
         NEW p \in 1 .. Len(m.th[t].ci), w.th[t].ci = SubSeq(m.th[t].ci, 1, p),
         Sound(t, w.th[t]), w.th[t].nny = v[n], CutAt(m.cs, m.th[t].ci, q, t, n, p)
  PROVE  Base(w, q, v)
<1> DEFINE c == m.cs
           b == w.cs
<1>0. /\ m \in Machine /\ q \in Positions /\ t \in Threads
      /\ n \in 1 .. Len(c) /\ c[n].t = t /\ b = SubSeq(c, 1, n)
  BY Zenon DEF CutTo
<1>1. c \in Seq(EntryType) /\ m.th[t].ci \in Seq(FrameType)
  BY <1>0 DEF Machine, StateType
<1>2. /\ Stacked(b) /\ Level(b, v) /\ Len(b) = n /\ n \in Nat \ {0}
      /\ \A j \in 1 .. n : b[j] = c[j]
      /\ \A u \in Threads \ {t} : Fits(w, q, v, u)
  BY CutOthers
<1>3. Manned(b, w.th[t].ci, q, t)
  <2>1. /\ c \in Seq(EntryType) /\ q \in Positions /\ Manned(c, m.th[t].ci, q, t)
        /\ n \in 1 .. Len(c) /\ c[n].t = t /\ CutAt(c, m.th[t].ci, q, t, n, p)
        /\ p \in 1 .. Len(m.th[t].ci) /\ b = SubSeq(c, 1, n)
        /\ w.th[t].ci = SubSeq(m.th[t].ci, 1, p)
    BY <1>0, <1>1
  <2> HIDE DEF c, b
  <2> QED
    BY ONLY <1>1, <2>1, MannedCut
<1>4. n \in Own(b, t) /\ (\A j \in Own(b, t) : n <= j => j = n)
  <2> HIDE DEF c, b
  <2> QED
    BY ONLY <1>0, <1>2 DEF Own
<1>5. Counted(b, v, t, w.th[t])
  <2>1. w.th[t].nny = v[n]
    OBVIOUS
  <2>2. ASSUME NEW j \in Own(b, t), \A k \in Own(b, t) : k <= j PROVE j = n
    BY <1>4, <2>2
  <2>3. ~(n < Len(b))
    BY <1>2
  <2> HIDE DEF c, b
  <2>4. ASSUME NEW j \in Own(b, t), \A k \in Own(b, t) : k <= j
        PROVE  w.th[t].nny = v[j] /\ ~(j < Len(b))
    BY <2>1, <2>2, <2>3, <2>4, Zenon
  <2> QED
    BY ONLY <2>4, Zenon DEF Counted
<1>6. Fits(w, q, v, t)
  BY <1>3, <1>4, <1>5 DEF Fits, Busy
<1> QED
  BY <1>0, <1>2, <1>6 DEF Base
-----------------------------------------------------------------------------
(* A call or an entry more *)

\* What a sequence holds with one element more.
LEMMA AppendElements ==
  ASSUME NEW T, NEW c \in Seq(T), NEW e \in T
  PROVE  /\ Append(c, e) \in Seq(T) /\ Len(Append(c, e)) = Len(c) + 1 /\ Len(c) \in Nat
         /\ \A i \in 1 .. Len(c) : Append(c, e)[i] = c[i]
         /\ Append(c, e)[Len(c) + 1] = e
OBVIOUS

\* No call of t is above that of the last entry.
LEMMA LastPlace ==
  ASSUME NEW c, NEW s, NEW q \in Positions, NEW t, Linked(c, s, q, t),
         Len(c) \in Nat, Len(s) \in Nat, c[Len(c)].t = t, NEW j \in Own(c, t)
  PROVE  /\ j \in 1 .. Len(c) /\ q[j] \in Nat \ {0} /\ q[j] <= q[Len(c)]
         /\ q[j] <= Len(s) + 1
         /\ q[j] <= Len(s) => Entered(s, q[j])
<1>1. j \in 1 .. Len(c) /\ Len(c) \in Own(c, t) /\ q[j] \in Nat /\ q[Len(c)] \in Nat
  BY DEF Own, Positions
<1>2. Entered(s, q[j]) \/ q[j] = Len(s) + 1
  BY DEF Linked, Placed
<1>3. Entered(s, q[j]) => q[j] \in 1 .. Len(s)
  BY DEF Entered
<1>4. j < Len(c) => q[j] <= q[Len(c)]
  <2>1. j < Len(c) => q[j] < q[Len(c)] \/ q[j] = q[Len(c)]
    BY <1>1 DEF Linked, Ordered
  <2> QED
    BY <1>1, <2>1
<1>5. j = Len(c) => q[j] <= q[Len(c)]
  BY <1>1
<1> QED
  BY <1>1, <1>2, <1>3, <1>4, <1>5

\* The function that the last entry has to run is called; or another one that
\* needs no entry.
LEMMA LinkedCall ==
  ASSUME NEW c, NEW s \in Seq(FrameType), NEW q \in Positions, NEW t,
         Linked(c, s, q, t), NEW g \in FrameType, Len(c) \in Nat \ {0}, c[Len(c)].t = t,
         \/ g.fresh /\ g.f \in Code /\ q[Len(c)] = Len(s) + 1
         \/ ~g.fresh /\ q[Len(c)] <= Len(s),
         g.k => \A j \in Own(c, t) : c[j].a \notin Blocking
  PROVE  Linked(c, Append(s, g), q, t)
<1> DEFINE r == Append(s, g)
           O == Own(c, t)
<1>1. /\ Len(r) = Len(s) + 1 /\ Len(s) \in Nat
      /\ \A i \in 1 .. Len(s) : r[i] = s[i]
      /\ r[Len(s) + 1] = g
  BY AppendElements
<1> HIDE DEF r, O
<1>2. ASSUME NEW j \in O
      PROVE  /\ j \in 1 .. Len(c) /\ q[j] \in Nat \ {0} /\ q[j] <= q[Len(c)]
             /\ q[j] <= Len(s) + 1
             /\ q[j] <= Len(s) => Entered(s, q[j])
  BY <1>1, LastPlace, Zenon DEF O
<1>3. Ordered(c, q, t)
  BY DEF Linked
<1>4. Len(c) \in O /\ q[Len(c)] \in Nat
  BY DEF O, Own, Positions
<1>5. Placed(c, r, q, t)
  <2>1. ASSUME NEW j \in O PROVE Entered(r, q[j])
    <3>1. CASE q[j] <= Len(s)
      <4>1. Entered(s, q[j])
        BY <1>2, <3>1
      <4> QED
        BY <1>1, <4>1 DEF Entered
    <3>2. CASE ~(q[j] <= Len(s))
      <4>1. q[j] = Len(s) + 1
        BY <1>1, <1>2, <3>2
      <4>2. ~(q[Len(c)] <= Len(s))
        BY <1>1, <1>2, <1>4, <4>1
      <4>3. g.fresh /\ g.f \in Code
        BY <4>2
      <4> QED
        BY <1>1, <4>1, <4>3 DEF Entered
    <3> QED
      BY <3>1, <3>2
  <2> QED
    BY <2>1 DEF Placed, O
<1>6. Claimed(c, r, q, t)
  <2>1. ASSUME NEW j \in O, NEW i \in q[j] + 1 .. Len(r), r[i].fresh
        PROVE  \E k \in O : q[k] = i
    <3>1. CASE i \in q[j] + 1 .. Len(s)
      <4>1. r[i] = s[i]
        BY <1>1, <1>2, <3>1
      <4> QED
        BY <2>1, <3>1, <4>1 DEF Linked, Claimed, O
    <3>2. CASE i = Len(s) + 1
      BY <1>1, <1>4, <2>1, <3>2
    <3> QED
      BY <1>1, <1>2, <3>1, <3>2
  <2> QED
    BY <2>1 DEF Claimed, O
<1>7. AllMade(c, r, q, t)
  <2>1. ASSUME NEW j \in O PROVE Made(t, r, c[j], j, q[j])
    <3>1. /\ Made(t, s, c[j], j, q[j])
      BY DEF Linked, AllMade, O
    <3>2. q[j] > 1 => r[q[j] - 1] = s[q[j] - 1]
      BY <1>1, <1>2
    <3>3. HandlerAt(t, s, q[j] - 2, c[j].errfunc) => HandlerAt(t, r, q[j] - 2, c[j].errfunc)
      <4>1. q[j] - 2 \in Int /\ \A i \in 1 .. q[j] - 2 : r[i].f = s[i].f
        BY <1>1, <1>2
      <4> QED
        BY <4>1, HandlerSame
    <3>4. q[j] > 2 => q[j] > 1
      BY <1>2
    <3> QED
      BY <3>1, <3>2, <3>3, <3>4 DEF Made
  <2> QED
    BY <2>1 DEF AllMade, O
<1>8. Stuck(c, r, q, t)
  <2>1. ASSUME NEW j \in O, c[j].a \in Blocking, NEW i \in q[j] .. Len(r) PROVE ~r[i].k
    <3>1. CASE i \in q[j] .. Len(s)
      <4>1. r[i] = s[i]
        BY <1>1, <1>2, <3>1
      <4> QED
        BY <2>1, <3>1, <4>1 DEF Linked, Stuck, O
    <3>2. CASE i = Len(s) + 1
      BY <1>1, <2>1, <3>2 DEF O
    <3> QED
      BY <1>1, <1>2, <3>1, <3>2
  <2> QED
    BY <2>1 DEF Stuck, O
<1>9. Linked(c, r, q, t)
  BY <1>3, <1>5, <1>6, <1>7, <1>8 DEF Linked
<1> QED
  BY <1>9 DEF r

\* The entries of a thread when another is made.
LEMMA OwnEntry ==
  ASSUME NEW c \in Seq(EntryType), NEW e \in EntryType, NEW t
  PROVE  Own(Append(c, e), t) = IF e.t = t THEN Own(c, t) \cup {Len(c) + 1} ELSE Own(c, t)
<1> DEFINE b == Append(c, e)
<1>1. /\ Len(b) = Len(c) + 1 /\ Len(c) \in Nat
      /\ \A i \in 1 .. Len(c) : b[i] = c[i]
      /\ b[Len(c) + 1] = e
  BY AppendElements
<1> HIDE DEF b
<1>2. ASSUME NEW j PROVE j \in Own(b, t) <=> j \in Own(c, t) \/ (j = Len(c) + 1 /\ e.t = t)
  <2>1. CASE j \in 1 .. Len(c)
    BY <1>1, <2>1 DEF Own
  <2>2. CASE j = Len(c) + 1
    BY <1>1, <2>2 DEF Own
  <2>3. CASE j \notin 1 .. Len(c) /\ j # Len(c) + 1
    BY <1>1, <2>3 DEF Own
  <2> QED
    BY <2>1, <2>2, <2>3
<1> QED
  BY <1>2, Zenon DEF b

\* What is known of entry n + 1 is x.
With(q, n, x) == [q EXCEPT ![n + 1] = x]

\* The others are as they were.
LEMMA OneMore ==
  ASSUME NEW v \in Positions, NEW n \in Nat, NEW z \in Nat
  PROVE  /\ With(v, n, z) \in Positions
         /\ \A i \in 1 .. n : With(v, n, z)[i] = v[i]
         /\ With(v, n, z)[n + 1] = z
<1>1. n + 1 \in Nat /\ v \in [Nat -> Nat]
  BY DEF Positions
<1>2. ASSUME NEW i \in 1 .. n PROVE i \in Nat /\ i # n + 1
  OBVIOUS
<1> QED
  BY <1>1, <1>2 DEF Positions, With

\* An entry for the call to come; above an entry that still has to make its call
\* only that of a message handler.
LEMMA LinkedEntry ==
  ASSUME NEW c \in Seq(EntryType), NEW s \in Seq(FrameType), NEW q \in Positions, NEW t,
         Linked(c, s, q, t), NEW e \in EntryType, Len(c) > 0, c[Len(c)].t = t, e.t = t,
         e.a = "handler" \/ q[Len(c)] <= Len(s),
         Made(t, s, e, Len(c) + 1, Len(s) + 1)
  PROVE  Linked(Append(c, e), s, With(q, Len(c), Len(s) + 1), t)
<1> DEFINE b == Append(c, e)
           p == With(q, Len(c), Len(s) + 1)
           O == Own(c, t)
           n == Len(c) + 1
           x == Len(s) + 1
<1>1. /\ Len(b) = n /\ n \in Nat /\ x \in Nat /\ Len(c) \in Nat /\ Len(s) \in Nat
      /\ x = Len(s) + 1
      /\ \A i \in 1 .. Len(c) : b[i] = c[i]
      /\ b[n] = e
  BY AppendElements
<1>2. Own(b, t) = O \cup {n} /\ n \notin O /\ O \subseteq 1 .. Len(c)
  BY <1>1, OwnEntry DEF Own
<1>3. ASSUME NEW j \in O
      PROVE  /\ j \in 1 .. Len(c) /\ j < n /\ p[j] = q[j] /\ b[j] = c[j]
             /\ q[j] \in Nat \ {0} /\ q[j] <= q[Len(c)] /\ q[j] <= x
             /\ q[j] <= Len(s) => Entered(s, q[j])
  <2>1. /\ q[j] \in Nat \ {0} /\ q[j] <= q[Len(c)] /\ q[j] <= x
        /\ q[j] <= Len(s) => Entered(s, q[j])
    BY <1>1, LastPlace, Zenon
  <2>2. j \in 1 .. Len(c)
    BY <1>2
  <2>3. b[j] = c[j]
    BY <1>1, <2>2
  <2>4. j \in Nat /\ j < n /\ j # n
    BY <1>1, <2>2
  <2>5. p[j] = q[j]
    BY <1>1, <2>2, OneMore
  <2> QED
    BY <2>1, <2>2, <2>3, <2>4, <2>5
<1>4. p[n] = x
  BY <1>1, OneMore, Zenon
<1>5. e.a = "handler" \/ q[Len(c)] < x
  BY <1>1 DEF Positions
<1>6. Made(t, s, e, n, x)
  OBVIOUS
<1> HIDE DEF b, p, O, n, x
<1>7. Ordered(b, p, t)
  <2>1. \A j, k \in O : j < k => q[j] < q[k] \/ (q[j] = q[k] /\ c[k].a = "handler")
    BY DEF Linked, Ordered, O
  <2>2. \A j \in O : q[j] < x \/ (q[j] = x /\ e.a = "handler")
    <3>1. q[Len(c)] \in Nat
      BY <1>1 DEF Positions
    <3> QED
      BY <1>1, <1>3, <1>5, <3>1
  <2>3. ASSUME NEW j \in O \cup {n}, NEW k \in O \cup {n}, j < k
        PROVE  p[j] < p[k] \/ (p[j] = p[k] /\ b[k].a = "handler")
    <3>1. CASE k \in O
      <4>1. j \in O
        BY <1>3, <1>1, <2>3, <3>1
      <4> QED
        BY <1>3, <2>1, <2>3, <3>1, <4>1
    <3>2. CASE k = n
      <4>1. j \in O
        BY <1>1, <2>3, <3>2
      <4> QED
        BY <1>1, <1>3, <1>4, <2>2, <3>2, <4>1
    <3> QED
      BY <3>1, <3>2
  <2> QED
    BY <1>2, <2>3, Zenon DEF Ordered
<1>8. Placed(b, s, p, t)
  <2>1. b[Len(b)].t = t
    BY <1>1
  <2>2. ASSUME NEW j \in O \cup {n} PROVE Entered(s, p[j]) \/ p[j] = Len(s) + 1
    BY <1>1, <1>3, <1>4
  <2> QED
    BY <1>2, <2>1, <2>2, Zenon DEF Placed
<1>9. Claimed(b, s, p, t)
  <2>1. ASSUME NEW j \in O \cup {n}, NEW i \in p[j] + 1 .. Len(s), s[i].fresh
        PROVE  \E k \in O : p[k] = i
    <3>1. j \in O
      BY <1>1, <1>4, <2>1
    <3>2. PICK k \in O : q[k] = i
      BY <1>3, <2>1, <3>1 DEF Linked, Claimed, O
    <3> QED
      BY <1>3, <3>2
  <2> QED
    BY <1>2, <2>1 DEF Claimed
<1>10. AllMade(b, s, p, t)
  <2>1. ASSUME NEW j \in O PROVE Made(t, s, b[j], j, p[j])
    BY <1>3 DEF Linked, AllMade, O
  <2> QED
    BY <1>1, <1>2, <1>4, <1>6, <2>1, Zenon DEF AllMade
<1>11. Stuck(b, s, p, t)
  <2>1. ASSUME NEW j \in O, b[j].a \in Blocking PROVE \A i \in p[j] .. Len(s) : ~s[i].k
    BY <1>3, <2>1, Zenon DEF Linked, Stuck, O
  <2>2. \A i \in p[n] .. Len(s) : ~s[i].k
    BY <1>1, <1>4
  <2> QED
    BY <1>2, <2>1, <2>2, Zenon DEF Stuck
<1>12. Linked(b, s, p, t)
  BY <1>7, <1>8, <1>9, <1>10, <1>11 DEF Linked
<1> QED
  BY <1>12 DEF b, p, n, x

\* What was covered stays so under a call, unless the top was leaving already.
LEMMA CoveredCall ==
  ASSUME NEW c, NEW s \in Seq(FrameType), NEW q, NEW t, Covered(c, s, q, t),
         s # << >> => s[Len(s)].f \notin Leaving, NEW g \in FrameType, NEW b, NEW p,
         Own(c, t) \subseteq Own(b, t),
         \A j \in Own(c, t) : b[j] = c[j] /\ p[j] = q[j],
         \/ g.f = "lua" \/ g.k \/ g.f \in Leaving
         \/ \E j \in Own(b, t) : Covers(b[j], p[j], Len(s) + 1)
  PROVE  Covered(b, Append(s, g), p, t)
<1> DEFINE r == Append(s, g)
<1>1. /\ Len(r) = Len(s) + 1 /\ Len(s) \in Nat
      /\ \A i \in 1 .. Len(s) : r[i] = s[i]
      /\ r[Len(s) + 1] = g
  BY AppendElements
<1> HIDE DEF r
<1>2. ASSUME t # Main, NEW i \in 1 .. Len(r)
      PROVE  Leaves(r, i) \/ \E j \in Own(b, t) : Covers(b[j], p[j], i)
  <2>1. CASE i \in 1 .. Len(s)
    <3>1. Leaves(s, i) \/ \E j \in Own(c, t) : Covers(c[j], q[j], i)
      BY <1>2, <2>1 DEF Covered
    <3>2. CASE Leaves(s, i)
      <4>1. s[i].f = "lua" \/ s[i].k
        BY <1>1, <2>1, <3>2 DEF Leaves
      <4> QED
        BY <1>1, <2>1, <4>1 DEF Leaves
    <3>3. CASE \E j \in Own(c, t) : Covers(c[j], q[j], i)
      BY <3>3
    <3> QED
      BY <3>1, <3>2, <3>3
  <2>2. CASE i = Len(s) + 1
    BY <1>1, <2>2 DEF Leaves
  <2> QED
    BY <1>1, <2>1, <2>2
<1> QED
  BY <1>2 DEF Covered, r


\* What may yield, with an entry of the thread that runs.
LEMMA FreeEntry ==
  ASSUME NEW c \in Seq(EntryType), NEW e \in EntryType, Len(c) > 0, e.t = c[Len(c)].t
  PROVE  /\ \A j \in 1 .. Len(c) : Free(Append(c, e), j) <=> Free(c, j)
         /\ Free(Append(c, e), Len(c) + 1) <=> Free(c, Len(c)) /\ e.a \notin Blocking
<1> DEFINE b == Append(c, e)
           n == Len(c)
<1>1. /\ Len(b) = n + 1 /\ n \in Nat \ {0}
      /\ \A i \in 1 .. n : b[i] = c[i]
      /\ b[n + 1] = e
  BY AppendElements
<1>2. e.t = c[n].t
  OBVIOUS
<1> HIDE DEF b, n
<1>3. ASSUME NEW j \in 1 .. n PROVE Free(b, j) <=> Free(c, j)
  <2>1. \A i \in 1 .. j : b[i] = c[i]
    BY <1>1
  <2>2. b[j] = c[j]
    BY <1>1
  <2> QED
    BY <2>1, <2>2 DEF Free
<1>4. Free(b, n + 1) => Free(c, n) /\ e.a \notin Blocking
  BY <1>1, <1>2 DEF Free
<1>5. Free(c, n) /\ e.a \notin Blocking => Free(b, n + 1)
  BY <1>1, <1>2 DEF Free
<1> QED
  BY <1>3, <1>4, <1>5 DEF b, n

\* An entry of the thread that runs.
LEMMA StackedEntry ==
  ASSUME NEW c \in Seq(EntryType), Stacked(c), Len(c) > 0, NEW e \in EntryType,
         e.t = c[Len(c)].t, e.a # "resume", e.a = "pcall" => e.nC < HandlingCCalls
  PROVE  Stacked(Append(c, e))
<1> DEFINE b == Append(c, e)
           n == Len(c)
<1>1. /\ Len(b) = n + 1 /\ n \in Nat \ {0}
      /\ \A i \in 1 .. n : b[i] = c[i]
      /\ b[n + 1] = e
  BY AppendElements
<1>2. e.t = c[n].t
  OBVIOUS
<1>3. c # << >> /\ Len(c) = n
  OBVIOUS
<1> HIDE DEF b, n
<1>4. b[1] = HostEntry
  BY <1>1, <1>3 DEF Stacked
<1>5. ASSUME NEW j \in 2 .. n + 1
      PROVE  IF b[j].a = "resume" THEN b[j].nny = 1 /\ \A i \in 1 .. j - 1 : b[i].t # b[j].t
             ELSE b[j].t = b[j - 1].t
  <2>1. CASE j \in 2 .. n
    <3>1. b[j] = c[j] /\ b[j - 1] = c[j - 1] /\ \A i \in 1 .. j - 1 : b[i] = c[i]
      BY <1>1, <2>1
    <3> QED
      BY <1>3, <2>1, <3>1 DEF Stacked
  <2>2. CASE j = n + 1
    <3>1. b[j] = e /\ b[j - 1] = c[n]
      BY <1>1, <2>2
    <3> QED
      BY <1>2, <3>1
  <2> QED
    BY <1>1, <2>1, <2>2
<1>6. Together(b)
  <2>1. \A i \in 1 .. n : \A k \in i .. n : c[i].t = c[k].t => \A j \in i .. k : c[j].t = c[i].t
    BY <1>3 DEF Stacked, Together
  <2>2. ASSUME NEW i \in 1 .. n + 1, NEW k \in i .. n + 1, b[i].t = b[k].t, NEW j \in i .. k
        PROVE  b[j].t = b[i].t
    <3>1. CASE k \in i .. n
      <4>1. i \in 1 .. n /\ j \in 1 .. n /\ k \in 1 .. n
        BY <1>1, <3>1
      <4> QED
        BY <1>1, <2>1, <2>2, <3>1, <4>1
    <3>2. CASE k = n + 1
      <4>1. CASE j = n + 1
        BY <2>2, <3>2, <4>1
      <4>2. CASE j \in i .. n
        <5>1. i \in 1 .. n /\ j \in 1 .. n /\ n \in i .. n
          BY <1>1, <4>2
        <5>2. c[i].t = c[n].t
          BY <1>1, <1>2, <2>2, <3>2, <5>1
        <5> QED
          BY <1>1, <2>1, <4>2, <5>1, <5>2
      <4> QED
        BY <1>1, <3>2, <4>1, <4>2
    <3> QED
      BY <1>1, <3>1, <3>2
  <2> QED
    BY <1>1, <2>2 DEF Together
<1>7. ASSUME NEW j \in 1 .. n + 1, b[j].a \in {"pcall", "resume"} PROVE b[j].nC < HandlingCCalls
  <2>1. CASE j \in 1 .. n
    BY <1>1, <1>3, <1>7, <2>1 DEF Stacked
  <2>2. CASE j = n + 1
    BY <1>1, <1>7, <2>2
  <2> QED
    BY <1>1, <2>1, <2>2
<1>8. Stacked(b)
  BY <1>1, <1>4, <1>5, <1>6, <1>7 DEF Stacked
<1> QED
  BY <1>8 DEF b

\* z is nny with the new entry.
Steps(e, l, z) ==
  /\ (z = 0) <=> (l = 0 /\ e.a \notin Blocking)
  /\ e.a \in {"noyield", "pcall"} => z = l + 1
  /\ e.a = "pcall" => e.nny = l
  /\ e.a = "call" => z = l

\* nny with that entry.
LEMMA LevelEntry ==
  ASSUME NEW c \in Seq(EntryType), NEW v \in Positions, Level(c, v), Len(c) > 0,
         NEW e \in EntryType, e.t = c[Len(c)].t, NEW z \in Nat, Steps(e, v[Len(c)], z)
  PROVE  Level(Append(c, e), With(v, Len(c), z))
<1> DEFINE b == Append(c, e)
           n == Len(c)
           x == With(v, n, z)
<1>1. /\ Len(b) = n + 1 /\ n \in Nat \ {0} /\ Len(c) = n
      /\ \A i \in 1 .. n : b[i] = c[i]
      /\ b[n + 1] = e
  BY AppendElements
<1>2. (\A i \in 1 .. n : x[i] = v[i]) /\ x[n + 1] = z
  BY <1>1, OneMore
<1>3. /\ \A j \in 1 .. n : Free(b, j) <=> Free(c, j)
      /\ Free(b, n + 1) <=> Free(c, n) /\ e.a \notin Blocking
  BY FreeEntry
<1>4. Steps(e, v[n], z)
  OBVIOUS
<1> HIDE DEF b, n, x
<1>5. ASSUME NEW j \in 1 .. n + 1
      PROVE  /\ (x[j] = 0) <=> Free(b, j)
             /\ j = 1 => x[j] = 2
             /\ j > 1 /\ b[j].a \in {"noyield", "pcall"} => x[j] = x[j - 1] + 1
             /\ j > 1 /\ b[j].a = "pcall" => b[j].nny = x[j - 1]
             /\ j > 1 /\ b[j].a = "call" => x[j] = x[j - 1]
  <2>1. CASE j \in 1 .. n
    <3>1. b[j] = c[j] /\ x[j] = v[j] /\ (j > 1 => x[j - 1] = v[j - 1])
      BY <1>1, <1>2, <2>1
    <3> QED
      BY <1>1, <1>3, <2>1, <3>1 DEF Level
  <2>2. CASE j = n + 1
    <3>1. b[j] = e /\ x[j] = z /\ x[j - 1] = v[n] /\ j # 1
      BY <1>1, <1>2, <2>2
    <3>2. (v[n] = 0) <=> Free(c, n)
      BY <1>1 DEF Level
    <3> QED
      BY <1>3, <1>4, <2>2, <3>1, <3>2 DEF Steps
  <2> QED
    BY <1>1, <2>1, <2>2
<1>6. Level(b, x)
  BY <1>1, <1>5 DEF Level
<1> QED
  BY <1>6 DEF b, x, n

\* An entry of a thread that is not on the C stack.
LEMMA StackedResume ==
  ASSUME NEW c \in Seq(EntryType), Stacked(c), NEW v \in Positions, Level(c, v), Len(c) > 0,
         NEW e \in EntryType, e.a = "resume", e.t # Main, Own(c, e.t) = {},
         e.nny = 1, e.nC < HandlingCCalls
  PROVE  Stacked(Append(c, e)) /\ Level(Append(c, e), With(v, Len(c), 0))
<1> DEFINE b == Append(c, e)
           n == Len(c)
           x == With(v, n, 0)
<1>1. /\ Len(b) = n + 1 /\ n \in Nat \ {0} /\ Len(c) = n /\ c # << >>
      /\ \A i \in 1 .. n : b[i] = c[i]
      /\ b[n + 1] = e
  BY AppendElements
<1>2. (\A i \in 1 .. n : x[i] = v[i]) /\ x[n + 1] = 0
  BY <1>1, OneMore
<1>3. \A i \in 1 .. n : c[i].t # e.t
  BY <1>1 DEF Own
<1> HIDE DEF b, n, x
<1>4. b[1] = HostEntry
  BY <1>1 DEF Stacked
<1>5. ASSUME NEW j \in 2 .. n + 1
      PROVE  IF b[j].a = "resume" THEN b[j].nny = 1 /\ \A i \in 1 .. j - 1 : b[i].t # b[j].t
             ELSE b[j].t = b[j - 1].t
  <2>1. CASE j \in 2 .. n
    <3>1. b[j] = c[j] /\ b[j - 1] = c[j - 1] /\ \A i \in 1 .. j - 1 : b[i] = c[i]
      BY <1>1, <2>1
    <3> QED
      BY <1>1, <2>1, <3>1 DEF Stacked
  <2>2. CASE j = n + 1
    BY <1>1, <1>3, <2>2
  <2> QED
    BY <1>1, <2>1, <2>2
<1>6. Together(b)
  <2>1. \A i \in 1 .. n : \A k \in i .. n : c[i].t = c[k].t => \A j \in i .. k : c[j].t = c[i].t
    BY <1>1 DEF Stacked, Together
  <2>2. ASSUME NEW i \in 1 .. n + 1, NEW k \in i .. n + 1, b[i].t = b[k].t, NEW j \in i .. k
        PROVE  b[j].t = b[i].t
    <3>1. CASE k \in i .. n
      <4>1. i \in 1 .. n /\ j \in 1 .. n /\ k \in 1 .. n
        BY <1>1, <3>1
      <4> QED
        BY <1>1, <2>1, <2>2, <3>1, <4>1
    <3>2. CASE k = n + 1
      <4>1. i = n + 1
        BY <1>1, <1>3, <2>2, <3>2
      <4> QED
        BY <1>1, <2>2, <3>2, <4>1
    <3> QED
      BY <1>1, <3>1, <3>2
  <2> QED
    BY <1>1, <2>2 DEF Together
<1>7. ASSUME NEW j \in 1 .. n + 1, b[j].a \in {"pcall", "resume"} PROVE b[j].nC < HandlingCCalls
  <2>1. CASE j \in 1 .. n
    BY <1>1, <1>7, <2>1 DEF Stacked
  <2>2. CASE j = n + 1
    BY <1>1, <2>2
  <2> QED
    BY <1>1, <2>1, <2>2
<1>8. Stacked(b)
  BY <1>1, <1>4, <1>5, <1>6, <1>7 DEF Stacked
<1>9. ASSUME NEW j \in 1 .. n + 1
      PROVE  /\ (x[j] = 0) <=> Free(b, j)
             /\ j = 1 => x[j] = 2
             /\ j > 1 /\ b[j].a \in {"noyield", "pcall"} => x[j] = x[j - 1] + 1
             /\ j > 1 /\ b[j].a = "pcall" => b[j].nny = x[j - 1]
             /\ j > 1 /\ b[j].a = "call" => x[j] = x[j - 1]
  <2>1. CASE j \in 1 .. n
    <3>1. b[j] = c[j] /\ x[j] = v[j] /\ (j > 1 => x[j - 1] = v[j - 1])
      BY <1>1, <1>2, <2>1
    <3>2. Free(b, j) <=> Free(c, j)
      <4>1. \A i \in 1 .. j : b[i] = c[i]
        BY <1>1, <2>1
      <4> QED
        BY <3>1, <4>1 DEF Free
    <3> QED
      BY <1>1, <2>1, <3>1, <3>2 DEF Level
  <2>2. CASE j = n + 1
    <3>1. b[j] = e /\ x[j] = 0 /\ j # 1
      BY <1>1, <1>2, <2>2
    <3>2. Free(b, j)
      BY <1>1, <1>3, <2>2, <3>1 DEF Free, Blocking
    <3> QED
      BY <3>1, <3>2
  <2> QED
    BY <1>1, <2>1, <2>2
<1>10. Level(b, x)
  BY <1>1, <1>9 DEF Level
<1> QED
  BY <1>8, <1>10 DEF b, x, n

-----------------------------------------------------------------------------
(* Steps of the thread that runs *)

\* What is known of the thread that runs.
LEMMA Here ==
  ASSUME NEW m \in Machine, NEW q \in Positions, NEW v \in Positions, Base(m, q, v),
         m.cs # << >>, NEW t, t = Going(m)
  PROVE  /\ t \in Threads /\ t \notin m.lost /\ m.th[t] \in StateType
         /\ m.cs \in Seq(EntryType) /\ m.th[t].ci \in Seq(FrameType)
         /\ Len(m.cs) \in Nat \ {0} /\ Len(m.cs) \in Own(m.cs, t) /\ m.cs[Len(m.cs)].t = t
         /\ Len(m.th[t].ci) \in Nat \ {0}
         /\ Sound(t, m.th[t]) /\ Manned(m.cs, m.th[t].ci, q, t)
         /\ m.th[t].nny = v[Len(m.cs)]
         /\ Stacked(m.cs) /\ Level(m.cs, v)
<1>1. /\ m.cs \in Seq(EntryType) /\ m.th \in [Threads -> StateType]
  BY DEF Machine
<1>2. /\ Len(m.cs) \in Nat \ {0} /\ Len(m.cs) \in 1 .. Len(m.cs) /\ m.cs[Len(m.cs)] \in EntryType
  BY <1>1
<1>3. t \in Threads /\ m.cs[Len(m.cs)].t = t
  BY <1>2 DEF EntryType, Going
<1>4. Len(m.cs) \in Own(m.cs, t)
  BY <1>2, <1>3 DEF Own
<1>5. t \notin m.lost /\ Busy(m, q, v, t)
  BY <1>3, <1>4 DEF Base, Fits
<1>6. m.th[t] \in StateType /\ m.th[t].ci \in Seq(FrameType)
  BY <1>1, <1>3 DEF StateType
<1>7. Len(m.th[t].ci) \in Nat \ {0}
  <2>1. m.th[t].ci # << >>
    BY <1>5 DEF Busy, Sound, Framed
  <2> QED
    BY <1>6, <2>1
<1>8. m.th[t].nny = v[Len(m.cs)]
  <2>1. \A k \in Own(m.cs, t) : k <= Len(m.cs)
    BY <1>2 DEF Own
  <2> QED
    BY <1>4, <1>5, <2>1 DEF Busy, Counted
<1>9. Stacked(m.cs) /\ Level(m.cs, v)
  BY DEF Base
<1> QED
  BY <1>1, <1>2, <1>3, <1>4, <1>5, <1>6, <1>7, <1>8, <1>9 DEF Busy

\* w has the threads of m, but for t.
Alike(m, w, t) == \A u \in Threads \ {t} : w.th[u] = m.th[u] /\ (u \in w.lost <=> u \in m.lost)
\* c goes on as b does.
Extends(c, b) == Len(c) <= Len(b) /\ \A j \in 1 .. Len(c) : b[j] = c[j]

\* A thread that does not run is as it was.
LEMMA OthersKept ==
  ASSUME NEW m \in Machine, NEW q \in Positions, NEW v \in Positions, Base(m, q, v),
         m.cs # << >>, NEW w \in Machine, NEW p \in Positions, NEW x \in Positions,
         Alike(m, w, Going(m)), Extends(m.cs, w.cs),
         \A j \in 1 .. Len(m.cs) : p[j] = q[j] /\ x[j] = v[j],
         NEW u \in Threads \ {Going(m)}, Own(w.cs, u) = Own(m.cs, u)
  PROVE  Fits(w, p, x, u)
<1>1. Len(m.cs) \in Nat /\ Len(w.cs) \in Nat
  BY DEF Machine
<1>2. w.th[u] = m.th[u] /\ (u \in w.lost <=> u \in m.lost)
  BY DEF Alike
<1>3. ASSUME NEW j \in Own(m.cs, u)
      PROVE  /\ j < Len(m.cs) /\ j < Len(w.cs)
             /\ w.cs[j] = m.cs[j] /\ p[j] = q[j] /\ x[j] = v[j]
  <2>1. j \in 1 .. Len(m.cs) /\ j # Len(m.cs)
    BY DEF Own, Going
  <2>2. Len(m.cs) <= Len(w.cs) /\ w.cs[j] = m.cs[j]
    BY <2>1 DEF Extends
  <2> QED
    BY <1>1, <2>1, <2>2
<1>4. Fits(m, q, v, u)
  BY DEF Base
<1> QED
  BY <1>1, <1>2, <1>3, <1>4, FitsKept

\* The C stack stays.
LEMMA TopChange ==
  ASSUME NEW m \in Machine, NEW q \in Positions, NEW v \in Positions, Base(m, q, v),
         m.cs # << >>, NEW w \in Machine, w.cs = m.cs, NEW t, t = Going(m), t \notin w.lost,
         Alike(m, w, t), Sound(t, w.th[t]), w.th[t].nny = m.th[t].nny,
         Manned(m.cs, w.th[t].ci, q, t)
  PROVE  Base(w, q, v)
<1>1. /\ t \in Threads /\ Len(m.cs) \in Nat \ {0} /\ Len(m.cs) \in Own(m.cs, t)
      /\ m.th[t].nny = v[Len(m.cs)]
  BY Here
<1>2. Stacked(w.cs) /\ Level(w.cs, v)
  BY DEF Base
<1>3. Counted(w.cs, v, t, w.th[t])
  <2>1. ASSUME NEW j \in Own(m.cs, t), \A k \in Own(m.cs, t) : k <= j PROVE j = Len(m.cs)
    BY <1>1, <2>1 DEF Own
  <2> QED
    BY <1>1, <2>1 DEF Counted
<1>4. Fits(w, q, v, t)
  BY <1>1, <1>3 DEF Fits, Busy
<1>5. Extends(m.cs, w.cs)
  BY <1>1 DEF Extends
<1>6. ASSUME NEW u \in Threads \ {t} PROVE Fits(w, q, v, u)
  BY <1>5, OthersKept
<1> QED
  BY <1>2, <1>4, <1>6 DEF Base

\* An entry of the same thread.
LEMMA EntryBase ==
  ASSUME NEW m \in Machine, NEW q \in Positions, NEW v \in Positions, Base(m, q, v),
         m.cs # << >>, NEW w \in Machine, NEW t, t = Going(m), t \notin w.lost,
         NEW e \in EntryType, w.cs = Append(m.cs, e), e.t = t, e.a # "resume",
         e.a = "pcall" => e.nC < HandlingCCalls,
         Alike(m, w, t), Sound(t, w.th[t]), w.th[t].nny \in Nat,
         Steps(e, m.th[t].nny, w.th[t].nny), NEW y \in Nat,
         Manned(w.cs, w.th[t].ci, With(q, Len(m.cs), y), t)
  PROVE  Base(w, With(q, Len(m.cs), y), With(v, Len(m.cs), w.th[t].nny))
<1> DEFINE c == m.cs
           b == w.cs
           n == Len(m.cs)
           p == With(q, n, y)
           x == With(v, n, w.th[t].nny)
<1>1. /\ t \in Threads /\ n \in Nat \ {0} /\ c[n].t = t /\ c \in Seq(EntryType)
      /\ m.th[t].nny = v[n] /\ Stacked(c) /\ Level(c, v)
  BY Here
<1>2. /\ Len(b) = n + 1 /\ b[n + 1] = e /\ \A j \in 1 .. n : b[j] = c[j]
  BY <1>1, AppendElements
<1>3. /\ p \in Positions /\ x \in Positions /\ x[n + 1] = w.th[t].nny
      /\ \A j \in 1 .. n : p[j] = q[j] /\ x[j] = v[j]
  <2>1. p \in Positions /\ \A j \in 1 .. n : p[j] = q[j]
    BY <1>1, OneMore, Zenon
  <2>2. x \in Positions /\ x[n + 1] = w.th[t].nny /\ \A j \in 1 .. n : x[j] = v[j]
    BY <1>1, OneMore, Zenon
  <2> HIDE DEF p, x
  <2> QED
    BY <2>1, <2>2
<1>4. Stacked(b)
  <2>1. /\ c \in Seq(EntryType) /\ Stacked(c) /\ Len(c) > 0 /\ e \in EntryType
        /\ e.t = c[Len(c)].t /\ e.a # "resume" /\ (e.a = "pcall" => e.nC < HandlingCCalls)
        /\ b = Append(c, e)
    BY <1>1
  <2> HIDE DEF b, c
  <2> QED
    BY ONLY <2>1, StackedEntry
<1>5. Level(b, x)
  <2> DEFINE z == w.th[t].nny
  <2>1. /\ c \in Seq(EntryType) /\ v \in Positions /\ Level(c, v) /\ Len(c) > 0
        /\ e \in EntryType /\ e.t = c[Len(c)].t /\ z \in Nat /\ Steps(e, v[Len(c)], z)
        /\ b = Append(c, e) /\ x = With(v, Len(c), z)
    BY <1>1
  <2> HIDE DEF b, c, x, z
  <2> QED
    BY ONLY <2>1, LevelEntry
<1>6. Manned(b, w.th[t].ci, p, t)
  OBVIOUS
<1>7. \A u \in Threads : Own(b, u) = IF t = u THEN Own(c, u) \cup {n + 1} ELSE Own(c, u)
  <2>1. ASSUME NEW u \in Threads
        PROVE  Own(b, u) = IF t = u THEN Own(c, u) \cup {n + 1} ELSE Own(c, u)
    <3>1. b = Append(c, e) /\ e.t = t /\ n = Len(c) /\ e \in EntryType
      OBVIOUS
    <3> HIDE DEF b, c, n
    <3> QED
      BY ONLY <1>1, <3>1, OwnEntry
  <2> QED
    BY <2>1, Zenon
<1>8. Extends(c, b)
  BY <1>1, <1>2 DEF Extends
<1> HIDE DEF b, p, x
<1>9. Counted(b, x, t, w.th[t])
  <2>1. Own(b, t) = Own(c, t) \cup {n + 1}
    BY <1>1, <1>7
  <2>2. ASSUME NEW j \in Own(b, t), \A k \in Own(b, t) : k <= j PROVE j = n + 1
    <3>1. n + 1 <= j
      BY <2>1, <2>2
    <3>2. j \in 1 .. n \/ j = n + 1
      BY <2>1, <2>2 DEF Own
    <3> QED
      BY <1>1, <3>1, <3>2
  <2> QED
    BY <1>1, <1>2, <1>3, <2>2 DEF Counted
<1>10. Fits(w, p, x, t)
  BY <1>1, <1>6, <1>7, <1>9, Zenon DEF Fits, Busy, b
<1>11. ASSUME NEW u \in Threads \ {t} PROVE Fits(w, p, x, u)
  <2>1. Own(b, u) = Own(c, u)
    BY <1>7
  <2> QED
    BY <1>3, <1>8, <2>1, OthersKept, Zenon DEF b
<1>12. Base(w, p, x)
  BY <1>4, <1>5, <1>10, <1>11 DEF Base, b
<1> QED
  BY <1>12 DEF p, x

\* The handler when the n-th call has gone.
LEMMA HandlerDown ==
  ASSUME NEW t, NEW s, NEW n \in Nat \ {0}, NEW h, HandlerAt(t, s, n, h), s[n].f \notin Guarding
  PROVE  HandlerAt(t, s, n - 1, h)
<1>1. CASE (\A i \in 1 .. n : s[i].f \notin Guarding) /\ h = IF t = Main THEN Host ELSE 0
  BY <1>1 DEF HandlerAt
<1>2. CASE \E i \in 1 .. n : /\ s[i].f \in Guarding
                             /\ \A j \in i + 1 .. n : s[j].f \notin Guarding
                             /\ h = IF s[i].f = "xpcall" THEN i ELSE 0
  <2>1. PICK i \in 1 .. n : /\ s[i].f \in Guarding
                            /\ \A j \in i + 1 .. n : s[j].f \notin Guarding
                            /\ h = IF s[i].f = "xpcall" THEN i ELSE 0
    BY <1>2
  <2>2. i \in 1 .. n - 1 /\ \A j \in i + 1 .. n - 1 : s[j].f \notin Guarding
    BY <2>1
  <2> QED
    BY <2>1, <2>2 DEF HandlerAt
<1> QED
  BY <1>1, <1>2 DEF HandlerAt

\* And when one more has been made.
LEMMA HandlerUp ==
  ASSUME NEW t, NEW s, NEW n \in Nat, NEW h, HandlerAt(t, s, n, h)
  PROVE  /\ s[n + 1].f \notin Guarding => HandlerAt(t, s, n + 1, h)
         /\ s[n + 1].f \in Guarding =>
              HandlerAt(t, s, n + 1, IF s[n + 1].f = "xpcall" THEN n + 1 ELSE 0)
<1>1. s[n + 1].f \in Guarding =>
        HandlerAt(t, s, n + 1, IF s[n + 1].f = "xpcall" THEN n + 1 ELSE 0)
  <2>1. n + 1 \in 1 .. n + 1 /\ \A j \in n + 1 + 1 .. n + 1 : FALSE
    OBVIOUS
  <2> QED
    BY <2>1 DEF HandlerAt
<1>2. ASSUME s[n + 1].f \notin Guarding PROVE HandlerAt(t, s, n + 1, h)
  <2>1. CASE (\A i \in 1 .. n : s[i].f \notin Guarding) /\ h = IF t = Main THEN Host ELSE 0
    BY <1>2, <2>1 DEF HandlerAt
  <2>2. CASE \E i \in 1 .. n : /\ s[i].f \in Guarding
                               /\ \A j \in i + 1 .. n : s[j].f \notin Guarding
                               /\ h = IF s[i].f = "xpcall" THEN i ELSE 0
    <3>1. PICK i \in 1 .. n : /\ s[i].f \in Guarding
                              /\ \A j \in i + 1 .. n : s[j].f \notin Guarding
                              /\ h = IF s[i].f = "xpcall" THEN i ELSE 0
      BY <2>2
    <3>2. i \in 1 .. n + 1 /\ \A j \in i + 1 .. n + 1 : s[j].f \notin Guarding
      BY <1>2, <3>1
    <3> QED
      BY <3>1, <3>2 DEF HandlerAt
  <2> QED
    BY <2>1, <2>2 DEF HandlerAt
<1> QED
  BY <1>1, <1>2

\* The handler when a call is on top, and when it has gone.
LEMMA HandlerPush ==
  ASSUME NEW t, NEW s \in Seq(FrameType), NEW g \in FrameType, NEW h,
         HandlerAt(t, s, Len(s), h)
  PROVE  /\ g.f \notin Guarding => HandlerAt(t, Append(s, g), Len(Append(s, g)), h)
         /\ g.f \in Guarding =>
              HandlerAt(t, Append(s, g), Len(Append(s, g)),
                        IF g.f = "xpcall" THEN Len(s) + 1 ELSE 0)
<1> DEFINE r == Append(s, g)
           n == Len(s)
<1>1. /\ Len(r) = n + 1 /\ n \in Nat /\ r[n + 1] = g
      /\ \A i \in 1 .. n : r[i].f = s[i].f
  BY AppendElements
<1>2. HandlerAt(t, s, n, h)
  OBVIOUS
<1> HIDE DEF r, n
<1>3. HandlerAt(t, r, n, h)
  BY <1>1, <1>2, HandlerSame
<1>4. /\ r[n + 1].f \notin Guarding => HandlerAt(t, r, n + 1, h)
      /\ r[n + 1].f \in Guarding =>
           HandlerAt(t, r, n + 1, IF r[n + 1].f = "xpcall" THEN n + 1 ELSE 0)
  BY <1>1, <1>3, HandlerUp, Zenon
<1>5. /\ g.f \notin Guarding => HandlerAt(t, r, Len(r), h)
      /\ g.f \in Guarding => HandlerAt(t, r, Len(r), IF g.f = "xpcall" THEN n + 1 ELSE 0)
  BY <1>1, <1>4
<1> QED
  BY <1>5 DEF r, n

\* The handler of the calls that are left.
LEMMA HandlerPop ==
  ASSUME NEW t, NEW s \in Seq(FrameType), NEW n \in 1 .. Len(s), NEW h,
         HandlerAt(t, s, n, h), s[n].f \notin Guarding
  PROVE  HandlerAt(t, SubSeq(s, 1, n - 1), n - 1, h)
<1>1. n \in Nat \ {0} /\ n - 1 \in Int /\ n - 1 \in 0 .. Len(s)
  OBVIOUS
<1>2. HandlerAt(t, s, n - 1, h)
  BY <1>1, HandlerDown
<1>3. \A i \in 1 .. n - 1 : SubSeq(s, 1, n - 1)[i] = s[i]
  BY <1>1, PrefixElements
<1> QED
  BY <1>1, <1>2, <1>3, HandlerSame, Zenon

\* A call that has no entry returns.
Pops(m, q, v, w, t) ==
  LET r == m.th[t]
      n == Len(r.ci)
  IN /\ m \in Machine /\ q \in Positions /\ v \in Positions /\ Base(m, q, v)
     /\ m.cs # << >> /\ w \in Machine /\ w.cs = m.cs /\ t = Going(m) /\ t \notin w.lost
     /\ Alike(m, w, t) /\ q[Len(m.cs)] <= n
     /\ ~r.ci[n].fresh /\ r.ci[n].f \notin Guarding
     /\ w.th[t].ci = SubSeq(r.ci, 1, n - 1) /\ w.th[t].status = "ok"
     /\ w.th[t].nny = r.nny /\ w.th[t].errfunc = r.errfunc

\* What the caller finds: Lua code that runs.
LEMMA PopTop ==
  ASSUME NEW m, NEW q, NEW v, NEW w, NEW t, Pops(m, q, v, w, t)
  PROVE  LET n == Len(m.th[t].ci)
         IN /\ Base(w, q, v) /\ n - 1 \in Nat \ {0} /\ Len(w.th[t].ci) = n - 1
            /\ q[Len(m.cs)] <= n - 1 /\ w.th[t].ci[n - 1].f \in Code
<1> DEFINE s == m.th[t].ci
           n == Len(m.th[t].ci)
           c == m.cs
           r == SubSeq(s, 1, n - 1)
<1>0. /\ m \in Machine /\ q \in Positions /\ v \in Positions /\ Base(m, q, v)
      /\ m.cs # << >> /\ w \in Machine /\ w.cs = m.cs /\ t = Going(m) /\ t \notin w.lost
      /\ Alike(m, w, t) /\ q[Len(m.cs)] <= n
      /\ ~s[n].fresh /\ s[n].f \notin Guarding
      /\ w.th[t].ci = r /\ w.th[t].status = "ok"
      /\ w.th[t].nny = m.th[t].nny /\ w.th[t].errfunc = m.th[t].errfunc
  BY DEF Pops
<1>1. /\ s \in Seq(FrameType) /\ n \in Nat \ {0} /\ n = Len(s)
      /\ c \in Seq(EntryType) /\ Len(c) \in Nat \ {0} /\ c[Len(c)].t = t
      /\ Sound(t, m.th[t]) /\ Manned(c, s, q, t)
  BY <1>0, Here
<1>2. n - 1 \in 1 .. Len(s) /\ s[n - 1].f \in Code
  <2>1. Framed(t, s) /\ n \in 1 .. Len(s) /\ ~s[n].fresh
    BY <1>0, <1>1 DEF Sound
  <2> HIDE DEF s
  <2>2. n > 1 /\ s[n - 1].f \in Code
    BY ONLY <2>1 DEF Framed
  <2> QED
    BY <1>1, <2>2
<1>3. Len(r) = n - 1 /\ r \in Seq(FrameType) /\ r[n - 1] = s[n - 1]
  BY <1>1, <1>2
<1>4. CutAt(c, s, q, t, Len(c), n - 1) /\ q[Len(c)] <= n - 1
  <2>1. ASSUME NEW j \in Own(c, t) PROVE j <= Len(c) /\ q[j] <= n - 1
    <3>1. /\ j \in 1 .. Len(c) /\ q[j] \in Nat \ {0} /\ q[j] <= q[Len(c)] /\ q[j] <= n + 1
          /\ q[j] <= n => Entered(s, q[j])
      BY <1>0, <1>1, LastPlace, Zenon DEF Manned
    <3>2. q[Len(c)] \in Nat
      BY <1>0, <1>1, Zenon DEF Positions
    <3>3. q[j] <= n
      BY <1>0, <1>1, <3>1, <3>2
    <3>4. q[j] # n
      BY <1>0, <3>1, <3>3, Zenon DEF Entered
    <3> QED
      BY <1>1, <3>1, <3>3, <3>4
  <2>2. Len(c) \in Own(c, t)
    BY <1>1 DEF Own
  <2> QED
    BY <2>1, <2>2 DEF CutAt
<1>5. Manned(c, r, q, t)
  <2>1. SubSeq(c, 1, Len(c)) = c /\ Len(c) \in 1 .. Len(c)
    BY <1>1
  <2>2. Manned(SubSeq(c, 1, Len(c)), r, q, t)
    BY <1>0, <1>1, <1>2, <1>4, <2>1, MannedCut, Zenon
  <2> QED
    BY <2>1, <2>2, Zenon
<1>6. Sound(t, w.th[t])
  <2>1. Framed(t, r)
    BY <1>1, <1>2, FramedPrefix DEF Sound
  <2>2. HandlerAt(t, r, Len(r), m.th[t].errfunc)
    <3>1. HandlerAt(t, s, n, m.th[t].errfunc) /\ s[n].f \notin Guarding /\ n \in 1 .. Len(s)
      BY <1>0, <1>1 DEF Sound
    <3> HIDE DEF s
    <3> QED
      BY ONLY <1>1, <1>3, <3>1, HandlerPop
  <2> QED
    BY <1>0, <2>1, <2>2 DEF Sound
<1>7. Base(w, q, v)
  BY <1>0, <1>5, <1>6, TopChange, Zenon
<1> QED
  BY <1>0, <1>1, <1>2, <1>3, <1>4, <1>7

\* The frame of a function.
LEMMA Frames ==
  ASSUME NEW f \in Names
  PROVE  /\ Frame(f) \in FrameType /\ Frame(f).f = f
         /\ Frame(f).fresh <=> f \in Code
         /\ ~Frame(f).k /\ ~Frame(f).yp
<1>1. Frame(f) = [f |-> f, fresh |-> f \in Code, k |-> FALSE, yp |-> FALSE, old |-> 0]
  BY DEF Frame, Code
<1>2. PICK b \in BOOLEAN : b <=> f \in Code
  BY Zenon
<1>3. Frame(f) = [f |-> f, fresh |-> b, k |-> FALSE, yp |-> FALSE, old |-> 0]
  <2>1. CASE f \in Code
    BY <1>1, <1>2, <2>1, Zenon
  <2>2. CASE f \notin Code
    BY <1>1, <1>2, <2>2, Zenon
  <2> QED
    BY <2>1, <2>2
<1>4. Frame(f) \in FrameType
  BY <1>3 DEF FrameType
<1> QED
  BY <1>2, <1>3, <1>4

\* What may be called without an entry of its own.
Callable(s, g, p) ==
  /\ ~g.k /\ ~g.yp /\ g.f \in {"lua"} \cup Leaving
  /\ \/ g.fresh /\ g.f = "lua" /\ p = Len(s) + 1
     \/ ~g.fresh /\ p <= Len(s) /\ s[Len(s)].f \in Code

\* w is m when the thread that runs has called g.
Pushes(m, q, v, w, t, g) ==
  /\ m \in Machine /\ q \in Positions /\ v \in Positions /\ w \in Machine /\ g \in FrameType
  /\ Base(m, q, v) /\ m.cs # << >> /\ t = Going(m)
  /\ w.cs = m.cs /\ t \notin w.lost /\ Alike(m, w, t)
  /\ m.th[t].ci[Len(m.th[t].ci)].f \notin Leaving /\ Callable(m.th[t].ci, g, q[Len(m.cs)])
  /\ w.th[t].ci = Append(m.th[t].ci, g) /\ w.th[t].status = "ok"
  /\ w.th[t].nny = m.th[t].nny /\ w.th[t].errfunc = m.th[t].errfunc

\* The call is on top.
LEMMA PushTop ==
  ASSUME NEW m, NEW q, NEW v, NEW w, NEW t, NEW g, Pushes(m, q, v, w, t, g)
  PROVE  /\ Base(w, q, v) /\ Len(m.th[t].ci) \in Nat
         /\ Len(w.th[t].ci) = Len(m.th[t].ci) + 1 /\ w.th[t].ci[Len(m.th[t].ci) + 1] = g
         /\ q[Len(m.cs)] <= Len(m.th[t].ci) + 1
<1> USE DEF Pushes
<1> DEFINE s == m.th[t].ci
           c == m.cs
           r == Append(s, g)
<1>1. /\ s \in Seq(FrameType) /\ Len(s) \in Nat \ {0}
      /\ c \in Seq(EntryType) /\ Len(c) \in Nat \ {0} /\ c[Len(c)].t = t
      /\ Framed(t, s) /\ HandlerAt(t, s, Len(s), m.th[t].errfunc) /\ Manned(c, s, q, t)
  <2>1. /\ s \in Seq(FrameType) /\ Len(s) \in Nat \ {0}
        /\ c \in Seq(EntryType) /\ Len(c) \in Nat \ {0} /\ c[Len(c)].t = t
        /\ Sound(t, m.th[t]) /\ Manned(c, s, q, t)
    BY Here
  <2> QED
    BY <2>1 DEF Sound
<1>2. Len(r) = Len(s) + 1 /\ r[Len(s) + 1] = g
  <2>1. g \in FrameType
    OBVIOUS
  <2> QED
    BY ONLY <1>1, <2>1, AppendElements
<1>3. /\ ~g.k /\ ~g.yp /\ g.f \in {"lua"} \cup Leaving /\ g.f \notin Guarding
      /\ \/ g.fresh /\ g.f \in Code /\ q[Len(c)] = Len(s) + 1
         \/ ~g.fresh /\ q[Len(c)] <= Len(s)
      /\ g.f \notin Code => ~g.fresh
      /\ ~g.fresh => s[Len(s)].f \in Code
  BY DEF Callable, Leaving, Guarding, Code
<1>4. Manned(c, r, q, t)
  <2>1. Linked(c, r, q, t)
    BY <1>1, <1>3, LinkedCall, Zenon DEF Manned
  <2>2. Covered(c, r, q, t)
    BY <1>1, <1>3, CoveredCall, Zenon DEF Manned
  <2> QED
    BY <2>1, <2>2 DEF Manned
<1>5. Framed(t, r)
  BY <1>1, <1>3, FramedPush
<1>6. HandlerAt(t, r, Len(r), m.th[t].errfunc)
  BY <1>1, <1>3, HandlerPush
<1>7. Base(w, q, v)
  <2>1. Sound(t, w.th[t]) /\ Manned(c, w.th[t].ci, q, t)
    BY <1>4, <1>5, <1>6 DEF Sound
  <2> QED
    BY <2>1, TopChange, Zenon
<1>8. q[Len(c)] <= Len(s) + 1
  <2>1. q[Len(c)] \in Nat
    BY <1>1, Zenon DEF Positions
  <2> QED
    BY <1>1, <1>3, <2>1
<1> QED
  BY <1>1, <1>2, <1>7, <1>8

\* The message handler is called.
LEMMA EnterHandler ==
  ASSUME NEW m \in Machine, NEW q \in Positions, NEW v \in Positions, Base(m, q, v),
         m.cs # << >>, NEW w \in Machine, NEW t, t = Going(m), t \notin w.lost,
         NEW e \in EntryType, w.cs = Append(m.cs, e), e.t = t, e.a = "handler",
         Alike(m, w, t), NEW s, s = m.th[t].ci, NEW g \in FrameType, s[Len(s)].f \notin Leaving,
         g.fresh, g.f = "handler", ~g.k, ~g.yp, w.th[t].ci = Append(s, g), w.th[t].status = "ok",
         w.th[t].nny \in Nat, w.th[t].nny > m.th[t].nny, w.th[t].errfunc = m.th[t].errfunc,
         w.th[t].nC < HandlingCCalls
  PROVE  \E p, x \in Positions : Base(w, p, x) /\ Goes(w, p)
<1> DEFINE c == m.cs
           b == w.cs
           n == Len(m.cs)
           r == Append(s, g)
           y == Len(s) + 1
           p == With(q, n, y)
           x == With(v, n, w.th[t].nny)
<1>1. /\ s \in Seq(FrameType) /\ Len(s) \in Nat \ {0} /\ m.th[t].nny = v[n] /\ v[n] \in Nat
      /\ c \in Seq(EntryType) /\ n \in Nat \ {0} /\ c[n].t = t
      /\ Framed(t, s) /\ HandlerAt(t, s, Len(s), m.th[t].errfunc) /\ Manned(c, s, q, t)
  <2>1. /\ s \in Seq(FrameType) /\ Len(s) \in Nat \ {0} /\ m.th[t].nny = v[n]
        /\ c \in Seq(EntryType) /\ n \in Nat \ {0} /\ c[n].t = t
        /\ Sound(t, m.th[t]) /\ Manned(c, s, q, t)
    BY Here
  <2> QED
    BY <2>1, Zenon DEF Sound, Positions
<1>2. /\ Len(r) = y /\ r[y] = g /\ y \in Nat
      /\ Len(b) = n + 1 /\ b[n + 1] = e /\ \A j \in 1 .. n : b[j] = c[j]
  <2>1. s \in Seq(FrameType) /\ g \in FrameType
    BY <1>1
  <2>3. Len(r) = y /\ r[y] = g /\ y \in Nat
    BY ONLY <2>1, AppendElements
  <2>2. Len(b) = n + 1 /\ b[n + 1] = e /\ \A j \in 1 .. n : b[j] = c[j]
    BY <1>1, AppendElements
  <2> QED
    BY <2>2, <2>3
<1>3. /\ p \in Positions /\ p[n + 1] = y /\ \A j \in 1 .. n : p[j] = q[j]
  <2>1. q \in Positions /\ n \in Nat /\ y \in Nat
    BY <1>1
  <2> QED
    BY ONLY <2>1, OneMore, Zenon
<1>4. x \in Positions
  BY <1>1, OneMore, Zenon
<1>5. Linked(b, s, p, t)
  <2>1. Made(t, s, e, n + 1, y)
    BY <1>1 DEF Made
  <2>2. /\ Linked(c, s, q, t) /\ e.a = "handler" /\ n = Len(c) /\ n > 0 /\ e.t = t
        /\ b = Append(c, e) /\ p = With(q, Len(c), Len(s) + 1) /\ e \in EntryType
        /\ q \in Positions
    BY <1>1 DEF Manned
  <2> HIDE DEF b, p, n, c
  <2> QED
    BY ONLY <1>1, <2>1, <2>2, LinkedEntry
<1>6. n + 1 \in Own(b, t)
  BY <1>1, <1>2 DEF Own
<1>7. Own(c, t) \subseteq Own(b, t) /\ (\A j \in Own(c, t) : b[j] = c[j] /\ p[j] = q[j])
  BY <1>1, <1>2, <1>3 DEF Own
<1>8. Linked(b, r, p, t)
  <2>1. g.fresh /\ g.f \in Code /\ p[Len(b)] = Len(s) + 1 /\ b[Len(b)].t = t /\ Len(b) \in Nat \ {0}
    BY <1>1, <1>2, <1>3 DEF Code
  <2> HIDE DEF b, p
  <2> QED
    BY <1>1, <1>3, <1>5, <2>1, LinkedCall, Zenon
<1>9. Covered(b, r, p, t)
  <2>1. Covers(b[n + 1], p[n + 1], Len(s) + 1)
    BY <1>1, <1>2, <1>3 DEF Covers, Blocking
  <2>2. Covered(c, s, q, t) /\ s[Len(s)].f \notin Leaving /\ g \in FrameType
    BY <1>1 DEF Manned
  <2> HIDE DEF b, p, c, n
  <2> QED
    BY ONLY <1>1, <1>6, <1>7, <2>1, <2>2, CoveredCall
<1>10. Manned(b, r, p, t)
  BY <1>8, <1>9 DEF Manned
<1>11. Sound(t, w.th[t])
  <2>1. Framed(t, r)
    BY <1>1, FramedPush DEF Code
  <2>2. HandlerAt(t, r, Len(r), m.th[t].errfunc)
    BY <1>1, HandlerPush, Zenon DEF Guarding
  <2> QED
    BY <2>1, <2>2 DEF Sound
<1>12. Steps(e, m.th[t].nny, w.th[t].nny)
  BY <1>1 DEF Steps, Blocking
<1>13. Base(w, p, x)
  <2>1. Manned(w.cs, w.th[t].ci, With(q, Len(m.cs), y), t) /\ y \in Nat
    BY <1>2, <1>10
  <2>2. e.a # "resume" /\ e.a # "pcall"
    OBVIOUS
  <2> HIDE DEF b, n, r, y
  <2>3. Base(w, With(q, Len(m.cs), y), With(v, Len(m.cs), w.th[t].nny))
    BY <1>11, <1>12, <2>1, <2>2, EntryBase, Zenon
  <2> QED
    BY <2>3 DEF n
<1>14. Goes(w, p)
  <2>1. Going(w) = t
    BY <1>2, Zenon DEF Going
  <2>2. w.th[t].ci[Len(w.th[t].ci)].f = "handler" /\ Len(w.th[t].ci) = y
    BY <1>2
  <2>3. p[Len(w.cs)] <= Len(w.th[t].ci)
    BY <1>1, <1>2, <1>3
  <2> QED
    BY <2>1, <2>2, <2>3, Zenon DEF Goes, Code
<1> QED
  BY <1>3, <1>4, <1>13, <1>14

-----------------------------------------------------------------------------
(* Leaving entries behind *)

\* A change of the last call.
LEMMA ReplaceTop ==
  ASSUME NEW T, NEW s \in Seq(T), Len(s) > 0, NEW g \in T
  PROVE  [s EXCEPT ![Len(s)] = g] = Append(SubSeq(s, 1, Len(s) - 1), g)
<1> DEFINE n == Len(s)
           a == [s EXCEPT ![n] = g]
           b == Append(SubSeq(s, 1, n - 1), g)
<1>1. n \in Nat /\ n \in 1 .. n /\ n - 1 \in 0 .. n
  OBVIOUS
<1>2. /\ a \in Seq(T) /\ Len(a) = n
      /\ \A i \in 1 .. n : a[i] = IF i = n THEN g ELSE s[i]
  BY <1>1
<1>3. /\ b \in Seq(T) /\ Len(b) = n
      /\ \A i \in 1 .. n : b[i] = IF i = n THEN g ELSE s[i]
  <2> DEFINE r == SubSeq(s, 1, n - 1)
  <2>1. /\ r \in Seq(T) /\ Len(r) = n - 1 /\ \A i \in 1 .. n - 1 : r[i] = s[i]
    BY <1>1, PrefixElements, Zenon
  <2> HIDE DEF r
  <2>2. /\ Append(r, g) \in Seq(T) /\ Len(Append(r, g)) = n
        /\ \A i \in 1 .. n - 1 : Append(r, g)[i] = r[i]
        /\ Append(r, g)[n] = g
    BY <1>1, <2>1
  <2>3. b = Append(r, g)
    BY DEF r
  <2> HIDE DEF b, n
  <2>4. ASSUME NEW i \in 1 .. n PROVE b[i] = IF i = n THEN g ELSE s[i]
    <3>1. i = n \/ i \in 1 .. n - 1
      BY <1>1
    <3> QED
      BY <1>1, <2>1, <2>2, <2>3, <3>1
  <2> QED
    BY <2>2, <2>3, <2>4
<1> HIDE DEF a, b
<1>4. a = b
  BY <1>1, <1>2, <1>3
<1> QED
  BY <1>4 DEF a, b

\* w has the first n entries of m; t, a thread of the last of them or of the next,
\* may have changed, and the threads of the others are lost.
Cuts(m, n, j, t, w) ==
  /\ m \in Machine /\ Stacked(m.cs) /\ n \in 0 .. Len(m.cs)
  /\ j \in 1 .. Len(m.cs) /\ (j = n \/ j = n + 1) /\ m.cs[j].t = t
  /\ w.cs = SubSeq(m.cs, 1, n)
  /\ \A u \in Threads \ {t} :
       /\ w.th[u] = m.th[u]
       /\ u \in w.lost <=> u \in m.lost \/ \E i \in n + 1 .. Len(m.cs) : m.cs[i].t = u

\* The others keep what they had, or are off the C stack.
LEMMA Spared ==
  ASSUME NEW m, NEW n, NEW j, NEW t, NEW w, Cuts(m, n, j, t, w),
         NEW q, NEW v, NEW u \in Threads, u # t, Fits(m, q, v, u)
  PROVE  IF Own(w.cs, u) # {} THEN Fits(m, q, v, u) /\ w.th[u] = m.th[u] /\ u \notin w.lost
         ELSE Off(w, u)
<1> DEFINE c == m.cs
           b == w.cs
<1>1. c \in Seq(EntryType) /\ Len(c) \in Nat /\ n \in 0 .. Len(c) /\ n \in Nat /\ n <= Len(c)
  BY DEF Cuts, Machine
<1>2. Len(b) = n /\ \A i \in 1 .. n : b[i] = c[i]
  BY <1>1, PrefixElements DEF Cuts
<1>3. /\ Together(c) /\ j \in 1 .. Len(c) /\ c[j].t = t /\ c[1].t = Main
      /\ (j = n \/ j = n + 1) /\ w.th[u] = m.th[u]
  <2>1. c # << >> /\ Stacked(c)
    BY <1>1 DEF Cuts
  <2>2. c[1].t = Main
    BY <2>1 DEF Stacked, HostEntry
  <2> QED
    BY <2>1, <2>2 DEF Cuts, Stacked
<1>4. ~(u \in w.lost) <=> u \notin m.lost /\ \A i \in n + 1 .. Len(c) : c[i].t # u
  BY DEF Cuts
<1> HIDE DEF b, c
<1>5. CASE Own(b, u) # {}
  <2>1. PICK i \in 1 .. n : c[i].t = u
    BY <1>2, <1>5 DEF Own
  <2>2. i \in Own(c, u)
    BY <1>1, <2>1 DEF Own, c
  <2>3. u \notin m.lost
    BY <2>2 DEF Fits, c
  <2>4. ASSUME NEW k \in n + 1 .. Len(c) PROVE c[k].t # u
    <3>1. i \in 1 .. Len(c) /\ k \in i .. Len(c) /\ j \in i .. k
      BY <1>1, <1>3, <2>1 DEF c
    <3> QED
      BY <1>3, <2>1, <3>1 DEF Together
  <2> QED
    BY <1>3, <1>4, <1>5, <2>3, <2>4 DEF b
<1>6. CASE Own(b, u) = {}
  <2>1. \A i \in 1 .. n : c[i].t # u
    BY <1>2, <1>6 DEF Own
  <2>2. CASE Own(c, u) = {}
    <3>1. u \notin w.lost <=> u \notin m.lost
      BY <1>1, <1>4, <2>2 DEF Own
    <3>2. Off(m, u)
      BY <2>2 DEF Fits, c
    <3> QED
      BY <1>3, <1>6, <3>1, <3>2 DEF Off, b
  <2>3. CASE Own(c, u) # {}
    <3>1. PICK i \in 1 .. Len(c) : c[i].t = u
      BY <2>3 DEF Own
    <3>2. i \in n + 1 .. Len(c)
      BY <1>1, <2>1, <3>1
    <3>3. u \in w.lost
      BY <1>4, <3>1, <3>2
    <3>4. u # Main
      <4>1. n > 0 => c[1].t # u
        BY <1>1, <2>1
      <4>2. n = 0 => j = 1
        BY <1>3
      <4>3. c[j].t # u
        BY <1>3
      <4> QED
        BY <1>1, <1>3, <4>1, <4>2, <4>3
    <3>5. Busy(m, q, v, u)
      BY <2>3 DEF Fits, c
    <3>6. Cut(u, w.th[u])
      BY <1>3, <3>4, <3>5 DEF Busy, Sound, Framed, Cut
    <3> QED
      BY <1>6, <3>3, <3>6 DEF Off, b
  <2> QED
    BY <2>2, <2>3
<1> QED
  BY <1>5, <1>6 DEF b, c

\* A machine with another state of t.
LEMMA ThreadSet ==
  ASSUME NEW w \in Machine, NEW t \in Threads, NEW r \in StateType
  PROVE  /\ [w EXCEPT !.th[t] = r] \in Machine
         /\ [w EXCEPT !.th[t] = r].th[t] = r
         /\ \A u \in Threads \ {t} : [w EXCEPT !.th[t] = r].th[u] = w.th[u]
         /\ [w EXCEPT !.th[t] = r].cs = w.cs /\ [w EXCEPT !.th[t] = r].lost = w.lost
BY Zenon DEF Machine

\* The thread t below the entries that are left has resumed the first of these.
LeavesTo(m, q, v, j, w, t) ==
  /\ m \in Machine /\ q \in Positions /\ v \in Positions /\ w \in Machine
  /\ Stacked(m.cs) /\ Level(m.cs, v)
  /\ j \in 1 .. Len(m.cs) - 1 /\ m.cs[j].t = t /\ m.cs[j + 1].t # t /\ Fits(m, q, v, t)
  /\ w.cs = SubSeq(m.cs, 1, j) /\ w.th[t] = m.th[t] /\ t \notin w.lost
  /\ Apart(m, q, v, w, t)

\* What t was left with.
LEMMA Below ==
  ASSUME NEW m, NEW q, NEW v, NEW j, NEW w, NEW t, LeavesTo(m, q, v, j, w, t),
         NEW s, s = m.th[t].ci, NEW n, n = Len(s)
  PROVE  /\ t \in Threads /\ m.th[t] \in StateType /\ s \in Seq(FrameType) /\ n \in Nat
         /\ n - 1 \in 1 .. n /\ s[n].f \in {"resume", "wrap"} /\ s[n - 1].f \in Code
         /\ Sound(t, m.th[t]) /\ Manned(m.cs, s, q, t)
         /\ m.th[t].nny = v[j] /\ m.th[t].nC < HandlingCCalls
         /\ CutAt(m.cs, s, q, t, j, n - 1) /\ q[j] <= n - 1
<1> DEFINE c == m.cs
<1>1. /\ c \in Seq(EntryType) /\ Len(c) \in Nat /\ m.th \in [Threads -> StateType]
      /\ j \in 1 .. Len(c) - 1 /\ c[j].t = t /\ c[j + 1].t # t /\ Fits(m, q, v, t)
      /\ Together(c) /\ q \in Positions
  BY DEF LeavesTo, Machine, Stacked
<1>2. /\ j \in 1 .. Len(c) /\ j \in Nat /\ j < Len(c) /\ c[j] \in EntryType
  BY <1>1
<1>3. t \in Threads
  BY <1>1, <1>2, Zenon DEF EntryType
<1>4. m.th[t] \in StateType /\ s \in Seq(FrameType) /\ n \in Nat
  BY <1>1, <1>3 DEF StateType
<1>5. j \in Own(c, t)
  BY <1>1, <1>2 DEF Own
<1>6. ASSUME NEW k \in Own(c, t) PROVE k \in 1 .. Len(c) /\ c[k].t = t /\ k <= j
  <2>1. k \in 1 .. Len(c) /\ c[k].t = t
    BY DEF Own
  <2>2. k > j => k \in j .. Len(c) /\ j + 1 \in j .. k
    BY <1>1, <1>2, <2>1
  <2>3. ~(k > j)
    BY <1>1, <1>2, <2>1, <2>2 DEF Together
  <2> QED
    BY <1>2, <2>1, <2>3
<1>7. Busy(m, q, v, t)
  BY <1>1, <1>5 DEF Fits
<1>8. /\ m.th[t].nny = v[j] /\ s[n].f \in {"resume", "wrap"} /\ m.th[t].nC < HandlingCCalls
  BY <1>2, <1>5, <1>6, <1>7 DEF Busy, Counted
<1>9. Sound(t, m.th[t]) /\ Manned(c, s, q, t)
  BY <1>7 DEF Busy
<1>10. n > 1 /\ s[n - 1].f \in Code /\ ~s[n].fresh
  <2>1. Framed(t, s) /\ s[n].f \notin Code
    BY <1>8, <1>9 DEF Sound, Code
  <2>2. s # << >>
    BY <2>1 DEF Framed
  <2>3. n \in 1 .. Len(s)
    BY <1>4, <2>2
  <2> QED
    BY ONLY <2>1, <2>3 DEF Framed
<1>11. ASSUME NEW k \in Own(c, t) PROVE q[k] <= n - 1
  <2>1. c[Len(c)].t # t
    <3>1. Len(c) \notin Own(c, t)
      BY <1>2, <1>6
    <3> QED
      BY <1>2, <3>1 DEF Own
  <2>2. Entered(s, q[k])
    BY <1>9, <2>1 DEF Manned, Linked, Placed
  <2> QED
    BY <1>4, <1>10, <2>2 DEF Entered
<1>12. CutAt(c, s, q, t, j, n - 1)
  <2>1. ASSUME NEW k \in Own(c, t)
        PROVE  IF k <= j THEN q[k] <= n - 1
               ELSE n - 1 < q[k] /\ (c[k].a \in {"noyield", "pcall"} => n - 1 < q[k] - 1)
    BY <1>6, <1>11
  <2> QED
    BY <2>1 DEF CutAt
<1>13. n - 1 \in 1 .. n
  BY <1>4, <1>10
<1>14. q[j] <= n - 1
  BY <1>5, <1>11
<1> QED
  BY <1>3, <1>4, <1>8, <1>9, <1>10, <1>12, <1>13, <1>14

\* It goes on: lua_resume returns to it.
LEMMA Returns ==
  ASSUME NEW m, NEW q, NEW v, NEW j, NEW w, NEW t, LeavesTo(m, q, v, j, w, t), NEW ok
  PROVE  Good(ResumeReturns(w, ok))
<1> DEFINE s == m.th[t].ci
           n == Len(s)
           r1 == Popped(m.th[t], 1)
           w1 == [w EXCEPT !.th[t] = r1]
<1>1. /\ t \in Threads /\ m.th[t] \in StateType /\ s \in Seq(FrameType) /\ n \in Nat
      /\ n - 1 \in 1 .. n /\ s[n].f \in {"resume", "wrap"} /\ s[n - 1].f \in Code
      /\ Sound(t, m.th[t]) /\ Manned(m.cs, s, q, t)
      /\ m.th[t].nny = v[j] /\ m.th[t].nC < HandlingCCalls
      /\ CutAt(m.cs, s, q, t, j, n - 1) /\ q[j] <= n - 1
  BY Below, Zenon
<1>2. /\ m \in Machine /\ q \in Positions /\ v \in Positions /\ w \in Machine
      /\ Stacked(m.cs) /\ Level(m.cs, v) /\ m.cs \in Seq(EntryType)
      /\ j \in 1 .. Len(m.cs) - 1 /\ m.cs[j].t = t
      /\ w.cs = SubSeq(m.cs, 1, j) /\ w.th[t] = m.th[t] /\ t \notin w.lost
      /\ Apart(m, q, v, w, t)
  BY DEF LeavesTo, Machine
<1>3. /\ j \in 1 .. Len(m.cs) /\ Len(w.cs) = j /\ w.cs[j].t = t /\ w.cs # << >> /\ j \in Nat \ {0}
  BY <1>2
<1>4. /\ r1.ci = SubSeq(s, 1, n - 1) /\ r1.status = m.th[t].status /\ r1.nny = m.th[t].nny
      /\ r1.nC = m.th[t].nC /\ r1.errfunc = m.th[t].errfunc /\ r1 \in StateType
      /\ Len(r1.ci) = n - 1 /\ r1.ci[n - 1] = s[n - 1] /\ r1.ci \in Seq(FrameType)
  <2>1. SubSeq(s, 1, n - 1) \in Seq(FrameType) /\ Len(SubSeq(s, 1, n - 1)) = n - 1
        /\ SubSeq(s, 1, n - 1)[n - 1] = s[n - 1]
    BY <1>1
  <2>2. r1 = [m.th[t] EXCEPT !.ci = SubSeq(s, 1, n - 1)]
    BY <1>1 DEF Popped, StateType
  <2> HIDE DEF r1, s
  <2>3. r1.ci = SubSeq(s, 1, n - 1) /\ r1 \in StateType
    BY <1>1, <2>1, <2>2, Zenon DEF StateType
  <2> QED
    BY <1>1, <2>1, <2>2, <2>3 DEF StateType
<1>5. /\ w1 \in Machine /\ w1.th[t] = r1 /\ w1.cs = w.cs /\ w1.lost = w.lost
      /\ \A u \in Threads \ {t} : w1.th[u] = w.th[u]
  <2>1. w \in Machine /\ t \in Threads /\ r1 \in StateType
    BY <1>1, <1>2, <1>4
  <2> HIDE DEF r1
  <2> QED
    BY ONLY <2>1, ThreadSet
<1> HIDE DEF w1, r1
<1>6. CutTo(m, q, v, j, w1, t)
  <2>1. Apart(m, q, v, w1, t)
    BY <1>2, <1>5 DEF Apart, Off
  <2> QED
    BY <1>1, <1>2, <1>3, <1>5, <2>1 DEF CutTo
<1>7. Sound(t, w1.th[t])
  <2>1. Framed(t, r1.ci)
    BY <1>1, <1>4, FramedPrefix DEF Sound
  <2>2. HandlerAt(t, r1.ci, Len(r1.ci), r1.errfunc)
    <3>1. n \in 1 .. Len(s) /\ HandlerAt(t, s, n, m.th[t].errfunc) /\ s[n].f \notin Guarding
      BY <1>1 DEF Sound, Guarding
    <3> QED
      BY <1>1, <1>4, <3>1, HandlerPop, Zenon
  <2> QED
    BY <1>1, <1>4, <1>5, <2>1, <2>2, Zenon DEF Sound
<1>8. Base(w1, q, v)
  <2>1. /\ Manned(m.cs, m.th[t].ci, q, t) /\ t \notin w1.lost
        /\ n - 1 \in 1 .. Len(m.th[t].ci) /\ w1.th[t].ci = SubSeq(m.th[t].ci, 1, n - 1)
        /\ w1.th[t].nny = v[j] /\ CutAt(m.cs, m.th[t].ci, q, t, j, n - 1)
    BY <1>1, <1>2, <1>4, <1>5
  <2> HIDE DEF s, n
  <2> QED
    BY ONLY <1>6, <1>7, <2>1, CutBase
<1>9. Going(w1) = t /\ Going(w) = t
  BY <1>3, <1>5 DEF Going
<1>10. Good(w1)
  <2>1. Goes(w1, q)
    BY <1>1, <1>3, <1>4, <1>5, <1>9, Zenon DEF Goes
  <2> QED
    BY <1>2, <1>5, <1>8, <2>1 DEF Good
<1>11. CASE ~(~ok /\ s[n].f = "wrap")
  <2>1. ResumeReturns(w, ok) = w1
    BY <1>2, <1>9, <1>11, Zenon DEF ResumeReturns, w1, r1, Going, Last
  <2> QED
    BY <1>10, <2>1
<1>12. CASE ~ok /\ s[n].f = "wrap"
  <2> DEFINE g == [s[n] EXCEPT !.f = "failed"]
             r2 == [m.th[t] EXCEPT !.ci = Append(r1.ci, g)]
             w2 == [w EXCEPT !.th[t] = r2]
  <2>1. /\ s[n] \in FrameType /\ g \in FrameType /\ g.f = "failed"
        /\ g.fresh = s[n].fresh /\ g.k = s[n].k /\ g.yp = s[n].yp
    <3>1. s[n] \in FrameType /\ "failed" \in Names
      BY <1>1 DEF Names, Leaving
    <3> QED
      BY ONLY <3>1 DEF FrameType
  <2>2. ResumeReturns(w, ok) = w2
    <3>1. ResumeReturns(w, ok) = [w EXCEPT !.th[t].ci[n].f = "failed"]
      BY <1>2, <1>9, <1>12, Zenon DEF ResumeReturns, Going, Last
    <3>2. [s EXCEPT ![n] = g] = Append(r1.ci, g)
      BY <1>1, <1>4, <2>1, ReplaceTop
    <3> QED
      BY <1>1, <1>2, <3>1, <3>2, Zenon DEF Machine, StateType
  <2>3. /\ r2 \in StateType /\ r2.ci = Append(r1.ci, g) /\ r2.status = m.th[t].status
        /\ r2.nny = m.th[t].nny /\ r2.nC = m.th[t].nC /\ r2.errfunc = m.th[t].errfunc
    <3>1. Append(r1.ci, g) \in Seq(FrameType)
      BY <1>4, <2>1, AppendElements
    <3> HIDE DEF g
    <3> QED
      BY <1>1, <3>1, Zenon DEF StateType
  <2>4. /\ w2 \in Machine /\ w2.th[t] = r2 /\ w2.cs = w.cs /\ w2.lost = w.lost
        /\ \A u \in Threads \ {t} : w2.th[u] = w.th[u]
    <3>1. w \in Machine /\ t \in Threads /\ r2 \in StateType
      BY <1>1, <1>2, <2>3
    <3> HIDE DEF r2
    <3> QED
      BY ONLY <3>1, ThreadSet
  <2>5. Alike(w1, w2, t)
    BY <1>5, <2>4 DEF Alike
  <2>6. ~s[n].fresh /\ ~s[n].k /\ ~s[n].yp
    <3>1. Framed(t, s) /\ n \in 1 .. Len(s) /\ s[n].f \notin Code /\ s[n].f \notin Guarding \cup {"callk"}
      BY <1>1 DEF Sound, Code, Guarding
    <3> QED
      BY <3>1, Zenon DEF Framed
  <2> HIDE DEF g, r2, w2
  <2>7. Callable(r1.ci, g, q[Len(w1.cs)])
    BY <1>1, <1>3, <1>4, <1>5, <2>1, <2>6, Zenon DEF Callable, Leaving
  <2>8. /\ Base(w2, q, v) /\ Len(w2.th[t].ci) = n /\ w2.th[t].ci[n] = g /\ q[j] <= n
    <3>1. Pushes(w1, q, v, w2, t, g)
      BY <1>1, <1>2, <1>3, <1>4, <1>5, <1>8, <1>9, <2>1, <2>3, <2>4, <2>5, <2>7, Zenon
      DEF Pushes, Sound, Code, Leaving
    <3>2. /\ Base(w2, q, v)
          /\ Len(w2.th[t].ci) = Len(w1.th[t].ci) + 1 /\ w2.th[t].ci[Len(w1.th[t].ci) + 1] = g
          /\ q[Len(w1.cs)] <= Len(w1.th[t].ci) + 1
      BY ONLY <3>1, PushTop
    <3>3. Len(w1.th[t].ci) + 1 = n
      BY <1>1, <1>4, <1>5
    <3>4. Len(w1.cs) = j
      BY <1>3, <1>5
    <3> QED
      BY ONLY <3>2, <3>3, <3>4, Zenon
  <2>9. Goes(w2, q)
    <3>1. Going(w2) = t
      BY <1>3, <2>4 DEF Going
    <3> QED
      BY <1>1, <1>3, <2>1, <2>3, <2>4, <2>8, <3>1, Zenon DEF Goes
  <2> QED
    BY <1>2, <2>2, <2>4, <2>8, <2>9 DEF Good
<1> QED
  BY <1>11, <1>12

-----------------------------------------------------------------------------
(* lua_resume goes on *)

\* The i-th call of r is a Lua function that can go on: only a C function that
\* has a continuation, or the one that yielded, is above it.
GoesOn(t, r, i) ==
  /\ i \in 1 .. Len(r.ci) /\ i >= Len(r.ci) - 1
  /\ r.ci[i].f = "lua" /\ (i < Len(r.ci) => r.ci[Len(r.ci)].f # "lua")
  /\ \A j \in 1 .. i : r.ci[j].f = "lua" \/ r.ci[j].k
  /\ Framed(t, SubSeq(r.ci, 1, i))
  /\ HandlerAt(t, r.ci, i, IF i < Len(r.ci) /\ r.ci[Len(r.ci)].yp THEN r.ci[Len(r.ci)].old
                           ELSE r.errfunc)

\* t runs again, in lua_resume.
Resumes(w, q, v, t) ==
  /\ w \in Machine /\ q \in Positions /\ v \in Positions
  /\ w.cs # << >> /\ t = Going(w) /\ w.cs[Len(w.cs)].a = "resume"
  /\ Stacked(w.cs) /\ Level(w.cs, v) /\ t \notin w.lost
  /\ \A u \in Threads \ {t} : Fits(w, q, v, u)
  /\ w.th[t].status = "ok" /\ w.th[t].nny = 0 /\ w.th[t].nC < HandlingCCalls
  /\ w.th[t].ci # << >> => \E i \in Nat : GoesOn(t, w.th[t], i)

\* The entry of lua_resume is the only one of t.
LEMMA ResumeEntry ==
  ASSUME NEW w, NEW q, NEW v, NEW t, Resumes(w, q, v, t)
  PROVE  /\ w.cs \in Seq(EntryType) /\ t \in Threads /\ t # Main /\ w.th[t] \in StateType
         /\ w.th[t].ci \in Seq(FrameType)
         /\ Len(w.cs) \in Nat /\ Len(w.cs) > 1 /\ w.cs[Len(w.cs)] \in EntryType
         /\ w.cs[Len(w.cs)].t = t /\ w.cs[Len(w.cs)].nny = 1
         /\ v[Len(w.cs)] = 0 /\ Own(w.cs, t) = {Len(w.cs)}
         /\ w.cs[Len(w.cs) - 1].t \in Threads /\ w.cs[Len(w.cs) - 1].t # t
<1> DEFINE c == w.cs
           n == Len(w.cs)
<1>1. /\ c \in Seq(EntryType) /\ c # << >> /\ t = c[n].t /\ c[n].a = "resume" /\ Stacked(c)
      /\ Level(c, v) /\ w.th \in [Threads -> StateType] /\ n = Len(c)
  BY DEF Resumes, Machine, Going
<1> HIDE DEF c, n
<1>2. n \in Nat /\ n >= 1 /\ n \in 1 .. Len(c) /\ c[n] \in EntryType
  BY <1>1
<1>3. n # 1
  BY <1>1 DEF Stacked, HostEntry
<1>4. n \in 2 .. Len(c) /\ n - 1 \in 1 .. Len(c)
  BY <1>1, <1>2, <1>3
<1>5. c[n].nny = 1 /\ \A i \in 1 .. n - 1 : c[i].t # t
  BY <1>1, <1>4 DEF Stacked
<1>6. t # Main
  <2>1. 1 \in 1 .. n - 1 /\ c[1].t = Main
    BY <1>1, <1>4 DEF Stacked, HostEntry
  <2> QED
    BY <1>5, <2>1
<1>7. ASSUME NEW j PROVE j \in Own(c, t) <=> j \in {n}
  <2>1. j \in 1 .. Len(c) => j = n \/ j \in 1 .. n - 1
    BY <1>1, <1>2
  <2> QED
    BY <1>1, <1>2, <1>5, <2>1 DEF Own
<1>8. v[n] = 0
  <2>1. \A i \in 1 .. n : c[i].t = c[n].t => i = n
    BY <1>1, <1>2, <1>5
  <2>2. Free(c, n)
    BY <1>1, <1>6, <2>1 DEF Free, Blocking
  <2> QED
    BY <1>1, <1>2, <2>2 DEF Level
<1>9. c[n - 1] \in EntryType /\ c[n - 1].t # t
  <2>1. n - 1 \in 1 .. n - 1
    BY <1>4
  <2> QED
    BY <1>1, <1>4, <1>5, <2>1
<1>10. t \in Threads /\ c[n - 1].t \in Threads
  BY <1>1, <1>2, <1>9 DEF EntryType
<1>11. w.th[t] \in StateType /\ w.th[t].ci \in Seq(FrameType)
  BY <1>1, <1>10, Zenon DEF StateType
<1> QED
  BY <1>1, <1>2, <1>4, <1>5, <1>6, <1>7, <1>8, <1>9, <1>10, <1>11 DEF c, n

\* The coroutine has ended.
LEMMA UnrollEnds ==
  ASSUME NEW w, NEW q, NEW v, NEW t, Resumes(w, q, v, t), w.th[t].ci = << >>
  PROVE  Good(Unroll(w, t))
<1> DEFINE n == Len(w.cs)
           s == w.th[t]
           e == w.cs[n]
           r == [s EXCEPT !.ci = << >>, !.nny = e.nny, !.nC = e.nC - 1, !.fn = FALSE]
           w2 == [w EXCEPT !.th[t] = r, !.cs = SubSeq(w.cs, 1, n - 1)]
           u0 == w.cs[n - 1].t
<1>1. /\ w.cs \in Seq(EntryType) /\ t \in Threads /\ t # Main /\ s \in StateType
      /\ s.ci \in Seq(FrameType)
      /\ n \in Nat /\ n > 1 /\ e \in EntryType /\ e.t = t /\ e.nny = 1
      /\ v[n] = 0 /\ Own(w.cs, t) = {n} /\ u0 \in Threads /\ u0 # t
  BY ResumeEntry
<1>2. /\ w \in Machine /\ q \in Positions /\ v \in Positions
      /\ Stacked(w.cs) /\ Level(w.cs, v) /\ t \notin w.lost
      /\ \A u \in Threads \ {t} : Fits(w, q, v, u)
      /\ s.status = "ok" /\ s.ci = << >>
  BY DEF Resumes
<1>3. Unroll(w, t) = ResumeReturns(w2, TRUE)
  <2>1. DOMAIN s.ci = {} /\ Len(s.ci) = 0 /\ SubSeq(s.ci, 1, 0) = << >>
    BY <1>2
  <2>2. LastLua(s) = 0 /\ FinishedHandler(s, 0) = s.errfunc
    <3> HIDE DEF s
    <3> QED
      BY <2>1 DEF LastLua, FinishedHandler
  <2>3. [[s EXCEPT !.ci = SubSeq(@, 1, 0), !.errfunc = s.errfunc]
           EXCEPT !.nny = e.nny, !.nC = e.nC - 1, !.fn = FALSE] = r
    BY <1>1, <2>1, Zenon DEF StateType
  <2>4. Last(w.cs) = e /\ Front(w.cs) = SubSeq(w.cs, 1, n - 1)
    BY DEF Last, Front
  <2> HIDE DEF s, e, n, r
  <2>5. Unroll(w, t) = ResumeReturns([w EXCEPT !.th[t] = [[s EXCEPT !.ci = SubSeq(@, 1, 0), !.errfunc = s.errfunc]
           EXCEPT !.nny = e.nny, !.nC = e.nC - 1, !.fn = FALSE], !.cs = SubSeq(w.cs, 1, n - 1)], TRUE)
    BY ONLY <1>2, <2>2, <2>4, Zenon DEF Unroll, s
  <2> QED
    BY <2>3, <2>5, Zenon
<1>4. r \in StateType /\ r.ci = << >> /\ r.nny = 1 /\ r.fn = FALSE /\ r.status = "ok"
  <2>1. e.nny = 1 /\ e \in EntryType /\ s \in StateType /\ s.status = "ok"
    BY <1>1, <1>2
  <2> HIDE DEF e, s
  <2>2. e.nC \in Int
    BY ONLY <2>1 DEF EntryType
  <2>3. << >> \in Seq(FrameType)
    OBVIOUS
  <2>4. r = [s EXCEPT !.ci = << >>, !.nny = 1, !.nC = e.nC - 1, !.fn = FALSE]
    BY ONLY <2>1
  <2> HIDE DEF r
  <2>5. e.nC - 1 \in Int /\ 1 \in Int /\ FALSE \in BOOLEAN
    BY ONLY <2>2
  <2> QED
    BY ONLY <2>1, <2>3, <2>4, <2>5, Zenon DEF StateType
<1> HIDE DEF r
<1>5. /\ w2 \in Machine /\ w2.th[t] = r /\ w2.cs = SubSeq(w.cs, 1, n - 1) /\ w2.lost = w.lost
      /\ \A u \in Threads \ {t} : w2.th[u] = w.th[u]
  <2>1. SubSeq(w.cs, 1, n - 1) \in Seq(EntryType)
    BY <1>1
  <2> QED
    BY <1>1, <1>2, <1>4, <2>1, Zenon DEF Machine
<1> HIDE DEF w2
<1>6. /\ n - 1 \in 0 .. Len(w.cs) /\ n - 1 \in Nat /\ n \in 1 .. Len(w.cs)
      /\ n - 1 \in 1 .. Len(w.cs) - 1 /\ n = n - 1 + 1
  BY <1>1
<1>7. Cuts(w, n - 1, n, t, w2)
  <2>1. ASSUME NEW u \in Threads \ {t}, NEW i \in n - 1 + 1 .. Len(w.cs) PROVE w.cs[i].t # u
    BY <1>1, <2>1
  <2> QED
    BY <1>1, <1>2, <1>5, <1>6, <2>1 DEF Cuts
<1>8. ASSUME NEW u \in Threads \ {u0}
      PROVE  IF Own(w2.cs, u) # {} THEN Fits(w, q, v, u) /\ w2.th[u] = w.th[u] /\ u \notin w2.lost
             ELSE Off(w2, u)
  <2>1. CASE u = t
    <3>1. Own(w2.cs, t) = {}
      <4>1. Len(w2.cs) = n - 1 /\ \A i \in 1 .. n - 1 : w2.cs[i] = w.cs[i]
        BY <1>1, <1>5, <1>6, PrefixElements
      <4>2. \A i \in 1 .. n - 1 : i \in 1 .. Len(w.cs) /\ i # n
        BY <1>1
      <4>3. \A i \in 1 .. n - 1 : w.cs[i].t # t
        BY <1>1, <4>2, Zenon DEF Own
      <4> QED
        BY <4>1, <4>3 DEF Own
    <3>2. AtRest(t, r)
      BY <1>1, <1>4 DEF AtRest
    <3>3. Off(w2, t)
      BY <1>2, <1>5, <3>2 DEF Off
    <3> QED
      BY <2>1, <3>1, <3>3
  <2>2. CASE u # t
    <3>1. Fits(w, q, v, u)
      BY <1>2, <2>2
    <3> QED
      BY <1>7, <2>2, <3>1, Spared, Zenon
  <2> QED
    BY <2>1, <2>2
<1>9. u0 \notin w2.lost
  <2>1. n - 1 \in Own(w.cs, u0)
    BY <1>6 DEF Own
  <2>2. Fits(w, q, v, u0)
    BY <1>1, <1>2
  <2> QED
    BY <1>5, <2>1, <2>2 DEF Fits
<1>10. LeavesTo(w, q, v, n - 1, w2, u0)
  <2>1. Apart(w, q, v, w2, u0)
    BY <1>8 DEF Apart
  <2>2. w.cs[n - 1 + 1].t # u0 /\ w2.th[u0] = w.th[u0] /\ Fits(w, q, v, u0)
    BY <1>1, <1>2, <1>5, <1>6
  <2> QED
    BY <1>1, <1>2, <1>5, <1>6, <1>9, <2>1, <2>2 DEF LeavesTo
<1>11. Good(ResumeReturns(w2, TRUE))
  BY <1>10, Returns, Zenon
<1> QED
  BY <1>3, <1>11, Zenon

\* The last Lua function has a luaV_execute of its own now.
LEMMA FramedFresh ==
  ASSUME NEW t, NEW s \in Seq(FrameType), NEW a, NEW i \in Nat, Len(s) = i, Framed(t, s),
         a \in Seq(FrameType), Len(a) = i, \A x \in 1 .. i - 1 : a[x] = s[x],
         a[i] = [s[i] EXCEPT !.fresh = TRUE], s[i].f = "lua"
  PROVE  Framed(t, a)
<1>1. s # << >> /\ i > 0 /\ i \in 1 .. i /\ s[i] \in FrameType
  BY DEF Framed
<1>2. /\ a[i].f = s[i].f /\ a[i].k = s[i].k /\ a[i].yp = s[i].yp /\ a[i].old = s[i].old
      /\ a[i].fresh
  BY <1>1 DEF FrameType
<1>3. ASSUME NEW x \in 1 .. i
      PROVE  /\ a[x].f = s[x].f /\ a[x].k = s[x].k /\ a[x].yp = s[x].yp /\ a[x].old = s[x].old
             /\ ~a[x].fresh => ~s[x].fresh
             /\ ~s[x].fresh => x = i \/ ~a[x].fresh
  <2>1. CASE x \in 1 .. i - 1
    BY <2>1
  <2>2. CASE x = i
    BY <1>2, <2>2, Zenon
  <2> QED
    BY <2>1, <2>2
<1>4. ASSUME NEW x \in 1 .. i
      PROVE  /\ a[x].f \notin Code => ~a[x].fresh
             /\ ~a[x].fresh => x > 1 /\ a[x - 1].f \in Code
             /\ a[x].k => x > 1 /\ a[x - 1].f = "lua" /\ a[x].f \in Guarding \cup {"callk"}
             /\ a[x].yp <=> a[x].k /\ a[x].f \in Guarding
             /\ a[x].yp => HandlerAt(t, a, x - 1, a[x].old)
  <2>1. /\ s[x].f \notin Code => ~s[x].fresh
        /\ ~s[x].fresh => x > 1 /\ s[x - 1].f \in Code
        /\ s[x].k => x > 1 /\ s[x - 1].f = "lua" /\ s[x].f \in Guarding \cup {"callk"}
        /\ s[x].yp <=> s[x].k /\ s[x].f \in Guarding
        /\ s[x].yp => HandlerAt(t, s, x - 1, s[x].old)
    BY DEF Framed
  <2>2. x > 1 => a[x - 1].f = s[x - 1].f
    BY <1>3
  <2>3. HandlerAt(t, s, x - 1, s[x].old) => HandlerAt(t, a, x - 1, s[x].old)
    <3>1. x - 1 \in Int /\ \A y \in 1 .. x - 1 : a[y].f = s[y].f
      BY <1>3
    <3> QED
      BY <3>1, HandlerSame
  <2> QED
    BY <1>3, <2>1, <2>2, <2>3 DEF Code
<1> QED
  BY <1>1, <1>3, <1>4 DEF Framed

\* The Lua function that goes on, with the handler h.
LEMMA UnrollFinds ==
  ASSUME NEW t, NEW r \in StateType, NEW i, GoesOn(t, r, i)
  PROVE  /\ LastLua(r) = i
         /\ FinishedHandler(r, i) = IF i < Len(r.ci) /\ r.ci[Len(r.ci)].yp
                                    THEN r.ci[Len(r.ci)].old ELSE r.errfunc
<1> DEFINE s == r.ci
           luas == {x \in DOMAIN s : s[x].f = "lua"}
           yps == {j \in i + 1 .. Len(s) : s[j].yp}
<1>0. /\ LastLua(r) = IF luas = {} THEN 0 ELSE Max(luas)
      /\ FinishedHandler(r, i) = IF yps = {} THEN r.errfunc ELSE s[Min(yps)].old
  BY DEF LastLua, FinishedHandler
<1>1. s \in Seq(FrameType) /\ Len(s) \in Nat /\ DOMAIN s = 1 .. Len(s)
  BY DEF StateType
<1>2. /\ i \in 1 .. Len(s) /\ i >= Len(s) - 1 /\ s[i].f = "lua"
      /\ i < Len(s) => s[Len(s)].f # "lua"
  BY DEF GoesOn
<1> HIDE DEF s
<1>3. i \in luas
  BY <1>1, <1>2
<1>4. ASSUME NEW x \in luas PROVE x <= i /\ x \in Int
  <2>1. x \in 1 .. Len(s) /\ s[x].f = "lua"
    BY <1>1
  <2> QED
    BY <1>1, <1>2, <2>1
<1>6. Max(luas) = i
  <2>1. luas \subseteq Int /\ \A x \in luas : x <= i
    BY <1>4
  <2> HIDE DEF luas
  <2> QED
    BY <1>3, <2>1, MaxIs, Zenon
<1>7. CASE i < Len(s) /\ s[Len(s)].yp
  <2>1. yps = {Len(s)}
    BY <1>1, <1>2, <1>7
  <2>2. Min(yps) = Len(s)
    <3>1. yps \subseteq Int /\ Len(s) \in yps /\ \A x \in yps : Len(s) <= x
      <4> HIDE DEF yps
      <4> QED
        BY <1>1, <2>1
    <3> HIDE DEF yps
    <3> QED
      BY <3>1, MinIs, Zenon
  <2> QED
    <3> HIDE DEF luas, yps
    <3> QED
      BY <1>0, <1>3, <1>6, <1>7, <2>1, <2>2, Zenon DEF s
<1>8. CASE ~(i < Len(s) /\ s[Len(s)].yp)
  <2>1. yps = {}
    BY <1>1, <1>2, <1>8
  <2> QED
    <3> HIDE DEF luas, yps
    <3> QED
      BY <1>0, <1>3, <1>6, <1>8, <2>1 DEF s
<1> QED
  BY <1>7, <1>8

\* A Lua function of the coroutine goes on.
LEMMA UnrollGoesOn ==
  ASSUME NEW w, NEW q, NEW v, NEW t, Resumes(w, q, v, t), w.th[t].ci # << >>
  PROVE  Good(Unroll(w, t))
<1> DEFINE n == Len(w.cs)
           c == w.cs
           s == w.th[t]
<1>1. /\ c \in Seq(EntryType) /\ t \in Threads /\ t # Main /\ s \in StateType
      /\ s.ci \in Seq(FrameType) /\ n \in Nat /\ n > 1 /\ n = n - 1 + 1 /\ c[n].t = t
      /\ v[n] = 0 /\ Own(c, t) = {n}
  BY ResumeEntry
<1>2. /\ w \in Machine /\ q \in Positions /\ v \in Positions
      /\ c # << >> /\ t = Going(w) /\ c[n].a = "resume"
      /\ Stacked(c) /\ Level(c, v) /\ t \notin w.lost
      /\ \A u \in Threads \ {t} : Fits(w, q, v, u)
      /\ s.status = "ok" /\ s.nny = 0 /\ s.nC < HandlingCCalls
  BY DEF Resumes
<1>3. PICK i \in Nat : GoesOn(t, s, i)
  BY DEF Resumes
<1> DEFINE h == IF i < Len(s.ci) /\ s.ci[Len(s.ci)].yp THEN s.ci[Len(s.ci)].old ELSE s.errfunc
           b == SubSeq(s.ci, 1, i)
           g == [b[i] EXCEPT !.fresh = TRUE]
           a == [b EXCEPT ![i] = g]
           r == [s EXCEPT !.ci = a, !.errfunc = h]
           w2 == [w EXCEPT !.th[t] = r]
           p == With(q, n - 1, i)
<1>4. /\ i \in 1 .. Len(s.ci) /\ s.ci[i].f = "lua"
      /\ \A j \in 1 .. i : s.ci[j].f = "lua" \/ s.ci[j].k
      /\ Framed(t, b) /\ HandlerAt(t, s.ci, i, h)
  BY <1>3 DEF GoesOn
<1>5. /\ b \in Seq(FrameType) /\ Len(b) = i /\ i \in 1 .. i /\ i \in 0 .. Len(s.ci)
      /\ \A x \in 1 .. i : b[x] = s.ci[x]
  BY <1>1, <1>4, PrefixElements
<1>6. h \in Int
  <2>1. Len(s.ci) \in 1 .. Len(s.ci)
    BY <1>1, <1>4
  <2>2. s.ci[Len(s.ci)] \in FrameType
    BY <1>1, <2>1
  <2> QED
    BY <1>1, <2>2 DEF FrameType, StateType
<1> HIDE DEF h, b
<1>7. g \in FrameType /\ g.f = "lua" /\ g.fresh /\ g.k = b[i].k
  <2>1. b[i] \in FrameType /\ b[i].f = "lua"
    BY <1>4, <1>5
  <2> QED
    BY ONLY <2>1, Zenon DEF FrameType
<1>8. /\ a \in Seq(FrameType) /\ Len(a) = i /\ a[i] = g /\ \A x \in 1 .. i - 1 : a[x] = b[x]
  <2> HIDE DEF g
  <2> QED
    BY <1>5, <1>7
<1>9. Framed(t, a)
  <2> HIDE DEF a
  <2> QED
    BY <1>4, <1>5, <1>8, FramedFresh, Zenon
<1>10. ASSUME NEW x \in 1 .. i PROVE a[x].f = s.ci[x].f /\ a[x].k = s.ci[x].k
  <2>1. x = i \/ x \in 1 .. i - 1
    OBVIOUS
  <2> HIDE DEF a, g
  <2> QED
    BY <1>4, <1>5, <1>7, <1>8, <2>1
<1> HIDE DEF g, a
<1>11. HandlerAt(t, a, i, h)
  BY <1>4, <1>10, HandlerSame
<1>12. /\ r \in StateType /\ r.ci = a /\ r.errfunc = h /\ r.status = "ok" /\ r.nny = 0
       /\ r.nC = s.nC
  <2>1. s \in StateType /\ s.status = "ok" /\ s.nny = 0
    BY <1>1, <1>2
  <2> HIDE DEF s
  <2> QED
    BY ONLY <1>6, <1>8, <2>1, Zenon DEF StateType
<1>13. Unroll(w, t) = w2
  <2> DEFINE s1 == [s EXCEPT !.ci = b, !.errfunc = h]
  <2>1. LastLua(s) = i /\ FinishedHandler(s, i) = h
    <3>1. s \in StateType /\ GoesOn(t, s, i)
      BY <1>1, <1>3
    <3> HIDE DEF s
    <3> QED
      BY ONLY <3>1, UnrollFinds DEF h
  <2>2. i # 0
    BY <1>4
  <2>3. [s1 EXCEPT !.ci[i].fresh = TRUE] = r
    BY <1>1, Zenon DEF a, g, StateType
  <2>4. Unroll(w, t) = [w EXCEPT !.th[t] = [s1 EXCEPT !.ci[i].fresh = TRUE]]
    BY ONLY <2>1, <2>2, Zenon DEF Unroll, b
  <2> QED
    BY <2>3, <2>4
<1> HIDE DEF r
<1>14. /\ w2 \in Machine /\ w2.th[t] = r /\ w2.cs = c /\ w2.lost = w.lost
       /\ \A u \in Threads \ {t} : w2.th[u] = w.th[u]
  BY <1>1, <1>2, <1>12, ThreadSet
<1>15. /\ p \in Positions /\ p[n] = i /\ \A j \in 1 .. n - 1 : p[j] = q[j]
  <2>1. n - 1 \in Nat /\ i \in Nat /\ q \in Positions
    BY <1>1, <1>2
  <2>2. p \in Positions /\ p[n - 1 + 1] = i /\ \A j \in 1 .. n - 1 : p[j] = q[j]
    BY ONLY <2>1, OneMore, Zenon
  <2> HIDE DEF p
  <2> QED
    BY <1>1, <2>2
<1> HIDE DEF p, w2
<1>16. Manned(c, a, p, t)
  <2>1. Ordered(c, p, t) /\ Claimed(c, a, p, t) /\ Stuck(c, a, p, t)
    BY <1>1, <1>2, <1>8, <1>15 DEF Ordered, Claimed, Stuck, Blocking
  <2>2. Placed(c, a, p, t)
    BY <1>1, <1>5, <1>7, <1>8, <1>15 DEF Placed, Entered, Code
  <2>3. AllMade(c, a, p, t)
    BY <1>1, <1>2, <1>15 DEF AllMade, Made
  <2>4. Covered(c, a, p, t)
    BY <1>4, <1>8, <1>10 DEF Covered, Leaves
  <2> QED
    BY <2>1, <2>2, <2>3, <2>4 DEF Manned, Linked
<1>17. Fits(w2, p, v, t)
  <2>1. Sound(t, r)
    BY <1>8, <1>9, <1>11, <1>12 DEF Sound
  <2>2. Counted(c, v, t, r)
    BY <1>1, <1>12 DEF Counted
  <2> QED
    BY <1>1, <1>2, <1>12, <1>14, <1>16, <2>1, <2>2 DEF Fits, Busy
<1>18. ASSUME NEW u \in Threads \ {t} PROVE Fits(w2, p, v, u)
  <2>1. ASSUME NEW j \in Own(c, u)
        PROVE  j < n /\ w2.cs[j] = c[j] /\ p[j] = q[j] /\ v[j] = v[j]
    <3>1. j \in 1 .. n /\ j # n
      BY <1>1 DEF Own
    <3> QED
      BY <1>1, <1>14, <1>15, <3>1
  <2>2. Fits(w, q, v, u)
    BY <1>2
  <2> QED
    BY <1>1, <1>14, <2>1, <2>2, FitsKept
<1>19. Base(w2, p, v)
  BY <1>2, <1>14, <1>17, <1>18 DEF Base
<1>20. Goes(w2, p)
  <2>1. Going(w2) = t
    BY <1>1, <1>14 DEF Going
  <2> QED
    BY <1>2, <1>7, <1>8, <1>12, <1>14, <1>15, <2>1 DEF Goes, Code
<1> QED
  BY <1>2, <1>13, <1>14, <1>15, <1>19, <1>20 DEF Good

\* lua_resume keeps the invariant (unroll).
LEMMA Unrolls ==
  ASSUME NEW w, NEW q, NEW v, NEW t, Resumes(w, q, v, t)
  PROVE  Good(Unroll(w, t))
BY UnrollEnds, UnrollGoesOn
=====
