--------------------------- MODULE LuaThreadProofs ---------------------------
(***************************************************************************)
(* Theorems about LuaThread, for any number of coroutines and any limits:  *)
(* whatever calls, yields, resumes and longjmps were made, the counters    *)
(* nny and nCcalls and the message handler are those of the C frames that  *)
(* are left, and a coroutine that has yielded can be continued.  One lemma *)
(* for each thing that Lua code, a longjmp or the host may do.             *)
(***************************************************************************)
EXTENDS LuaThreadLemmas

-----------------------------------------------------------------------------
(* Errors *)

\* A set of positions that is not empty has a first one.
LEMMA MinExists ==
  ASSUME NEW S, S \subseteq Nat, S # {}
  PROVE  \E x \in S : \A y \in S : x <= y
<1>1. PICK x \in S : \A y \in S : ~(<<y, x>> \in OpToRel(<, Nat))
  BY NatLessThanWellFounded, WFMin, Zenon
<1>2. \A y \in S : ~(y < x)
  BY <1>1, Zenon DEF OpToRel
<1> QED
  BY <1>2

\* A thread on the C stack has an errorJmp.
LEMMA Jumps ==
  ASSUME NEW m \in Machine, Stacked(m.cs), NEW t, Own(m.cs, t) # {}
  PROVE  /\ ErrorJmp(m, t) \in Own(m.cs, t)
         /\ m.cs[ErrorJmp(m, t)].a \in {"pcall", "resume"}
         /\ \A i \in Own(m.cs, t) : i > ErrorJmp(m, t) => m.cs[i].a \notin {"pcall", "resume"}
<1> DEFINE c == m.cs
           jmps == {i \in DOMAIN c : c[i].t = t /\ c[i].a \in {"pcall", "resume"}}
<1>1. c \in Seq(EntryType) /\ Len(c) \in Nat /\ DOMAIN c = 1 .. Len(c)
  BY DEF Machine
<1>2. \A i : i \in Own(c, t) <=> i \in 1 .. Len(c) /\ c[i].t = t
  BY DEF Own
<1>3. Own(c, t) \subseteq Nat
  BY <1>1, <1>2
<1>4. PICK i \in Own(c, t) : \A k \in Own(c, t) : i <= k
  BY <1>3, MinExists
<1>5. i \in jmps
  <2>1. CASE i = 1
    <3>1. c # << >>
      BY <1>1, <1>2
    <3> QED
      BY <1>1, <1>2, <2>1, <3>1 DEF Stacked, HostEntry
  <2>2. CASE i # 1
    <3>1. i \in 2 .. Len(c) /\ i - 1 \in 1 .. Len(c)
      BY <1>1, <1>2, <2>2
    <3>2. c[i].a = "resume" \/ c[i].t = c[i - 1].t
      BY <3>1 DEF Stacked
    <3>3. c[i].t # c[i - 1].t
      BY <1>2, <1>3, <1>4, <3>1
    <3> QED
      BY <1>1, <1>2, <3>2, <3>3
  <2> QED
    BY <2>1, <2>2
<1>6. PICK j \in jmps : \A x \in jmps : x <= j
  <2>1. jmps \subseteq 1 .. Len(c) /\ jmps # {}
    BY <1>1, <1>5
  <2> HIDE DEF jmps
  <2> QED
    BY <1>1, <2>1, MaxExists, Zenon
<1>7. ErrorJmp(m, t) = j
  <2>1. jmps \subseteq Int
    BY <1>1
  <2>2. ErrorJmp(m, t) = Max(jmps)
    BY DEF ErrorJmp
  <2> HIDE DEF jmps
  <2> QED
    BY <1>6, <2>1, <2>2, MaxIs, Zenon
<1>8. j \in Own(c, t) /\ c[j].a \in {"pcall", "resume"}
  BY <1>1, <1>2
<1>9. ASSUME NEW x \in Own(c, t), x > j PROVE c[x].a \notin {"pcall", "resume"}
  <2>1. x \notin jmps
    BY <1>1, <1>2, <1>3, <1>6, <1>8, <1>9
  <2> QED
    BY <1>1, <1>2, <2>1
<1> QED
  BY <1>7, <1>8, <1>9

\* The host runs again.
LEMMA Emptied ==
  ASSUME NEW w \in Machine, w.cs = << >>, Main \notin w.lost, AtRest(Main, w.th[Main]),
         \A u \in Threads \ {Main} : Off(w, u)
  PROVE  Good(w)
<1> DEFINE q == [i \in Nat |-> 0]
<1>1. q \in Positions
  BY DEF Positions
<1>2. Stacked(w.cs) /\ Level(w.cs, q) /\ \A u \in Threads : Own(w.cs, u) = {}
  BY DEF Stacked, Level, Together, Own
<1>3. ASSUME NEW u \in Threads PROVE Fits(w, q, q, u)
  <2>1. Off(w, u)
    BY DEF Off
  <2> QED
    BY <1>2, <2>1 DEF Fits
<1>4. Base(w, q, q) /\ Goes(w, q)
  BY <1>2, <1>3 DEF Base, Goes
<1> QED
  BY <1>1, <1>4 DEF Good

\* A prefix of a prefix.
LEMMA PrefixTwice ==
  ASSUME NEW T, NEW s \in Seq(T), NEW n \in 0 .. Len(s), NEW k \in 0 .. n
  PROVE  SubSeq(SubSeq(s, 1, n), 1, k) = SubSeq(s, 1, k)
<1> DEFINE a == SubSeq(s, 1, n)
           b == SubSeq(s, 1, k)
           d == SubSeq(a, 1, k)
<1>1. n \in Nat /\ k \in Nat /\ k <= n /\ k \in 0 .. Len(s)
  OBVIOUS
<1>2. a \in Seq(T) /\ Len(a) = n /\ \A i \in 1 .. n : a[i] = s[i]
  BY PrefixElements
<1>3. b \in Seq(T) /\ Len(b) = k /\ \A i \in 1 .. k : b[i] = s[i]
  BY <1>1, PrefixElements
<1> HIDE DEF a, b
<1>4. d \in Seq(T) /\ Len(d) = k /\ \A i \in 1 .. k : d[i] = a[i]
  BY <1>1, <1>2, PrefixElements
<1> HIDE DEF d
<1>5. \A i \in 1 .. k : d[i] = b[i]
  BY <1>1, <1>2, <1>3, <1>4
<1>6. d = b
  BY <1>3, <1>4, <1>5
<1> QED
  BY <1>6 DEF a, b, d

\* What an entry of luaD_pcall remembers, above the first.
LEMMA PcallEntry ==
  ASSUME NEW m \in Machine, NEW q \in Positions, NEW v \in Positions, Base(m, q, v),
         NEW t, NEW j \in Own(m.cs, t), j # 1, m.cs[j].a = "pcall"
  PROVE  LET s == m.th[t].ci
             p == q[j] - 2
         IN /\ j - 1 \in 1 .. Len(m.cs) /\ m.cs[j - 1].t = t /\ m.cs[j].nny = v[j - 1]
            /\ m.cs[j].nC < HandlingCCalls /\ m.cs[j].d = p + 1
            /\ p \in 1 .. Len(s) /\ p + 1 \in 1 .. Len(s) /\ s[p].f \in Code /\ q[j - 1] <= p
            /\ HandlerAt(t, s, p, m.cs[j].errfunc) /\ CutAt(m.cs, s, q, t, j - 1, p)
<1> DEFINE c == m.cs
           s == m.th[t].ci
           p == q[j] - 2
<1>1. c \in Seq(EntryType) /\ Len(c) \in Nat /\ j \in 1 .. Len(c) /\ c[j].t = t
  BY DEF Machine, Own
<1>2. j \in 2 .. Len(c) /\ j - 1 \in 1 .. Len(c) /\ j \in Nat /\ j > 1
  BY <1>1
<1>3. Stacked(c) /\ Level(c, v)
  BY DEF Base
<1>4. c[j - 1].t = t
  BY <1>1, <1>2, <1>3 DEF Stacked
<1>5. c[j].nny = v[j - 1] /\ c[j].nC < HandlingCCalls
  <2>1. j \in 1 .. Len(c) /\ j > 1 /\ c[j].a = "pcall"
    BY <1>1, <1>2
  <2> HIDE DEF c
  <2>2. c[j].nny = v[j - 1]
    BY ONLY <1>3, <2>1 DEF Level
  <2>3. c[j].nC < HandlingCCalls
    BY ONLY <1>3, <2>1 DEF Stacked
  <2> QED
    BY <2>2, <2>3
<1>6. t \in Threads
  <2>1. c[j] \in EntryType /\ c[j].t = t
    BY <1>1
  <2> QED
    BY ONLY <2>1 DEF EntryType
<1>7. Busy(m, q, v, t)
  BY <1>6 DEF Base, Fits
<1>8. s \in Seq(FrameType) /\ Len(s) \in Nat
  BY <1>6 DEF Machine, StateType
<1>9. Framed(t, s) /\ Linked(c, s, q, t)
  BY <1>7 DEF Busy, Sound, Manned
<1>10. Made(t, s, c[j], j, q[j])
  BY <1>9 DEF Linked, AllMade
<1>11. /\ q[j] > 2 /\ s[q[j] - 1].f \in Guarding /\ c[j].d = q[j] - 1 /\ q[j] \in Nat
       /\ HandlerAt(t, s, q[j] - 2, c[j].errfunc)
  BY <1>2, <1>10 DEF Made, Positions
<1> HIDE DEF c, s
<1>12. \A i \in Own(c, t) : q[i] \in Nat /\ (Entered(s, q[i]) \/ q[i] = Len(s) + 1)
  <2>1. ASSUME NEW i \in Own(c, t) PROVE i \in Nat /\ (Entered(s, q[i]) \/ q[i] = Len(s) + 1)
    BY <1>1, <1>9 DEF Linked, Placed, Own
  <2> QED
    BY <2>1 DEF Positions
<1>13. j \in Own(c, t)
  BY DEF c
<1>14. q[j] <= Len(s) + 1
  BY <1>8, <1>11, <1>12, <1>13 DEF Entered
<1>15. p \in 1 .. Len(s) /\ p + 1 \in 1 .. Len(s) /\ p + 1 = q[j] - 1 /\ p \in Nat
  BY <1>8, <1>11, <1>14
<1>16. s[p].f \in Code /\ s[p + 1].f \notin Code
  <2>1. s[p + 1].f \in Guarding /\ s[p + 1].f \notin Code
    BY <1>11, <1>15 DEF Guarding, Code
  <2>2. ~s[p + 1].fresh /\ p + 1 - 1 = p
    BY <1>9, <1>15, <2>1 DEF Framed
  <2> QED
    BY <1>9, <1>15, <2>1, <2>2 DEF Framed
<1>17. ASSUME NEW i \in Own(c, t), i < j PROVE q[i] <= p
  <2>1. q[i] < q[j]
    <3>1. \A x, y \in Own(c, t) : x < y => q[x] < q[y] \/ (q[x] = q[y] /\ c[y].a = "handler")
      BY <1>9 DEF Linked, Ordered
    <3>2. c[j].a # "handler"
      BY DEF c
    <3> QED
      BY <1>13, <1>17, <3>1, <3>2
  <2>2. q[i] # p + 1
    <3>1. q[i] # Len(s) + 1
      BY <1>11, <1>12, <1>14, <2>1, <1>8
    <3>2. Entered(s, q[i])
      BY <1>12, <3>1
    <3> QED
      BY <1>16, <3>2 DEF Entered
  <2> QED
    BY <1>11, <1>12, <1>15, <2>1, <2>2
<1>18. ASSUME NEW i \in Own(c, t), ~(i < j)
       PROVE  p < q[i] - 1 \/ i = j
  <2>1. CASE i = j
    BY <2>1
  <2>2. CASE i > j
    <3>1. q[j] < q[i] \/ q[j] = q[i]
      BY <1>9, <1>13, <2>2 DEF Linked, Ordered
    <3> QED
      BY <1>11, <1>12, <1>15, <3>1
  <2> QED
    BY <1>1, <1>2, <1>18, <2>1, <2>2 DEF Own
<1>19. CutAt(c, s, q, t, j - 1, p)
  <2>1. ASSUME NEW i \in Own(c, t)
        PROVE  IF i <= j - 1 THEN q[i] <= p
               ELSE p < q[i] /\ (c[i].a \in {"noyield", "pcall"} => p < q[i] - 1)
    <3>1. i \in Int /\ j \in Int /\ q[i] \in Nat
      BY <1>1, <1>12 DEF Own
    <3>2. i <= j - 1 <=> i < j
      BY <3>1
    <3>3. p < q[j] - 1
      BY <1>11, <1>15
    <3> QED
      BY <1>15, <1>17, <1>18, <3>1, <3>2, <3>3
  <2> QED
    BY <2>1 DEF CutAt
<1>20. q[j - 1] <= p
  <2>1. j - 1 \in Own(c, t) /\ j - 1 < j
    BY <1>2, <1>4 DEF Own, c
  <2> QED
    BY <1>17, <2>1
<1> QED
  BY <1>2, <1>4, <1>5, <1>11, <1>15, <1>16, <1>19, <1>20 DEF c, s

\* An error of t, a thread on the C stack, that no handler gets; j is its errorJmp.
Throws(m, q, v, t, j) ==
  /\ m \in Machine /\ q \in Positions /\ v \in Positions /\ Base(m, q, v)
  /\ j = ErrorJmp(m, t) /\ t \in Threads /\ j \in Own(m.cs, t)
  /\ m.cs[j].a \in {"pcall", "resume"}
  /\ \A i \in Own(m.cs, t) : i > j => m.cs[i].a \notin {"pcall", "resume"}

\* What is known of that thread.
LEMMA ThrowsFacts ==
  ASSUME NEW m, NEW q, NEW v, NEW t, NEW j, Throws(m, q, v, t, j)
  PROVE  /\ m.cs \in Seq(EntryType) /\ Len(m.cs) \in Nat /\ m.lost \subseteq Threads
         /\ j \in 1 .. Len(m.cs) /\ m.cs[j].t = t /\ m.cs[j] \in EntryType
         /\ m.th[t] \in StateType /\ m.th[t].ci \in Seq(FrameType) /\ Len(m.th[t].ci) \in Nat
         /\ t \notin m.lost /\ Sound(t, m.th[t]) /\ Manned(m.cs, m.th[t].ci, q, t)
         /\ Stacked(m.cs) /\ Level(m.cs, v) /\ m.cs[1] = HostEntry
<1>1. m.cs \in Seq(EntryType) /\ m.lost \subseteq Threads /\ m.th \in [Threads -> StateType]
  BY DEF Throws, Machine
<1>2. j \in 1 .. Len(m.cs) /\ m.cs[j].t = t /\ m.cs # << >>
  BY <1>1 DEF Throws, Own
<1>3. t \notin m.lost /\ Busy(m, q, v, t) /\ Stacked(m.cs) /\ Level(m.cs, v)
  BY DEF Throws, Base, Fits
<1>4. m.th[t] \in StateType
  BY <1>1 DEF Throws
<1>5. m.cs[1] = HostEntry
  BY <1>2, <1>3 DEF Stacked
<1> QED
  BY <1>1, <1>2, <1>3, <1>4, <1>5 DEF Busy, StateType

\* The threads above that entry are lost.
CutFrom(m, t, j) == {m.cs[i].t : i \in {x \in DOMAIN m.cs : x > j}} \ {t}

\* w is m when it has been thrown: the first n entries are left.
Thrown(m, q, v, t, j, n, w) ==
  /\ Throws(m, q, v, t, j) /\ (n = j - 1 \/ n = j)
  /\ w.cs = SubSeq(m.cs, 1, n) /\ w.lost = m.lost \cup CutFrom(m, t, j)
  /\ \A u \in Threads \ {t} : w.th[u] = m.th[u]

\* The other threads are as they were, or lost.
LEMMA ThrowCuts ==
  ASSUME NEW m, NEW q, NEW v, NEW t, NEW j, NEW n, NEW w, Thrown(m, q, v, t, j, n, w)
  PROVE  /\ Cuts(m, n, j, t, w) /\ t \notin w.lost
         /\ \A u \in Threads \ {t} :
              IF Own(w.cs, u) # {} THEN Fits(m, q, v, u) /\ w.th[u] = m.th[u] /\ u \notin w.lost
              ELSE Off(w, u)
<1> USE DEF Thrown
<1>1. /\ m \in Machine /\ m.cs \in Seq(EntryType) /\ Len(m.cs) \in Nat
      /\ j \in 1 .. Len(m.cs) /\ m.cs[j].t = t /\ Stacked(m.cs) /\ t \notin m.lost
  BY ThrowsFacts DEF Throws
<1>2. n \in 0 .. Len(m.cs) /\ (j = n \/ j = n + 1) /\ DOMAIN m.cs = 1 .. Len(m.cs)
  <2>1. n = j - 1 \/ n = j
    OBVIOUS
  <2>2. DOMAIN m.cs = 1 .. Len(m.cs)
    BY <1>1
  <2>3. j \in 1 .. Len(m.cs) /\ Len(m.cs) \in Nat
    BY <1>1
  <2>4. n \in 0 .. Len(m.cs) /\ (j = n \/ j = n + 1)
    BY ONLY <2>1, <2>3
  <2> QED
    BY <2>2, <2>4
<1>3. ASSUME NEW u \in Threads \ {t}
      PROVE  u \in w.lost <=> u \in m.lost \/ \E i \in n + 1 .. Len(m.cs) : m.cs[i].t = u
  <2>1. u \in CutFrom(m, t, j) => \E i \in n + 1 .. Len(m.cs) : m.cs[i].t = u
    <3>1. ASSUME u \in CutFrom(m, t, j) PROVE \E i \in n + 1 .. Len(m.cs) : m.cs[i].t = u
      <4>1. PICK i \in DOMAIN m.cs : i > j /\ m.cs[i].t = u
        BY <3>1 DEF CutFrom
      <4>2. i \in n + 1 .. Len(m.cs)
        BY <1>1, <1>2, <4>1
      <4> QED
        BY <4>1, <4>2
    <3> QED
      BY <3>1
  <2>2. ASSUME NEW i \in n + 1 .. Len(m.cs), m.cs[i].t = u PROVE u \in CutFrom(m, t, j)
    <3>1. i # j
      BY <1>1, <2>2
    <3>2. i \in DOMAIN m.cs /\ i > j
      BY <1>1, <1>2, <3>1
    <3> QED
      BY <2>2, <3>2 DEF CutFrom
  <2> QED
    BY <2>1, <2>2
<1>4. Cuts(m, n, j, t, w)
  BY <1>1, <1>2, <1>3 DEF Cuts
<1>5. t \notin w.lost
  BY <1>1 DEF CutFrom
<1>6. ASSUME NEW u \in Threads \ {t}
      PROVE  IF Own(w.cs, u) # {} THEN Fits(m, q, v, u) /\ w.th[u] = m.th[u] /\ u \notin w.lost
             ELSE Off(w, u)
  <2>1. Fits(m, q, v, u) /\ u # t /\ u \in Threads
    BY DEF Throws, Base
  <2> QED
    BY ONLY <1>4, <2>1, Spared
<1> QED
  BY <1>4, <1>5, <1>6

\* The host catches the error.
LEMMA ThrowToHost ==
  ASSUME NEW m, NEW q, NEW v, NEW t, NEW j, Throws(m, q, v, t, j), j = 1
  PROVE  Good(Throw(m, t))
<1> DEFINE s == m.th[t]
           l == m.lost \cup CutFrom(m, t, j)
           r == [s EXCEPT !.ci = << >>, !.nny = 1, !.errfunc = 0, !.nC = 0]
           w == [[m EXCEPT !.lost = l] EXCEPT !.th[t] = r, !.cs = << >>]
<1>1. /\ m \in Machine /\ m.cs \in Seq(EntryType) /\ m.cs[j] = HostEntry /\ t = Main
      /\ t \in Threads /\ s \in StateType /\ m.lost \subseteq Threads /\ s.status = "ok"
      /\ s.ci \in Seq(FrameType) /\ j = ErrorJmp(m, t)
  <2>1. /\ m.cs \in Seq(EntryType) /\ m.lost \subseteq Threads /\ m.cs[j].t = t
        /\ m.th[t] \in StateType /\ m.th[t].ci \in Seq(FrameType)
        /\ Sound(t, m.th[t]) /\ m.cs[1] = HostEntry
    BY ThrowsFacts
  <2>2. m \in Machine /\ t \in Threads /\ j = ErrorJmp(m, t)
    BY DEF Throws
  <2>3. t = Main
    BY <2>1 DEF HostEntry
  <2> QED
    BY <2>1, <2>2, <2>3 DEF Sound
<1>2. SubSeq(m.cs, 1, j - 1) = << >> /\ SubSeq(s.ci, 1, 0) = << >>
  BY <1>1
<1>3. Throw(m, t) = w
  <2>1. /\ m.cs[j].a = "pcall" /\ m.cs[j].d = 0 /\ m.cs[j].nny = 1 /\ m.cs[j].errfunc = 0
        /\ m.cs[j].nC = 0
    BY <1>1 DEF HostEntry
  <2>2. Throw(m, t) = [[m EXCEPT !.lost = l] EXCEPT
                        !.th[t] = [s EXCEPT !.ci = SubSeq(@, 1, 0), !.nny = 1, !.errfunc = 0, !.nC = 0],
                        !.cs = SubSeq(@, 1, j - 1)]
    <3> HIDE DEF s
    <3> QED
      BY <1>1, <2>1, Zenon DEF Throw, CutFrom, s
  <2>3. [s EXCEPT !.ci = SubSeq(@, 1, 0), !.nny = 1, !.errfunc = 0, !.nC = 0] = r
    BY <1>1, <1>2, Zenon DEF StateType
  <2> HIDE DEF s, r, l
  <2> QED
    BY <1>2, <2>2, <2>3, Zenon
<1>4. r \in StateType /\ AtRest(Main, r)
  <2>1. /\ << >> \in Seq(FrameType) /\ s \in StateType /\ s.status = "ok"
        /\ 0 \in Int /\ 1 \in Int
    BY <1>1
  <2>2. r = [s EXCEPT !.ci = << >>, !.nny = 1, !.errfunc = 0, !.nC = 0]
    OBVIOUS
  <2> HIDE DEF s, r
  <2>3. r \in StateType
    BY ONLY <2>1, <2>2, Zenon DEF StateType
  <2>4. r.ci = << >> /\ r.nny = 1 /\ r.errfunc = 0 /\ r.nC = 0 /\ r.status = "ok"
    BY ONLY <2>1, <2>2 DEF StateType
  <2> QED
    BY <2>3, <2>4 DEF AtRest
<1>5. l \subseteq Threads
  <2>1. ASSUME NEW i \in DOMAIN m.cs PROVE m.cs[i].t \in Threads
    <3>1. m.cs[i] \in EntryType
      BY <1>1
    <3> QED
      BY ONLY <3>1 DEF EntryType
  <2>2. CutFrom(m, t, j) \subseteq Threads
    BY <2>1 DEF CutFrom
  <2> QED
    BY <1>1, <2>2
<1>6. /\ w \in Machine /\ w.th[t] = r /\ w.cs = << >> /\ w.lost = l
      /\ \A u \in Threads \ {t} : w.th[u] = m.th[u]
  <2>1. /\ << >> \in Seq(EntryType) /\ m \in Machine /\ t \in Threads
        /\ w = [[m EXCEPT !.lost = l] EXCEPT !.th[t] = r, !.cs = << >>]
    BY <1>1
  <2> HIDE DEF w, r, l
  <2> QED
    BY ONLY <1>4, <1>5, <2>1, Zenon DEF Machine
<1> HIDE DEF w
<1>7. /\ t \notin w.lost
      /\ \A u \in Threads \ {t} :
           IF Own(w.cs, u) # {} THEN Fits(m, q, v, u) /\ w.th[u] = m.th[u] /\ u \notin w.lost
           ELSE Off(w, u)
  <2>1. Thrown(m, q, v, t, j, j - 1, w)
    BY <1>2, <1>6 DEF Thrown
  <2> QED
    BY <2>1, ThrowCuts
<1>8. \A u \in Threads \ {Main} : Off(w, u)
  <2>1. \A u : Own(w.cs, u) = {}
    BY <1>6 DEF Own
  <2> QED
    BY <1>1, <1>7, <2>1
<1> QED
  BY <1>1, <1>3, <1>4, <1>6, <1>7, <1>8, Emptied

\* w has the first n entries of m and the first p calls of t, the thread of the
\* n-th entry, which goes on.
Leave(m, q, v, n, w, t, p) ==
  /\ CutTo(m, q, v, n, w, t) /\ t \notin w.lost
  /\ Sound(t, m.th[t]) /\ Manned(m.cs, m.th[t].ci, q, t) /\ CutAt(m.cs, m.th[t].ci, q, t, n, p)
  /\ p \in 1 .. Len(m.th[t].ci) /\ q[n] <= p /\ m.th[t].ci[p].f \in Code \cup {"failed"}
  /\ w.th[t].ci = SubSeq(m.th[t].ci, 1, p) /\ w.th[t].status = "ok" /\ w.th[t].nny = v[n]
  /\ w.th[t].nC < HandlingCCalls /\ HandlerAt(t, m.th[t].ci, p, w.th[t].errfunc)

\* It keeps the invariant.
LEMMA LeaveGood ==
  ASSUME NEW m, NEW q, NEW v, NEW n, NEW w, NEW t, NEW p, Leave(m, q, v, n, w, t, p)
  PROVE  Base(w, q, v) /\ Goes(w, q) /\ Good(w)
<1> DEFINE s == m.th[t].ci
           r == SubSeq(s, 1, p)
<1>1. /\ w \in Machine /\ q \in Positions /\ v \in Positions /\ m.cs \in Seq(EntryType)
      /\ n \in 1 .. Len(m.cs) /\ m.cs[n].t = t /\ w.cs = SubSeq(m.cs, 1, n)
      /\ s \in Seq(FrameType) /\ Len(s) \in Nat
  <2>1. /\ w \in Machine /\ q \in Positions /\ v \in Positions /\ m \in Machine /\ t \in Threads
        /\ n \in 1 .. Len(m.cs) /\ m.cs[n].t = t /\ w.cs = SubSeq(m.cs, 1, n)
    BY Zenon DEF Leave, CutTo
  <2>2. m.cs \in Seq(EntryType) /\ m.th[t] \in StateType
    BY <2>1 DEF Machine
  <2>3. s \in Seq(FrameType)
    BY <2>2 DEF StateType
  <2> HIDE DEF s
  <2>4. Len(s) \in Nat
    BY <2>3
  <2> QED
    BY ONLY <2>1, <2>2, <2>3, <2>4, Zenon
<1>2. /\ CutTo(m, q, v, n, w, t) /\ t \notin w.lost
      /\ Manned(m.cs, m.th[t].ci, q, t) /\ CutAt(m.cs, m.th[t].ci, q, t, n, p)
      /\ p \in 1 .. Len(m.th[t].ci) /\ w.th[t].ci = SubSeq(m.th[t].ci, 1, p)
      /\ w.th[t].nny = v[n]
  BY DEF Leave
<1>3. /\ Framed(t, s) /\ q[n] <= p /\ s[p].f \in Code \cup {"failed"} /\ w.th[t].status = "ok"
      /\ w.th[t].nC < HandlingCCalls /\ HandlerAt(t, s, p, w.th[t].errfunc)
  BY DEF Leave, Sound
<1>4. p \in 0 .. Len(s) /\ p \in 1 .. Len(s) /\ p \in Int
  BY <1>1, <1>2
<1> HIDE DEF s
<1>5. Len(r) = p /\ \A i \in 1 .. p : r[i] = s[i]
  BY <1>1, <1>4, PrefixElements
<1>6. Sound(t, w.th[t])
  <2>1. Framed(t, r)
    BY <1>1, <1>3, <1>4, FramedPrefix
  <2>2. HandlerAt(t, r, p, w.th[t].errfunc)
    <3>1. \A i \in 1 .. p : r[i].f = s[i].f
      BY <1>5, Zenon
    <3> QED
      BY <1>3, <1>4, <3>1, HandlerSame, Zenon
  <2> QED
    BY <1>2, <1>3, <1>5, <2>1, <2>2 DEF Sound, s
<1>7. Base(w, q, v)
  BY <1>2, <1>6, CutBase
<1>8. Len(w.cs) = n /\ w.cs[n].t = t
  BY <1>1
<1>9. Goes(w, q)
  <2>1. Going(w) = t
    BY <1>8 DEF Going
  <2>2. w.th[t].ci[Len(w.th[t].ci)].f \in Code \cup {"failed"} /\ q[n] <= Len(w.th[t].ci)
    BY <1>2, <1>3, <1>4, <1>5 DEF s
  <2> QED
    BY <1>3, <1>8, <2>1, <2>2 DEF Goes
<1> QED
  BY <1>1, <1>7, <1>9 DEF Good

\* luaD_pcall catches the error.
LEMMA ThrowToPcall ==
  ASSUME NEW m, NEW q, NEW v, NEW t, NEW j, Throws(m, q, v, t, j), j # 1, m.cs[j].a = "pcall"
  PROVE  Good(Throw(m, t))
<1> DEFINE s == m.th[t]
           e == m.cs[j]
           p == q[j] - 2
           l == m.lost \cup CutFrom(m, t, j)
           r == [s EXCEPT !.ci = SubSeq(s.ci, 1, p), !.nny = e.nny, !.errfunc = e.errfunc,
                          !.nC = e.nC]
           c == SubSeq(m.cs, 1, j - 1)
           w == [[m EXCEPT !.lost = l] EXCEPT !.th[t] = r, !.cs = c]
<1>1. /\ m \in Machine /\ q \in Positions /\ v \in Positions /\ t \in Threads
      /\ m.cs \in Seq(EntryType) /\ Len(m.cs) \in Nat
      /\ s \in StateType /\ m.lost \subseteq Threads /\ s.status = "ok"
      /\ s.ci \in Seq(FrameType) /\ j = ErrorJmp(m, t) /\ e \in EntryType
      /\ Sound(t, s) /\ Manned(m.cs, s.ci, q, t) /\ Base(m, q, v) /\ j \in Own(m.cs, t)
      /\ Stacked(m.cs) /\ Level(m.cs, v) /\ Len(s.ci) \in Nat
  <2>1. /\ m.cs \in Seq(EntryType) /\ Len(m.cs) \in Nat /\ m.lost \subseteq Threads
        /\ m.cs[j] \in EntryType
        /\ m.th[t] \in StateType /\ m.th[t].ci \in Seq(FrameType)
        /\ Sound(t, m.th[t]) /\ Manned(m.cs, m.th[t].ci, q, t)
        /\ Stacked(m.cs) /\ Level(m.cs, v) /\ Len(m.th[t].ci) \in Nat
    BY ThrowsFacts
  <2>2. /\ m \in Machine /\ q \in Positions /\ v \in Positions /\ t \in Threads
        /\ j = ErrorJmp(m, t) /\ Base(m, q, v) /\ j \in Own(m.cs, t)
    BY DEF Throws
  <2> QED
    BY <2>1, <2>2 DEF Sound
<1>2. /\ j - 1 \in 1 .. Len(m.cs) /\ m.cs[j - 1].t = t /\ e.nny = v[j - 1]
      /\ e.nC < HandlingCCalls /\ e.d = p + 1
      /\ p \in 1 .. Len(s.ci) /\ p + 1 \in 1 .. Len(s.ci) /\ s.ci[p].f \in Code /\ q[j - 1] <= p
      /\ HandlerAt(t, s.ci, p, e.errfunc) /\ CutAt(m.cs, s.ci, q, t, j - 1, p)
  <2>1. /\ m \in Machine /\ q \in Positions /\ v \in Positions /\ Base(m, q, v)
        /\ j \in Own(m.cs, t) /\ j # 1 /\ m.cs[j].a = "pcall"
    BY <1>1
  <2> HIDE DEF s, e, p
  <2>2. /\ j - 1 \in 1 .. Len(m.cs) /\ m.cs[j - 1].t = t /\ m.cs[j].nny = v[j - 1]
        /\ m.cs[j].nC < HandlingCCalls /\ m.cs[j].d = q[j] - 2 + 1
        /\ q[j] - 2 \in 1 .. Len(m.th[t].ci) /\ q[j] - 2 + 1 \in 1 .. Len(m.th[t].ci)
        /\ m.th[t].ci[q[j] - 2].f \in Code /\ q[j - 1] <= q[j] - 2
        /\ HandlerAt(t, m.th[t].ci, q[j] - 2, m.cs[j].errfunc)
        /\ CutAt(m.cs, m.th[t].ci, q, t, j - 1, q[j] - 2)
    BY ONLY <2>1, PcallEntry
  <2> QED
    BY ONLY <2>2 DEF s, e, p
<1> HIDE DEF p, e
<1>3. SubSeq(SubSeq(s.ci, 1, p + 1), 1, p) = SubSeq(s.ci, 1, p)
  <2>1. p + 1 \in 0 .. Len(s.ci) /\ p \in 0 .. p + 1
    BY <1>1, <1>2
  <2> QED
    BY <1>1, <2>1, PrefixTwice
<1>4. Throw(m, t) = w
  <2> DEFINE s1 == [s EXCEPT !.ci = SubSeq(@, 1, e.d), !.nny = e.nny, !.errfunc = e.errfunc,
                             !.nC = e.nC]
  <2>1. e.d # 0 /\ e.a = "pcall" /\ j = ErrorJmp(m, t)
    BY <1>1, <1>2 DEF e
  <2>2. Throw(m, t) = [[m EXCEPT !.lost = l] EXCEPT !.th[t] = Popped(s1, 1),
                                                    !.cs = SubSeq(@, 1, j - 1)]
    <3> HIDE DEF s
    <3> QED
      BY <2>1 DEF Throw, CutFrom, s, e
  <2>3. Popped(s1, 1) = r
    <3>1. SubSeq(s.ci, 1, e.d) = SubSeq(s.ci, 1, p + 1)
      BY <1>2
    <3>2. Len(SubSeq(s.ci, 1, p + 1)) - 1 = p
      <4>1. p + 1 \in 0 .. Len(s.ci) /\ p \in Int
        BY <1>2
      <4>2. Len(SubSeq(s.ci, 1, p + 1)) = p + 1
        BY <1>1, <4>1, PrefixElements
      <4> QED
        BY <4>1, <4>2
    <3>3. s1.ci = SubSeq(s.ci, 1, p + 1)
      BY <1>1, <3>1, Zenon DEF StateType
    <3>4. Popped(s1, 1) = [s1 EXCEPT !.ci = SubSeq(s.ci, 1, p)]
      BY <1>3, <3>2, <3>3, Zenon DEF Popped
    <3>5. [s1 EXCEPT !.ci = SubSeq(s.ci, 1, p)] = r
      BY <1>1, Zenon DEF StateType
    <3> QED
      BY <3>4, <3>5
  <2> HIDE DEF s, r, l, s1
  <2> QED
    BY <2>2, <2>3, Zenon
<1>5. /\ r \in StateType /\ r.ci = SubSeq(s.ci, 1, p) /\ r.nny = e.nny /\ r.errfunc = e.errfunc
      /\ r.nC = e.nC /\ r.status = "ok"
  <2>1. SubSeq(s.ci, 1, p) \in Seq(FrameType)
    BY <1>1, <1>2
  <2>2. e.nny \in Int /\ e.errfunc \in Int /\ e.nC \in Int
    BY <1>1 DEF EntryType
  <2> HIDE DEF s
  <2> QED
    BY <1>1, <2>1, <2>2, Zenon DEF StateType
<1>6. l \subseteq Threads
  <2>1. ASSUME NEW i \in DOMAIN m.cs PROVE m.cs[i].t \in Threads
    <3>1. m.cs[i] \in EntryType
      BY <1>1
    <3> QED
      BY ONLY <3>1 DEF EntryType
  <2>2. CutFrom(m, t, j) \subseteq Threads
    BY <2>1 DEF CutFrom
  <2> QED
    BY <1>1, <2>2
<1>7. /\ w \in Machine /\ w.th[t] = r /\ w.cs = c /\ w.lost = l
      /\ \A u \in Threads \ {t} : w.th[u] = m.th[u]
  <2>1. /\ c \in Seq(EntryType) /\ m \in Machine /\ t \in Threads
        /\ w = [[m EXCEPT !.lost = l] EXCEPT !.th[t] = r, !.cs = c]
    BY <1>1, <1>2
  <2> HIDE DEF w, r, l, c
  <2> QED
    BY ONLY <1>5, <1>6, <2>1, Zenon DEF Machine
<1> HIDE DEF w, r
<1>8. /\ t \notin w.lost
      /\ \A u \in Threads \ {t} :
           IF Own(w.cs, u) # {} THEN Fits(m, q, v, u) /\ w.th[u] = m.th[u] /\ u \notin w.lost
           ELSE Off(w, u)
  <2>1. Thrown(m, q, v, t, j, j - 1, w)
    BY <1>7 DEF Thrown
  <2> QED
    BY <2>1, ThrowCuts
<1>9. CutTo(m, q, v, j - 1, w, t)
  <2>1. Apart(m, q, v, w, t)
    BY <1>8 DEF Apart
  <2> QED
    BY <1>1, <1>2, <1>7, <2>1 DEF CutTo
<1>10. Leave(m, q, v, j - 1, w, t, p)
  BY <1>1, <1>2, <1>5, <1>7, <1>8, <1>9, Zenon DEF Leave
<1> QED
  BY <1>4, <1>10, LeaveGood

\* An entry of lua_resume: t has no other below it.
LEMMA ResumeAt ==
  ASSUME NEW c \in Seq(EntryType), Stacked(c), NEW t, NEW j \in Own(c, t), c[j].a = "resume"
  PROVE  /\ j \in 1 .. Len(c) /\ j - 1 \in 1 .. Len(c) - 1 /\ c[j].t = t /\ t # Main
         /\ c[j].nny = 1 /\ c[j].nC < HandlingCCalls
         /\ c[j - 1].t \in Threads /\ c[j - 1].t # t
         /\ Own(SubSeq(c, 1, j - 1), t) = {}
<1>1. j \in 1 .. Len(c) /\ c[j].t = t /\ Len(c) \in Nat /\ c # << >>
  BY DEF Own
<1>2. c[1] = HostEntry
  BY <1>1 DEF Stacked
<1>3. j # 1
  BY <1>2 DEF HostEntry
<1>4. j \in 2 .. Len(c) /\ j - 1 \in 1 .. Len(c) - 1 /\ j - 1 \in 1 .. Len(c) /\ j - 1 \in 0 .. Len(c)
  BY <1>1, <1>3
<1>5. c[j].nny = 1 /\ \A i \in 1 .. j - 1 : c[i].t # t
  BY <1>1, <1>4 DEF Stacked
<1>6. c[j].nC < HandlingCCalls
  BY <1>1 DEF Stacked
<1>7. t # Main
  <2>1. 1 \in 1 .. j - 1
    BY <1>4
  <2> QED
    BY <1>2, <1>5, <2>1 DEF HostEntry
<1>8. c[j - 1].t \in Threads /\ c[j - 1].t # t
  <2>1. c[j - 1] \in EntryType
    BY <1>4
  <2>2. j - 1 \in 1 .. j - 1
    BY <1>4
  <2> QED
    BY <1>5, <2>1, <2>2 DEF EntryType
<1>9. Own(SubSeq(c, 1, j - 1), t) = {}
  <2>1. Len(SubSeq(c, 1, j - 1)) = j - 1 /\ \A i \in 1 .. j - 1 : SubSeq(c, 1, j - 1)[i] = c[i]
    BY <1>4, PrefixElements
  <2> QED
    BY <1>5, <2>1 DEF Own
<1> QED
  BY <1>1, <1>4, <1>5, <1>6, <1>7, <1>8, <1>9

\* lua_resume of t returns: t has yielded, or died of an error.
Quits(m, q, v, j, w, t) ==
  /\ m \in Machine /\ q \in Positions /\ v \in Positions /\ w \in Machine /\ Base(m, q, v)
  /\ t \in Threads /\ j \in Own(m.cs, t) /\ m.cs[j].a = "resume"
  /\ w.cs = SubSeq(m.cs, 1, j - 1) /\ t \notin w.lost /\ AtRest(t, w.th[t])
  /\ \A u \in Threads \ {t} :
       IF Own(w.cs, u) # {} THEN Fits(m, q, v, u) /\ w.th[u] = m.th[u] /\ u \notin w.lost
       ELSE Off(w, u)

\* The thread that had resumed it goes on.
LEMMA QuitsGood ==
  ASSUME NEW m, NEW q, NEW v, NEW j, NEW w, NEW t, Quits(m, q, v, j, w, t), NEW ok
  PROVE  Good(ResumeReturns(w, ok))
<1> DEFINE u0 == m.cs[j - 1].t
<1>1. /\ m \in Machine /\ q \in Positions /\ v \in Positions /\ w \in Machine /\ Base(m, q, v)
      /\ t \in Threads /\ j \in Own(m.cs, t) /\ m.cs[j].a = "resume"
      /\ w.cs = SubSeq(m.cs, 1, j - 1) /\ t \notin w.lost /\ AtRest(t, w.th[t])
  BY DEF Quits
<1>2. ASSUME NEW u \in Threads \ {t}
      PROVE IF Own(w.cs, u) # {} THEN Fits(m, q, v, u) /\ w.th[u] = m.th[u] /\ u \notin w.lost
            ELSE Off(w, u)
  BY DEF Quits
<1>3. m.cs \in Seq(EntryType) /\ Stacked(m.cs) /\ Level(m.cs, v)
  BY <1>1 DEF Machine, Base
<1>4. /\ j \in 1 .. Len(m.cs) /\ j - 1 \in 1 .. Len(m.cs) - 1 /\ m.cs[j].t = t
      /\ u0 \in Threads /\ u0 # t /\ Own(w.cs, t) = {}
  BY <1>1, <1>3, ResumeAt
<1>5. Own(w.cs, u0) # {}
  <2>1. j - 1 \in 0 .. Len(m.cs) /\ j - 1 \in 1 .. j - 1
    BY <1>3, <1>4
  <2>2. Len(w.cs) = j - 1 /\ \A i \in 1 .. j - 1 : w.cs[i] = m.cs[i]
    BY <1>1, <1>3, <2>1, PrefixElements
  <2>3. j - 1 \in Own(w.cs, u0)
    BY <2>1, <2>2 DEF Own
  <2> QED
    BY <2>3
<1>6. Fits(m, q, v, u0) /\ w.th[u0] = m.th[u0] /\ u0 \notin w.lost
  BY <1>2, <1>4, <1>5
<1>7. Apart(m, q, v, w, u0)
  <2>1. ASSUME NEW u \in Threads \ {u0}
        PROVE IF Own(w.cs, u) # {} THEN Fits(m, q, v, u) /\ w.th[u] = m.th[u] /\ u \notin w.lost
              ELSE Off(w, u)
    <3>1. CASE u = t
      BY <1>1, <1>4, <3>1 DEF Off
    <3>2. CASE u # t
      BY <1>2, <3>2
    <3> QED
      BY <3>1, <3>2
  <2> QED
    BY <2>1 DEF Apart
<1>8. m.cs[j - 1 + 1].t # u0
  <2>1. j - 1 + 1 = j
    BY <1>3, <1>4
  <2> QED
    BY <1>4, <2>1
<1>9. LeavesTo(m, q, v, j - 1, w, u0)
  BY <1>1, <1>3, <1>4, <1>6, <1>7, <1>8 DEF LeavesTo
<1> QED
  BY <1>9, Returns

\* What a longjmp cuts is a set of threads.
LEMMA CutFromThreads ==
  ASSUME NEW m, m.cs \in Seq(EntryType), NEW t, NEW j
  PROVE  CutFrom(m, t, j) \subseteq Threads
<1>1. ASSUME NEW i \in DOMAIN m.cs PROVE m.cs[i].t \in Threads
  <2>1. m.cs[i] \in EntryType
    OBVIOUS
  <2> QED
    BY ONLY <2>1 DEF EntryType
<1> QED
  BY <1>1 DEF CutFrom

\* No protected call is left: the coroutine is dead.
LEMMA ThrowDies ==
  ASSUME NEW m, NEW q, NEW v, NEW t, NEW j, Throws(m, q, v, t, j), m.cs[j].a = "resume",
         RecoverPoints(m.th[t]) = {}
  PROVE  Good(Throw(m, t))
<1> DEFINE s == m.th[t]
           e == m.cs[j]
           l == m.lost \cup CutFrom(m, t, j)
           r == [s EXCEPT !.status = "error", !.nny = e.nny, !.nC = e.nC - 1]
           c == SubSeq(m.cs, 1, j - 1)
           w == [[m EXCEPT !.lost = l] EXCEPT !.th[t] = r, !.cs = c]
<1>1. /\ m \in Machine /\ q \in Positions /\ v \in Positions /\ t \in Threads
      /\ m.cs \in Seq(EntryType) /\ Len(m.cs) \in Nat
      /\ s \in StateType /\ m.lost \subseteq Threads
      /\ j = ErrorJmp(m, t) /\ e \in EntryType
      /\ Base(m, q, v) /\ j \in Own(m.cs, t) /\ Stacked(m.cs)
  <2>1. /\ m.cs \in Seq(EntryType) /\ Len(m.cs) \in Nat /\ m.lost \subseteq Threads
        /\ m.cs[j] \in EntryType /\ m.th[t] \in StateType /\ Stacked(m.cs)
    BY ThrowsFacts
  <2>2. /\ m \in Machine /\ q \in Positions /\ v \in Positions /\ t \in Threads
        /\ j = ErrorJmp(m, t) /\ Base(m, q, v) /\ j \in Own(m.cs, t)
    BY DEF Throws
  <2> QED
    BY <2>1, <2>2
<1>2. j \in 1 .. Len(m.cs) /\ j - 1 \in 1 .. Len(m.cs) - 1 /\ t # Main /\ e.nny = 1
  BY <1>1, ResumeAt
<1>3. Throw(m, t) = ResumeReturns(w, FALSE)
  <2>1. e.a # "pcall" /\ j = ErrorJmp(m, t) /\ RecoverPoints(s) = {}
    BY <1>1
  <2> HIDE DEF s, e
  <2> QED
    BY <2>1, Zenon DEF Throw, CutFrom, s, e
<1>4. r \in StateType /\ r.nny = 1 /\ r.status = "error"
  <2>1. e.nC \in Int /\ e.nny = 1
    BY <1>1, <1>2, Zenon DEF EntryType
  <2>2. s \in StateType /\ 1 \in Int /\ e.nC - 1 \in Int
    BY <1>1, <2>1
  <2>3. r = [s EXCEPT !.status = "error", !.nny = 1, !.nC = e.nC - 1]
    BY <2>1
  <2> HIDE DEF s, e, r
  <2> QED
    BY ONLY <2>2, <2>3, Zenon DEF StateType
<1> HIDE DEF r
<1>5. AtRest(t, r)
  BY <1>2, <1>4 DEF AtRest
<1>6. l \subseteq Threads
  BY <1>1, CutFromThreads
<1>7. /\ w \in Machine /\ w.th[t] = r /\ w.cs = c /\ w.lost = l
      /\ \A u \in Threads \ {t} : w.th[u] = m.th[u]
  <2>1. /\ c \in Seq(EntryType) /\ m \in Machine /\ t \in Threads
        /\ w = [[m EXCEPT !.lost = l] EXCEPT !.th[t] = r, !.cs = c]
    BY <1>1, <1>2
  <2> HIDE DEF w, r, l, c
  <2> QED
    BY ONLY <1>4, <1>6, <2>1, Zenon DEF Machine
<1> HIDE DEF w
<1>8. /\ t \notin w.lost
      /\ \A u \in Threads \ {t} :
           IF Own(w.cs, u) # {} THEN Fits(m, q, v, u) /\ w.th[u] = m.th[u] /\ u \notin w.lost
           ELSE Off(w, u)
  <2>1. Thrown(m, q, v, t, j, j - 1, w)
    BY <1>7 DEF Thrown
  <2> QED
    BY <2>1, ThrowCuts
<1>9. Quits(m, q, v, j, w, t)
  BY <1>1, <1>5, <1>7, <1>8 DEF Quits
<1> QED
  BY <1>3, <1>9, QuitsGood, Zenon

\* Below a C function with a continuation there are only calls that a yield may leave.
LEMMA Continuable ==
  ASSUME NEW c \in Seq(EntryType), NEW s \in Seq(FrameType), NEW q \in Positions, NEW t,
         t # Main, Manned(c, s, q, t), NEW p \in 1 .. Len(s), s[p].k, NEW x \in 1 .. p - 1
  PROVE  s[x].f = "lua" \/ s[x].k
<1>1. /\ x \in 1 .. Len(s) /\ x # Len(s) /\ x < p /\ x \in Nat /\ p \in Nat /\ p <= Len(s)
      /\ Len(s) \in Nat
  OBVIOUS
<1>2. ASSUME NEW k \in Own(c, t), Covers(c[k], q[k], x) PROVE FALSE
  <2>1. q[k] \in Nat
    BY DEF Own, Positions
  <2>2. c[k].a \in Blocking /\ q[k] <= x + 1
    BY <1>1, <1>2, <2>1 DEF Covers
  <2>3. p \in q[k] .. Len(s)
    BY <1>1, <2>1, <2>2
  <2> QED
    BY <2>2, <2>3 DEF Manned, Linked, Stuck
<1>3. Leaves(s, x)
  BY <1>1, <1>2 DEF Manned, Covered
<1> QED
  BY <1>1, <1>3 DEF Leaves

\* The last pcall that was made where yields were allowed: w is the machine in which
\* its caller, the Lua function below the p-th call, goes on.
Recovers(m, q, v, t, j, w, p) ==
  /\ Throw(m, t) = Unroll(w, t) /\ Resumes(w, q, v, t)
  /\ w.cs = SubSeq(m.cs, 1, j) /\ \A u \in Threads \ {t} : w.th[u] = m.th[u]
  /\ p \in RecoverPoints(m.th[t]) /\ \A x \in RecoverPoints(m.th[t]) : x <= p
  /\ p \in 2 .. Len(m.th[t].ci) /\ GoesOn(t, w.th[t], p - 1)
  /\ \A x \in 1 .. p : w.th[t].ci[x] = m.th[t].ci[x]

\* lua_resume goes on there.
LEMMA RecoversAt ==
  ASSUME NEW m, NEW q, NEW v, NEW t, NEW j, Throws(m, q, v, t, j), m.cs[j].a = "resume",
         RecoverPoints(m.th[t]) # {}
  PROVE  \E w, p : Recovers(m, q, v, t, j, w, p)
<1> DEFINE s == m.th[t]
           e == m.cs[j]
           p == Max(RecoverPoints(s))
           l == m.lost \cup CutFrom(m, t, j)
           a == SubSeq(s.ci, 1, p)
           r == [s EXCEPT !.ci = a, !.nny = 0, !.nC = e.nC, !.errfunc = s.ci[p].old]
           c == SubSeq(m.cs, 1, j)
           w == [[m EXCEPT !.lost = l] EXCEPT !.th[t] = r, !.cs = c]
<1>1. /\ m \in Machine /\ q \in Positions /\ v \in Positions /\ t \in Threads
      /\ m.cs \in Seq(EntryType) /\ Len(m.cs) \in Nat
      /\ s \in StateType /\ m.lost \subseteq Threads
      /\ j = ErrorJmp(m, t) /\ e \in EntryType /\ e.a = "resume"
      /\ Base(m, q, v) /\ j \in Own(m.cs, t) /\ Stacked(m.cs) /\ Level(m.cs, v)
      /\ s.ci \in Seq(FrameType) /\ Len(s.ci) \in Nat /\ Manned(m.cs, s.ci, q, t)
      /\ Framed(t, s.ci) /\ s.status = "ok"
  <2>1. /\ m.cs \in Seq(EntryType) /\ Len(m.cs) \in Nat /\ m.lost \subseteq Threads
        /\ m.cs[j] \in EntryType /\ m.th[t] \in StateType /\ Stacked(m.cs) /\ Level(m.cs, v)
        /\ m.th[t].ci \in Seq(FrameType) /\ Len(m.th[t].ci) \in Nat
        /\ Manned(m.cs, m.th[t].ci, q, t) /\ Sound(t, m.th[t])
    BY ThrowsFacts
  <2>2. /\ m \in Machine /\ q \in Positions /\ v \in Positions /\ t \in Threads
        /\ j = ErrorJmp(m, t) /\ Base(m, q, v) /\ j \in Own(m.cs, t)
    BY DEF Throws
  <2> QED
    BY <2>1, <2>2 DEF Sound
<1>2. j \in 1 .. Len(m.cs) /\ m.cs[j].t = t /\ t # Main /\ e.nC < HandlingCCalls
  BY <1>1, ResumeAt
<1>3. /\ p \in 1 .. Len(s.ci) /\ s.ci[p].yp
      /\ p \in RecoverPoints(s) /\ \A x \in RecoverPoints(s) : x <= p
  <2>1. RecoverPoints(s) = {i \in 1 .. Len(s.ci) : s.ci[i].yp}
    BY <1>1 DEF RecoverPoints
  <2>2. RecoverPoints(s) \subseteq 1 .. Len(s.ci) /\ RecoverPoints(s) # {}
    BY <2>1
  <2>3. RecoverPoints(s) \subseteq Int
    BY <2>2
  <2>4. PICK x \in RecoverPoints(s) : \A y \in RecoverPoints(s) : y <= x
    BY <1>1, <2>2, MaxExists, Zenon
  <2>5. p = x
    BY <2>3, <2>4, MaxIs
  <2> QED
    BY <2>1, <2>4, <2>5, Zenon
<1>4. Throw(m, t) = Unroll(w, t)
  <2>1. e.a # "pcall" /\ j = ErrorJmp(m, t) /\ RecoverPoints(s) # {}
    BY <1>1
  <2>2. Throw(m, t) = Unroll([[m EXCEPT !.lost = l] EXCEPT
           !.th[t] = [s EXCEPT !.ci = SubSeq(@, 1, p), !.nny = 0, !.nC = e.nC,
                               !.errfunc = s.ci[p].old], !.cs = SubSeq(@, 1, j)], t)
    <3> HIDE DEF s, e, p
    <3> QED
      BY <2>1 DEF Throw, CutFrom, s, e, p
  <2> HIDE DEF s, e, p
  <2> QED
    BY <2>2
<1> HIDE DEF p
<1>5. /\ s.ci[p] \in FrameType /\ s.ci[p].k /\ s.ci[p].f \in Guarding
      /\ p > 1 /\ s.ci[p - 1].f = "lua" /\ HandlerAt(t, s.ci, p - 1, s.ci[p].old)
  <2>1. s.ci \in Seq(FrameType) /\ p \in 1 .. Len(s.ci) /\ s.ci[p].yp /\ Framed(t, s.ci)
    BY <1>1, <1>3
  <2> HIDE DEF s
  <2>2. /\ s.ci[p].k /\ s.ci[p].f \in Guarding /\ HandlerAt(t, s.ci, p - 1, s.ci[p].old)
        /\ p > 1 /\ s.ci[p - 1].f = "lua"
    BY ONLY <2>1 DEF Framed
  <2>3. s.ci[p] \in FrameType
    BY ONLY <2>1
  <2> QED
    BY <2>2, <2>3
<1>6. /\ p \in 0 .. Len(s.ci) /\ p - 1 \in 1 .. p /\ p - 1 \in Nat /\ p - 1 < p
      /\ p - 1 \in 1 .. Len(s.ci) /\ p \in Nat /\ p - 1 \in 0 .. p
  BY <1>1, <1>3, <1>5
<1>7. a \in Seq(FrameType) /\ Len(a) = p /\ \A x \in 1 .. p : a[x] = s.ci[x]
  BY <1>1, <1>6, PrefixElements
<1>8. /\ r \in StateType /\ r.ci = a /\ r.nny = 0 /\ r.nC = e.nC /\ r.errfunc = s.ci[p].old
      /\ r.status = "ok"
  <2>1. e.nC \in Int /\ s.ci[p].old \in Int /\ 0 \in Int
    BY <1>1, <1>5 DEF EntryType, FrameType
  <2> HIDE DEF s, a, e
  <2> QED
    BY <1>1, <1>7, <2>1, Zenon DEF StateType
<1>9. l \subseteq Threads
  BY <1>1, CutFromThreads
<1>10. c \in Seq(EntryType) /\ Len(c) = j /\ c[j] = e
  <2>1. j \in 0 .. Len(m.cs) /\ j \in 1 .. j
    BY <1>1, <1>2
  <2> QED
    BY <1>1, <2>1, PrefixElements
<1>11. /\ w \in Machine /\ w.th[t] = r /\ w.cs = c /\ w.lost = l
       /\ \A u \in Threads \ {t} : w.th[u] = m.th[u]
  <2>1. /\ m \in Machine /\ t \in Threads
        /\ w = [[m EXCEPT !.lost = l] EXCEPT !.th[t] = r, !.cs = c]
    BY <1>1
  <2> HIDE DEF w, r, l, c
  <2> QED
    BY ONLY <1>8, <1>9, <1>10, <2>1, Zenon DEF Machine
<1> HIDE DEF w, r
<1>12. /\ t \notin w.lost
       /\ \A u \in Threads \ {t} :
            IF Own(w.cs, u) # {} THEN Fits(m, q, v, u) /\ w.th[u] = m.th[u] /\ u \notin w.lost
            ELSE Off(w, u)
  <2>1. Thrown(m, q, v, t, j, j, w)
    BY <1>11 DEF Thrown
  <2> QED
    BY <2>1, ThrowCuts
<1>13. CutTo(m, q, v, j, w, t)
  <2>1. Apart(m, q, v, w, t)
    BY <1>12 DEF Apart
  <2> QED
    BY <1>1, <1>2, <1>11, <2>1 DEF CutTo
<1>14. Stacked(w.cs) /\ Level(w.cs, v) /\ \A u \in Threads \ {t} : Fits(w, q, v, u)
  BY <1>13, CutOthers
<1>15. GoesOn(t, r, p - 1)
  <2>1. a[p] = s.ci[p] /\ a[p - 1] = s.ci[p - 1]
    BY <1>6, <1>7
  <2>2. ASSUME NEW x \in 1 .. p - 1 PROVE a[x].f = "lua" \/ a[x].k
    <3>1. s.ci[x].f = "lua" \/ s.ci[x].k
      BY <1>1, <1>2, <1>3, <1>5, Continuable, Zenon
    <3>2. a[x] = s.ci[x]
      BY <1>6, <1>7
    <3> HIDE DEF a, s
    <3> QED
      BY ONLY <3>1, <3>2
  <2>3. Framed(t, SubSeq(a, 1, p - 1))
    <3>1. SubSeq(a, 1, p - 1) = SubSeq(s.ci, 1, p - 1)
      BY <1>1, <1>6, PrefixTwice
    <3>2. Framed(t, SubSeq(s.ci, 1, p - 1))
      BY <1>1, <1>6, FramedPrefix
    <3> QED
      BY <3>1, <3>2, Zenon
  <2>4. HandlerAt(t, a, p - 1, s.ci[p].old)
    <3>1. \A x \in 1 .. p - 1 : a[x].f = s.ci[x].f
      BY <1>6, <1>7
    <3>2. HandlerAt(t, s.ci, p - 1, s.ci[p].old) /\ p - 1 \in Int
      BY <1>5, <1>6
    <3> HIDE DEF a, s
    <3> QED
      BY ONLY <3>1, <3>2, HandlerSame
  <2>5. a[p].yp /\ a[p].old = s.ci[p].old /\ a[p].f # "lua" /\ a[p - 1].f = "lua"
    BY <1>3, <1>5, <2>1 DEF Guarding
  <2> HIDE DEF s, a
  <2> QED
    BY <1>6, <1>7, <1>8, <2>2, <2>3, <2>4, <2>5 DEF GoesOn
<1>16. Resumes(w, q, v, t)
  <2>1. w.cs # << >> /\ Going(w) = t /\ w.cs[Len(w.cs)].a = "resume"
    BY <1>1, <1>2, <1>10, <1>11 DEF Going
  <2>2. \E i \in Nat : GoesOn(t, w.th[t], i)
    BY <1>6, <1>11, <1>15
  <2> QED
    BY <1>1, <1>2, <1>8, <1>11, <1>12, <1>14, <2>1, <2>2, Zenon DEF Resumes
<1>17. Recovers(m, q, v, t, j, w, p)
  <2>1. p \in 2 .. Len(s.ci)
    BY <1>1, <1>3, <1>5
  <2>2. \A x \in 1 .. p : w.th[t].ci[x] = s.ci[x]
    BY <1>7, <1>8, <1>11
  <2>3. p \in RecoverPoints(s) /\ \A x \in RecoverPoints(s) : x <= p
    BY <1>3
  <2> HIDE DEF a, c
  <2> QED
    BY <1>4, <1>11, <1>15, <1>16, <2>1, <2>2, <2>3, Zenon DEF Recovers, c
<1> QED
  BY <1>17

\* A pcall that was made where yields were allowed catches the error.
LEMMA ThrowRecovers ==
  ASSUME NEW m, NEW q, NEW v, NEW t, NEW j, Throws(m, q, v, t, j), m.cs[j].a = "resume",
         RecoverPoints(m.th[t]) # {}
  PROVE  Good(Throw(m, t))
<1>1. PICK w, p : Recovers(m, q, v, t, j, w, p)
  BY RecoversAt
<1>2. Throw(m, t) = Unroll(w, t) /\ Resumes(w, q, v, t)
  BY <1>1 DEF Recovers
<1>3. Good(Unroll(w, t))
  BY <1>2, Unrolls
<1> QED
  BY <1>2, <1>3, Zenon

\* luaD_throw keeps the invariant.
LEMMA ThrowGood ==
  ASSUME NEW m \in Machine, NEW q \in Positions, NEW v \in Positions, Base(m, q, v),
         NEW t \in Threads, Own(m.cs, t) # {}
  PROVE  Good(Throw(m, t))
<1> DEFINE j == ErrorJmp(m, t)
<1>1. Stacked(m.cs)
  BY DEF Base
<1>2. /\ j \in Own(m.cs, t) /\ m.cs[j].a \in {"pcall", "resume"}
      /\ \A i \in Own(m.cs, t) : i > j => m.cs[i].a \notin {"pcall", "resume"}
  BY <1>1, Jumps
<1>3. Throws(m, q, v, t, j)
  BY <1>2 DEF Throws
<1> HIDE DEF j
<1>4. CASE j = 1
  BY <1>3, <1>4, ThrowToHost
<1>5. CASE j # 1 /\ m.cs[j].a = "pcall"
  BY <1>3, <1>5, ThrowToPcall
<1>6. CASE m.cs[j].a = "resume" /\ RecoverPoints(m.th[t]) = {}
  BY <1>3, <1>6, ThrowDies
<1>7. CASE m.cs[j].a = "resume" /\ RecoverPoints(m.th[t]) # {}
  BY <1>3, <1>7, ThrowRecovers
<1> QED
  BY <1>2, <1>4, <1>5, <1>6, <1>7

-----------------------------------------------------------------------------
(* Message handlers and calls *)

\* t runs, and not in a function that resumes.
Runnable(m, q, v, t) ==
  /\ m \in Machine /\ q \in Positions /\ v \in Positions /\ Base(m, q, v)
  /\ m.cs # << >> /\ t = Going(m) /\ m.th[t].ci[Len(m.th[t].ci)].f \notin Leaving

\* What is known of that thread.
LEMMA RunnableFacts ==
  ASSUME NEW m, NEW q, NEW v, NEW t, Runnable(m, q, v, t)
  PROVE  /\ m \in Machine /\ q \in Positions /\ v \in Positions /\ Base(m, q, v)
         /\ t \in Threads /\ t \notin m.lost /\ m.th[t] \in StateType
         /\ m.th \in [Threads -> StateType] /\ m.lost \subseteq Threads
         /\ m.cs \in Seq(EntryType) /\ m.th[t].ci \in Seq(FrameType)
         /\ Len(m.cs) \in Nat \ {0} /\ Len(m.cs) \in Own(m.cs, t) /\ m.cs[Len(m.cs)].t = t
         /\ Len(m.th[t].ci) \in Nat \ {0}
         /\ Sound(t, m.th[t]) /\ Manned(m.cs, m.th[t].ci, q, t)
         /\ m.th[t].nny = v[Len(m.cs)] /\ m.th[t].nny \in Nat
         /\ Stacked(m.cs) /\ Level(m.cs, v)
<1>1. /\ m \in Machine /\ q \in Positions /\ v \in Positions /\ Base(m, q, v)
      /\ m.cs # << >> /\ t = Going(m)
  BY DEF Runnable
<1>2. /\ t \in Threads /\ t \notin m.lost /\ m.th[t] \in StateType
      /\ m.cs \in Seq(EntryType) /\ m.th[t].ci \in Seq(FrameType)
      /\ Len(m.cs) \in Nat \ {0} /\ Len(m.cs) \in Own(m.cs, t) /\ m.cs[Len(m.cs)].t = t
      /\ Len(m.th[t].ci) \in Nat \ {0}
      /\ Sound(t, m.th[t]) /\ Manned(m.cs, m.th[t].ci, q, t)
      /\ m.th[t].nny = v[Len(m.cs)]
      /\ Stacked(m.cs) /\ Level(m.cs, v)
  BY <1>1, Here
<1>3. m.th[t].nny \in Nat
  BY <1>1, <1>2 DEF Positions
<1>4. m.th \in [Threads -> StateType] /\ m.lost \subseteq Threads
  BY <1>1 DEF Machine
<1> QED
  BY <1>1, <1>2, <1>3, <1>4

\* An entry of the C stack, with what it saves.
LEMMA Entries ==
  ASSUME NEW a \in {"call", "noyield", "pcall", "handler", "resume"}, NEW t \in Threads, NEW s,
         s.nny \in Int, s.errfunc \in Int, s.nC \in Int, Len(s.ci) \in Nat
  PROVE  /\ Entry(a, t, s) \in EntryType /\ Entry(a, t, s).a = a /\ Entry(a, t, s).t = t
         /\ Entry(a, t, s).d = Len(s.ci) /\ Entry(a, t, s).nny = s.nny
         /\ Entry(a, t, s).errfunc = s.errfunc /\ Entry(a, t, s).nC = s.nC
BY DEF Entry, EntryType

\* One that saves nothing.
LEMMA NoSaves ==
  ASSUME NEW a \in {"call", "noyield", "pcall", "handler", "resume"}, NEW t \in Threads
  PROVE  /\ Entry(a, t, NoSave) \in EntryType /\ Entry(a, t, NoSave).a = a
         /\ Entry(a, t, NoSave).t = t
<1>1. /\ NoSave.nny \in Int /\ NoSave.errfunc \in Int /\ NoSave.nC \in Int
      /\ Len(NoSave.ci) \in Nat
  BY DEF NoSave
<1> QED
  BY <1>1, Entries

\* luaG_errormsg keeps the invariant.
LEMMA RaiseGood ==
  ASSUME NEW m, NEW q, NEW v, NEW t, Runnable(m, q, v, t)
  PROVE  Good(Raise(m, t))
<1> DEFINE s == m.th[t]
           n == IF s.nC + 1 = MaxCCalls THEN s.nC + 2 ELSE s.nC + 1
           g == Frame("handler")
           e == Entry("handler", t, NoSave)
           a == Append(s.ci, g)
           r == [s EXCEPT !.ci = a, !.nC = n, !.nny = s.nny + (n - s.nC)]
           c == Append(m.cs, e)
           w == [m EXCEPT !.th[t] = r, !.cs = c]
<1>1. /\ m \in Machine /\ q \in Positions /\ v \in Positions /\ Base(m, q, v)
      /\ t \in Threads /\ t \notin m.lost /\ s \in StateType
      /\ m.cs \in Seq(EntryType) /\ s.ci \in Seq(FrameType)
      /\ Own(m.cs, t) # {} /\ s.status = "ok" /\ s.nny \in Nat
  BY RunnableFacts DEF Sound
<1>2. CASE s.errfunc \in {0, Host} \/ n >= HandlingCCalls
  <2>1. Raise(m, t) = Throw(m, t)
    BY <1>2 DEF Raise
  <2> QED
    BY <1>1, <2>1, ThrowGood, Zenon
<1>3. CASE ~(s.errfunc \in {0, Host} \/ n >= HandlingCCalls)
  <2>1. g \in FrameType /\ g.f = "handler" /\ g.fresh /\ ~g.k /\ ~g.yp
    <3>1. "handler" \in Names /\ "handler" \in Code
      BY DEF Names, Code
    <3> QED
      BY <3>1, Frames
  <2>2. e \in EntryType /\ e.a = "handler" /\ e.t = t
    BY <1>1, NoSaves
  <2> HIDE DEF g, e
  <2>3. s.nC \in Int /\ s.nny \in Int
    BY <1>1 DEF StateType
  <2>4. n \in Int /\ n > s.nC /\ n < HandlingCCalls
    <3>1. n \in {s.nC + 1, s.nC + 2}
      OBVIOUS
    <3>2. HandlingCCalls \in Int
      BY ConstantsAssumption
    <3>3. ~(n >= HandlingCCalls)
      BY <1>3
    <3> HIDE DEF n
    <3> QED
      BY <2>3, <3>1, <3>2, <3>3
  <2>5. Raise(m, t) = w
    BY <1>3 DEF Raise, g, e
  <2> HIDE DEF n
  <2>6. /\ r \in StateType /\ r.ci = a /\ r.nC = n /\ r.nny = s.nny + (n - s.nC)
        /\ r.status = "ok" /\ r.errfunc = s.errfunc
    <3>1. a \in Seq(FrameType) /\ s.nny + (n - s.nC) \in Int
      BY <1>1, <2>1, <2>3, <2>4
    <3> HIDE DEF s, a
    <3> QED
      BY <1>1, <2>4, <3>1, Zenon DEF StateType
  <2>7. r.nny \in Nat /\ r.nny > s.nny
    <3> HIDE DEF s, r
    <3> QED
      BY <1>1, <2>3, <2>4, <2>6
  <2> HIDE DEF r
  <2>8. c \in Seq(EntryType)
    BY <1>1, <2>2
  <2> HIDE DEF c
  <2>9. /\ w \in Machine /\ w.th[t] = r /\ w.cs = c /\ w.lost = m.lost
        /\ \A u \in Threads \ {t} : w.th[u] = m.th[u]
    <3>1. m \in Machine /\ t \in Threads /\ w = [m EXCEPT !.th[t] = r, !.cs = c]
      BY <1>1
    <3> HIDE DEF w
    <3> QED
      BY ONLY <2>6, <2>8, <3>1, Zenon DEF Machine
  <2> HIDE DEF w
  <2>10. Alike(m, w, t)
    BY <2>9 DEF Alike
  <2>11. PICK p, x \in Positions : Base(w, p, x) /\ Goes(w, p)
    <3>1. /\ m.cs # << >> /\ t = Going(m) /\ m.th[t].ci[Len(m.th[t].ci)].f \notin Leaving
          /\ t \notin w.lost /\ w.cs = Append(m.cs, e) /\ w.th[t].ci = Append(m.th[t].ci, g)
          /\ w.th[t].status = "ok" /\ w.th[t].nny \in Nat /\ w.th[t].nny > m.th[t].nny
          /\ w.th[t].errfunc = m.th[t].errfunc /\ w.th[t].nC < HandlingCCalls
      BY <1>1, <2>4, <2>6, <2>7, <2>9, Zenon DEF Runnable, c
    <3> HIDE DEF s, a
    <3> QED
      BY ONLY <1>1, <2>1, <2>2, <2>9, <2>10, <3>1, EnterHandler, Zenon
  <2> QED
    BY <2>5, <2>9, <2>11 DEF Good
<1> QED
  BY <1>2, <1>3

\* luaD_call of t when its entry e has been made.
DCalls(m, p, x, t, e, b, w) ==
  /\ w = [m EXCEPT !.th[t] = [m.th[t] EXCEPT !.nC = @ + 1, !.nny = IF b THEN @ + 1 ELSE @],
                   !.cs = Append(@, e)]
  /\ Runnable(w, p, x, t)
  /\ p[Len(w.cs)] = Len(w.th[t].ci) + 1

\* luaD_call keeps the invariant.
LEMMA LuaDCallGood ==
  ASSUME NEW m, NEW p, NEW x, NEW t, NEW e, NEW b, NEW w, DCalls(m, p, x, t, e, b, w),
         m \in Machine
  PROVE  Good(LuaDCall(m, t, e, b))
<1> DEFINE s == w.th[t]
           g == Frame("lua")
           a == Append(s.ci, g)
           r == [s EXCEPT !.ci = a]
           w1 == [w EXCEPT !.th[t] = r]
<1>1. /\ w \in Machine /\ p \in Positions /\ x \in Positions /\ Base(w, p, x)
      /\ t \in Threads /\ t \notin w.lost /\ s \in StateType
      /\ w.cs \in Seq(EntryType) /\ s.ci \in Seq(FrameType)
      /\ Own(w.cs, t) # {} /\ s.status = "ok" /\ Len(s.ci) \in Nat \ {0}
      /\ w.cs[Len(w.cs)].t = t
  <2>1. Runnable(w, p, x, t)
    BY DEF DCalls
  <2> QED
    BY <2>1, RunnableFacts DEF Sound
<1>2. /\ Runnable(w, p, x, t) /\ p[Len(w.cs)] = Len(s.ci) + 1
  BY DEF DCalls
<1>3. LuaDCall(m, t, e, b) = IF s.nC = MaxCCalls THEN Raise(w, t)
                             ELSE IF s.nC >= HandlingCCalls THEN Throw(w, t)
                             ELSE [w EXCEPT !.th[t].ci = Append(@, Frame("lua"))]
  <2> DEFINE y == [m.th[t] EXCEPT !.nC = @ + 1, !.nny = IF b THEN @ + 1 ELSE @]
             w2 == [m EXCEPT !.th[t] = y, !.cs = Append(@, e)]
  <2>1. w = w2
    BY DEF DCalls
  <2>2. LuaDCall(m, t, e, b) = IF y.nC = MaxCCalls THEN Raise(w2, t)
                               ELSE IF y.nC >= HandlingCCalls THEN Throw(w2, t)
                               ELSE [w2 EXCEPT !.th[t].ci = Append(@, Frame("lua"))]
    BY DEF LuaDCall
  <2>3. m \in Machine /\ t \in Threads
    BY <1>1
  <2> HIDE DEF y
  <2>4. w2.th[t] = y
    BY ONLY <2>3 DEF Machine
  <2> HIDE DEF w2
  <2>5. s = y
    BY ONLY <2>1, <2>4
  <2> HIDE DEF s
  <2> QED
    BY ONLY <2>1, <2>2, <2>5
<1>4. CASE s.nC = MaxCCalls
  BY <1>2, <1>3, <1>4, RaiseGood
<1>5. CASE s.nC # MaxCCalls /\ s.nC >= HandlingCCalls
  <2>1. LuaDCall(m, t, e, b) = Throw(w, t)
    BY <1>3, <1>5
  <2> QED
    BY <1>1, <2>1, ThrowGood, Zenon
<1>6. CASE s.nC # MaxCCalls /\ ~(s.nC >= HandlingCCalls)
  <2>1. LuaDCall(m, t, e, b) = w1
    <3>1. LuaDCall(m, t, e, b) = [w EXCEPT !.th[t].ci = Append(@, Frame("lua"))]
      BY <1>3, <1>6
    <3> QED
      BY <1>1, <3>1
  <2>2. g \in FrameType /\ g.f = "lua" /\ g.fresh /\ ~g.k /\ ~g.yp
    <3>1. "lua" \in Names /\ "lua" \in Code
      BY DEF Names, Code
    <3> QED
      BY <3>1, Frames
  <2> HIDE DEF g
  <2>3. /\ r \in StateType /\ r.ci = a /\ r.nC = s.nC /\ r.nny = s.nny
        /\ r.status = "ok" /\ r.errfunc = s.errfunc
    <3>1. a \in Seq(FrameType)
      BY <1>1, <2>2
    <3> HIDE DEF s, a
    <3> QED
      BY <1>1, <3>1, Zenon DEF StateType
  <2> HIDE DEF r
  <2>4. /\ w1 \in Machine /\ w1.th[t] = r /\ w1.cs = w.cs /\ w1.lost = w.lost
        /\ \A u \in Threads \ {t} : w1.th[u] = w.th[u]
    <3>1. w \in Machine /\ t \in Threads /\ w1 = [w EXCEPT !.th[t] = r]
      BY <1>1
    <3> HIDE DEF w1
    <3> QED
      BY ONLY <2>3, <3>1, Zenon DEF Machine
  <2> HIDE DEF w1
  <2>5. Alike(w, w1, t)
    BY <2>4 DEF Alike
  <2>6. Pushes(w, p, x, w1, t, g)
    <3>1. Callable(s.ci, g, p[Len(w.cs)])
      BY <1>2, <2>2 DEF Callable
    <3>2. w.cs # << >> /\ t = Going(w) /\ w.th[t].ci[Len(w.th[t].ci)].f \notin Leaving
      BY <1>2 DEF Runnable
    <3> HIDE DEF a
    <3> QED
      BY <1>1, <2>2, <2>3, <2>4, <2>5, <3>1, <3>2 DEF Pushes, a
  <2>7. /\ Base(w1, p, x) /\ Len(w1.th[t].ci) = Len(s.ci) + 1
        /\ w1.th[t].ci[Len(s.ci) + 1] = g
    BY <2>6, PushTop
  <2>8. Goes(w1, p)
    <3>1. Going(w1) = t /\ Going(w) = t
      BY <1>1, <2>4 DEF Going
    <3>2. s.nC < HandlingCCalls
      <4>1. s.nC \in Int /\ HandlingCCalls \in Int
        BY <1>1, ConstantsAssumption DEF StateType
      <4> QED
        BY <1>6, <4>1
    <3>3. w1.th[t].nC < HandlingCCalls
      BY <2>3, <2>4, <3>2
    <3>4. p[Len(w1.cs)] <= Len(w1.th[t].ci)
      BY <1>1, <1>2, <2>4, <2>7
    <3>5. w1.th[t].ci[Len(w1.th[t].ci)].f \in Code
      BY <2>2, <2>7 DEF Code
    <3> QED
      BY <3>1, <3>3, <3>4, <3>5 DEF Goes
  <2> QED
    BY <1>1, <2>1, <2>4, <2>7, <2>8 DEF Good
<1> QED
  BY <1>4, <1>5, <1>6

\* Where yields are allowed every call may be left by one.
LEMMA Yieldable ==
  ASSUME NEW m, NEW q, NEW v, NEW t, Runnable(m, q, v, t), m.th[t].nny = 0
  PROVE  /\ t # Main /\ \A j \in Own(m.cs, t) : m.cs[j].a \notin Blocking
         /\ \A i \in 1 .. Len(m.th[t].ci) : m.th[t].ci[i].f = "lua" \/ m.th[t].ci[i].k
<1> DEFINE c == m.cs
           s == m.th[t].ci
           n == Len(m.cs)
<1>1. /\ c \in Seq(EntryType) /\ s \in Seq(FrameType)
      /\ n \in Nat \ {0} /\ c[n].t = t /\ Len(s) \in Nat \ {0}
      /\ Manned(c, s, q, t) /\ v[n] = 0 /\ Level(c, v)
  BY RunnableFacts
<1>2. Free(c, n)
  BY <1>1 DEF Level
<1>3. \A j \in Own(c, t) : c[j].a \notin Blocking
  BY <1>1, <1>2 DEF Free, Own
<1>4. t # Main
  BY <1>1, <1>2 DEF Free
<1>5. ASSUME NEW i \in 1 .. Len(s) PROVE s[i].f = "lua" \/ s[i].k
  <2>1. Leaves(s, i)
    BY <1>1, <1>3, <1>4 DEF Manned, Covered, Covers
  <2>2. s[Len(s)].f \notin Leaving
    BY DEF Runnable
  <2> QED
    BY <2>1, <2>2 DEF Leaves
<1> QED
  BY <1>3, <1>4, <1>5

\* t, which runs Lua code, has called the C function g, and this calls Lua code with
\* the entry e; or the Lua code has called a metamethod.
Enters(m, q, v, w, t, e) ==
  /\ Runnable(m, q, v, t) /\ w \in Machine /\ q[Len(m.cs)] <= Len(m.th[t].ci)
  /\ m.th[t].ci[Len(m.th[t].ci)].f \in Code
  /\ w.lost = m.lost /\ \A u \in Threads \ {t} : w.th[u] = m.th[u]
  /\ e \in EntryType /\ e.t = t /\ w.cs = Append(m.cs, e) /\ w.th[t].status = "ok"

EntersC(m, w, t, e, g) ==
  LET r == m.th[t]
      s == w.th[t]
      n == Len(r.ci)
  IN /\ g \in FrameType /\ g.f \in Guarding \cup {"callk", "sort"} /\ ~g.fresh
     /\ g.k => r.nny = 0 /\ g.f # "sort"
     /\ g.yp <=> g.k /\ g.f \in Guarding
     /\ g.yp => g.old = r.errfunc
     /\ s.ci = Append(r.ci, g)
     /\ s.nny = IF g.k THEN r.nny ELSE r.nny + 1
     /\ s.errfunc = IF g.f = "xpcall" THEN n + 1 ELSE IF g.f = "pcall" THEN 0 ELSE r.errfunc
     /\ e.a = IF g.k THEN "call" ELSE IF g.f \in Guarding THEN "pcall" ELSE "noyield"
     /\ e.a = "pcall" => /\ e.d = n + 1 /\ e.errfunc = r.errfunc /\ e.nny = r.nny
                         /\ e.nC < HandlingCCalls

\* The entry has its call to make.
LEMMA EntersCBase ==
  ASSUME NEW m, NEW q, NEW v, NEW w, NEW t, NEW e, Enters(m, q, v, w, t, e),
         NEW g, EntersC(m, w, t, e, g)
  PROVE  \E p, x \in Positions : Runnable(w, p, x, t) /\ p[Len(w.cs)] = Len(w.th[t].ci) + 1
<1> DEFINE c == m.cs
           n == Len(m.cs)
           s == m.th[t].ci
           k == Len(m.th[t].ci)
           b == Append(c, e)
           r == Append(s, g)
           p == With(q, n, k + 2)
           x == With(v, n, w.th[t].nny)
<1>1. Runnable(m, q, v, t)
  BY DEF Enters
<1>2. /\ m \in Machine /\ q \in Positions /\ v \in Positions /\ Base(m, q, v)
      /\ t \in Threads /\ t \notin m.lost
      /\ c \in Seq(EntryType) /\ s \in Seq(FrameType)
      /\ n \in Nat \ {0} /\ c[n].t = t /\ k \in Nat \ {0} /\ k = Len(s) /\ n = Len(c)
      /\ Manned(c, s, q, t) /\ Framed(t, s) /\ HandlerAt(t, s, k, m.th[t].errfunc)
      /\ m.th[t].nny = v[n] /\ m.th[t].nny \in Nat
  BY <1>1, RunnableFacts DEF Sound
<1>3. /\ m.cs # << >> /\ t = Going(m) /\ s[k].f \notin Leaving
  BY <1>1 DEF Runnable
<1>4. /\ w \in Machine /\ q[n] <= k /\ s[k].f \in Code
      /\ w.lost = m.lost /\ \A u \in Threads \ {t} : w.th[u] = m.th[u]
      /\ e \in EntryType /\ e.t = t /\ w.cs = b /\ w.th[t].status = "ok"
  BY DEF Enters
<1>5. /\ g \in FrameType /\ g.f \in Guarding \cup {"callk", "sort"} /\ ~g.fresh
      /\ g.k => m.th[t].nny = 0 /\ g.f # "sort"
      /\ g.yp <=> g.k /\ g.f \in Guarding
      /\ g.yp => g.old = m.th[t].errfunc
      /\ w.th[t].ci = r
      /\ w.th[t].nny = IF g.k THEN m.th[t].nny ELSE m.th[t].nny + 1
      /\ w.th[t].errfunc = IF g.f = "xpcall" THEN k + 1
                           ELSE IF g.f = "pcall" THEN 0 ELSE m.th[t].errfunc
      /\ e.a = IF g.k THEN "call" ELSE IF g.f \in Guarding THEN "pcall" ELSE "noyield"
      /\ e.a = "pcall" => /\ e.d = k + 1 /\ e.errfunc = m.th[t].errfunc
                          /\ e.nny = m.th[t].nny /\ e.nC < HandlingCCalls
  BY DEF EntersC
<1> HIDE DEF c, s, n, k
<1>6. g.f \notin Code /\ g.f \notin Leaving /\ (g.k => g.f \in Guarding \cup {"callk"})
  BY <1>5 DEF Code, Leaving, Guarding
<1>7. g.k => s[k].f = "lua" /\ \A j \in Own(c, t) : c[j].a \notin Blocking
  <2>1. ASSUME g.k PROVE s[k].f = "lua" /\ \A j \in Own(c, t) : c[j].a \notin Blocking
    <3>1. /\ \A j \in Own(m.cs, t) : m.cs[j].a \notin Blocking
          /\ \A i \in 1 .. Len(m.th[t].ci) : m.th[t].ci[i].f = "lua" \/ m.th[t].ci[i].k
      BY <1>1, <1>5, <2>1, Yieldable
    <3>2. k \in 1 .. k /\ k = Len(s)
      BY <1>2
    <3>3. s[k].k => s[k].f \in Guarding \cup {"callk"}
      BY <1>2, <3>2 DEF Framed
    <3>4. s[k].f = "lua" \/ s[k].k
      BY <3>1, <3>2 DEF s
    <3> QED
      BY <1>4, <3>1, <3>3, <3>4 DEF c, Code, Guarding
  <2> QED
    BY <2>1
<1>8. /\ r \in Seq(FrameType) /\ Len(r) = k + 1 /\ r[k + 1] = g
      /\ \A i \in 1 .. k : r[i] = s[i]
  BY <1>2, <1>5, AppendElements
<1>9. /\ Len(b) = n + 1 /\ b[n + 1] = e /\ \A j \in 1 .. n : b[j] = c[j]
  BY <1>2, <1>4, AppendElements
<1>10. /\ p \in Positions /\ p[n + 1] = k + 2 /\ \A j \in 1 .. n : p[j] = q[j]
  <2>1. k + 2 \in Nat /\ n \in Nat /\ q \in Positions
    BY <1>2
  <2> QED
    BY ONLY <2>1, OneMore, Zenon
<1>11. w.th[t].nny \in Nat
  BY <1>2, <1>5
<1>12. x \in Positions
  BY <1>2, <1>11, OneMore, Zenon
<1> HIDE DEF b, r
<1>13. Linked(c, r, q, t)
  <2>1. Linked(c, s, q, t) /\ (g.k => \A j \in Own(c, t) : c[j].a \notin Blocking)
    BY <1>2, <1>7 DEF Manned
  <2>2. Linked(c, Append(s, g), q, t)
    BY <1>2, <1>4, <1>5, <2>1, LinkedCall, Zenon
  <2> QED
    BY <2>2 DEF r
<1>14. Made(t, r, e, n + 1, k + 2)
  <2>1. /\ (k + 2) - 1 = k + 1 /\ k + 2 > 2 /\ (k + 2) - 2 = k /\ n + 1 # 1 /\ k + 2 > 1
        /\ r[(k + 2) - 1] = g
    BY <1>2, <1>8
  <2>2. HandlerAt(t, r, k, m.th[t].errfunc)
    <3>1. k \in Int /\ \A i \in 1 .. k : r[i].f = s[i].f
      BY <1>2, <1>8
    <3> QED
      BY <1>2, <3>1, HandlerSame
  <2>3. e.a \in {"call", "pcall", "noyield"}
    BY <1>5
  <2>4. CASE e.a = "call"
    BY ONLY <1>5, <2>1, <2>4 DEF Made
  <2>5. CASE e.a = "noyield"
    <3>1. ~g.k /\ g.f \in {"sort", "callk"}
      BY <1>5, <2>5
    <3> QED
      BY ONLY <2>1, <2>5, <3>1 DEF Made
  <2>6. CASE e.a = "pcall"
    <3>1. ~g.k /\ g.f \in Guarding /\ e.d = k + 1 /\ e.errfunc = m.th[t].errfunc
      BY <1>5, <2>6
    <3> QED
      BY ONLY <2>1, <2>2, <2>6, <3>1 DEF Made
  <2> QED
    BY <2>3, <2>4, <2>5, <2>6
<1>15. Linked(b, r, p, t)
  <2>1. q[Len(c)] <= Len(r)
    <3>1. q[n] \in Nat
      BY <1>2 DEF Positions
    <3> QED
      BY <1>2, <1>4, <1>8, <3>1
  <2>2. Len(r) + 1 = k + 2 /\ Len(c) > 0
    BY <1>2, <1>8
  <2>3. Made(t, r, e, Len(c) + 1, Len(r) + 1) /\ c[Len(c)].t = t
    BY <1>2, <1>14, <2>2
  <2>4. Linked(Append(c, e), r, With(q, Len(c), Len(r) + 1), t)
    BY <1>2, <1>4, <1>8, <1>13, <2>1, <2>2, <2>3, LinkedEntry
  <2> QED
    BY <1>2, <2>2, <2>4 DEF b
<1>16. n + 1 \in Own(b, t)
  BY <1>2, <1>4, <1>9 DEF Own
<1>17. Own(c, t) \subseteq Own(b, t) /\ (\A j \in Own(c, t) : b[j] = c[j] /\ p[j] = q[j])
  <2> HIDE DEF p
  <2> QED
    BY <1>2, <1>9, <1>10 DEF Own
<1>18. Covered(b, r, p, t)
  <2>1. g.k \/ Covers(b[n + 1], p[n + 1], Len(s) + 1)
    <3>1. g.k \/ e.a \in {"pcall", "noyield"}
      BY <1>5
    <3>2. Len(s) + 1 = (k + 2) - 1
      BY <1>2
    <3>3. e.a \in {"pcall", "noyield"} => Covers(e, k + 2, Len(s) + 1)
      BY ONLY <3>2 DEF Covers, Blocking
    <3>4. b[n + 1] = e /\ p[n + 1] = k + 2
      BY <1>9, <1>10
    <3> HIDE DEF p
    <3> QED
      BY ONLY <3>1, <3>3, <3>4
  <2>2. Covered(c, s, q, t) /\ s[Len(s)].f \notin Leaving
    BY <1>2, <1>3 DEF Manned
  <2> HIDE DEF p
  <2> QED
    BY ONLY <1>2, <1>5, <1>16, <1>17, <2>1, <2>2, CoveredCall DEF r
<1>19. Manned(b, r, p, t)
  BY <1>15, <1>18 DEF Manned
<1>20. Framed(t, r)
  BY <1>2, <1>4, <1>5, <1>6, <1>7, FramedPush DEF r
<1>21. HandlerAt(t, r, Len(r), w.th[t].errfunc)
  <2>1. /\ g.f \notin Guarding => HandlerAt(t, r, Len(r), m.th[t].errfunc)
        /\ g.f \in Guarding => HandlerAt(t, r, Len(r), IF g.f = "xpcall" THEN Len(s) + 1 ELSE 0)
    BY <1>2, <1>5, HandlerPush, Zenon DEF r
  <2>2. CASE g.f \in Guarding
    BY <1>2, <1>5, <2>1, <2>2 DEF Guarding
  <2>3. CASE g.f \notin Guarding
    BY <1>5, <2>1, <2>3 DEF Guarding
  <2> QED
    BY <2>2, <2>3
<1>22. Sound(t, w.th[t])
  BY <1>4, <1>5, <1>20, <1>21 DEF Sound
<1>23. Steps(e, m.th[t].nny, w.th[t].nny)
  <2>1. CASE g.k
    BY <1>2, <1>5, <2>1 DEF Steps, Blocking
  <2>2. CASE ~g.k
    BY <1>2, <1>5, <2>2 DEF Steps, Blocking
  <2> QED
    BY <2>1, <2>2
<1>24. Base(w, p, x)
  <2>1. Alike(m, w, t)
    BY <1>4 DEF Alike
  <2>2. /\ t \notin w.lost /\ w.cs = Append(m.cs, e) /\ e.a # "resume"
        /\ (e.a = "pcall" => e.nC < HandlingCCalls)
    BY <1>2, <1>4, <1>5 DEF b, c
  <2>3. Manned(w.cs, w.th[t].ci, With(q, Len(m.cs), k + 2), t) /\ k + 2 \in Nat
    BY <1>2, <1>4, <1>5, <1>19 DEF n
  <2>4. Base(w, With(q, Len(m.cs), k + 2), With(v, Len(m.cs), w.th[t].nny))
    BY ONLY <1>2, <1>3, <1>4, <1>11, <1>22, <1>23, <2>1, <2>2, <2>3, EntryBase, Zenon
  <2> QED
    BY <2>4 DEF n
<1> HIDE DEF p, x
<1>25. Runnable(w, p, x, t) /\ p[Len(w.cs)] = Len(w.th[t].ci) + 1
  <2>1. w.cs # << >> /\ Going(w) = t
    BY <1>2, <1>4, <1>9 DEF Going
  <2>2. p[Len(w.cs)] = Len(w.th[t].ci) + 1
    BY <1>2, <1>4, <1>5, <1>8, <1>9, <1>10
  <2>3. w.th[t].ci[Len(w.th[t].ci)].f \notin Leaving
    BY <1>5, <1>6, <1>8
  <2> QED
    BY <1>4, <1>10, <1>12, <1>24, <2>1, <2>2, <2>3 DEF Runnable
<1> QED
  BY <1>10, <1>12, <1>25

-----------------------------------------------------------------------------
(* The steps of Lua code *)

InCode(m, q, v, t) ==
  /\ Runnable(m, q, v, t) /\ q[Len(m.cs)] <= Len(m.th[t].ci)
  /\ m.th[t].ci[Len(m.th[t].ci)].f \in Code /\ m.th[t].nC < HandlingCCalls

\* The call runs.
LEMMA PushGood ==
  ASSUME NEW m, NEW q, NEW v, NEW w, NEW t, NEW g, Pushes(m, q, v, w, t, g),
         w.th[t].nC < HandlingCCalls, g.f \in Code \cup {"failed"}
  PROVE  Good(w)
<1>1. /\ Base(w, q, v) /\ Len(m.th[t].ci) \in Nat
      /\ Len(w.th[t].ci) = Len(m.th[t].ci) + 1 /\ w.th[t].ci[Len(m.th[t].ci) + 1] = g
      /\ q[Len(m.cs)] <= Len(m.th[t].ci) + 1
  BY PushTop
<1>2. w \in Machine /\ q \in Positions /\ v \in Positions /\ w.cs = m.cs /\ t = Going(m)
  BY DEF Pushes
<1>3. Going(w) = t
  BY <1>2 DEF Going
<1>4. Goes(w, q)
  BY <1>1, <1>2, <1>3, Zenon DEF Goes
<1> QED
  BY <1>1, <1>2, <1>4 DEF Good

\* t calls g, which needs no entry.
LEMMA StepCall ==
  ASSUME NEW m, NEW q, NEW v, NEW t, InCode(m, q, v, t), NEW g \in FrameType,
         ~g.fresh, ~g.k, ~g.yp, g.f \in {"lua", "failed"}
  PROVE  Good([m EXCEPT !.th[t].ci = Append(@, g)])
<1> DEFINE s == m.th[t]
           a == Append(s.ci, g)
           r == [s EXCEPT !.ci = a]
           w == [m EXCEPT !.th[t] = r]
<1>1. Runnable(m, q, v, t)
  BY DEF InCode
<1>2. /\ m \in Machine /\ q \in Positions /\ v \in Positions /\ Base(m, q, v)
      /\ t \in Threads /\ t \notin m.lost /\ s \in StateType
      /\ s.ci \in Seq(FrameType) /\ s.status = "ok"
  BY <1>1, RunnableFacts DEF Sound
<1>3. m.cs # << >> /\ t = Going(m) /\ s.ci[Len(s.ci)].f \notin Leaving
  BY <1>1 DEF Runnable
<1>4. /\ r \in StateType /\ r.ci = a /\ r.status = "ok" /\ r.nny = s.nny /\ r.nC = s.nC
      /\ r.errfunc = s.errfunc
  <2>1. a \in Seq(FrameType)
    BY <1>2
  <2> HIDE DEF a, s
  <2> QED
    BY <1>2, <2>1 DEF StateType
<1>5. [m EXCEPT !.th[t].ci = Append(@, g)] = w
  BY <1>2
<1> HIDE DEF r
<1>6. /\ w \in Machine /\ w.th[t] = r /\ w.cs = m.cs /\ w.lost = m.lost
      /\ \A u \in Threads \ {t} : w.th[u] = m.th[u]
  <2>1. m \in Machine /\ t \in Threads /\ w = [m EXCEPT !.th[t] = r]
    BY <1>2
  <2> HIDE DEF w
  <2> QED
    BY ONLY <1>4, <2>1, Zenon DEF Machine
<1> HIDE DEF w
<1>7. Alike(m, w, t)
  BY <1>6 DEF Alike
<1>8. Callable(s.ci, g, q[Len(m.cs)])
  BY DEF InCode, Callable, Leaving
<1>9. Pushes(m, q, v, w, t, g)
  BY <1>2, <1>3, <1>4, <1>6, <1>7, <1>8 DEF Pushes
<1>10. w.th[t].nC < HandlingCCalls
  BY <1>4, <1>6 DEF InCode
<1> QED
  BY <1>5, <1>9, <1>10, PushGood, Zenon DEF Code

\* t, in the machine m1, has called the C function g, which calls with the entry e.
CallsC(m, q, v, m1, t, e, g) ==
  LET r == m.th[t]
      s == m1.th[t]
      n == Len(r.ci)
  IN /\ InCode(m, q, v, t)
     /\ m1 \in Machine /\ m1.cs = m.cs /\ m1.lost = m.lost
     /\ \A u \in Threads \ {t} : m1.th[u] = m.th[u]
     /\ e \in EntryType /\ e.t = t
     /\ g \in FrameType /\ g.f \in Guarding \cup {"callk", "sort"} /\ ~g.fresh
     /\ g.k => r.nny = 0 /\ g.f # "sort"
     /\ g.yp <=> g.k /\ g.f \in Guarding
     /\ g.yp => g.old = r.errfunc
     /\ s.ci = Append(r.ci, g) /\ s.status = "ok" /\ s.nny = r.nny
     /\ s.errfunc = IF g.f = "xpcall" THEN n + 1 ELSE IF g.f = "pcall" THEN 0 ELSE r.errfunc
     /\ e.a = IF g.k THEN "call" ELSE IF g.f \in Guarding THEN "pcall" ELSE "noyield"
     /\ e.a = "pcall" => /\ e.d = n + 1 /\ e.errfunc = r.errfunc /\ e.nny = r.nny
                         /\ e.nC < HandlingCCalls

\* The entry is made, and the calls are counted.
MakesEntry(m, t, e, b, w) ==
  /\ m \in Machine /\ t \in Threads /\ e \in EntryType
  /\ w = [m EXCEPT !.th[t] = [m.th[t] EXCEPT !.nC = @ + 1, !.nny = IF b THEN @ + 1 ELSE @],
                   !.cs = Append(@, e)]

\* The machine with that entry.
LEMMA EntryMade ==
  ASSUME NEW m, NEW t, NEW e, NEW b, NEW w, MakesEntry(m, t, e, b, w)
  PROVE  /\ w \in Machine /\ w.cs = Append(m.cs, e) /\ w.lost = m.lost
         /\ \A u \in Threads \ {t} : w.th[u] = m.th[u]
         /\ w.th[t].ci = m.th[t].ci /\ w.th[t].status = m.th[t].status
         /\ w.th[t].errfunc = m.th[t].errfunc
         /\ w.th[t].nny = IF b THEN m.th[t].nny + 1 ELSE m.th[t].nny
<1> DEFINE s == m.th[t]
           z == IF b THEN s.nny + 1 ELSE s.nny
           r == [s EXCEPT !.nC = @ + 1, !.nny = IF b THEN @ + 1 ELSE @]
           c == Append(m.cs, e)
<1>1. s \in StateType /\ m.cs \in Seq(EntryType) /\ e \in EntryType
  BY DEF Machine, MakesEntry
<1>2. z \in Int /\ s.nC + 1 \in Int
  BY <1>1 DEF StateType
<1>3. r = [s EXCEPT !.nC = s.nC + 1, !.nny = z]
  BY <1>1
<1>4. /\ r \in StateType /\ r.ci = s.ci /\ r.status = s.status /\ r.errfunc = s.errfunc
      /\ r.nny = z
  <2> HIDE DEF s, z, r
  <2> QED
    BY ONLY <1>1, <1>2, <1>3, Zenon DEF StateType
<1>5. c \in Seq(EntryType)
  BY <1>1
<1>6. w = [m EXCEPT !.th[t] = r, !.cs = c]
  BY DEF MakesEntry
<1>7. /\ w \in Machine /\ w.cs = c /\ w.lost = m.lost /\ w.th[t] = r
      /\ \A u \in Threads \ {t} : w.th[u] = m.th[u]
  <2>1. m \in Machine /\ t \in Threads
    BY DEF MakesEntry
  <2> HIDE DEF r, c
  <2> QED
    BY ONLY <1>4, <1>5, <1>6, <2>1, Zenon DEF Machine
<1> HIDE DEF r
<1> QED
  BY <1>4, <1>7

\* The machine in which a C function has made the entry for its call.
LEMMA CallsCMade ==
  ASSUME NEW m, NEW q, NEW v, NEW m1, NEW t, NEW e, NEW g, CallsC(m, q, v, m1, t, e, g)
  PROVE  \E w : /\ MakesEntry(m1, t, e, ~g.k, w)
                /\ \E p, x \in Positions : DCalls(m1, p, x, t, e, ~g.k, w)
<1> DEFINE w == [m1 EXCEPT !.th[t] = [m1.th[t] EXCEPT !.nC = @ + 1,
                                                      !.nny = IF ~g.k THEN @ + 1 ELSE @],
                           !.cs = Append(@, e)]
<1>1. /\ InCode(m, q, v, t) /\ m1 \in Machine /\ m1.cs = m.cs /\ m1.lost = m.lost
      /\ e \in EntryType /\ e.t = t /\ g \in FrameType
      /\ \A u \in Threads \ {t} : m1.th[u] = m.th[u]
  BY DEF CallsC
<1>2. /\ Runnable(m, q, v, t) /\ q[Len(m.cs)] <= Len(m.th[t].ci)
      /\ m.th[t].ci[Len(m.th[t].ci)].f \in Code
  BY <1>1 DEF InCode
<1>3. t \in Threads
  BY <1>2, RunnableFacts
<1>9. MakesEntry(m1, t, e, ~g.k, w)
  BY <1>1, <1>3 DEF MakesEntry
<1>4. /\ w \in Machine /\ w.cs = Append(m1.cs, e) /\ w.lost = m1.lost
      /\ \A u \in Threads \ {t} : w.th[u] = m1.th[u]
      /\ w.th[t].ci = m1.th[t].ci /\ w.th[t].status = m1.th[t].status
      /\ w.th[t].errfunc = m1.th[t].errfunc
      /\ w.th[t].nny = IF ~g.k THEN m1.th[t].nny + 1 ELSE m1.th[t].nny
  <2> DEFINE b == ~g.k
  <2>1. MakesEntry(m1, t, e, b, w)
    BY <1>1, <1>3 DEF MakesEntry
  <2> HIDE DEF w, b
  <2>2. /\ w \in Machine /\ w.cs = Append(m1.cs, e) /\ w.lost = m1.lost
        /\ \A u \in Threads \ {t} : w.th[u] = m1.th[u]
        /\ w.th[t].ci = m1.th[t].ci /\ w.th[t].status = m1.th[t].status
        /\ w.th[t].errfunc = m1.th[t].errfunc
        /\ w.th[t].nny = IF b THEN m1.th[t].nny + 1 ELSE m1.th[t].nny
    BY <2>1, EntryMade
  <2> QED
    BY <2>2 DEF b
<1> HIDE DEF w
<1>5. Enters(m, q, v, w, t, e)
  BY <1>1, <1>2, <1>4 DEF Enters, CallsC
<1>6. EntersC(m, w, t, e, g)
  BY <1>4 DEF EntersC, CallsC
<1>7. PICK p, x \in Positions : Runnable(w, p, x, t) /\ p[Len(w.cs)] = Len(w.th[t].ci) + 1
  BY <1>5, <1>6, EntersCBase
<1>8. DCalls(m1, p, x, t, e, ~g.k, w)
  BY <1>7 DEF DCalls, w
<1> QED
  BY <1>7, <1>8, <1>9

\* The call of a C function keeps the invariant.
LEMMA CallsCGood ==
  ASSUME NEW m, NEW q, NEW v, NEW m1, NEW t, NEW e, NEW g, CallsC(m, q, v, m1, t, e, g)
  PROVE  Good(LuaDCall(m1, t, e, ~g.k))
<1>1. m1 \in Machine
  BY DEF CallsC
<1>2. PICK w : \E p, x \in Positions : DCalls(m1, p, x, t, e, ~g.k, w)
  BY CallsCMade, Zenon
<1> QED
  BY <1>1, <1>2, LuaDCallGood, Zenon

\* A metamethod is called.
EntersMetamethod(m, w, t, e) ==
  /\ e.a = "call" /\ w.th[t].ci = m.th[t].ci
  /\ w.th[t].nny = m.th[t].nny /\ w.th[t].errfunc = m.th[t].errfunc

\* Its entry has its call to make.
LEMMA MetamethodBase ==
  ASSUME NEW m, NEW q, NEW v, NEW w, NEW t, NEW e, Enters(m, q, v, w, t, e),
         EntersMetamethod(m, w, t, e)
  PROVE  \E p, x \in Positions : Runnable(w, p, x, t) /\ p[Len(w.cs)] = Len(w.th[t].ci) + 1
<1> DEFINE c == m.cs
           n == Len(m.cs)
           s == m.th[t].ci
           k == Len(m.th[t].ci)
           b == Append(c, e)
           p == With(q, n, k + 1)
           x == With(v, n, w.th[t].nny)
<1>1. Runnable(m, q, v, t)
  BY DEF Enters
<1>2. /\ m \in Machine /\ q \in Positions /\ v \in Positions /\ Base(m, q, v)
      /\ t \in Threads /\ t \notin m.lost
      /\ c \in Seq(EntryType) /\ s \in Seq(FrameType)
      /\ n \in Nat \ {0} /\ c[n].t = t /\ k \in Nat \ {0} /\ k = Len(s) /\ n = Len(c)
      /\ Manned(c, s, q, t) /\ Framed(t, s) /\ HandlerAt(t, s, k, m.th[t].errfunc)
      /\ m.th[t].nny = v[n] /\ m.th[t].nny \in Nat
  BY <1>1, RunnableFacts DEF Sound
<1>3. /\ m.cs # << >> /\ t = Going(m) /\ s[k].f \notin Leaving
  BY <1>1 DEF Runnable
<1>4. /\ w \in Machine /\ q[n] <= k /\ s[k].f \in Code
      /\ w.lost = m.lost /\ \A u \in Threads \ {t} : w.th[u] = m.th[u]
      /\ e \in EntryType /\ e.t = t /\ w.cs = b /\ w.th[t].status = "ok"
  BY DEF Enters
<1> HIDE DEF c, s, n, k
<1>5. /\ w.th[t].ci = s /\ w.th[t].nny = m.th[t].nny /\ w.th[t].errfunc = m.th[t].errfunc
      /\ e.a = "call"
  BY DEF s, EntersMetamethod
<1>6. /\ Len(b) = n + 1 /\ b[n + 1] = e /\ \A j \in 1 .. n : b[j] = c[j]
  BY <1>2, <1>4, AppendElements
<1>7. /\ p \in Positions /\ p[n + 1] = k + 1 /\ \A j \in 1 .. n : p[j] = q[j]
  <2>1. k + 1 \in Nat /\ n \in Nat /\ q \in Positions
    BY <1>2
  <2> QED
    BY ONLY <2>1, OneMore, Zenon
<1>8. x \in Positions
  BY <1>2, <1>5, OneMore, Zenon
<1>9. Linked(b, s, p, t)
  <2>1. Made(t, s, e, n + 1, k + 1)
    <3>1. (k + 1) - 1 = k /\ k + 1 > 1 /\ n + 1 # 1
      BY <1>2
    <3> QED
      BY <1>4, <1>5, <3>1 DEF Made
  <2>2. /\ Linked(c, s, q, t) /\ q[Len(c)] <= Len(s) /\ Len(c) > 0 /\ c[Len(c)].t = t
        /\ Made(t, s, e, Len(c) + 1, Len(s) + 1)
    BY <1>2, <1>4, <2>1 DEF Manned
  <2>3. Linked(Append(c, e), s, With(q, Len(c), Len(s) + 1), t)
    BY ONLY <1>2, <1>4, <2>2, LinkedEntry
  <2> QED
    BY <1>2, <2>3
<1> HIDE DEF b
<1>10. Own(c, t) \subseteq Own(b, t) /\ (\A j \in Own(c, t) : b[j] = c[j] /\ p[j] = q[j])
  <2> HIDE DEF p
  <2> QED
    BY <1>2, <1>6, <1>7 DEF Own
<1> HIDE DEF p
<1>11. Covered(b, s, p, t)
  <2>1. ASSUME t # Main, NEW i \in 1 .. Len(s)
        PROVE  Leaves(s, i) \/ \E j \in Own(b, t) : Covers(b[j], p[j], i)
    <3>1. Leaves(s, i) \/ \E j \in Own(c, t) : Covers(c[j], q[j], i)
      BY <1>2, <2>1 DEF Manned, Covered
    <3> QED
      BY <1>10, <3>1
  <2> QED
    BY <2>1 DEF Covered
<1>12. Manned(b, s, p, t)
  BY <1>9, <1>11 DEF Manned
<1>13. Sound(t, w.th[t])
  BY <1>2, <1>4, <1>5 DEF Sound
<1>14. Steps(e, m.th[t].nny, w.th[t].nny)
  BY <1>5 DEF Steps, Blocking
<1>15. Base(w, p, x)
  <2>1. Alike(m, w, t)
    BY <1>4 DEF Alike
  <2>2. /\ t \notin w.lost /\ w.cs = Append(m.cs, e) /\ e.a # "resume"
        /\ (e.a = "pcall" => e.nC < HandlingCCalls) /\ w.th[t].nny \in Nat
    BY <1>2, <1>4, <1>5 DEF b, c
  <2>3. Manned(w.cs, w.th[t].ci, With(q, Len(m.cs), k + 1), t) /\ k + 1 \in Nat
    BY <1>2, <1>4, <1>5, <1>12 DEF n, p
  <2>4. Base(w, With(q, Len(m.cs), k + 1), With(v, Len(m.cs), w.th[t].nny))
    BY ONLY <1>2, <1>3, <1>4, <1>13, <1>14, <2>1, <2>2, <2>3, EntryBase, Zenon
  <2> QED
    BY <2>4 DEF n, p
<1> HIDE DEF x
<1>16. Runnable(w, p, x, t) /\ p[Len(w.cs)] = Len(w.th[t].ci) + 1
  <2>1. w.cs # << >> /\ Going(w) = t
    BY <1>2, <1>4, <1>6 DEF Going
  <2>2. p[Len(w.cs)] = Len(w.th[t].ci) + 1
    BY <1>2, <1>4, <1>5, <1>6, <1>7
  <2>3. w.th[t].ci[Len(w.th[t].ci)].f \notin Leaving
    BY <1>2, <1>3, <1>5
  <2> QED
    BY <1>4, <1>7, <1>8, <1>15, <2>1, <2>2, <2>3 DEF Runnable
<1> QED
  BY <1>7, <1>8, <1>16

\* The machine in which luaT_callTM has made the entry of a metamethod.
LEMMA MetamethodMade ==
  ASSUME NEW m, NEW q, NEW v, NEW t, InCode(m, q, v, t)
  PROVE  \E w : /\ MakesEntry(m, t, Entry("call", t, NoSave), FALSE, w)
                /\ \E p, x \in Positions : DCalls(m, p, x, t, Entry("call", t, NoSave), FALSE, w)
<1> DEFINE e == Entry("call", t, NoSave)
           w == [m EXCEPT !.th[t] = [m.th[t] EXCEPT !.nC = @ + 1, !.nny = IF FALSE THEN @ + 1 ELSE @],
                          !.cs = Append(@, e)]
<1>1. /\ Runnable(m, q, v, t) /\ q[Len(m.cs)] <= Len(m.th[t].ci)
      /\ m.th[t].ci[Len(m.th[t].ci)].f \in Code
  BY DEF InCode
<1>2. m \in Machine /\ t \in Threads /\ m.th[t].status = "ok"
  BY <1>1, RunnableFacts DEF Sound
<1>3. e \in EntryType /\ e.a = "call" /\ e.t = t
  BY <1>2, NoSaves
<1> HIDE DEF e
<1>9. MakesEntry(m, t, e, FALSE, w)
  BY <1>2, <1>3 DEF MakesEntry
<1>4. /\ w \in Machine /\ w.cs = Append(m.cs, e) /\ w.lost = m.lost
      /\ \A u \in Threads \ {t} : w.th[u] = m.th[u]
      /\ w.th[t].ci = m.th[t].ci /\ w.th[t].status = m.th[t].status
      /\ w.th[t].errfunc = m.th[t].errfunc /\ w.th[t].nny = m.th[t].nny
  <2> DEFINE b == FALSE
  <2>1. MakesEntry(m, t, e, b, w)
    BY <1>2, <1>3 DEF MakesEntry
  <2> HIDE DEF w, b
  <2>2. /\ w \in Machine /\ w.cs = Append(m.cs, e) /\ w.lost = m.lost
        /\ \A u \in Threads \ {t} : w.th[u] = m.th[u]
        /\ w.th[t].ci = m.th[t].ci /\ w.th[t].status = m.th[t].status
        /\ w.th[t].errfunc = m.th[t].errfunc
        /\ w.th[t].nny = IF b THEN m.th[t].nny + 1 ELSE m.th[t].nny
    BY <2>1, EntryMade
  <2> QED
    BY <2>2 DEF b
<1> HIDE DEF w
<1>6. Enters(m, q, v, w, t, e)
  BY <1>1, <1>2, <1>3, <1>4 DEF Enters
<1>7. PICK p, x \in Positions : Runnable(w, p, x, t) /\ p[Len(w.cs)] = Len(w.th[t].ci) + 1
  <2>1. EntersMetamethod(m, w, t, e)
    BY <1>3, <1>4 DEF EntersMetamethod
  <2> QED
    BY <1>6, <2>1, MetamethodBase
<1>8. DCalls(m, p, x, t, e, FALSE, w)
  BY <1>7 DEF DCalls, w
<1> QED
  BY <1>7, <1>8, <1>9, Zenon DEF e

\* luaT_callTM.
LEMMA StepMetamethod ==
  ASSUME NEW m, NEW q, NEW v, NEW t, InCode(m, q, v, t)
  PROVE  Good(LuaDCall(m, t, Entry("call", t, NoSave), FALSE))
<1>1. m \in Machine
  BY DEF InCode, Runnable
<1>2. PICK w : \E p, x \in Positions : DCalls(m, p, x, t, Entry("call", t, NoSave), FALSE, w)
  BY MetamethodMade, Zenon
<1> QED
  BY <1>1, <1>2, LuaDCallGood, Zenon

\* y is luaD_call by the C function f that t has called.
CallsBy(m, q, v, t, f, y) ==
  \E w, e, g : CallsC(m, q, v, w, t, e, g) /\ g.f = f /\ y = LuaDCall(w, t, e, ~g.k)

\* It keeps the invariant.
LEMMA CallsByGood ==
  ASSUME NEW m, NEW q, NEW v, NEW t, NEW f, NEW y, CallsBy(m, q, v, t, f, y)
  PROVE  Good(y)
<1>1. PICK w, e, g : CallsC(m, q, v, w, t, e, g) /\ g.f = f /\ y = LuaDCall(w, t, e, ~g.k)
  BY Zenon DEF CallsBy
<1>2. Good(LuaDCall(w, t, e, ~g.k))
  BY <1>1, CallsCGood, Zenon
<1> QED
  BY <1>1, <1>2, Zenon

\* lua_call and lua_callk.
LEMMA CallKCalls ==
  ASSUME NEW m, NEW q, NEW v, NEW t, InCode(m, q, v, t), NEW f \in {"sort", "callk"},
         NEW k \in BOOLEAN, k <=> f = "callk" /\ m.th[t].nny = 0
  PROVE  CallsBy(m, q, v, t, f,
                 LuaDCall([m EXCEPT !.th[t].ci = Append(@, [Frame(f) EXCEPT !.k = k])], t,
                          Entry(IF k THEN "call" ELSE "noyield", t, NoSave), ~k))
<1> DEFINE s == m.th[t]
           g == [Frame(f) EXCEPT !.k = k]
           a == Append(s.ci, g)
           r == [s EXCEPT !.ci = a]
           w == [m EXCEPT !.th[t] = r]
           e == Entry(IF k THEN "call" ELSE "noyield", t, NoSave)
<1>1. Runnable(m, q, v, t)
  BY DEF InCode
<1>2. /\ m \in Machine /\ t \in Threads /\ s \in StateType /\ s.ci \in Seq(FrameType)
      /\ s.status = "ok"
  BY <1>1, RunnableFacts DEF Sound
<1>3. g \in FrameType /\ g.f = f /\ ~g.fresh /\ g.k = k /\ ~g.yp
  <2>1. f \in Names /\ f \notin Code
    BY DEF Names, Code
  <2>2. Frame(f) \in FrameType /\ Frame(f).f = f /\ ~Frame(f).fresh /\ ~Frame(f).yp
    BY <2>1, Frames
  <2> QED
    BY ONLY <2>2 DEF FrameType
<1> HIDE DEF g
<1>4. e \in EntryType /\ e.a = (IF k THEN "call" ELSE "noyield") /\ e.t = t
  BY <1>2, NoSaves
<1> HIDE DEF e
<1>5. /\ r \in StateType /\ r.ci = a /\ r.status = "ok" /\ r.nny = s.nny /\ r.errfunc = s.errfunc
  <2>1. a \in Seq(FrameType)
    BY <1>2, <1>3
  <2> HIDE DEF a, s
  <2> QED
    BY <1>2, <2>1 DEF StateType
<1>6. [m EXCEPT !.th[t].ci = Append(@, g)] = w
  BY <1>2
<1> HIDE DEF r
<1>7. /\ w \in Machine /\ w.th[t] = r /\ w.cs = m.cs /\ w.lost = m.lost
      /\ \A u \in Threads \ {t} : w.th[u] = m.th[u]
  <2>1. m \in Machine /\ t \in Threads /\ w = [m EXCEPT !.th[t] = r]
    BY <1>2
  <2> HIDE DEF w
  <2> QED
    BY ONLY <1>5, <2>1, Zenon DEF Machine
<1> HIDE DEF w
<1>8. CallsC(m, q, v, w, t, e, g)
  BY <1>3, <1>4, <1>5, <1>7 DEF CallsC, Guarding
<1>9. CallsBy(m, q, v, t, f, LuaDCall(w, t, e, ~g.k))
  BY <1>3, <1>8 DEF CallsBy
<1> QED
  BY <1>3, <1>6, <1>9 DEF e, g

\* They keep the invariant.
LEMMA StepCallK ==
  ASSUME NEW m, NEW q, NEW v, NEW t, InCode(m, q, v, t), NEW f \in {"sort", "callk"},
         NEW k \in BOOLEAN, k <=> f = "callk" /\ m.th[t].nny = 0
  PROVE  Good(LuaDCall([m EXCEPT !.th[t].ci = Append(@, [Frame(f) EXCEPT !.k = k])], t,
                       Entry(IF k THEN "call" ELSE "noyield", t, NoSave), ~k))
BY CallKCalls, CallsByGood, Zenon

\* A protected call by t, whose state is s.
PCalled(m, t, f, s) ==
  LET errfunc == IF f = "pcall" THEN 0 ELSE Len(s.ci) + 1
      k == s.nny = 0
      s1 == [s EXCEPT !.ci = Append(@, [Frame(f) EXCEPT !.k = k, !.yp = k, !.old = s.errfunc])]
      s2 == [s1 EXCEPT !.errfunc = errfunc]
  IN LuaDCall([m EXCEPT !.th[t] = s2], t,
              IF k THEN Entry("call", t, NoSave)
              ELSE Entry("pcall", t, [s1 EXCEPT !.nC = s.nC]), ~k)

\* lua_pcallk.
LEMMA PCallKCalls ==
  ASSUME NEW m, NEW q, NEW v, NEW t, InCode(m, q, v, t), NEW f \in {"pcall", "xpcall"}
  PROVE  CallsBy(m, q, v, t, f, PCalled(m, t, f, m.th[t]))
<1> DEFINE s == m.th[t]
           errfunc == IF f = "pcall" THEN 0 ELSE Len(s.ci) + 1
           k == s.nny = 0
           g == [Frame(f) EXCEPT !.k = k, !.yp = k, !.old = s.errfunc]
           a == Append(s.ci, g)
           s1 == [s EXCEPT !.ci = a]
           s2 == [s1 EXCEPT !.errfunc = errfunc]
           s3 == [s1 EXCEPT !.nC = s.nC]
           w == [m EXCEPT !.th[t] = s2]
           e == IF k THEN Entry("call", t, NoSave) ELSE Entry("pcall", t, s3)
<1>1. Runnable(m, q, v, t)
  BY DEF InCode
<1>2. /\ m \in Machine /\ t \in Threads /\ s \in StateType /\ s.ci \in Seq(FrameType)
      /\ s.status = "ok" /\ Len(s.ci) \in Nat /\ s.errfunc \in Int /\ s.nny \in Int /\ s.nC \in Int
  <2>1. /\ m \in Machine /\ t \in Threads /\ s \in StateType /\ s.ci \in Seq(FrameType)
        /\ s.status = "ok" /\ Len(s.ci) \in Nat
    BY <1>1, RunnableFacts DEF Sound
  <2> HIDE DEF s
  <2> QED
    BY <2>1 DEF StateType
<1>3. g \in FrameType /\ g.f = f /\ ~g.fresh /\ (g.k <=> k) /\ (g.yp <=> k) /\ g.old = s.errfunc
  <2>1. f \in Names /\ f \notin Code
    BY DEF Names, Code, Guarding
  <2>2. Frame(f) \in FrameType /\ Frame(f).f = f /\ ~Frame(f).fresh
    BY <2>1, Frames
  <2>3. s.errfunc \in Int /\ k \in BOOLEAN
    BY <1>2
  <2> HIDE DEF s
  <2> QED
    BY ONLY <2>2, <2>3, Zenon DEF FrameType
<1> HIDE DEF g
<1>4. /\ a \in Seq(FrameType) /\ Len(a) = Len(s.ci) + 1
  BY <1>2, <1>3, AppendElements
<1>5. /\ s1 \in StateType /\ s1.ci = a /\ s1.status = "ok" /\ s1.nny = s.nny
      /\ s1.errfunc = s.errfunc /\ s1.nC = s.nC
  <2> HIDE DEF a, s
  <2> QED
    BY <1>2, <1>4 DEF StateType
<1> HIDE DEF s1
<1>6. /\ s2 \in StateType /\ s2.ci = a /\ s2.status = "ok" /\ s2.nny = s.nny
      /\ s2.errfunc = errfunc
  <2>1. errfunc \in Int
    BY <1>2
  <2> HIDE DEF a, s, errfunc
  <2> QED
    BY <1>5, <2>1 DEF StateType
<1> HIDE DEF s2
<1>7. /\ e \in EntryType /\ e.t = t /\ e.a = (IF k THEN "call" ELSE "pcall")
      /\ ~k => e.d = Len(s.ci) + 1 /\ e.errfunc = s.errfunc /\ e.nny = s.nny /\ e.nC = s.nC
  <2>1. CASE k
    <3>1. e = Entry("call", t, NoSave)
      BY <2>1
    <3>2. e \in EntryType /\ e.t = t /\ e.a = "call"
      BY <1>2, <3>1, NoSaves
    <3> QED
      BY <2>1, <3>2
  <2>2. CASE ~k
    <3>1. e = Entry("pcall", t, s3)
      BY <2>2
    <3>2. /\ s3.nny = s.nny /\ s3.errfunc = s.errfunc /\ s3.nC = s.nC /\ s3.ci = a
      <4> HIDE DEF s, a
      <4> QED
        BY <1>5 DEF StateType
    <3> HIDE DEF s3
    <3>3. /\ Entry("pcall", t, s3) \in EntryType /\ Entry("pcall", t, s3).a = "pcall"
          /\ Entry("pcall", t, s3).t = t
          /\ Entry("pcall", t, s3).d = Len(s3.ci) /\ Entry("pcall", t, s3).nny = s3.nny
          /\ Entry("pcall", t, s3).errfunc = s3.errfunc /\ Entry("pcall", t, s3).nC = s3.nC
      <4>1. s3.nny \in Int /\ s3.errfunc \in Int /\ s3.nC \in Int /\ Len(s3.ci) \in Nat
        BY <1>2, <1>4, <3>2
      <4> QED
        BY <1>2, <4>1, Entries
    <3> HIDE DEF e
    <3>4. e \in EntryType /\ e.t = t /\ e.a = "pcall"
      BY <3>1, <3>3
    <3>5. e.d = Len(s.ci) + 1 /\ e.errfunc = s.errfunc /\ e.nny = s.nny /\ e.nC = s.nC
      BY <1>4, <3>1, <3>2, <3>3
    <3> QED
      BY <2>2, <3>4, <3>5
  <2> QED
    BY <2>1, <2>2
<1> HIDE DEF e
<1>8. /\ w \in Machine /\ w.th[t] = s2 /\ w.cs = m.cs /\ w.lost = m.lost
      /\ \A u \in Threads \ {t} : w.th[u] = m.th[u]
  <2>1. m \in Machine /\ t \in Threads /\ w = [m EXCEPT !.th[t] = s2]
    BY <1>2
  <2> HIDE DEF w
  <2> QED
    BY ONLY <1>6, <2>1, Zenon DEF Machine
<1> HIDE DEF w
<1>9. CallsC(m, q, v, w, t, e, g)
  <2>1. s.nC < HandlingCCalls
    BY DEF InCode
  <2>2. g.f \in Guarding
    BY <1>3 DEF Guarding
  <2> QED
    BY <1>3, <1>6, <1>7, <1>8, <2>1, <2>2 DEF CallsC
<1>10. CallsBy(m, q, v, t, f, LuaDCall(w, t, e, ~g.k))
  BY <1>3, <1>9 DEF CallsBy
<1>11. CallsBy(m, q, v, t, f, LuaDCall(w, t, e, ~k))
  <2>1. (~g.k) = (~k)
    BY <1>3
  <2> QED
    BY <1>10, <2>1
<1> QED
  BY <1>11 DEF PCalled, w, e, s2, s1, s3, g

\* It keeps the invariant.
LEMMA StepPCallK ==
  ASSUME NEW m, NEW q, NEW v, NEW t, InCode(m, q, v, t), NEW f \in {"pcall", "xpcall"}
  PROVE  Good(PCalled(m, t, f, m.th[t]))
BY PCallKCalls, CallsByGood, Zenon

\* The function of coroutine.wrap that has failed ends, in w.
WrapEnds(m, q, v, t, w) ==
  LET k == Len(m.th[t].ci)
  IN /\ [m EXCEPT !.th[t] = Popped(@, 1)] = w /\ Runnable(w, q, v, t)
     /\ t \in Threads /\ k \in Nat \ {0} /\ m.th[t].ci \in Seq(FrameType)
     /\ w.cs = m.cs /\ \A u \in Threads \ {t} : w.th[u] = m.th[u]
     /\ w.th[t].ci = SubSeq(m.th[t].ci, 1, k - 1) /\ w.th[t].status = "ok"
     /\ m.th[t].status = "ok" /\ m.th[t] \in StateType /\ w.th[t] \in StateType

\* Then its error is raised again.
LEMMA WrapIsOver ==
  ASSUME NEW m, m \in Machine, NEW q \in Positions, NEW v \in Positions, Base(m, q, v), Goes(m, q),
         m.cs # << >>, NEW t, t = Going(m), m.th[t].ci[Len(m.th[t].ci)].f = "failed"
  PROVE  \E w : WrapEnds(m, q, v, t, w)
<1> DEFINE s == m.th[t]
           k == Len(m.th[t].ci)
           a == SubSeq(s.ci, 1, k - 1)
           r == [s EXCEPT !.ci = a]
           w == [m EXCEPT !.th[t] = r]
<1>1. /\ t \in Threads /\ t \notin m.lost /\ s \in StateType
      /\ s.ci \in Seq(FrameType) /\ s.status = "ok" /\ k \in Nat \ {0} /\ Framed(t, s.ci)
      /\ m.cs \in Seq(EntryType)
  <2>1. /\ t \in Threads /\ t \notin m.lost /\ s \in StateType /\ Sound(t, s)
        /\ s.ci \in Seq(FrameType) /\ k \in Nat \ {0} /\ m.cs \in Seq(EntryType)
    BY Here
  <2> QED
    BY <2>1 DEF Sound
<1>2. q[Len(m.cs)] <= k
  BY DEF Goes
<1>3. ~s.ci[k].fresh /\ s.ci[k].f \notin Guarding
  <2>1. k \in 1 .. Len(s.ci) /\ s.ci[k].f = "failed" /\ Framed(t, s.ci)
    BY <1>1
  <2> HIDE DEF s, k
  <2> QED
    BY ONLY <2>1 DEF Framed, Code, Guarding
<1>4. [m EXCEPT !.th[t] = Popped(@, 1)] = w
  <2>1. Popped(s, 1) = r
    BY DEF Popped
  <2> QED
    BY <1>1, <2>1, Zenon
<1>5. /\ r \in StateType /\ r.ci = a /\ r.status = "ok" /\ r.nny = s.nny /\ r.errfunc = s.errfunc
  <2>1. a \in Seq(FrameType)
    BY <1>1
  <2> HIDE DEF a, s
  <2> QED
    BY <1>1, <2>1, Zenon DEF StateType
<1> HIDE DEF r
<1>6. /\ w \in Machine /\ w.th[t] = r /\ w.cs = m.cs /\ w.lost = m.lost
      /\ \A u \in Threads \ {t} : w.th[u] = m.th[u]
  <2>1. m \in Machine /\ t \in Threads /\ w = [m EXCEPT !.th[t] = r]
    BY <1>1
  <2> HIDE DEF w
  <2> QED
    BY ONLY <1>5, <2>1, Zenon DEF Machine
<1> HIDE DEF w
<1>7. Alike(m, w, t)
  BY <1>6 DEF Alike
<1>8. /\ Base(w, q, v) /\ k - 1 \in Nat \ {0} /\ Len(w.th[t].ci) = k - 1
      /\ w.th[t].ci[k - 1].f \in Code
  <2>1. Pops(m, q, v, w, t)
    BY <1>1, <1>2, <1>3, <1>5, <1>6, <1>7 DEF Pops
  <2> QED
    BY <2>1, PopTop
<1>9. Runnable(w, q, v, t)
  <2>1. Going(w) = t
    BY <1>6 DEF Going
  <2> HIDE DEF k
  <2>2. w.th[t].ci[Len(w.th[t].ci)].f \notin Leaving
    BY <1>8, Zenon DEF Code, Leaving
  <2> QED
    BY <1>6, <1>8, <2>1, <2>2 DEF Runnable
<1>10. WrapEnds(m, q, v, t, w)
  BY <1>1, <1>4, <1>5, <1>6, <1>9, Zenon DEF WrapEnds
<1> QED
  BY <1>10

\* lua_error of coroutine.wrap.
LEMMA StepWrapRaises ==
  ASSUME NEW m, m \in Machine, NEW q \in Positions, NEW v \in Positions, Base(m, q, v), Goes(m, q),
         m.cs # << >>, NEW t, t = Going(m), m.th[t].ci[Len(m.th[t].ci)].f = "failed"
  PROVE  Good(Raise([m EXCEPT !.th[t] = Popped(@, 1)], t))
BY WrapIsOver, RaiseGood DEF WrapEnds

\* A coroutine that is not on the C stack is replaced.
LEMMA StepCreate ==
  ASSUME NEW m, Good(m), NEW c \in Cos,
         m.th[c].status = "error" \/ (m.th[c].ci = << >> /\ ~m.th[c].fn)
  PROVE  Good([m EXCEPT !.th[c] = NewThread])
<1> DEFINE w == [m EXCEPT !.th[c] = NewThread]
<1>1. PICK q, v \in Positions : Base(m, q, v) /\ Goes(m, q)
  BY DEF Good
<1>2. m \in Machine /\ c \in Threads /\ c # Main
  BY ConstantsAssumption DEF Good, Threads
<1>3. /\ NewThread \in StateType /\ NewThread.ci = << >> /\ NewThread.status = "ok"
      /\ NewThread.nny = 1 /\ NewThread.errfunc = 0
  BY DEF NewThread, StateType
<1>4. AtRest(c, NewThread)
  BY <1>2, <1>3 DEF AtRest
<1>5. /\ w \in Machine /\ w.th[c] = NewThread /\ w.cs = m.cs /\ w.lost = m.lost
      /\ \A u \in Threads \ {c} : w.th[u] = m.th[u]
  <2>1. m \in Machine /\ c \in Threads /\ w = [m EXCEPT !.th[c] = NewThread]
    BY <1>2
  <2> HIDE DEF w
  <2> QED
    BY ONLY <1>3, <2>1, Zenon DEF Machine
<1> HIDE DEF w
<1>6. Fits(m, q, v, c) /\ Stacked(m.cs) /\ Level(m.cs, v)
  BY <1>1, <1>2 DEF Base
<1>7. Own(m.cs, c) = {} /\ c \notin m.lost
  <2>1. Own(m.cs, c) = {}
    <3>1. ~Busy(m, q, v, c)
      BY DEF Busy, Sound, Framed
    <3> QED
      BY <1>6, <3>1 DEF Fits
  <2> QED
    BY <1>6, <2>1 DEF Fits, Off, Cut
<1>8. Fits(w, q, v, c)
  BY <1>4, <1>5, <1>7 DEF Fits, Off
<1>9. ASSUME NEW u \in Threads, u # c PROVE Fits(w, q, v, u)
  <2>1. Fits(m, q, v, u) /\ w.th[u] = m.th[u]
    BY <1>1, <1>5, <1>9 DEF Base
  <2> QED
    BY <1>5, <2>1 DEF Fits, Busy, Off
<1>10. Base(w, q, v)
  BY <1>5, <1>6, <1>8, <1>9 DEF Base
<1>11. Goes(w, q)
  <2>1. ASSUME m.cs # << >> PROVE Going(m) \in Threads \ {c}
    <3>1. Going(m) \in Threads /\ Len(m.cs) \in Own(m.cs, Going(m))
      BY <1>1, <1>2, <2>1, Here
    <3> QED
      BY <1>7, <3>1
  <2>2. Going(w) = Going(m)
    BY <1>5 DEF Going
  <2>3. m.cs # << >> => w.th[Going(m)] = m.th[Going(m)]
    BY <1>5, <2>1
  <2> QED
    BY <1>1, <1>5, <2>2, <2>3 DEF Goes
<1> QED
  BY <1>5, <1>10, <1>11 DEF Good, w

\* lua_yieldk.
LEMMA StepYield ==
  ASSUME NEW m, NEW q, NEW v, NEW t, InCode(m, q, v, t), ~(m.th[t].nny > 0)
  PROVE  LET s == m.th[t]
             j == ErrorJmp(m, t)
         IN Good(ResumeReturns(
              [m EXCEPT !.th[t] = [s EXCEPT !.status = "yield", !.ci = Append(@, Frame("yield")),
                                            !.nny = m.cs[j].nny, !.nC = m.cs[j].nC - 1],
                        !.cs = SubSeq(@, 1, j - 1)], TRUE))
<1> DEFINE s == m.th[t]
           j == ErrorJmp(m, t)
           e == m.cs[j]
           k == Len(m.th[t].ci)
           g == Frame("yield")
           a == Append(s.ci, g)
           r == [s EXCEPT !.status = "yield", !.ci = a, !.nny = e.nny, !.nC = e.nC - 1]
           c == SubSeq(m.cs, 1, j - 1)
           w == [m EXCEPT !.th[t] = r, !.cs = c]
<1>1. Runnable(m, q, v, t)
  BY DEF InCode
<1>2. /\ m \in Machine /\ q \in Positions /\ v \in Positions /\ Base(m, q, v)
      /\ t \in Threads /\ t \notin m.lost /\ s \in StateType
      /\ m.cs \in Seq(EntryType) /\ s.ci \in Seq(FrameType) /\ k \in Nat \ {0}
      /\ m.cs[Len(m.cs)].t = t /\ Len(m.cs) \in Own(m.cs, t) /\ Len(m.cs) \in Nat
      /\ Framed(t, s.ci) /\ HandlerAt(t, s.ci, k, s.errfunc) /\ s.nny = 0 /\ Stacked(m.cs)
  <2>1. /\ m \in Machine /\ q \in Positions /\ v \in Positions /\ Base(m, q, v)
        /\ t \in Threads /\ t \notin m.lost /\ s \in StateType
        /\ m.cs \in Seq(EntryType) /\ s.ci \in Seq(FrameType) /\ k \in Nat \ {0}
        /\ m.cs[Len(m.cs)].t = t /\ Len(m.cs) \in Own(m.cs, t) /\ Len(m.cs) \in Nat \ {0}
        /\ Sound(t, s) /\ s.nny \in Nat /\ Stacked(m.cs)
    BY <1>1, RunnableFacts
  <2>2. s.nny = 0
    <3> HIDE DEF s
    <3> QED
      BY <2>1 DEF s
  <2> QED
    BY <2>1, <2>2 DEF Sound
<1>3. /\ t # Main /\ \A i \in Own(m.cs, t) : m.cs[i].a \notin Blocking
      /\ \A i \in 1 .. k : s.ci[i].f = "lua" \/ s.ci[i].k
  BY <1>1, <1>2, Yieldable
<1>4. j \in Own(m.cs, t) /\ e.a = "resume"
  <2>1. j \in Own(m.cs, t) /\ e.a \in {"pcall", "resume"}
    BY <1>2, Jumps, Zenon
  <2> QED
    BY <1>3, <2>1 DEF Blocking
<1> HIDE DEF j
<1>5. /\ j \in 1 .. Len(m.cs) /\ j - 1 \in 1 .. Len(m.cs) - 1 /\ m.cs[j].t = t /\ e.nny = 1
  BY <1>2, <1>4, ResumeAt
<1>6. /\ g \in FrameType /\ g.f = "yield" /\ ~g.fresh /\ ~g.k /\ ~g.yp
  <2>1. "yield" \in Names /\ "yield" \notin Code
    BY DEF Names, Code
  <2> QED
    BY <2>1, Frames
<1> HIDE DEF g
<1>7. /\ a \in Seq(FrameType) /\ Len(a) = k + 1 /\ a[k + 1] = g /\ \A i \in 1 .. k : a[i] = s.ci[i]
  BY <1>2, <1>6, AppendElements
<1>8. Framed(t, a) /\ HandlerAt(t, a, Len(a), s.errfunc)
  <2>1. s.ci[k].f \in Code
    BY DEF InCode
  <2>2. Framed(t, a)
    BY <1>2, <1>6, <2>1, FramedPush
  <2>3. HandlerAt(t, a, Len(a), s.errfunc)
    BY <1>2, <1>6, HandlerPush, Zenon DEF Guarding
  <2> QED
    BY <2>2, <2>3
<1>9. /\ r \in StateType /\ r.ci = a /\ r.status = "yield" /\ r.nny = 1 /\ r.errfunc = s.errfunc
  <2>1. e \in EntryType
    BY <1>2, <1>5
  <2>2. e.nny \in Int /\ e.nC - 1 \in Int
    BY <2>1 DEF EntryType
  <2> HIDE DEF a, s, e
  <2> QED
    BY <1>2, <1>5, <1>7, <2>2, Zenon DEF StateType
<1> HIDE DEF r
<1>10. AtRest(t, r)
  <2>1. ASSUME NEW i \in 1 .. Len(a) - 1 PROVE a[i].f = "lua" \/ a[i].k
    <3>1. i \in 1 .. k
      BY <1>2, <1>7
    <3> QED
      BY <1>3, <1>7, <3>1
  <2>2. a[Len(a)].f = "yield"
    BY <1>6, <1>7
  <2> HIDE DEF a
  <2> QED
    BY <1>3, <1>8, <1>9, <2>1, <2>2 DEF AtRest
<1>11. /\ w \in Machine /\ w.th[t] = r /\ w.cs = c /\ w.lost = m.lost
       /\ \A u \in Threads \ {t} : w.th[u] = m.th[u]
  <2>1. m \in Machine /\ t \in Threads /\ w = [m EXCEPT !.th[t] = r, !.cs = c] /\ c \in Seq(EntryType)
    BY <1>2, <1>5
  <2> HIDE DEF w, c
  <2> QED
    BY ONLY <1>9, <2>1, Zenon DEF Machine
<1> HIDE DEF w
<1>12. Cuts(m, j - 1, j, t, w)
  <2>1. ASSUME NEW u \in Threads \ {t}, NEW i \in (j - 1) + 1 .. Len(m.cs) PROVE m.cs[i].t # u
    <3>1. /\ j \in 1 .. Len(m.cs) /\ Len(m.cs) \in j .. Len(m.cs) /\ i \in j .. Len(m.cs)
          /\ m.cs[j].t = t /\ m.cs[Len(m.cs)].t = t
      BY <1>2, <1>5
    <3>2. Together(m.cs)
      BY <1>2 DEF Stacked
    <3>3. m.cs[i].t = m.cs[j].t
      BY ONLY <3>1, <3>2 DEF Together
    <3> QED
      BY <3>1, <3>3
  <2>2. j - 1 \in 0 .. Len(m.cs) /\ j = (j - 1) + 1
    BY <1>2, <1>5
  <2> QED
    BY <1>2, <1>5, <1>11, <2>1, <2>2 DEF Cuts
<1>13. Quits(m, q, v, j, w, t)
  <2>1. ASSUME NEW u \in Threads \ {t}
        PROVE IF Own(w.cs, u) # {} THEN Fits(m, q, v, u) /\ w.th[u] = m.th[u] /\ u \notin w.lost
              ELSE Off(w, u)
    <3>1. Fits(m, q, v, u) /\ u # t /\ u \in Threads
      BY <1>2 DEF Base
    <3> QED
      BY ONLY <1>12, <3>1, Spared
  <2> QED
    BY <1>2, <1>4, <1>10, <1>11, <2>1 DEF Quits
<1>14. Good(ResumeReturns(w, TRUE))
  BY <1>13, QuitsGood, Zenon
<1> QED
  BY <1>14, Zenon DEF w, r, j, g

\* The last function of a coroutine that has yielded, or of a new one.
LEMMA RestGoesOn ==
  ASSUME NEW t, t # Main, NEW s \in StateType, AtRest(t, s), s.status = "yield",
         NEW r, r.ci = s.ci, r.errfunc = s.errfunc
  PROVE  s.ci # << >> /\ \E i \in Nat : GoesOn(t, r, i)
<1> DEFINE a == s.ci
           n == Len(s.ci)
<1>1. /\ Framed(t, a) /\ HandlerAt(t, a, n, s.errfunc) /\ a[n].f = "yield"
      /\ \A i \in 1 .. n - 1 : a[i].f = "lua" \/ a[i].k
  BY DEF AtRest
<1>2. a \in Seq(FrameType) /\ n \in Nat /\ a # << >> /\ a[1].f = "lua"
  BY <1>1 DEF StateType, Framed
<1>3. n \in 1 .. Len(a) /\ n > 1 /\ n - 1 \in 1 .. n /\ n - 1 \in Nat /\ n - 1 \in 1 .. n - 1
  <2>1. n # 1
    BY <1>1, <1>2
  <2> HIDE DEF a
  <2>2. n = Len(a)
    BY DEF a
  <2>3. n # 0
    BY ONLY <1>2, <2>2
  <2>4. n \in 1 .. n /\ n > 1 /\ n - 1 \in 1 .. n /\ n - 1 \in Nat /\ n - 1 \in 1 .. n - 1
    <3>1. n \in Nat
      BY <1>2
    <3> HIDE DEF n
    <3> QED
      BY ONLY <2>1, <2>3, <3>1
  <2> QED
    BY ONLY <2>2, <2>4
<1> HIDE DEF a, n
<1>4. ~a[n].fresh /\ ~a[n].yp /\ a[n - 1].f \in Code
  BY ONLY <1>1, <1>3 DEF Framed, Code, Guarding
<1>5. a[n - 1].f = "lua"
  <2>1. a[n - 1].k => a[n - 1].f \in Guarding \cup {"callk"}
    <3>1. n - 1 \in 1 .. Len(a)
      BY <1>3 DEF n, a
    <3> QED
      BY ONLY <1>1, <3>1 DEF Framed
  <2> QED
    BY <1>1, <1>3, <1>4, <2>1 DEF Code, Guarding
<1>6. Framed(t, SubSeq(a, 1, n - 1))
  <2>1. n - 1 \in 1 .. Len(a)
    BY <1>3 DEF n, a
  <2> QED
    BY <1>1, <1>2, <2>1, FramedPrefix
<1>7. HandlerAt(t, a, n - 1, s.errfunc)
  <2>1. n \in Nat \ {0} /\ a[n].f \notin Guarding
    BY <1>1, <1>2, <1>3 DEF Guarding
  <2> QED
    BY <1>1, <2>1, HandlerDown
<1>8. GoesOn(t, r, n - 1)
  <2>1. n - 1 >= n - 1 /\ n - 1 < n
    BY <1>2
  <2>2. r.ci = a /\ Len(r.ci) = n /\ r.errfunc = s.errfunc
    BY DEF a, n
  <2> QED
    BY ONLY <1>1, <1>3, <1>4, <1>5, <1>6, <1>7, <2>1, <2>2 DEF GoesOn
<1> QED
  BY <1>2, <1>3, <1>8 DEF a

\* A new coroutine begins with its function.
LEMMA NewGoesOn ==
  ASSUME NEW t, t # Main, NEW r, r.ci = <<Frame("lua")>>, r.errfunc = 0
  PROVE  GoesOn(t, r, 1)
<1> DEFINE g == Frame("lua")
           a == <<g>>
<1>1. g \in FrameType /\ g.f = "lua" /\ g.fresh /\ ~g.k /\ ~g.yp
  <2>1. "lua" \in Names /\ "lua" \in Code
    BY DEF Names, Code
  <2> QED
    BY <2>1, Frames
<1> HIDE DEF g
<1>2. a \in Seq(FrameType) /\ Len(a) = 1 /\ a[1] = g /\ a # << >>
  BY <1>1
<1> HIDE DEF a
<1>3. Framed(t, a)
  BY <1>1, <1>2 DEF Framed, Code
<1>4. HandlerAt(t, a, 1, 0)
  BY <1>1, <1>2 DEF HandlerAt, Guarding
<1>5. r.ci = a /\ r.errfunc = 0
  BY DEF a, g
<1>6. Framed(t, SubSeq(a, 1, 1))
  <2>1. 1 \in 1 .. Len(a)
    BY <1>2
  <2> QED
    BY <1>2, <1>3, <2>1, FramedPrefix
<1>7. \A j \in 1 .. 1 : a[j].f = "lua" \/ a[j].k
  BY <1>1, <1>2
<1>8. /\ 1 \in 1 .. Len(r.ci) /\ 1 >= Len(r.ci) - 1 /\ ~(1 < Len(r.ci)) /\ r.ci[1].f = "lua"
  BY <1>1, <1>2, <1>5
<1> QED
  BY ONLY <1>4, <1>5, <1>6, <1>7, <1>8 DEF GoesOn

\* t, which runs, is below the entry of another thread: all its calls are made.
LEMMA MannedBelow ==
  ASSUME NEW c \in Seq(EntryType), NEW s \in Seq(FrameType), NEW q \in Positions, NEW t,
         Manned(c, s, q, t), NEW e \in EntryType, e.t # t,
         Len(c) > 0, c[Len(c)].t = t, q[Len(c)] <= Len(s)
  PROVE  Manned(Append(c, e), s, q, t)
<1> DEFINE b == Append(c, e)
           n == Len(c)
<1>1. n \in Nat /\ Len(s) \in Nat /\ Linked(c, s, q, t)
  BY DEF Manned
<1>2. Own(b, t) = Own(c, t)
  BY OwnEntry
<1>3. \A j \in Own(c, t) : b[j] = c[j]
  BY AppendElements DEF Own
<1>4. ASSUME NEW j \in Own(c, t) PROVE Entered(s, q[j])
  <2>1. /\ q[j] \in Nat \ {0} /\ q[j] <= q[n] /\ (q[j] <= Len(s) => Entered(s, q[j]))
    BY <1>1, LastPlace
  <2>2. q[n] \in Nat
    BY <1>1 DEF Positions
  <2> QED
    BY <1>1, <2>1, <2>2
<1> HIDE DEF b
<1>5. Placed(b, s, q, t)
  BY <1>2, <1>4 DEF Placed
<1>6. Ordered(b, q, t) /\ Claimed(b, s, q, t) /\ AllMade(b, s, q, t) /\ Stuck(b, s, q, t)
  BY <1>1, <1>2, <1>3 DEF Linked, Ordered, Claimed, AllMade, Stuck
<1>7. Covered(b, s, q, t)
  BY <1>2, <1>3 DEF Manned, Covered
<1> QED
  BY <1>5, <1>6, <1>7 DEF Manned, Linked, b

\* w is m when t has resumed c, before c goes on.
ResumesCo(m, q, v, t, c, f, e, w) ==
  /\ InCode(m, q, v, t) /\ c \in Threads /\ c # t /\ c # Main
  /\ Own(m.cs, c) = {} /\ c \notin m.lost
  /\ f \in {"resume", "wrap"}
  /\ e \in EntryType /\ e.a = "resume" /\ e.t = c /\ e.nny = 1 /\ e.nC < HandlingCCalls
  /\ w \in Machine /\ w.lost = m.lost /\ w.cs = Append(m.cs, e)
  /\ w.th[t] = [m.th[t] EXCEPT !.ci = Append(@, Frame(f))]
  /\ \A u \in Threads \ {t, c} : w.th[u] = m.th[u]
  /\ w.th[c].status = "ok" /\ w.th[c].nny = 0 /\ w.th[c].nC < HandlingCCalls
  /\ \E i \in Nat : GoesOn(c, w.th[c], i)

\* The coroutine goes on.
LEMMA ResumesBase ==
  ASSUME NEW m, NEW q, NEW v, NEW t, NEW c, NEW f, NEW e, NEW w,
         ResumesCo(m, q, v, t, c, f, e, w)
  PROVE  Good(Unroll(w, c))
<1> DEFINE n == Len(m.cs)
           b == Append(m.cs, e)
           g == Frame(f)
           s == m.th[t]
           a == Append(s.ci, g)
           r == [s EXCEPT !.ci = Append(@, g)]
           m2 == [m EXCEPT !.th[t] = r]
           x == With(v, n, 0)
<1>1. /\ InCode(m, q, v, t) /\ c \in Threads /\ c # t /\ c # Main
      /\ Own(m.cs, c) = {} /\ c \notin m.lost /\ f \in {"resume", "wrap"}
      /\ e \in EntryType /\ e.a = "resume" /\ e.t = c /\ e.nny = 1 /\ e.nC < HandlingCCalls
      /\ w \in Machine /\ w.lost = m.lost /\ w.cs = b /\ w.th[t] = r
      /\ \A u \in Threads \ {t, c} : w.th[u] = m.th[u]
      /\ w.th[c].status = "ok" /\ w.th[c].nny = 0 /\ w.th[c].nC < HandlingCCalls
      /\ \E i \in Nat : GoesOn(c, w.th[c], i)
  BY DEF ResumesCo
<1>2. /\ Runnable(m, q, v, t) /\ q[n] <= Len(s.ci) /\ s.ci[Len(s.ci)].f \in Code
      /\ s.nC < HandlingCCalls
  BY <1>1 DEF InCode
<1>3. /\ m \in Machine /\ q \in Positions /\ v \in Positions /\ Base(m, q, v)
      /\ t \in Threads /\ t \notin m.lost /\ s \in StateType
      /\ m.cs \in Seq(EntryType) /\ s.ci \in Seq(FrameType)
      /\ n \in Nat \ {0} /\ n \in Own(m.cs, t) /\ m.cs[n].t = t
      /\ Sound(t, s) /\ s.nny = v[n] /\ s.nny \in Nat
      /\ Stacked(m.cs) /\ Level(m.cs, v) /\ Len(s.ci) \in Nat
  BY <1>2, RunnableFacts
<1>4. m.cs # << >> /\ t = Going(m) /\ s.ci[Len(s.ci)].f \notin Leaving
  BY <1>2 DEF Runnable
<1>5. g \in FrameType /\ g.f = f /\ ~g.fresh /\ ~g.k /\ ~g.yp
  <2>1. f \in Names /\ f \notin Code
    BY <1>1 DEF Names, Leaving, Code
  <2> QED
    BY <2>1, Frames
<1> HIDE DEF g
<1>6. /\ r \in StateType /\ r.ci = a /\ r.status = "ok" /\ r.nny = s.nny /\ r.nC = s.nC
      /\ r.errfunc = s.errfunc
  <2>1. a \in Seq(FrameType) /\ s.status = "ok" /\ s \in StateType /\ r = [s EXCEPT !.ci = a]
    BY <1>3, <1>5 DEF Sound
  <2> HIDE DEF a, s, r
  <2> QED
    BY ONLY <2>1 DEF StateType
<1> HIDE DEF r
<1>7. /\ m2 \in Machine /\ m2.th[t] = r /\ m2.cs = m.cs /\ m2.lost = m.lost
      /\ \A u \in Threads \ {t} : m2.th[u] = m.th[u]
  <2>1. m \in Machine /\ t \in Threads /\ m2 = [m EXCEPT !.th[t] = r]
    BY <1>3
  <2> HIDE DEF m2
  <2> QED
    BY ONLY <1>6, <2>1, Zenon DEF Machine
<1> HIDE DEF m2
<1>8. Base(m2, q, v) /\ q[n] <= Len(a) /\ a[Len(a)] = g /\ a \in Seq(FrameType)
  <2>1. Alike(m, m2, t)
    BY <1>7 DEF Alike
  <2>2. Callable(s.ci, g, q[n])
    BY <1>1, <1>2, <1>5 DEF Callable, Leaving
  <2>3. Pushes(m, q, v, m2, t, g)
    BY <1>3, <1>4, <1>5, <1>6, <1>7, <2>1, <2>2 DEF Pushes
  <2>4. /\ Base(m2, q, v) /\ Len(m2.th[t].ci) = Len(s.ci) + 1
        /\ m2.th[t].ci[Len(s.ci) + 1] = g
        /\ q[n] <= Len(s.ci) + 1
    BY <2>3, PushTop
  <2>5. m2.th[t].ci = a
    BY <1>6, <1>7
  <2>6. a \in Seq(FrameType)
    BY <1>3, <1>5
  <2> HIDE DEF a, n
  <2> QED
    BY <2>4, <2>5, <2>6
<1> HIDE DEF a
<1>9. /\ Sound(t, r) /\ Manned(m.cs, a, q, t)
  <2>1. Busy(m2, q, v, t)
    <3>1. Own(m2.cs, t) # {} /\ Fits(m2, q, v, t)
      BY <1>3, <1>7, <1>8 DEF Base
    <3> QED
      BY <3>1 DEF Fits
  <2> QED
    BY <1>6, <1>7, <2>1 DEF Busy
<1>10. /\ b \in Seq(EntryType) /\ Len(b) = n + 1 /\ b[n + 1] = e
       /\ \A j \in 1 .. n : b[j] = m.cs[j]
  BY <1>1, <1>3, AppendElements
<1>11. /\ x \in Positions /\ x[n + 1] = 0 /\ \A j \in 1 .. n : x[j] = v[j]
  <2>1. n \in Nat /\ 0 \in Nat /\ v \in Positions
    BY <1>3
  <2> HIDE DEF n
  <2> QED
    BY ONLY <2>1, OneMore
<1>12. ASSUME NEW u \in Threads \ {c} PROVE Own(b, u) = Own(m.cs, u)
  BY <1>1, <1>3, OwnEntry
<1>13. Stacked(b) /\ Level(b, x)
  <2>1. /\ m.cs \in Seq(EntryType) /\ Stacked(m.cs) /\ v \in Positions /\ Level(m.cs, v)
        /\ Len(m.cs) > 0 /\ e \in EntryType /\ e.a = "resume" /\ e.t # Main
        /\ Own(m.cs, e.t) = {} /\ e.nny = 1 /\ e.nC < HandlingCCalls
    BY <1>1, <1>3
  <2> QED
    BY ONLY <2>1, StackedResume DEF b, x, n
<1> HIDE DEF b, x, n
<1>14. Manned(b, a, q, t)
  <2>1. /\ m.cs \in Seq(EntryType) /\ a \in Seq(FrameType) /\ q \in Positions
        /\ Manned(m.cs, a, q, t) /\ e \in EntryType /\ e.t # t
        /\ Len(m.cs) > 0 /\ m.cs[Len(m.cs)].t = t /\ q[Len(m.cs)] <= Len(a)
    BY <1>1, <1>3, <1>8, <1>9 DEF n
  <2> QED
    BY ONLY <2>1, MannedBelow DEF b
<1>15. Fits(w, q, x, t)
  <2>1. Counted(b, x, t, r)
    <3>1. ASSUME NEW j \in Own(b, t), \A k \in Own(b, t) : k <= j
          PROVE  /\ r.nny = x[j]
                 /\ j < Len(b) => r.ci[Len(r.ci)].f \in {"resume", "wrap"} /\ r.nC < HandlingCCalls
      <4>1. Own(b, t) = Own(m.cs, t)
        BY <1>1, <1>3, <1>12
      <4>2. j = n
        <5>1. j \in 1 .. n /\ n <= j
          BY <1>3, <3>1, <4>1, Zenon DEF Own, n
        <5> QED
          BY <1>3, <5>1
      <4>3. x[n] = v[n]
        BY <1>3, <1>11
      <4> QED
        BY <1>1, <1>2, <1>3, <1>5, <1>6, <1>8, <4>2, <4>3
    <3> QED
      BY <3>1 DEF Counted
  <2>2. Busy(w, q, x, t)
    BY <1>1, <1>6, <1>9, <1>14, <2>1 DEF Busy
  <2> QED
    BY <1>1, <1>3, <1>12, <2>2 DEF Fits
<1>16. ASSUME NEW u \in Threads \ {t, c} PROVE Fits(w, q, x, u)
  <2>1. Fits(m, q, v, u) /\ w.th[u] = m.th[u] /\ (u \in w.lost <=> u \in m.lost)
    BY <1>1, <1>3 DEF Base
  <2>2. Own(w.cs, u) = Own(m.cs, u) /\ Len(m.cs) \in Nat /\ Len(w.cs) \in Nat
    BY <1>1, <1>3, <1>10, <1>12 DEF n
  <2>3. ASSUME NEW j \in Own(m.cs, u)
        PROVE  j < Len(m.cs) /\ j < Len(w.cs) /\ w.cs[j] = m.cs[j] /\ q[j] = q[j] /\ x[j] = v[j]
    <3>1. j \in 1 .. n /\ j # n
      BY <1>3 DEF Own, n
    <3> QED
      BY <1>1, <1>3, <1>10, <1>11, <3>1 DEF n
  <2> QED
    BY ONLY <2>1, <2>2, <2>3, FitsKept
<1>17. Resumes(w, q, x, c)
  <2>1. /\ w.cs # << >> /\ c = Going(w) /\ w.cs[Len(w.cs)].a = "resume"
    BY <1>1, <1>3, <1>10 DEF Going
  <2>2. \A u \in Threads \ {c} : Fits(w, q, x, u)
    BY <1>15, <1>16
  <2> QED
    BY <1>1, <1>3, <1>11, <1>13, <2>1, <2>2 DEF Resumes
<1> QED
  BY <1>17, Unrolls

\* The Lua function of a new coroutine has its luaV_execute.
LEMMA UnrollNew ==
  ASSUME NEW w \in Machine, NEW c \in Threads, NEW r \in StateType, w.th[c] = r,
         r.ci = <<Frame("lua")>>, GoesOn(c, r, 1)
  PROVE  Unroll(w, c) = w
<1> DEFINE g == Frame("lua")
           a == <<g>>
           s1 == [r EXCEPT !.ci = SubSeq(@, 1, 1), !.errfunc = FinishedHandler(r, 1)]
<1>1. g \in FrameType /\ g.fresh
  <2>1. "lua" \in Names /\ "lua" \in Code
    BY DEF Names, Code
  <2> QED
    BY <2>1, Frames
<1>2. LastLua(r) = 1 /\ FinishedHandler(r, 1) = r.errfunc
  <2>1. Len(r.ci) = 1
    OBVIOUS
  <2>2. ~(1 < Len(r.ci))
    BY <2>1
  <2> QED
    BY <2>2, UnrollFinds
<1>3. Unroll(w, c) = [w EXCEPT !.th[c] = [s1 EXCEPT !.ci[1].fresh = TRUE]]
  <2>1. 1 # 0
    OBVIOUS
  <2> QED
    BY <1>2, <2>1 DEF Unroll
<1> HIDE DEF g
<1>4. a \in Seq(FrameType) /\ Len(a) = 1 /\ a[1] = g /\ r.ci = a
  BY <1>1 DEF g
<1> HIDE DEF a
<1>5. SubSeq(a, 1, 1) = a
  <2> DEFINE b == SubSeq(a, 1, 1)
  <2>1. 1 \in 0 .. Len(a)
    BY <1>4
  <2>2. b \in Seq(FrameType) /\ Len(b) = 1 /\ \A i \in 1 .. 1 : b[i] = a[i]
    BY <1>4, <2>1, PrefixElements
  <2> HIDE DEF b
  <2>3. b = a
    BY <1>4, <2>2
  <2> QED
    BY <2>3 DEF b
<1>6. s1 = r
  <2>1. s1 = [r EXCEPT !.ci = a, !.errfunc = r.errfunc]
    BY <1>2, <1>4, <1>5, Zenon
  <2>2. [r EXCEPT !.ci = a, !.errfunc = r.errfunc] = r
    BY <1>4, Zenon DEF StateType
  <2> QED
    BY <2>1, <2>2
<1> HIDE DEF s1
<1>7. [r EXCEPT !.ci[1].fresh = TRUE] = r
  <2>1. [g EXCEPT !.fresh = TRUE] = g
    BY <1>1 DEF FrameType
  <2>2. [a EXCEPT ![1] = g] = a
    BY <1>4
  <2>3. [a EXCEPT ![1].fresh = TRUE] = a
    BY <1>4, <2>1, <2>2
  <2>4. [r EXCEPT !.ci[1].fresh = TRUE] = [r EXCEPT !.ci = [a EXCEPT ![1].fresh = TRUE]]
    BY <1>4, Zenon
  <2>5. [r EXCEPT !.ci = a] = r
    BY <1>4 DEF StateType
  <2> QED
    BY <2>3, <2>4, <2>5
<1>8. [w EXCEPT !.th[c] = r] = w
  BY DEF Machine
<1> QED
  BY <1>3, <1>6, <1>7, <1>8

\* lua_resume of c, whose state is s, by t with n C calls.
Resumed(m, t, c, f, s, n) ==
  LET s1 == [s EXCEPT !.status = "ok", !.nC = n, !.nny = ResumeNny(@)]
      m1 == [m EXCEPT !.th[t].ci = Append(@, Frame(f)),
                      !.cs = Append(@, Entry("resume", c, [s EXCEPT !.nC = n]))]
  IN IF s.status = "ok" THEN [m1 EXCEPT !.th[c] = [s1 EXCEPT !.ci = <<Frame("lua")>>]]
     ELSE Unroll([m1 EXCEPT !.th[c] = s1], c)

\* y is m when t has called f to resume c; before c goes on the machine is w.
ResumedBy(m, q, v, t, c, f, y) ==
  /\ AtRest(c, m.th[c]) /\ m.th[c] \in StateType
  /\ \E e, w : /\ ResumesCo(m, q, v, t, c, f, e, w) /\ y = Unroll(w, c)
              /\ w.th[c].ci = IF m.th[c].status = "ok" THEN <<Frame("lua")>> ELSE m.th[c].ci

\* lua_resume.
LEMMA ResumeCalls ==
  ASSUME NEW m, NEW q, NEW v, NEW t, InCode(m, q, v, t), NEW c \in Cos, c # t,
         NEW f \in {"resume", "wrap"},
         (m.th[c].status = "ok" /\ m.th[c].ci = << >> /\ m.th[c].fn) \/ m.th[c].status = "yield",
         ~(m.th[t].nC + 1 >= MaxCCalls)
  PROVE  ResumedBy(m, q, v, t, c, f, Resumed(m, t, c, f, m.th[c], m.th[t].nC + 1))
<1> DEFINE s == m.th[c]
           n == m.th[t].nC + 1
           s1 == [s EXCEPT !.status = "ok", !.nC = n, !.nny = ResumeNny(@)]
           sn == [s EXCEPT !.nC = n]
           e == Entry("resume", c, sn)
           m1 == [m EXCEPT !.th[t].ci = Append(@, Frame(f)), !.cs = Append(@, e)]
           s2 == [s1 EXCEPT !.ci = <<Frame("lua")>>]
           r == [m.th[t] EXCEPT !.ci = Append(@, Frame(f))]
           b == Append(m.cs, e)
           W(y) == [m EXCEPT !.th[t] = r, !.th[c] = y, !.cs = b]
<1>1. /\ Runnable(m, q, v, t)
  BY DEF InCode
<1>2. /\ m \in Machine /\ q \in Positions /\ v \in Positions /\ Base(m, q, v)
      /\ t \in Threads /\ m.cs \in Seq(EntryType) /\ m.th[t] \in StateType
      /\ m.th[t].ci \in Seq(FrameType) /\ m.th \in [Threads -> StateType]
  BY <1>1, RunnableFacts
<1>3. c \in Threads /\ c # Main /\ s \in StateType
  BY <1>2, ConstantsAssumption DEF Threads
<1>4. n \in Int /\ n < HandlingCCalls
  <2>1. m.th[t].nC \in Int
    BY <1>2 DEF StateType
  <2> QED
    BY <2>1, ConstantsAssumption
<1> HIDE DEF n
<1>5. Own(m.cs, c) = {} /\ c \notin m.lost /\ AtRest(c, s)
  <2>1. Fits(m, q, v, c)
    BY <1>2, <1>3 DEF Base
  <2>2. ~Busy(m, q, v, c)
    BY DEF Busy, Sound, Framed
  <2>3. Own(m.cs, c) = {} /\ Off(m, c)
    BY <2>1, <2>2 DEF Fits
  <2>4. c \notin m.lost
    BY <2>3 DEF Off, Cut
  <2> QED
    BY <2>3, <2>4 DEF Off
<1>6. s.nny = 1
  BY <1>5 DEF AtRest
<1>7. /\ e \in EntryType /\ e.a = "resume" /\ e.t = c /\ e.nny = 1 /\ e.nC < HandlingCCalls
  <2>1. /\ sn.nny = 1 /\ sn.errfunc \in Int /\ sn.nC = n /\ Len(sn.ci) \in Nat
    <3> HIDE DEF s
    <3>1. sn.nny = 1 /\ sn.errfunc = s.errfunc /\ sn.nC = n /\ sn.ci = s.ci
      BY <1>3, <1>6 DEF StateType
    <3>2. s.errfunc \in Int /\ s.ci \in Seq(FrameType)
      BY <1>3 DEF StateType
    <3> HIDE DEF sn
    <3> QED
      BY <3>1, <3>2
  <2> HIDE DEF sn
  <2>2. /\ Entry("resume", c, sn) \in EntryType /\ Entry("resume", c, sn).a = "resume"
        /\ Entry("resume", c, sn).t = c /\ Entry("resume", c, sn).nny = sn.nny
        /\ Entry("resume", c, sn).nC = sn.nC
    <3>1. sn.nny \in Int /\ sn.errfunc \in Int /\ sn.nC \in Int /\ Len(sn.ci) \in Nat
      BY <1>4, <2>1
    <3> QED
      BY <1>3, <3>1, Entries
  <2> QED
    BY <1>4, <2>1, <2>2
<1> HIDE DEF e
<1>8. /\ s1 \in StateType /\ s1.status = "ok" /\ s1.nC = n /\ s1.nny = 0 /\ s1.ci = s.ci
      /\ s1.errfunc = s.errfunc
  <2> DEFINE z == 0
  <2>1. s1 = [s EXCEPT !.status = "ok", !.nC = n, !.nny = z]
    BY DEF ResumeNny
  <2>2. s \in StateType /\ n \in Int /\ z \in Int
    BY <1>3, <1>4
  <2> HIDE DEF s, s1, z
  <2>3. /\ s1 \in StateType /\ s1.status = "ok" /\ s1.nC = n /\ s1.nny = z /\ s1.ci = s.ci
        /\ s1.errfunc = s.errfunc
    BY ONLY <2>1, <2>2, Zenon DEF StateType
  <2> QED
    BY <2>3 DEF z
<1> HIDE DEF s1
<1>9. /\ s2 \in StateType /\ s2.status = "ok" /\ s2.nC = n /\ s2.nny = 0
      /\ s2.ci = <<Frame("lua")>> /\ s2.errfunc = s.errfunc
  <2> DEFINE a == <<Frame("lua")>>
  <2>1. a \in Seq(FrameType)
    <3>1. "lua" \in Names
      BY DEF Names, Code
    <3>2. Frame("lua") \in FrameType
      BY <3>1, Frames
    <3> QED
      BY <3>2
  <2> HIDE DEF a
  <2>2. s2 = [s1 EXCEPT !.ci = a]
    BY DEF a
  <2>3. s2 \in StateType /\ s2.status = "ok" /\ s2.nC = n /\ s2.nny = 0 /\ s2.ci = a
        /\ s2.errfunc = s.errfunc
    <3> HIDE DEF s, s2
    <3> QED
      BY ONLY <1>8, <2>1, <2>2 DEF StateType
  <2> QED
    BY <2>3 DEF a
<1> HIDE DEF s2
<1>10. r \in StateType
  <2>1. Frame(f) \in FrameType
    <3>1. f \in Names
      BY DEF Names, Leaving
    <3> QED
      BY <3>1, Frames
  <2>2. Append(m.th[t].ci, Frame(f)) \in Seq(FrameType)
    BY <1>2, <2>1
  <2> QED
    BY <1>2, <2>2, Zenon DEF StateType
<1>11. b \in Seq(EntryType)
  BY <1>2, <1>7
<1>12. ASSUME NEW y \in StateType
       PROVE  /\ [m1 EXCEPT !.th[c] = y] = W(y)
              /\ W(y) \in Machine /\ W(y).th[c] = y /\ W(y).th[t] = r /\ W(y).cs = b
              /\ W(y).lost = m.lost /\ \A u \in Threads \ {t, c} : W(y).th[u] = m.th[u]
  <2>1. [m1 EXCEPT !.th[c] = y] = W(y)
    <3>1. m1 = [m EXCEPT !.th[t] = r, !.cs = b]
      BY <1>2
    <3> HIDE DEF m1, r, b
    <3> QED
      BY ONLY <1>2, <1>3, <3>1, Zenon DEF Machine
  <2> HIDE DEF r, b
  <2>2. /\ W(y) \in Machine /\ W(y).th[c] = y /\ W(y).th[t] = r /\ W(y).cs = b
        /\ W(y).lost = m.lost /\ \A u \in Threads \ {t, c} : W(y).th[u] = m.th[u]
    <3>1. m \in Machine /\ t \in Threads /\ c \in Threads /\ c # t
      BY <1>2, <1>3
    <3> QED
      BY ONLY <1>10, <1>11, <3>1, Zenon DEF Machine
  <2> QED
    BY <2>1, <2>2
<1> HIDE DEF W
<1>13. ASSUME NEW y \in StateType, y.status = "ok", y.nC = n, y.nny = 0,
              \E i \in Nat : GoesOn(c, y, i),
              y.ci = IF s.status = "ok" THEN <<Frame("lua")>> ELSE s.ci
       PROVE  ResumedBy(m, q, v, t, c, f, Unroll(W(y), c))
  <2>1. ResumesCo(m, q, v, t, c, f, e, W(y))
    BY <1>3, <1>4, <1>5, <1>7, <1>12, <1>13, Zenon DEF ResumesCo
  <2>2. W(y).th[c].ci = IF s.status = "ok" THEN <<Frame("lua")>> ELSE s.ci
    BY <1>12, <1>13, Zenon
  <2> QED
    BY <1>3, <1>5, <2>1, <2>2, Zenon DEF ResumedBy
<1>14. CASE s.status = "ok"
  <2>1. s.fn
    BY <1>14
  <2>2. s2.errfunc = 0
    BY <1>3, <1>5, <1>9, <1>14, <2>1 DEF AtRest
  <2>3. GoesOn(c, s2, 1)
    BY <1>3, <1>9, <2>2, NewGoesOn
  <2>4. ResumedBy(m, q, v, t, c, f, Unroll(W(s2), c))
    BY <1>9, <1>13, <1>14, <2>3
  <2>5. Unroll(W(s2), c) = W(s2)
    BY <1>3, <1>9, <1>12, <2>3, UnrollNew, Zenon
  <2>6. [m1 EXCEPT !.th[c] = s2] = W(s2)
    BY <1>9, <1>12, Zenon
  <2>7. ResumedBy(m, q, v, t, c, f, [m1 EXCEPT !.th[c] = s2])
    BY <2>4, <2>5, <2>6
  <2> QED
    BY <1>14, <2>7 DEF Resumed, s2, s1, m1, e, sn, n
<1>15. CASE s.status # "ok"
  <2>1. s.status = "yield"
    BY <1>15
  <2>2. \E i \in Nat : GoesOn(c, s1, i)
    BY <1>3, <1>5, <1>8, <2>1, RestGoesOn
  <2>3. ResumedBy(m, q, v, t, c, f, Unroll(W(s1), c))
    BY <1>8, <1>13, <1>15, <2>2
  <2>4. [m1 EXCEPT !.th[c] = s1] = W(s1)
    BY <1>8, <1>12, Zenon
  <2> QED
    BY <1>15, <2>3, <2>4 DEF Resumed, s1, m1, e, sn, n
<1> QED
  BY <1>14, <1>15

\* It keeps the invariant.
LEMMA StepResume ==
  ASSUME NEW m, NEW q, NEW v, NEW t, InCode(m, q, v, t), NEW c \in Cos, c # t,
         NEW f \in {"resume", "wrap"},
         (m.th[c].status = "ok" /\ m.th[c].ci = << >> /\ m.th[c].fn) \/ m.th[c].status = "yield",
         ~(m.th[t].nC + 1 >= MaxCCalls)
  PROVE  Good(Resumed(m, t, c, f, m.th[c], m.th[t].nC + 1))
<1> DEFINE y == Resumed(m, t, c, f, m.th[c], m.th[t].nC + 1)
<1>1. ResumedBy(m, q, v, t, c, f, y)
  BY ResumeCalls
<1> HIDE DEF y
<1>2. PICK e, w : ResumesCo(m, q, v, t, c, f, e, w) /\ y = Unroll(w, c)
  BY <1>1 DEF ResumedBy
<1>3. Good(y)
  BY <1>2, ResumesBase
<1> QED
  BY <1>3 DEF y

\* The host calls the Lua function of a script.
HostBegins(w, s) ==
  /\ w \in Machine /\ w.cs = <<HostEntry>> /\ Main \notin w.lost
  /\ s \in StateType /\ AtRest(Main, s) /\ w.th[Main] = HostRuns(s)
  /\ \A u \in Threads \ {Main} : Off(w, u)

\* lua_pcall of the host keeps the invariant.
LEMMA HostStarts ==
  ASSUME NEW w, NEW s, HostBegins(w, s)
  PROVE  Good(w)
<1> DEFINE g == Frame("lua")
           a == <<g>>
           c == <<HostEntry>>
           r == HostRuns(s)
           q == [i \in Nat |-> 1]
           v == [i \in Nat |-> 2]
<1>1. /\ w \in Machine /\ w.cs = c /\ Main \notin w.lost
      /\ s \in StateType /\ AtRest(Main, s) /\ w.th[Main] = r
      /\ \A u \in Threads \ {Main} : Off(w, u)
  BY DEF HostBegins
<1>2. g \in FrameType /\ g.f = "lua" /\ g.fresh /\ ~g.k /\ ~g.yp
  <2>1. "lua" \in Names /\ "lua" \in Code
    BY DEF Names, Code
  <2> QED
    BY <2>1, Frames
<1> HIDE DEF g
<1>3. a \in Seq(FrameType) /\ Len(a) = 1 /\ a[1] = g /\ a # << >>
  BY <1>2
<1> HIDE DEF a
<1>4. /\ r.ci = a /\ r.nny = 2 /\ r.nC = 1 /\ r.errfunc = Host /\ r.status = "ok"
  <2>1. s.nny = 1 /\ s.nC = 0 /\ s.status = "ok"
    BY <1>1 DEF AtRest
  <2>2. r = [s EXCEPT !.ci = a, !.nny = @ + 1, !.nC = @ + 1, !.errfunc = Host]
    BY DEF HostRuns, a, g
  <2> HIDE DEF r
  <2> QED
    BY ONLY <1>1, <2>1, <2>2 DEF StateType
<1> HIDE DEF r
<1>5. q \in Positions /\ v \in Positions /\ q[1] = 1 /\ v[1] = 2
  BY DEF Positions
<1> HIDE DEF q, v
<1>6. Len(c) = 1 /\ c[1] = HostEntry /\ c # << >> /\ c \in Seq(EntryType)
  BY <1>1, Zenon DEF Machine
<1> HIDE DEF c
<1>7. /\ HostEntry.t = Main /\ HostEntry.a = "pcall" /\ HostEntry.nC = 0
  BY DEF HostEntry
<1>8. Stacked(c)
  <2>1. Together(c)
    BY <1>6 DEF Together
  <2>2. \A j \in 1 .. Len(c) : c[j].nC < HandlingCCalls
    BY <1>6, <1>7, ConstantsAssumption
  <2> QED
    BY <1>6, <2>1, <2>2 DEF Stacked
<1>9. Level(c, v)
  <2>1. ~Free(c, 1)
    BY <1>6, <1>7 DEF Free
  <2> QED
    BY <1>5, <1>6, <2>1 DEF Level
<1>10. Own(c, Main) = {1} /\ \A u \in Threads \ {Main} : Own(c, u) = {}
  BY <1>6, <1>7 DEF Own
<1>11. Sound(Main, r)
  <2>1. Framed(Main, a)
    BY <1>2, <1>3 DEF Framed, Code
  <2>2. HandlerAt(Main, a, 1, Host)
    BY <1>2, <1>3 DEF HandlerAt, Guarding
  <2> QED
    BY <1>3, <1>4, <2>1, <2>2 DEF Sound
<1>12. Manned(c, a, q, Main)
  <2>1. Ordered(c, q, Main) /\ Claimed(c, a, q, Main)
    BY <1>3, <1>5, <1>10 DEF Ordered, Claimed
  <2>2. Placed(c, a, q, Main)
    BY <1>2, <1>3, <1>5, <1>10 DEF Placed, Entered, Code
  <2>3. AllMade(c, a, q, Main)
    BY <1>5, <1>6, <1>7, <1>10 DEF AllMade, Made
  <2>4. Stuck(c, a, q, Main)
    BY <1>2, <1>3, <1>5, <1>10 DEF Stuck
  <2> QED
    BY <2>1, <2>2, <2>3, <2>4 DEF Manned, Linked, Covered
<1>13. Counted(c, v, Main, r)
  BY <1>4, <1>5, <1>6, <1>10 DEF Counted
<1>14. ASSUME NEW u \in Threads PROVE Fits(w, q, v, u)
  <2>1. CASE u = Main
    BY <1>1, <1>4, <1>10, <1>11, <1>12, <1>13, <2>1 DEF Fits, Busy
  <2>2. CASE u # Main
    BY <1>1, <1>10, <2>2 DEF Fits
  <2> QED
    BY <2>1, <2>2
<1>15. Base(w, q, v)
  BY <1>1, <1>8, <1>9, <1>14 DEF Base
<1>16. Goes(w, q)
  <2>1. Going(w) = Main
    BY <1>1, <1>6, <1>7 DEF Going
  <2>2. r.nC < HandlingCCalls /\ q[Len(c)] <= Len(r.ci) /\ r.ci[Len(r.ci)].f \in Code
    <3>1. r.nC < HandlingCCalls
      BY ONLY <1>4, ConstantsAssumption
    <3>2. q[Len(c)] <= Len(r.ci)
      BY ONLY <1>3, <1>4, <1>5, <1>6
    <3>3. r.ci[Len(r.ci)].f \in Code
      BY ONLY <1>2, <1>3, <1>4, Zenon DEF Code
    <3> QED
      BY <3>1, <3>2, <3>3
  <2> QED
    BY <1>1, <2>1, <2>2 DEF Goes
<1> QED
  BY <1>1, <1>5, <1>15, <1>16 DEF Good

-----------------------------------------------------------------------------
(* Returns *)

\* The last function of t returns, and ends its luaV_execute.
Ends(m, q, v, t) == InCode(m, q, v, t) /\ m.th[t].ci[Len(m.th[t].ci)].fresh

\* What is known when it does.
LEMMA EndsFacts ==
  ASSUME NEW m, NEW q, NEW v, NEW t, Ends(m, q, v, t)
  PROVE  LET s == m.th[t]
             k == Len(s.ci)
             n == Len(m.cs)
         IN /\ m \in Machine /\ q \in Positions /\ v \in Positions /\ Base(m, q, v)
            /\ t \in Threads /\ t \notin m.lost /\ s \in StateType /\ s.status = "ok"
            /\ m.cs \in Seq(EntryType) /\ s.ci \in Seq(FrameType) /\ k \in Nat \ {0}
            /\ n \in Nat \ {0} /\ n \in Own(m.cs, t) /\ m.cs[n].t = t /\ m.cs[n] \in EntryType
            /\ Sound(t, s) /\ Manned(m.cs, s.ci, q, t) /\ Stacked(m.cs) /\ Level(m.cs, v)
            /\ s.nny = v[n] /\ s.nny \in Nat /\ s.nC \in Int /\ s.nC < HandlingCCalls
            /\ Framed(t, s.ci) /\ s.ci[k].f \in Code /\ HandlerAt(t, s.ci, k - 1, s.errfunc)
            /\ q[n] = k /\ \A j \in Own(m.cs, t) : q[j] \in Nat \ {0} /\ q[j] <= k
<1> DEFINE s == m.th[t]
           k == Len(s.ci)
           n == Len(m.cs)
<1>1. InCode(m, q, v, t) /\ s.ci[k].fresh
  BY DEF Ends
<1>2. Runnable(m, q, v, t) /\ q[n] <= k /\ s.ci[k].f \in Code /\ s.nC < HandlingCCalls
  BY <1>1 DEF InCode
<1>3. /\ m \in Machine /\ q \in Positions /\ v \in Positions /\ Base(m, q, v)
      /\ t \in Threads /\ t \notin m.lost /\ s \in StateType
      /\ m.cs \in Seq(EntryType) /\ s.ci \in Seq(FrameType)
      /\ n \in Nat \ {0} /\ n \in Own(m.cs, t) /\ m.cs[n].t = t /\ k \in Nat \ {0}
      /\ Sound(t, s) /\ Manned(m.cs, s.ci, q, t) /\ s.nny = v[n] /\ s.nny \in Nat
      /\ Stacked(m.cs) /\ Level(m.cs, v)
  BY <1>2, RunnableFacts
<1>4. /\ s.status = "ok" /\ Framed(t, s.ci) /\ HandlerAt(t, s.ci, k, s.errfunc)
  BY <1>3 DEF Sound
<1>5. s.nC \in Int
  <2> HIDE DEF s
  <2> QED
    BY <1>3 DEF StateType
<1>6. m.cs[n] \in EntryType
  BY <1>3 DEF Own
<1>7. HandlerAt(t, s.ci, k - 1, s.errfunc)
  <2>1. s.ci[k].f \notin Guarding
    BY <1>2 DEF Code, Guarding
  <2> QED
    BY <1>3, <1>4, <2>1, HandlerDown
<1> HIDE DEF s, k, n
<1>8. ASSUME NEW j \in Own(m.cs, t) PROVE q[j] \in Nat \ {0} /\ q[j] <= q[n] /\ q[j] <= k
  <2>1. q[j] \in Nat \ {0} /\ q[j] <= q[n]
    <3>1. Linked(m.cs, s.ci, q, t) /\ Len(m.cs) \in Nat /\ Len(s.ci) \in Nat
          /\ m.cs[Len(m.cs)].t = t
      BY <1>3 DEF Manned, n, k
    <3> QED
      BY <1>3, <3>1, LastPlace, Zenon DEF n
  <2>2. q[n] \in Nat
    BY <1>3 DEF Positions
  <2> QED
    BY <1>2, <1>3, <2>1, <2>2
<1>9. q[n] = k
  <2>1. q[n] \in Nat /\ k \in Nat
    BY <1>3 DEF Positions
  <2>2. ASSUME q[n] < k PROVE FALSE
    <3>1. k \in q[n] + 1 .. Len(s.ci)
      BY <2>1, <2>2 DEF k
    <3>2. Claimed(m.cs, s.ci, q, t)
      BY <1>3 DEF Manned, Linked
    <3>3. PICK j \in Own(m.cs, t) : q[j] = k
      BY <1>1, <1>3, <3>1, <3>2 DEF Claimed
    <3> QED
      BY <1>8, <2>1, <2>2, <3>3
  <2> QED
    BY <1>2, <2>1, <2>2
<1> QED
  BY <1>2, <1>3, <1>4, <1>5, <1>6, <1>7, <1>8, <1>9 DEF s, k, n

\* A luaD_call returns, and what had called it goes on with the first p calls as r.
LeavesEntry(m, q, v, t, p, r) ==
  LET s == m.th[t]
      k == Len(s.ci)
      n == Len(m.cs)
  IN /\ Ends(m, q, v, t) /\ n > 1 /\ m.cs[n - 1].t = t /\ m.cs[n].a # "handler"
     /\ p \in 1 .. k /\ s.ci[p].f \in Code
     /\ \/ p = k - 1 /\ m.cs[n].a = "call"
        \/ p = k - 2 /\ s.ci[k - 1].f \notin Code
     /\ r \in StateType /\ r.ci = SubSeq(s.ci, 1, p) /\ r.status = "ok" /\ r.nny = v[n - 1]
     /\ r.nC < HandlingCCalls /\ HandlerAt(t, s.ci, p, r.errfunc)

\* It keeps the invariant.
LEMMA LeavesEntryGood ==
  ASSUME NEW m, NEW q, NEW v, NEW t, NEW p, NEW r, LeavesEntry(m, q, v, t, p, r)
  PROVE  Good([m EXCEPT !.th[t] = r, !.cs = SubSeq(@, 1, Len(@) - 1)])
<1> DEFINE s == m.th[t]
           k == Len(s.ci)
           n == Len(m.cs)
           b == SubSeq(m.cs, 1, n - 1)
           w == [m EXCEPT !.th[t] = r, !.cs = b]
<1>1. /\ Ends(m, q, v, t) /\ n > 1 /\ m.cs[n - 1].t = t /\ m.cs[n].a # "handler"
      /\ p \in 1 .. k /\ s.ci[p].f \in Code
      /\ \/ p = k - 1 /\ m.cs[n].a = "call"
         \/ p = k - 2 /\ s.ci[k - 1].f \notin Code
      /\ r \in StateType /\ r.ci = SubSeq(s.ci, 1, p) /\ r.status = "ok" /\ r.nny = v[n - 1]
      /\ r.nC < HandlingCCalls /\ HandlerAt(t, s.ci, p, r.errfunc)
  BY DEF LeavesEntry
<1>2. /\ m \in Machine /\ q \in Positions /\ v \in Positions /\ Base(m, q, v)
      /\ t \in Threads /\ t \notin m.lost
      /\ m.cs \in Seq(EntryType) /\ s.ci \in Seq(FrameType) /\ k \in Nat \ {0}
      /\ n \in Nat \ {0} /\ n \in Own(m.cs, t) /\ m.cs[n].t = t
      /\ Sound(t, s) /\ Manned(m.cs, s.ci, q, t) /\ Stacked(m.cs) /\ Level(m.cs, v)
      /\ q[n] = k /\ \A j \in Own(m.cs, t) : q[j] \in Nat \ {0} /\ q[j] <= k
  BY <1>1, EndsFacts
<1> HIDE DEF s, k, n
<1>3. /\ n - 1 \in 1 .. n /\ n - 1 \in 0 .. n /\ n = (n - 1) + 1 /\ n - 1 \in Own(m.cs, t)
      /\ n \in 1 .. n /\ n - 1 \in 1 .. Len(m.cs) /\ n - 1 \in 0 .. Len(m.cs) /\ n \in 1 .. Len(m.cs)
  BY <1>1, <1>2 DEF Own, n
<1>4. ASSUME NEW j \in Own(m.cs, t)
      PROVE  IF j <= n - 1 THEN q[j] <= p
             ELSE p < q[j] /\ (m.cs[j].a \in {"noyield", "pcall"} => p < q[j] - 1)
  <2>1. j \in 1 .. n /\ q[j] \in Nat
    BY <1>2 DEF Own, n
  <2>2. CASE j = n
    <3>1. ~(j <= n - 1) /\ q[j] = k
      BY <1>2, <2>2
    <3>2. p < k /\ (m.cs[j].a \in {"noyield", "pcall"} => p < k - 1)
      BY <1>1, <1>2, <2>2
    <3> QED
      BY <3>1, <3>2
  <2>3. CASE j # n
    <3>1. j <= n - 1 /\ j < n
      BY <1>2, <2>1, <2>3
    <3>2. q[j] < k
      <4>1. Ordered(m.cs, q, t)
        BY <1>2 DEF Manned, Linked
      <4> QED
        BY <1>1, <1>2, <3>1, <4>1, Zenon DEF Ordered
    <3>3. s.ci[q[j]].f \in Code
      <4>1. Placed(m.cs, s.ci, q, t)
        BY <1>2 DEF Manned, Linked
      <4>2. q[j] # Len(s.ci) + 1
        BY <1>2, <2>1, <3>2 DEF k
      <4> QED
        BY <4>1, <4>2 DEF Placed, Entered
    <3>4. q[j] <= p
      <4>1. p = k - 1 \/ (p = k - 2 /\ q[j] # k - 1)
        BY ONLY <1>1, <3>3, Zenon
      <4>2. k \in Nat
        BY <1>2
      <4> QED
        BY ONLY <2>1, <3>2, <4>1, <4>2
    <3> QED
      BY <3>1, <3>4
  <2> QED
    BY <2>2, <2>3
<1>5. CutAt(m.cs, s.ci, q, t, n - 1, p)
  BY <1>4 DEF CutAt
<1>6. b \in Seq(EntryType)
  BY <1>2, <1>3, PrefixElements
<1>7. /\ w \in Machine /\ w.th[t] = r /\ w.cs = b /\ w.lost = m.lost
      /\ \A u \in Threads \ {t} : w.th[u] = m.th[u]
  <2>1. m \in Machine /\ t \in Threads /\ w = [m EXCEPT !.th[t] = r, !.cs = b]
    BY <1>2
  <2> HIDE DEF w, b
  <2> QED
    BY ONLY <1>1, <1>6, <2>1, Zenon DEF Machine
<1> HIDE DEF w
<1>8. Apart(m, q, v, w, t)
  <2>1. Cuts(m, n - 1, n, t, w)
    <3>1. ASSUME NEW u \in Threads \ {t}, NEW i \in (n - 1) + 1 .. Len(m.cs) PROVE m.cs[i].t # u
      <4>1. i = n
        BY <1>2 DEF n
      <4> QED
        BY <1>2, <4>1
    <3> QED
      BY <1>2, <1>3, <1>7, <3>1 DEF Cuts
  <2>2. ASSUME NEW u \in Threads \ {t}
        PROVE IF Own(w.cs, u) # {} THEN Fits(m, q, v, u) /\ w.th[u] = m.th[u] /\ u \notin w.lost
              ELSE Off(w, u)
    <3>1. Fits(m, q, v, u) /\ u # t /\ u \in Threads
      BY <1>2 DEF Base
    <3> QED
      BY ONLY <2>1, <3>1, Spared
  <2> QED
    BY <2>2 DEF Apart
<1>9. CutTo(m, q, v, n - 1, w, t)
  BY <1>1, <1>2, <1>3, <1>7, <1>8 DEF CutTo
<1>10. Leave(m, q, v, n - 1, w, t, p)
  <2>1. q[n - 1] <= p
    <3>1. n - 1 <= n - 1
      BY <1>2
    <3> QED
      BY <1>3, <1>4, <3>1
  <2> QED
    BY <1>1, <1>2, <1>5, <1>7, <1>9, <2>1, Zenon DEF Leave, s, k
<1>11. Good(w)
  BY <1>10, LeaveGood
<1> QED
  BY <1>11 DEF w, b, n

\* What has returned, and whether a C function had called it, which ends too.
Ended(m, t) == Popped(m.th[t], 1)
Called(s) == IF s.ci # << >> /\ Last(s.ci).f # "lua" /\ Last(s.ci).f # "handler" THEN 1 ELSE 0

\* What is left of t, and of its caller.
LEMMA EndedFacts ==
  ASSUME NEW m, NEW q, NEW v, NEW t, Ends(m, q, v, t)
  PROVE  LET z == m.th[t]
             k == Len(z.ci)
             s == Ended(m, t)
         IN /\ s \in StateType /\ s.ci = SubSeq(z.ci, 1, k - 1) /\ Len(s.ci) = k - 1
            /\ s.status = "ok" /\ s.nny = z.nny /\ s.nC = z.nC /\ s.errfunc = z.errfunc
            /\ s.fn = z.fn
            /\ k = 1 => s.ci = << >> /\ Called(s) = 0
            /\ k > 1 => /\ k - 1 \in 1 .. k /\ Last(s.ci) = z.ci[k - 1]
                        /\ Called(s) = IF z.ci[k - 1].f \in Code THEN 0 ELSE 1
<1> DEFINE z == m.th[t]
           k == Len(z.ci)
           s == Ended(m, t)
           a == SubSeq(z.ci, 1, k - 1)
<1>1. /\ z \in StateType /\ z.status = "ok" /\ z.ci \in Seq(FrameType) /\ k \in Nat \ {0}
  BY EndsFacts
<1>2. k - 1 \in 0 .. Len(z.ci)
  <2>1. k \in Nat \ {0} /\ Len(z.ci) = k
    BY <1>1
  <2> HIDE DEF k, z
  <2> QED
    BY ONLY <2>1
<1>3. /\ a \in Seq(FrameType) /\ Len(a) = k - 1 /\ \A i \in 1 .. k - 1 : a[i] = z.ci[i]
  BY <1>1, <1>2, PrefixElements
<1>4. s = [z EXCEPT !.ci = a]
  BY DEF Ended, Popped
<1> HIDE DEF a, s, z
<1>5. /\ s \in StateType /\ s.ci = a /\ s.status = "ok" /\ s.nny = z.nny /\ s.nC = z.nC
      /\ s.errfunc = z.errfunc /\ s.fn = z.fn
  BY ONLY <1>1, <1>3, <1>4, Zenon DEF StateType
<1>6. ASSUME k = 1 PROVE s.ci = << >> /\ Called(s) = 0
  <2>1. s.ci = << >>
    BY <1>3, <1>5, <1>6
  <2> QED
    BY <2>1 DEF Called
<1>7. ASSUME k > 1
      PROVE  /\ k - 1 \in 1 .. k /\ Last(s.ci) = z.ci[k - 1]
             /\ Called(s) = IF z.ci[k - 1].f \in Code THEN 0 ELSE 1
  <2>1. k - 1 \in 1 .. k /\ k - 1 \in 1 .. k - 1
    BY <1>1, <1>7
  <2>2. Last(s.ci) = z.ci[k - 1]
    BY <1>3, <1>5, <2>1 DEF Last
  <2>3. s.ci # << >>
    <3>1. Len(s.ci) # 0
      BY <1>1, <1>3, <1>5, <1>7
    <3> QED
      BY <3>1
  <2> QED
    BY <2>1, <2>2, <2>3 DEF Called, Code
<1> QED
  BY <1>3, <1>5, <1>6, <1>7 DEF s, a, z

\* The entry below the last one.
LEMMA EndsAbove ==
  ASSUME NEW m, NEW q, NEW v, NEW t, Ends(m, q, v, t), m.cs[Len(m.cs)].a \in {"call", "noyield"}
  PROVE  LET n == Len(m.cs)
             k == Len(m.th[t].ci)
         IN /\ n > 1 /\ m.cs[n - 1].t = t /\ k > 1 /\ k - 1 \in 1 .. k
            /\ v[n] = IF m.cs[n].a = "call" THEN v[n - 1] ELSE v[n - 1] + 1
            /\ Made(t, m.th[t].ci, m.cs[n], n, k)
<1> DEFINE n == Len(m.cs)
           k == Len(m.th[t].ci)
           s == m.th[t].ci
           c == m.cs
<1>1. /\ c \in Seq(EntryType) /\ s \in Seq(FrameType) /\ k \in Nat \ {0} /\ n \in Nat \ {0}
      /\ n \in Own(c, t) /\ c[n].t = t /\ Manned(c, s, q, t) /\ Stacked(c) /\ Level(c, v)
      /\ q[n] = k
  BY EndsFacts
<1>2. c # << >> /\ n = Len(c) /\ c[n].a \in {"call", "noyield"}
  BY <1>1
<1> HIDE DEF c, n, s, k
<1>3. n # 1
  <2>1. c[1].a = "pcall"
    BY <1>1, <1>2 DEF Stacked, HostEntry
  <2> QED
    BY <1>2, <2>1
<1>4. n > 1 /\ n \in 2 .. Len(c) /\ n \in 1 .. Len(c)
  BY <1>1, <1>2, <1>3
<1>5. c[n - 1].t = t
  BY <1>1, <1>2, <1>4 DEF Stacked
<1>6. Made(t, s, c[n], n, k)
  BY <1>1 DEF Manned, Linked, AllMade
<1>7. k > 1 /\ k - 1 \in 1 .. k
  <2>1. k > 1
    BY <1>2, <1>6 DEF Made
  <2> QED
    BY <1>1, <2>1
<1>8. v[n] = IF c[n].a = "call" THEN v[n - 1] ELSE v[n - 1] + 1
  BY <1>1, <1>2, <1>4 DEF Level
<1> QED
  BY <1>4, <1>5, <1>6, <1>7, <1>8 DEF c, n, s, k

\* The C function below the last, which has no Lua function above but that.
LEMMA BelowC ==
  ASSUME NEW t, NEW s \in Seq(FrameType), Framed(t, s), NEW k \in Nat, k = Len(s), k > 1,
         s[k - 1].f \notin Code, NEW h, HandlerAt(t, s, k - 1, h)
  PROVE  /\ k - 2 \in 1 .. k /\ s[k - 2].f \in Code /\ (s[k - 1].k => s[k - 2].f = "lua")
         /\ s[k - 1].f \notin Guarding => HandlerAt(t, s, k - 2, h)
         /\ s[k - 1].yp => HandlerAt(t, s, k - 2, s[k - 1].old)
<1>1. k - 1 \in 1 .. Len(s) /\ (k - 1) - 1 = k - 2
  OBVIOUS
<1>2. /\ ~s[k - 1].fresh /\ (~s[k - 1].fresh => k - 1 > 1 /\ s[(k - 1) - 1].f \in Code)
      /\ (s[k - 1].k => s[(k - 1) - 1].f = "lua")
      /\ (s[k - 1].yp => HandlerAt(t, s, (k - 1) - 1, s[k - 1].old))
  BY ONLY <1>1, Framed(t, s), s[k - 1].f \notin Code DEF Framed
<1>3. k - 2 \in 1 .. k
  BY <1>2
<1>4. s[k - 1].f \notin Guarding => HandlerAt(t, s, k - 2, h)
  <2>1. k - 1 \in Nat \ {0}
    BY <1>1
  <2> QED
    BY <1>1, <2>1, HandlerDown, Zenon
<1> QED
  BY <1>1, <1>2, <1>3, <1>4

\* A call that yields may cross returns.
LEMMA ReturnsCall ==
  ASSUME NEW m, NEW q, NEW v, NEW t, Ends(m, q, v, t), m.cs[Len(m.cs)].a = "call"
  PROVE  LET s == Ended(m, t)
             called == Called(s)
             c == Last(s.ci)
             s1 == IF called = 1 /\ c.yp THEN [s EXCEPT !.errfunc = c.old] ELSE s
         IN \E p : LeavesEntry(m, q, v, t, p, Popped([s1 EXCEPT !.nC = @ - 1], called))
<1> DEFINE z == m.th[t]
           a == z.ci
           k == Len(z.ci)
           n == Len(m.cs)
           s == Ended(m, t)
           called == Called(s)
           c == Last(s.ci)
           h == IF called = 1 /\ c.yp THEN c.old ELSE z.errfunc
           s1 == IF called = 1 /\ c.yp THEN [s EXCEPT !.errfunc = c.old] ELSE s
           p == (k - 1) - called
           r == Popped([s1 EXCEPT !.nC = @ - 1], called)
<1>1. /\ v \in Positions /\ z \in StateType /\ a \in Seq(FrameType) /\ k \in Nat \ {0}
      /\ z.nny = v[n] /\ z.nC \in Int /\ z.nC < HandlingCCalls /\ Framed(t, a) /\ k = Len(a)
      /\ HandlerAt(t, a, k - 1, z.errfunc)
  BY EndsFacts
<1>2. /\ n > 1 /\ m.cs[n - 1].t = t /\ k > 1 /\ k - 1 \in 1 .. k /\ v[n] = v[n - 1]
      /\ Made(t, a, m.cs[n], n, k)
  BY EndsAbove
<1>3. /\ s \in StateType /\ s.ci = SubSeq(a, 1, k - 1) /\ Len(s.ci) = k - 1
      /\ s.status = "ok" /\ s.nny = z.nny /\ s.nC = z.nC /\ s.errfunc = z.errfunc
      /\ c = a[k - 1] /\ called = IF a[k - 1].f \in Code THEN 0 ELSE 1
  BY <1>2, EndedFacts
<1>4. a[k - 1].f \in Code \/ a[k - 1].k
  BY <1>2 DEF Made
<1> HIDE DEF a, k, n, z, s, c, called
<1>5. a[k - 1] \in FrameType
  BY <1>1, <1>2
<1>6. /\ p \in 1 .. k /\ a[p].f \in Code /\ HandlerAt(t, a, p, h)
      /\ called \in {0, 1} /\ (p = k - 1 \/ (p = k - 2 /\ a[k - 1].f \notin Code))
  <2>1. CASE a[k - 1].f \in Code
    <3>1. called = 0 /\ p = k - 1 /\ h = z.errfunc
      BY <1>1, <1>3, <2>1
    <3> QED
      BY <1>1, <1>2, <2>1, <3>1
  <2>2. CASE a[k - 1].f \notin Code
    <3>1. called = 1 /\ p = k - 2
      BY <1>1, <1>3, <2>2
    <3>2. /\ k - 2 \in 1 .. k /\ a[k - 2].f \in Code
          /\ a[k - 1].f \notin Guarding => HandlerAt(t, a, k - 2, z.errfunc)
          /\ a[k - 1].yp => HandlerAt(t, a, k - 2, a[k - 1].old)
      BY <1>1, <1>2, <2>2, BelowC, Zenon
    <3>3. a[k - 1].yp <=> a[k - 1].f \in Guarding
      <4>1. k - 1 \in 1 .. Len(a)
        BY <1>1, <1>2
      <4> QED
        BY <1>1, <1>4, <2>2, <4>1 DEF Framed
    <3>4. HandlerAt(t, a, k - 2, h)
      BY <1>3, <3>1, <3>2, <3>3
    <3> HIDE DEF p, h
    <3> QED
      BY <2>2, <3>1, <3>2, <3>4
  <2> QED
    BY <2>1, <2>2
<1>7. /\ s1 \in StateType /\ s1.ci = s.ci /\ s1.status = "ok" /\ s1.nny = z.nny
      /\ s1.nC = z.nC /\ s1.errfunc = h
  <2>1. CASE called = 1 /\ c.yp
    <3>1. s1 = [s EXCEPT !.errfunc = c.old] /\ c.old \in Int /\ h = c.old
      BY <1>3, <1>5, <2>1 DEF FrameType
    <3> HIDE DEF s1
    <3> QED
      BY ONLY <1>3, <3>1 DEF StateType
  <2>2. CASE ~(called = 1 /\ c.yp)
    <3>1. s1 = s /\ h = z.errfunc
      BY <2>2
    <3> QED
      BY <1>3, <3>1, Zenon
  <2> QED
    BY <2>1, <2>2
<1> HIDE DEF s1, h
<1>8. /\ r \in StateType /\ r.ci = SubSeq(a, 1, p) /\ r.status = "ok" /\ r.nny = z.nny
      /\ r.nC = z.nC - 1 /\ r.errfunc = h
  <2> DEFINE s2 == [s1 EXCEPT !.nC = @ - 1]
  <2>1. z.nC - 1 \in Int
    BY <1>1
  <2>2. /\ s2 \in StateType /\ s2.ci = s.ci /\ s2.status = "ok" /\ s2.nny = z.nny
        /\ s2.nC = z.nC - 1 /\ s2.errfunc = h
    BY ONLY <1>7, <2>1 DEF StateType
  <2> HIDE DEF s2
  <2>3. SubSeq(s2.ci, 1, Len(s2.ci) - called) = SubSeq(a, 1, p)
    <3>1. SubSeq(SubSeq(a, 1, k - 1), 1, p) = SubSeq(a, 1, p)
      <4>1. k - 1 \in 0 .. Len(a) /\ p \in 0 .. k - 1
        BY <1>1, <1>2, <1>6
      <4> HIDE DEF p
      <4> QED
        BY <1>1, <4>1, PrefixTwice
    <3>2. s2.ci = SubSeq(a, 1, k - 1) /\ Len(s2.ci) - called = p
      BY <1>3, <2>2, Zenon
    <3> HIDE DEF p
    <3> QED
      BY <3>1, <3>2, Zenon
  <2>4. SubSeq(a, 1, p) \in Seq(FrameType)
    <3> HIDE DEF p
    <3> QED
      BY <1>1, <1>6
  <2>5. r = [s2 EXCEPT !.ci = SubSeq(a, 1, p)]
    BY <2>3, Zenon DEF Popped, s2
  <2> HIDE DEF r, p
  <2> QED
    BY ONLY <2>2, <2>4, <2>5, Zenon DEF StateType
<1> HIDE DEF r
<1>9. LeavesEntry(m, q, v, t, p, r)
  <2>1. r.nC < HandlingCCalls
    <3>1. HandlingCCalls \in Int
      BY ConstantsAssumption
    <3> QED
      BY <1>1, <1>8, <3>1
  <2> HIDE DEF p
  <2> QED
    BY <1>1, <1>2, <1>6, <1>8, <2>1 DEF LeavesEntry, a, k, n, z
<1> HIDE DEF p
<1>10. \E x : LeavesEntry(m, q, v, t, x, r)
  BY <1>9
<1> QED
  BY <1>10 DEF r, s1, called, c, s

\* One that they may not cross.
LEMMA ReturnsNoYield ==
  ASSUME NEW m, NEW q, NEW v, NEW t, Ends(m, q, v, t), m.cs[Len(m.cs)].a = "noyield"
  PROVE  LET s == Ended(m, t)
         IN \E p : LeavesEntry(m, q, v, t, p, Popped([s EXCEPT !.nC = @ - 1, !.nny = @ - 1], 1))
<1> DEFINE z == m.th[t]
           a == z.ci
           k == Len(z.ci)
           n == Len(m.cs)
           s == Ended(m, t)
           p == k - 2
           s2 == [s EXCEPT !.nC = @ - 1, !.nny = @ - 1]
           r == Popped(s2, 1)
<1>1. /\ v \in Positions /\ z \in StateType /\ a \in Seq(FrameType) /\ k \in Nat \ {0}
      /\ z.nny = v[n] /\ z.nC \in Int /\ z.nC < HandlingCCalls /\ Framed(t, a) /\ k = Len(a)
      /\ HandlerAt(t, a, k - 1, z.errfunc)
  BY EndsFacts
<1>2. /\ n > 1 /\ m.cs[n - 1].t = t /\ k > 1 /\ k - 1 \in 1 .. k /\ v[n] = v[n - 1] + 1
      /\ Made(t, a, m.cs[n], n, k)
  BY EndsAbove
<1>3. /\ s \in StateType /\ s.ci = SubSeq(a, 1, k - 1) /\ Len(s.ci) = k - 1
      /\ s.status = "ok" /\ s.nny = z.nny /\ s.nC = z.nC /\ s.errfunc = z.errfunc
  BY EndedFacts
<1>4. a[k - 1].f \notin Code /\ a[k - 1].f \notin Guarding
  BY <1>2, Zenon DEF Made, Code, Guarding
<1> HIDE DEF a, k, n, z, s
<1>5. p \in 1 .. k /\ a[p].f \in Code /\ HandlerAt(t, a, p, z.errfunc)
  BY <1>1, <1>2, <1>4, BelowC, Zenon
<1>6. n - 1 \in Nat /\ v[n - 1] \in Int /\ z.nny \in Int /\ z.nny - 1 = v[n - 1]
  <2>1. n \in Nat
    BY DEF n, Ends, InCode, Runnable, Machine
  <2>2. n - 1 \in Nat /\ n \in Nat
    BY <1>2, <2>1
  <2>3. v[n - 1] \in Nat
    BY <1>1, <2>2, Zenon DEF Positions
  <2>4. z.nny = v[n - 1] + 1
    BY <1>1, <1>2
  <2> QED
    BY ONLY <2>2, <2>3, <2>4
<1>7. /\ r \in StateType /\ r.ci = SubSeq(a, 1, p) /\ r.status = "ok" /\ r.nny = z.nny - 1
      /\ r.nC = z.nC - 1 /\ r.errfunc = z.errfunc
  <2>1. z.nC - 1 \in Int /\ z.nny - 1 \in Int
    BY <1>1, <1>6
  <2>2. /\ s2 \in StateType /\ s2.ci = s.ci /\ s2.status = "ok" /\ s2.nny = z.nny - 1
        /\ s2.nC = z.nC - 1 /\ s2.errfunc = z.errfunc
    BY ONLY <1>3, <2>1, Zenon DEF StateType
  <2> HIDE DEF s2
  <2>3. SubSeq(s2.ci, 1, Len(s2.ci) - 1) = SubSeq(a, 1, p)
    <3>1. SubSeq(SubSeq(a, 1, k - 1), 1, p) = SubSeq(a, 1, p)
      <4>1. k - 1 \in 0 .. Len(a) /\ p \in 0 .. k - 1
        BY <1>1, <1>2, <1>5
      <4> HIDE DEF p
      <4> QED
        BY <1>1, <4>1, PrefixTwice
    <3>2. s2.ci = SubSeq(a, 1, k - 1) /\ Len(s2.ci) - 1 = p
      BY <1>1, <1>3, <2>2
    <3> HIDE DEF p
    <3> QED
      BY <3>1, <3>2, Zenon
  <2>4. SubSeq(a, 1, p) \in Seq(FrameType)
    <3> HIDE DEF p
    <3> QED
      BY <1>1, <1>5
  <2>5. r = [s2 EXCEPT !.ci = SubSeq(a, 1, p)]
    BY <2>3, Zenon DEF Popped
  <2> HIDE DEF r, p
  <2> QED
    BY ONLY <2>2, <2>4, <2>5, Zenon DEF StateType
<1> HIDE DEF r
<1>8. LeavesEntry(m, q, v, t, p, r)
  <2>1. r.nC < HandlingCCalls
    <3>1. HandlingCCalls \in Int
      BY ConstantsAssumption
    <3> QED
      BY <1>1, <1>7, <3>1
  <2>2. p = k - 2
    OBVIOUS
  <2> HIDE DEF p
  <2> QED
    BY <1>2, <1>4, <1>5, <1>6, <1>7, <2>1, <2>2 DEF LeavesEntry, a, k, n, z
<1> HIDE DEF p
<1>9. \E x : LeavesEntry(m, q, v, t, x, r)
  BY <1>8
<1> QED
  BY <1>9 DEF r, s

\* A protected call returns: the function of pcall, or the host's.
LEMMA ReturnsPcall ==
  ASSUME NEW m, NEW q, NEW v, NEW t, Ends(m, q, v, t), m.cs[Len(m.cs)].a = "pcall", Len(m.cs) > 1
  PROVE  LET s == Ended(m, t)
             e == m.cs[Len(m.cs)]
             called == Called(s)
         IN \E p : LeavesEntry(m, q, v, t, p, Popped([s EXCEPT !.nC = e.nC, !.nny = @ - 1,
                                                               !.errfunc = e.errfunc], called))
<1> DEFINE z == m.th[t]
           a == z.ci
           k == Len(z.ci)
           n == Len(m.cs)
           e == m.cs[Len(m.cs)]
           s == Ended(m, t)
           called == Called(s)
           p == k - 2
           s2 == [s EXCEPT !.nC = e.nC, !.nny = @ - 1, !.errfunc = e.errfunc]
           r == Popped(s2, called)
<1>1. /\ m \in Machine /\ q \in Positions /\ v \in Positions /\ Base(m, q, v)
      /\ z \in StateType /\ a \in Seq(FrameType) /\ k \in Nat \ {0} /\ n \in Nat
      /\ z.nny = v[n] /\ Framed(t, a) /\ k = Len(a) /\ n \in Own(m.cs, t) /\ q[n] = k
      /\ e \in EntryType /\ Manned(m.cs, a, q, t) /\ Level(m.cs, v)
  BY EndsFacts
<1>2. /\ n - 1 \in 1 .. Len(m.cs) /\ m.cs[n - 1].t = t /\ e.nC < HandlingCCalls
      /\ p \in 1 .. k /\ a[p].f \in Code /\ HandlerAt(t, a, p, e.errfunc)
  <2>1. /\ m \in Machine /\ q \in Positions /\ v \in Positions /\ Base(m, q, v)
        /\ n \in Own(m.cs, t) /\ n # 1 /\ m.cs[n].a = "pcall" /\ q[n] = k
    BY <1>1
  <2> HIDE DEF n, k, a, e
  <2>2. LET y == m.th[t].ci
            x == q[n] - 2
        IN /\ n - 1 \in 1 .. Len(m.cs) /\ m.cs[n - 1].t = t
           /\ m.cs[n].nC < HandlingCCalls
           /\ x \in 1 .. Len(y) /\ y[x].f \in Code
           /\ HandlerAt(t, y, x, m.cs[n].errfunc)
    BY ONLY <2>1, PcallEntry
  <2> QED
    BY <2>1, <2>2 DEF n, k, a, e
<1>3. /\ k > 2 /\ a[k - 1].f \in Guarding /\ v[n] = v[n - 1] + 1
  <2>1. Made(t, a, e, n, k)
    BY <1>1 DEF Manned, Linked, AllMade
  <2>2. n \in 1 .. Len(m.cs) /\ n > 1
    BY <1>1
  <2> HIDE DEF n, k, a
  <2>3. k > 2 /\ a[k - 1].f \in Guarding
    BY <2>1, <2>2 DEF Made, n
  <2>4. v[n] = v[n - 1] + 1
    BY <1>1, <2>2, Zenon DEF Level, n
  <2> QED
    BY <2>3, <2>4
<1>4. /\ s \in StateType /\ s.ci = SubSeq(a, 1, k - 1) /\ Len(s.ci) = k - 1
      /\ s.status = "ok" /\ s.nny = z.nny
      /\ called = IF a[k - 1].f \in Code THEN 0 ELSE 1
  BY <1>3, EndedFacts
<1>5. a[k - 1].f \notin Code /\ called = 1
  BY <1>3, <1>4, Zenon DEF Code, Guarding
<1> HIDE DEF a, k, n, z, s, e, called
<1>6. v[n - 1] \in Int /\ z.nny \in Int /\ z.nny - 1 = v[n - 1]
  <2>1. n - 1 \in Nat
    BY <1>2
  <2>2. v[n - 1] \in Nat
    BY <1>1, <2>1, Zenon DEF Positions
  <2>3. z.nny = v[n - 1] + 1
    BY <1>1, <1>3
  <2> QED
    BY ONLY <2>2, <2>3
<1>7. /\ r \in StateType /\ r.ci = SubSeq(a, 1, p) /\ r.status = "ok" /\ r.nny = z.nny - 1
      /\ r.nC = e.nC /\ r.errfunc = e.errfunc
  <2>1. e.nC \in Int /\ z.nny - 1 \in Int /\ e.errfunc \in Int
    BY <1>1, <1>6 DEF EntryType
  <2>2. /\ s2 \in StateType /\ s2.ci = s.ci /\ s2.status = "ok" /\ s2.nny = z.nny - 1
        /\ s2.nC = e.nC /\ s2.errfunc = e.errfunc
    BY ONLY <1>4, <2>1, Zenon DEF StateType
  <2> HIDE DEF s2
  <2>3. SubSeq(s2.ci, 1, Len(s2.ci) - called) = SubSeq(a, 1, p)
    <3>1. SubSeq(SubSeq(a, 1, k - 1), 1, p) = SubSeq(a, 1, p)
      <4>1. k - 1 \in 0 .. Len(a) /\ p \in 0 .. k - 1
        BY <1>1, <1>2
      <4> HIDE DEF p
      <4> QED
        BY <1>1, <4>1, PrefixTwice
    <3>2. s2.ci = SubSeq(a, 1, k - 1) /\ Len(s2.ci) - called = p
      BY <1>1, <1>4, <1>5, <2>2
    <3> HIDE DEF p
    <3> QED
      BY <3>1, <3>2, Zenon
  <2>4. SubSeq(a, 1, p) \in Seq(FrameType)
    <3> HIDE DEF p
    <3> QED
      BY <1>1, <1>2
  <2>5. r = [s2 EXCEPT !.ci = SubSeq(a, 1, p)]
    BY <2>3, Zenon DEF Popped
  <2> HIDE DEF r, p
  <2> QED
    BY ONLY <2>2, <2>4, <2>5, Zenon DEF StateType
<1> HIDE DEF r
<1>8. LeavesEntry(m, q, v, t, p, r)
  <2>1. p = k - 2 /\ n > 1 /\ m.cs[n].a # "handler"
    BY DEF n
  <2> HIDE DEF p
  <2> QED
    BY <1>2, <1>5, <1>6, <1>7, <2>1 DEF LeavesEntry, a, k, n, z
<1> HIDE DEF p
<1>9. \E x : LeavesEntry(m, q, v, t, x, r)
  BY <1>8
<1> QED
  BY <1>9 DEF r, s, e, called

\* The machine w, in which lua_pcall of the host has returned.
HostIsBack(m, t, w) ==
  /\ t = Main /\ Len(m.th[t].ci) = 1
  /\ w \in Machine /\ w.cs = << >> /\ w.lost = m.lost
  /\ w.th[t].ci = << >> /\ w.th[t].status = "ok" /\ \A u \in Threads \ {t} : w.th[u] = m.th[u]

\* lua_pcall of the host returns.
LEMMA ReturnsToHost ==
  ASSUME NEW m, NEW q, NEW v, NEW t, Ends(m, q, v, t), Len(m.cs) = 1
  PROVE  LET s == Ended(m, t)
             e == m.cs[Len(m.cs)]
             called == Called(s)
             w == [m EXCEPT !.th[t] = Popped([s EXCEPT !.nC = e.nC, !.nny = @ - 1,
                                                       !.errfunc = e.errfunc], called),
                            !.cs = SubSeq(@, 1, Len(@) - 1)]
         IN Good(w) /\ HostIsBack(m, t, w)
<1> DEFINE z == m.th[t]
           k == Len(z.ci)
           n == Len(m.cs)
           e == m.cs[Len(m.cs)]
           s == Ended(m, t)
           called == Called(s)
           s2 == [s EXCEPT !.nC = e.nC, !.nny = @ - 1, !.errfunc = e.errfunc]
           r == Popped(s2, called)
           b == SubSeq(m.cs, 1, n - 1)
           w == [m EXCEPT !.th[t] = r, !.cs = b]
<1>1. /\ m \in Machine /\ v \in Positions /\ Base(m, q, v) /\ t \in Threads /\ t \notin m.lost
      /\ z.nny = v[n] /\ n \in Own(m.cs, t) /\ q[n] = k /\ m.cs \in Seq(EntryType)
      /\ Manned(m.cs, z.ci, q, t) /\ Level(m.cs, v) /\ Stacked(m.cs) /\ m.cs[n].t = t
  BY EndsFacts
<1>2. e = HostEntry /\ t = Main
  <2>1. m.cs # << >> /\ n = 1
    OBVIOUS
  <2> QED
    BY <1>1, <2>1 DEF Stacked, HostEntry
<1>3. k = 1 /\ z.nny = 2
  <2>1. Made(t, z.ci, m.cs[n], n, k)
    BY <1>1 DEF Manned, Linked, AllMade
  <2>2. n = 1 /\ 1 \in 1 .. Len(m.cs)
    OBVIOUS
  <2> HIDE DEF n, k
  <2>3. k = 1
    BY <2>1, <2>2 DEF Made
  <2>4. v[1] = 2
    BY <1>1, <2>2 DEF Level
  <2> QED
    BY <1>1, <2>2, <2>3, <2>4
<1>4. /\ s \in StateType /\ s.status = "ok" /\ s.nny = z.nny /\ s.ci = << >> /\ called = 0
  BY <1>3, EndedFacts
<1>5. b = << >>
  BY <1>1
<1> HIDE DEF s, e, called, b, k, z
<1>6. /\ r \in StateType /\ r.ci = << >> /\ r.status = "ok" /\ r.nny = 1
      /\ r.nC = 0 /\ r.errfunc = 0
  <2>1. e.nC = 0 /\ e.errfunc = 0 /\ z.nny - 1 = 1
    BY <1>2, <1>3 DEF HostEntry
  <2>2. e.nC \in Int /\ e.errfunc \in Int /\ z.nny - 1 \in Int /\ s2 = [s EXCEPT !.nC = e.nC, !.nny = z.nny - 1, !.errfunc = e.errfunc]
    BY <1>4, <2>1
  <2> HIDE DEF s2
  <2>3. /\ s2 \in StateType /\ s2.ci = << >> /\ s2.status = "ok" /\ s2.nny = z.nny - 1
        /\ s2.nC = e.nC /\ s2.errfunc = e.errfunc
    BY ONLY <1>4, <2>2, Zenon DEF StateType
  <2>4. r = [s2 EXCEPT !.ci = SubSeq(s2.ci, 1, Len(s2.ci) - called)]
    BY DEF Popped
  <2>5. SubSeq(s2.ci, 1, Len(s2.ci) - called) = << >>
    BY <1>4, <2>3
  <2>6. r = s2
    BY ONLY <2>3, <2>4, <2>5, Zenon DEF StateType
  <2> QED
    BY <2>1, <2>3, <2>6
<1> HIDE DEF r
<1>7. /\ w \in Machine /\ w.th[t] = r /\ w.cs = b /\ w.lost = m.lost
      /\ \A u \in Threads \ {t} : w.th[u] = m.th[u]
  <2>1. m \in Machine /\ t \in Threads /\ w = [m EXCEPT !.th[t] = r, !.cs = b] /\ b \in Seq(EntryType)
    BY <1>1, <1>5
  <2> HIDE DEF w
  <2> QED
    BY ONLY <1>6, <2>1, Zenon DEF Machine
<1> HIDE DEF w
<1>8. AtRest(Main, r)
  BY <1>6 DEF AtRest
<1>9. ASSUME NEW u \in Threads \ {Main} PROVE Off(w, u)
  <2>1. Own(m.cs, u) = {}
    BY <1>1, <1>2 DEF Own
  <2>2. Off(m, u)
    BY <1>1, <2>1 DEF Base, Fits
  <2> QED
    BY <1>2, <1>7, <2>2 DEF Off
<1>10. Good(w)
  BY <1>1, <1>2, <1>5, <1>7, <1>8, <1>9, Emptied
<1>11. HostIsBack(m, t, w)
  <2>1. Len(m.th[t].ci) = 1
    BY <1>3 DEF k, z
  <2> QED
    BY <1>2, <1>5, <1>6, <1>7, <2>1 DEF HostIsBack
<1> QED
  BY <1>10, <1>11 DEF w, b, r, s, e, called

\* The last luaV_execute of lua_resume returns: it was called by a C function that
\* can go on, or by Lua code, if by any.
LEMMA EndedGoesOn ==
  ASSUME NEW m, NEW q, NEW v, NEW t, Ends(m, q, v, t), t # Main,
         Own(m.cs, t) = {Len(m.cs)}, m.cs[Len(m.cs)].a = "resume", Len(m.th[t].ci) > 1
  PROVE  \E i \in Nat : GoesOn(t, Ended(m, t), i)
<1> DEFINE z == m.th[t]
           a == z.ci
           k == Len(z.ci)
           s == Ended(m, t)
           b == SubSeq(a, 1, k - 1)
<1>1. /\ z \in StateType /\ a \in Seq(FrameType) /\ k \in Nat \ {0} /\ k = Len(a)
      /\ Manned(m.cs, a, q, t) /\ Framed(t, a) /\ HandlerAt(t, a, k - 1, z.errfunc)
  BY EndsFacts
<1>2. s.ci = b /\ s.errfunc = z.errfunc
  BY EndedFacts
<1>3. k > 1
  OBVIOUS
<1> HIDE DEF k, a, z, s
<1>4. k - 1 \in 1 .. k /\ k - 1 \in 0 .. k /\ k - 1 \in Nat \ {0}
  BY <1>1, <1>3
<1>5. b \in Seq(FrameType) /\ Len(b) = k - 1 /\ \A i \in 1 .. k - 1 : b[i] = a[i]
  BY <1>1, <1>4, PrefixElements
<1> HIDE DEF b
<1>6. ASSUME NEW i \in 1 .. k - 1 PROVE a[i].f = "lua" \/ a[i].k
  <2>1. i \in 1 .. Len(a) /\ i # Len(a)
    BY <1>1
  <2>2. Leaves(a, i) \/ \E j \in Own(m.cs, t) : Covers(m.cs[j], q[j], i)
    BY <1>1, <2>1 DEF Manned, Covered
  <2>3. \A j \in Own(m.cs, t) : ~Covers(m.cs[j], q[j], i)
    BY DEF Covers, Blocking
  <2> QED
    BY <2>1, <2>2, <2>3 DEF Leaves
<1>7. CASE a[k - 1].f = "lua"
  <2> DEFINE i == k - 1
             h == IF i < Len(s.ci) /\ s.ci[Len(s.ci)].yp THEN s.ci[Len(s.ci)].old ELSE s.errfunc
  <2>1. i \in 1 .. Len(s.ci) /\ i >= Len(s.ci) - 1 /\ ~(i < Len(s.ci)) /\ i \in Nat
    BY <1>2, <1>4, <1>5
  <2>2. s.ci[i].f = "lua" /\ \A j \in 1 .. i : s.ci[j].f = "lua" \/ s.ci[j].k
    BY <1>2, <1>4, <1>5, <1>6, <1>7
  <2>3. Framed(t, SubSeq(s.ci, 1, i))
    <3>1. SubSeq(b, 1, k - 1) = b
      BY <1>5
    <3>2. Framed(t, b)
      <4>1. k - 1 \in 1 .. Len(a)
        BY <1>1, <1>4
      <4> QED
        BY <1>1, <4>1, FramedPrefix DEF b
    <3> QED
      BY <1>2, <3>1, <3>2, Zenon
  <2>4. HandlerAt(t, s.ci, i, h)
    <3>1. k - 1 \in Int /\ \A j \in 1 .. k - 1 : s.ci[j].f = a[j].f
      BY <1>2, <1>4, <1>5
    <3>2. h = z.errfunc
      BY <1>2, <2>1
    <3> HIDE DEF h
    <3> QED
      BY <1>1, <3>1, <3>2, HandlerSame
  <2> HIDE DEF i
  <2>5. GoesOn(t, s, i)
    BY ONLY <2>1, <2>2, <2>3, <2>4 DEF GoesOn
  <2> QED
    BY <2>1, <2>5 DEF s
<1>8. CASE a[k - 1].f # "lua"
  <2> DEFINE i == k - 2
  <2>1. a[k - 1].k /\ a[k - 1] \in FrameType
    BY <1>1, <1>4, <1>6, <1>8
  <2>2. a[k - 1].f \in Guarding \cup {"callk"} /\ (a[k - 1].yp <=> a[k - 1].f \in Guarding)
    <3>1. k - 1 \in 1 .. Len(a)
      BY <1>1, <1>4
    <3> QED
      BY ONLY <1>1, <2>1, <3>1 DEF Framed
  <2>3. a[k - 1].f \notin Code
    BY <2>2 DEF Code, Guarding
  <2>4. /\ i \in 1 .. k /\ a[i].f = "lua"
        /\ a[k - 1].f \notin Guarding => HandlerAt(t, a, i, z.errfunc)
        /\ a[k - 1].yp => HandlerAt(t, a, i, a[k - 1].old)
    <3>1. k \in Nat
      BY <1>1
    <3> QED
      BY <1>1, <1>3, <2>1, <2>3, <3>1, BelowC, Zenon
  <2>5. /\ i \in 1 .. k - 1 /\ i < k - 1 /\ i >= (k - 1) - 1 /\ i \in Nat /\ i \in Int
        /\ i \in 1 .. Len(a) /\ i \in 0 .. k - 1 /\ k - 1 \in 0 .. Len(a)
    BY <1>1, <1>3, <2>4
  <2> HIDE DEF i
  <2>6. /\ i \in 1 .. Len(s.ci) /\ i >= Len(s.ci) - 1 /\ i < Len(s.ci)
        /\ s.ci[Len(s.ci)] = a[k - 1]
    BY <1>2, <1>4, <1>5, <2>5
  <2>7. s.ci[i].f = "lua" /\ \A j \in 1 .. i : s.ci[j].f = "lua" \/ s.ci[j].k
    BY <1>2, <1>5, <1>6, <2>4, <2>5
  <2>8. Framed(t, SubSeq(s.ci, 1, i))
    <3>1. SubSeq(s.ci, 1, i) = SubSeq(a, 1, i)
      BY <1>1, <1>2, <2>5, PrefixTwice DEF b
    <3> QED
      BY <1>1, <2>5, <3>1, FramedPrefix, Zenon
  <2>9. HandlerAt(t, s.ci, i, IF i < Len(s.ci) /\ s.ci[Len(s.ci)].yp THEN s.ci[Len(s.ci)].old
                             ELSE s.errfunc)
    <3> DEFINE h == IF i < Len(s.ci) /\ s.ci[Len(s.ci)].yp THEN s.ci[Len(s.ci)].old
                    ELSE s.errfunc
    <3>1. HandlerAt(t, a, i, h)
      BY <1>2, <2>2, <2>4, <2>6
    <3>2. \A j \in 1 .. i : s.ci[j].f = a[j].f
      BY <1>2, <1>5, <2>5
    <3> HIDE DEF h
    <3>3. HandlerAt(t, s.ci, i, h)
      BY <2>5, <3>1, <3>2, HandlerSame
    <3> QED
      BY <3>3 DEF h
  <2>10. GoesOn(t, s, i)
    <3>1. s.ci[Len(s.ci)].f # "lua"
      BY <1>8, <2>6
    <3> QED
      BY ONLY <3>1, <2>6, <2>7, <2>8, <2>9 DEF GoesOn
  <2> QED
    BY <2>5, <2>10 DEF s
<1> QED
  BY <1>7, <1>8 DEF s

\* The function of a coroutine returns to lua_resume (unroll), in w.
UnrollsEnded(m, q, v, t, w) ==
  /\ w = [m EXCEPT !.th[t] = Ended(m, t)] /\ Resumes(w, q, v, t)
  /\ t # Main /\ Own(m.cs, t) = {Len(m.cs)} /\ w.cs = m.cs /\ w.th[t] = Ended(m, t)
  /\ \A u \in Threads \ {t} : w.th[u] = m.th[u]
\* That is how Returned makes it.
LEMMA ReturnsResume ==
  ASSUME NEW m, NEW q, NEW v, NEW t, Ends(m, q, v, t), m.cs[Len(m.cs)].a = "resume"
  PROVE  \E w : UnrollsEnded(m, q, v, t, w)
<1> DEFINE n == Len(m.cs)
           s == Ended(m, t)
           w == [m EXCEPT !.th[t] = s]
<1>1. /\ m \in Machine /\ q \in Positions /\ v \in Positions /\ Base(m, q, v)
      /\ t \in Threads /\ t \notin m.lost /\ m.cs \in Seq(EntryType) /\ n \in Nat \ {0}
      /\ n \in Own(m.cs, t) /\ m.cs[n].t = t /\ Stacked(m.cs) /\ Level(m.cs, v)
      /\ m.th[t].nny = v[n] /\ m.th[t].nC < HandlingCCalls /\ Len(m.th[t].ci) \in Nat \ {0}
  BY EndsFacts
<1>2. /\ s \in StateType /\ s.status = "ok" /\ s.nny = m.th[t].nny /\ s.nC = m.th[t].nC
      /\ Len(m.th[t].ci) = 1 => s.ci = << >>
  BY EndedFacts
<1>3. t # Main /\ Own(SubSeq(m.cs, 1, n - 1), t) = {} /\ m.cs[n].a = "resume"
  BY <1>1, ResumeAt
<1> HIDE DEF n, s
<1>4. \A j \in 1 .. n : m.cs[j].t = t => j = n
  <2>1. ASSUME NEW j \in 1 .. n, m.cs[j].t = t, j # n PROVE FALSE
    <3>1. j \in 1 .. n - 1 /\ n - 1 \in 0 .. Len(m.cs)
      BY <1>1, <2>1 DEF n
    <3>2. Len(SubSeq(m.cs, 1, n - 1)) = n - 1 /\ SubSeq(m.cs, 1, n - 1)[j] = m.cs[j]
      BY <1>1, <3>1, PrefixElements
    <3> QED
      BY <1>3, <2>1, <3>1, <3>2 DEF Own
  <2> QED
    BY <2>1
<1>5. Own(m.cs, t) = {n}
  BY <1>1, <1>4 DEF Own, n
<1>6. v[n] = 0
  <2>1. Free(m.cs, n)
    BY <1>1, <1>3, <1>4 DEF Free, Blocking
  <2>2. n \in 1 .. Len(m.cs)
    BY <1>1 DEF n
  <2> QED
    BY <1>1, <2>1, <2>2 DEF Level
<1>7. /\ w \in Machine /\ w.th[t] = s /\ w.cs = m.cs /\ w.lost = m.lost
      /\ \A u \in Threads \ {t} : w.th[u] = m.th[u]
  BY <1>1, <1>2, ThreadSet
<1> HIDE DEF w
<1>8. ASSUME NEW u \in Threads \ {t} PROVE Fits(w, q, v, u)
  <2>1. Fits(m, q, v, u)
    BY <1>1 DEF Base
  <2> QED
    BY <1>7, <2>1 DEF Fits, Busy, Off
<1>9. ASSUME s.ci # << >> PROVE \E i \in Nat : GoesOn(t, s, i)
  <2>2. Len(m.th[t].ci) > 1
    <3> DEFINE k == Len(m.th[t].ci)
    <3>1. k \in Nat \ {0} /\ k # 1
      BY <1>1, <1>2, <1>9
    <3> HIDE DEF k
    <3>2. k > 1
      BY ONLY <3>1
    <3> QED
      BY <3>2 DEF k
  <2> QED
    BY <1>3, <1>5, <2>2, EndedGoesOn DEF n, s
<1>10. Resumes(w, q, v, t)
  <2>1. w.cs # << >> /\ t = Going(w) /\ w.cs[Len(w.cs)].a = "resume"
    BY <1>1, <1>3, <1>7 DEF Going, n
  <2> QED
    BY <1>1, <1>2, <1>6, <1>7, <1>8, <1>9, <2>1 DEF Resumes
<1>11. UnrollsEnded(m, q, v, t, w)
  BY <1>3, <1>5, <1>7, <1>10 DEF UnrollsEnded, w, s, n
<1> QED
  BY <1>11

\* A function that runs in the luaV_execute of its caller returns.
LEMMA ReturnsToLua ==
  ASSUME NEW m, NEW q, NEW v, NEW t, InCode(m, q, v, t), ~m.th[t].ci[Len(m.th[t].ci)].fresh
  PROVE  Good([m EXCEPT !.th[t] = Popped(m.th[t], 1)])
<1> DEFINE s == m.th[t]
           k == Len(m.th[t].ci)
           a == SubSeq(s.ci, 1, k - 1)
           r == Popped(s, 1)
           w == [m EXCEPT !.th[t] = r]
<1>1. /\ m \in Machine /\ q \in Positions /\ v \in Positions /\ Base(m, q, v)
      /\ t \in Threads /\ t \notin m.lost /\ s \in StateType /\ s.status = "ok"
      /\ s.ci \in Seq(FrameType) /\ k \in Nat \ {0} /\ m.cs \in Seq(EntryType)
      /\ m.cs # << >> /\ t = Going(m) /\ q[Len(m.cs)] <= k
      /\ s.ci[k].f \notin Guarding /\ ~s.ci[k].fresh /\ s.nC < HandlingCCalls
  <2>1. Runnable(m, q, v, t) /\ s.ci[k].f \in Code /\ q[Len(m.cs)] <= k /\ s.nC < HandlingCCalls
    BY DEF InCode
  <2>2. /\ m \in Machine /\ q \in Positions /\ v \in Positions /\ Base(m, q, v)
        /\ t \in Threads /\ t \notin m.lost /\ s \in StateType /\ Sound(t, s)
        /\ s.ci \in Seq(FrameType) /\ k \in Nat \ {0} /\ m.cs \in Seq(EntryType)
    BY <2>1, RunnableFacts
  <2>3. m.cs # << >> /\ t = Going(m)
    BY <2>1 DEF Runnable
  <2>4. s.status = "ok"
    BY <2>2 DEF Sound
  <2> HIDE DEF s, k
  <2>5. s.ci[k].f \notin Guarding
    BY <2>1 DEF Code, Guarding
  <2>6. ~s.ci[k].fresh
    BY DEF s, k
  <2> QED
    BY ONLY <2>1, <2>2, <2>3, <2>4, <2>5, <2>6
<1>2. /\ r \in StateType /\ r.ci = a /\ r.status = "ok" /\ r.nny = s.nny /\ r.errfunc = s.errfunc
      /\ r.nC = s.nC
  <2>1. a \in Seq(FrameType)
    BY <1>1
  <2>2. r = [s EXCEPT !.ci = a]
    BY DEF Popped
  <2> HIDE DEF a, s, r
  <2> QED
    BY ONLY <1>1, <2>1, <2>2, Zenon DEF StateType
<1> HIDE DEF r
<1>3. /\ w \in Machine /\ w.th[t] = r /\ w.cs = m.cs /\ w.lost = m.lost
      /\ \A u \in Threads \ {t} : w.th[u] = m.th[u]
  <2>1. m \in Machine /\ t \in Threads /\ w = [m EXCEPT !.th[t] = r]
    BY <1>1
  <2> HIDE DEF w
  <2> QED
    BY ONLY <1>2, <2>1, Zenon DEF Machine
<1> HIDE DEF w
<1>4. Alike(m, w, t)
  BY <1>3 DEF Alike
<1>5. Pops(m, q, v, w, t)
  BY <1>1, <1>2, <1>3, <1>4 DEF Pops
<1>6. /\ Base(w, q, v) /\ k - 1 \in Nat \ {0} /\ Len(w.th[t].ci) = k - 1
      /\ q[Len(m.cs)] <= k - 1 /\ w.th[t].ci[k - 1].f \in Code
  BY <1>5, PopTop
<1>7. Goes(w, q)
  <2>1. Going(w) = t
    BY <1>1, <1>3, Zenon DEF Going
  <2>2. w.th[t].nC < HandlingCCalls
    BY <1>1, <1>2, <1>3
  <2>3. q[Len(w.cs)] <= Len(w.th[t].ci) /\ w.th[t].ci[Len(w.th[t].ci)].f \in Code
    BY ONLY <1>3, <1>6, Zenon
  <2> QED
    BY <2>1, <2>2, <2>3 DEF Goes
<1>8. Good(w)
  BY <1>1, <1>3, <1>6, <1>7 DEF Good
<1> QED
  BY <1>8 DEF w, r

\* What OP_RETURN ends, in y.
ReturnsTo(m, q, v, t, y) ==
  \/ ~m.th[t].ci[Len(m.th[t].ci)].fresh /\ y = [m EXCEPT !.th[t] = Ended(m, t)]
  \/ \E p, r : /\ LeavesEntry(m, q, v, t, p, r)
              /\ y = [m EXCEPT !.th[t] = r, !.cs = SubSeq(@, 1, Len(@) - 1)]
  \/ y = Throw(m, t)
  \/ Good(y) /\ HostIsBack(m, t, y)
  \/ /\ Ends(m, q, v, t) /\ m.cs[Len(m.cs)].a = "resume"
     /\ \E w : UnrollsEnded(m, q, v, t, w) /\ y = Unroll(w, t)

\* It is one of these.
LEMMA ReturnedIs ==
  ASSUME NEW m, NEW q, NEW v, NEW t, InCode(m, q, v, t)
  PROVE  ReturnsTo(m, q, v, t, Returned(m, t))
<1> DEFINE n == Len(m.cs)
           e == m.cs[n]
           s == Ended(m, t)
           c == Last(s.ci)
           called == Called(s)
           b == SubSeq(m.cs, 1, n - 1)
           m1 == [m EXCEPT !.th[t] = s, !.cs = b]
           R1 == Popped([IF called = 1 /\ c.yp THEN [s EXCEPT !.errfunc = c.old] ELSE s
                         EXCEPT !.nC = @ - 1], called)
           R2 == Popped([s EXCEPT !.nC = @ - 1, !.nny = @ - 1], 1)
           R3 == Popped([s EXCEPT !.nC = e.nC, !.nny = @ - 1, !.errfunc = e.errfunc], called)
           fresh == m.th[t].ci[Len(m.th[t].ci)].fresh
<1>1. /\ m \in Machine /\ t \in Threads /\ m.cs \in Seq(EntryType) /\ n \in Nat \ {0}
      /\ n \in Own(m.cs, t) /\ e \in EntryType /\ q \in Positions /\ v \in Positions /\ Base(m, q, v)
  <2>1. Runnable(m, q, v, t)
    BY DEF InCode
  <2>2. /\ m \in Machine /\ t \in Threads /\ m.cs \in Seq(EntryType) /\ n \in Nat \ {0}
        /\ n \in Own(m.cs, t) /\ q \in Positions /\ v \in Positions /\ Base(m, q, v)
    BY <2>1, RunnableFacts
  <2>3. n \in 1 .. Len(m.cs)
    BY <2>2
  <2>4. e \in EntryType
    BY <2>2, <2>3
  <2> QED
    BY <2>2, <2>4
<1>2. Last(m.cs) = e /\ Front(m.cs) = b /\ Last(m.th[t].ci).fresh = fresh
  BY DEF Last, Front
<1>3. /\ ~fresh => Returned(m, t) = [m EXCEPT !.th[t] = s]
      /\ fresh /\ e.a = "call" => Returned(m, t) = [m1 EXCEPT !.th[t] = R1]
      /\ fresh /\ e.a = "noyield" => Returned(m, t) = [m1 EXCEPT !.th[t] = R2]
      /\ fresh /\ e.a = "handler" => Returned(m, t) = Throw(m, t)
      /\ fresh /\ e.a = "pcall" => Returned(m, t) = [m1 EXCEPT !.th[t] = R3]
      /\ fresh /\ e.a = "resume" => Returned(m, t) = Unroll([m EXCEPT !.th[t] = s], t)
  <2>1. [m EXCEPT !.th[t] = s, !.cs = Front(@)] = m1
    <3> HIDE DEF s, b
    <3> QED
      BY <1>1, <1>2
  <2> HIDE DEF n, e, b, fresh, m1
  <2>2. ASSUME ~fresh PROVE Returned(m, t) = [m EXCEPT !.th[t] = s]
    BY <1>2, <2>2 DEF Returned, Ended
  <2>3. ASSUME fresh, e.a = "call" PROVE Returned(m, t) = [m1 EXCEPT !.th[t] = R1]
    BY <1>2, <2>1, <2>3, Zenon DEF Returned, Ended, Called
  <2>4. ASSUME fresh, e.a = "noyield" PROVE Returned(m, t) = [m1 EXCEPT !.th[t] = R2]
    BY <1>2, <2>1, <2>4, Zenon DEF Returned, Ended, Called
  <2>5. ASSUME fresh, e.a = "handler" PROVE Returned(m, t) = Throw(m, t)
    BY <1>2, <2>1, <2>5 DEF Returned, Ended, Called
  <2>6. ASSUME fresh, e.a = "pcall" PROVE Returned(m, t) = [m1 EXCEPT !.th[t] = R3]
    BY <1>2, <2>1, <2>6, Zenon DEF Returned, Ended, Called
  <2>7. ASSUME fresh, e.a = "resume" PROVE Returned(m, t) = Unroll([m EXCEPT !.th[t] = s], t)
    BY <1>2, <2>1, <2>7 DEF Returned, Ended, Called
  <2> QED
    BY <2>2, <2>3, <2>4, <2>5, <2>6, <2>7
<1>4. ASSUME NEW x PROVE [m1 EXCEPT !.th[t] = x] = [m EXCEPT !.th[t] = x, !.cs = b]
  <2>1. m.th \in [Threads -> StateType] /\ m = [th |-> m.th, cs |-> m.cs, lost |-> m.lost]
    BY <1>1 DEF Machine
  <2> HIDE DEF b, s
  <2> QED
    BY ONLY <1>1, <2>1, Zenon DEF Machine
<1>5. e.a \in {"call", "noyield", "pcall", "handler", "resume"}
  BY <1>1, Zenon DEF EntryType
<1> HIDE DEF s, c, called, R1, R2, R3, m1, fresh
<1>6. CASE ~fresh
  <2>1. Returned(m, t) = [m EXCEPT !.th[t] = s]
    BY ONLY <1>3, <1>6
  <2> QED
    BY <1>6, <2>1, Zenon DEF ReturnsTo, s, fresh
<1>7. CASE fresh
  <2>1. Ends(m, q, v, t)
    BY <1>7 DEF Ends, fresh
  <2>2. ASSUME NEW x, \E p : LeavesEntry(m, q, v, t, p, x), Returned(m, t) = [m1 EXCEPT !.th[t] = x]
        PROVE  ReturnsTo(m, q, v, t, Returned(m, t))
    <3>1. Returned(m, t) = [m EXCEPT !.th[t] = x, !.cs = b]
      BY <1>4, <2>2, Zenon
    <3>2. Returned(m, t) = [m EXCEPT !.th[t] = x, !.cs = SubSeq(@, 1, Len(@) - 1)]
      BY <1>1, <3>1
    <3> QED
      BY <2>2, <3>2, Zenon DEF ReturnsTo
  <2>3. CASE e.a = "call"
    <3>1. \E p : LeavesEntry(m, q, v, t, p, R1)
      BY <2>1, <2>3, ReturnsCall, Zenon DEF R1, s, c, called
    <3>2. Returned(m, t) = [m1 EXCEPT !.th[t] = R1]
      BY ONLY <1>3, <1>7, <2>3
    <3> QED
      BY <2>2, <3>1, <3>2, Zenon
  <2>4. CASE e.a = "noyield"
    <3>1. \E p : LeavesEntry(m, q, v, t, p, R2)
      BY <2>1, <2>4, ReturnsNoYield, Zenon DEF R2, s
    <3>2. Returned(m, t) = [m1 EXCEPT !.th[t] = R2]
      BY ONLY <1>3, <1>7, <2>4
    <3> QED
      BY <2>2, <3>1, <3>2, Zenon
  <2>5. CASE e.a = "pcall"
    <3>1. Returned(m, t) = [m1 EXCEPT !.th[t] = R3]
      BY ONLY <1>3, <1>7, <2>5
    <3>2. CASE n = 1
      <4>1. Returned(m, t) = [m EXCEPT !.th[t] = R3, !.cs = b]
        BY <1>4, <3>1, Zenon
      <4>2. /\ Good([m EXCEPT !.th[t] = R3, !.cs = b])
            /\ HostIsBack(m, t, [m EXCEPT !.th[t] = R3, !.cs = b])
        BY <2>1, <3>2, ReturnsToHost, Zenon DEF R3, s, called
      <4> QED
        BY <4>1, <4>2, Zenon DEF ReturnsTo
    <3>3. CASE n # 1
      <4>1. n > 1
        <5>1. n \in Nat \ {0}
          BY <1>1
        <5> HIDE DEF n
        <5> QED
          BY ONLY <3>3, <5>1
      <4>2. \E p : LeavesEntry(m, q, v, t, p, R3)
        BY <2>1, <2>5, <4>1, ReturnsPcall, Zenon DEF R3, s, called
      <4> QED
        BY <2>2, <3>1, <4>2, Zenon
    <3> QED
      BY <3>2, <3>3
  <2>6. CASE e.a = "handler"
    <3>1. Returned(m, t) = Throw(m, t)
      BY ONLY <1>3, <1>7, <2>6
    <3> QED
      BY <3>1, Zenon DEF ReturnsTo
  <2>7. CASE e.a = "resume"
    <3>1. PICK w : UnrollsEnded(m, q, v, t, w)
      BY <2>1, <2>7, ReturnsResume
    <3>2. Returned(m, t) = Unroll([m EXCEPT !.th[t] = s], t)
      BY ONLY <1>3, <1>7, <2>7
    <3>3. Returned(m, t) = Unroll(w, t)
      BY <3>1, <3>2, Zenon DEF UnrollsEnded, s
    <3> QED
      BY <2>1, <2>7, <3>1, <3>3, Zenon DEF ReturnsTo
  <2> QED
    BY <1>5, <2>3, <2>4, <2>5, <2>6, <2>7
<1> QED
  BY <1>6, <1>7

\* No memory: luaD_throw, without a handler.
LEMMA StepMemoryError ==
  ASSUME NEW m, NEW q, NEW v, NEW t, InCode(m, q, v, t)
  PROVE  Good(Throw(m, t))
<1>1. Runnable(m, q, v, t)
  BY DEF InCode
<1>2. /\ m \in Machine /\ q \in Positions /\ v \in Positions /\ Base(m, q, v) /\ t \in Threads
      /\ Len(m.cs) \in Own(m.cs, t)
  BY <1>1, RunnableFacts
<1> QED
  BY <1>2, ThrowGood, Zenon

\* OP_RETURN.
LEMMA StepReturn ==
  ASSUME NEW m, NEW q, NEW v, NEW t, InCode(m, q, v, t)
  PROVE  Good(Returned(m, t))
<1> DEFINE y == Returned(m, t)
<1>1. ReturnsTo(m, q, v, t, y)
  BY ReturnedIs
<1> HIDE DEF y
<1>2. ASSUME ~m.th[t].ci[Len(m.th[t].ci)].fresh, y = [m EXCEPT !.th[t] = Ended(m, t)]
      PROVE  Good(y)
  <2>1. Good([m EXCEPT !.th[t] = Popped(m.th[t], 1)])
    BY <1>2, ReturnsToLua
  <2>2. y = [m EXCEPT !.th[t] = Popped(m.th[t], 1)]
    BY <1>2, Zenon DEF Ended
  <2> QED
    BY <2>1, <2>2, Zenon
<1>3. ASSUME NEW p, NEW r, LeavesEntry(m, q, v, t, p, r),
             y = [m EXCEPT !.th[t] = r, !.cs = SubSeq(@, 1, Len(@) - 1)]
      PROVE  Good(y)
  <2>1. Good([m EXCEPT !.th[t] = r, !.cs = SubSeq(@, 1, Len(@) - 1)])
    BY <1>3, LeavesEntryGood
  <2> QED
    BY <1>3, <2>1, Zenon
<1>4. ASSUME y = Throw(m, t) PROVE Good(y)
  <2>1. Good(Throw(m, t))
    BY StepMemoryError
  <2> QED
    BY <1>4, <2>1, Zenon
<1>5. ASSUME NEW w, UnrollsEnded(m, q, v, t, w), y = Unroll(w, t) PROVE Good(y)
  <2>1. Good(Unroll(w, t))
    BY <1>5, Unrolls DEF UnrollsEnded
  <2> QED
    BY <1>5, <2>1, Zenon
<1>6. Good(y)
  BY <1>1, <1>2, <1>3, <1>4, <1>5, Zenon DEF ReturnsTo
<1> QED
  BY <1>6 DEF y
-----------------------------------------------------------------------------
(* The specification *)

\* Lua code runs.
LEMMA CodeRuns ==
  ASSUME NEW m, Good(m), m.cs # << >>, Last(m.th[Going(m)].ci).f \in Code
  PROVE  \E q, v \in Positions : InCode(m, q, v, Going(m))
<1> DEFINE t == Going(m)
           a == m.th[t].ci
<1>1. PICK q, v \in Positions : Base(m, q, v) /\ Goes(m, q)
  BY DEF Good
<1>2. m \in Machine
  BY DEF Good
<1>3. a[Len(a)].f \in Code
  BY DEF Last
<1>4. Runnable(m, q, v, t)
  <2>1. a[Len(a)].f \notin Leaving
    BY <1>3 DEF Code, Leaving
  <2> QED
    BY <1>1, <1>2, <2>1 DEF Runnable
<1>5. m.th[t].nC < HandlingCCalls /\ q[Len(m.cs)] <= Len(a)
  BY <1>1 DEF Goes
<1>6. InCode(m, q, v, t)
  BY <1>3, <1>4, <1>5 DEF InCode
<1> QED
  BY <1>6

\* lua_error, or a runtime error.
LEMMA StepError ==
  ASSUME NEW m, NEW q, NEW v, NEW t, InCode(m, q, v, t)
  PROVE  Good(Raise(m, t))
BY RaiseGood DEF InCode

\* The host called the main thread, and has not returned.
LEMMA StepRaiseOnMain ==
  ASSUME NEW m, NEW q, NEW v, NEW t, InCode(m, q, v, t)
  PROVE  Good(Throw(m, Main))
<1>1. Runnable(m, q, v, t)
  BY DEF InCode
<1>2. /\ m \in Machine /\ q \in Positions /\ v \in Positions /\ Base(m, q, v)
      /\ Stacked(m.cs) /\ m.cs \in Seq(EntryType) /\ Len(m.cs) \in Nat \ {0}
  BY <1>1, RunnableFacts
<1>3. m.cs[1] = HostEntry /\ 1 \in 1 .. Len(m.cs)
  <2>1. m.cs # << >>
    BY <1>1 DEF Runnable
  <2> QED
    BY <1>2, <2>1 DEF Stacked
<1>4. 1 \in Own(m.cs, Main)
  BY <1>3 DEF Own, HostEntry
<1>5. Main \in Threads
  BY DEF Threads
<1> QED
  BY <1>2, <1>4, <1>5, ThrowGood, Zenon

\* OP_CALL of a Lua function.
LEMMA StepCallLua ==
  ASSUME NEW m, NEW q, NEW v, NEW t, InCode(m, q, v, t)
  PROVE  Good([m EXCEPT !.th[t].ci = Append(@, [Frame("lua") EXCEPT !.fresh = FALSE])])
<1> DEFINE f == Frame("lua")
           g == [f EXCEPT !.fresh = FALSE]
<1>1. f \in FrameType /\ f.f = "lua" /\ ~f.k /\ ~f.yp
  <2>1. "lua" \in Names
    BY DEF Names, Code
  <2> QED
    BY <2>1, Frames
<1> HIDE DEF f
<1>2. g \in FrameType /\ g.f = "lua" /\ ~g.fresh /\ ~g.k /\ ~g.yp
  BY ONLY <1>1, Zenon DEF FrameType
<1> HIDE DEF g
<1>3. Good([m EXCEPT !.th[t].ci = Append(@, g)])
  BY <1>2, StepCall
<1> QED
  BY <1>3 DEF g, f

\* coroutine.wrap finds a coroutine that cannot be resumed.
LEMMA StepResumeFails ==
  ASSUME NEW m, NEW q, NEW v, NEW t, InCode(m, q, v, t)
  PROVE  Good([m EXCEPT !.th[t].ci = Append(@, Frame("failed"))])
<1> DEFINE g == Frame("failed")
<1>1. g \in FrameType /\ g.f = "failed" /\ ~g.fresh /\ ~g.k /\ ~g.yp
  <2>1. "failed" \in Names /\ "failed" \notin Code
    BY DEF Names, Code, Leaving
  <2> QED
    BY <2>1, Frames
<1> HIDE DEF g
<1>2. Good([m EXCEPT !.th[t].ci = Append(@, g)])
  BY <1>1, StepCall
<1> QED
  BY <1>2 DEF g

\* The host calls the main thread, which is at rest.
LEMMA HostCallBegins ==
  ASSUME NEW m, Good(m), m.cs = << >>
  PROVE  LET w == [m EXCEPT !.th[Main] = HostRuns(@), !.cs = <<Entry("pcall", Main, m.th[Main])>>]
         IN /\ HostBegins(w, m.th[Main]) /\ AtRest(Main, m.th[Main])
            /\ \A u \in Threads \ {Main} : w.th[u] = m.th[u]
<1> DEFINE s == m.th[Main]
           r == HostRuns(s)
           c == <<Entry("pcall", Main, s)>>
           w == [m EXCEPT !.th[Main] = r, !.cs = c]
<1>1. PICK q, v \in Positions : Base(m, q, v)
  BY DEF Good
<1>2. m \in Machine /\ Main \in Threads /\ s \in StateType
  BY DEF Good, Machine, Threads
<1>3. \A u \in Threads : Off(m, u)
  <2>1. \A u \in Threads : Own(m.cs, u) = {}
    BY DEF Own
  <2> QED
    BY <1>1, <2>1 DEF Base, Fits
<1>4. Main \notin m.lost /\ AtRest(Main, s)
  BY <1>2, <1>3 DEF Off, Cut
<1>5. s.ci = << >> /\ s.nny = 1 /\ s.errfunc = 0 /\ s.nC = 0 /\ s.status = "ok"
  BY <1>4 DEF AtRest
<1>6. c = <<HostEntry>>
  BY <1>5 DEF Entry, HostEntry
<1>7. r \in StateType
  <2> DEFINE g == Frame("lua")
             a == <<g>>
  <2>1. g \in FrameType
    <3>1. "lua" \in Names
      BY DEF Names, Code
    <3> QED
      BY <3>1, Frames
  <2> HIDE DEF g
  <2>2. a \in Seq(FrameType)
    BY <2>1
  <2> DEFINE x == s.nny + 1
             y == s.nC + 1
  <2>3. r = [s EXCEPT !.ci = a, !.nny = x, !.nC = y, !.errfunc = Host]
    BY DEF HostRuns, g
  <2>4. x \in Int /\ y \in Int /\ Host \in Int
    BY <1>2 DEF StateType, Host
  <2> HIDE DEF a, r, s, x, y
  <2> QED
    BY ONLY <1>2, <2>2, <2>3, <2>4, Zenon DEF StateType
<1>8. c \in Seq(EntryType)
  <2>1. HostEntry \in EntryType
    BY DEF HostEntry, EntryType, Threads
  <2> HIDE DEF c
  <2> QED
    BY <1>6, <2>1
<1> HIDE DEF r, c
<1>9. /\ w \in Machine /\ w.th[Main] = r /\ w.cs = c /\ w.lost = m.lost
      /\ \A u \in Threads \ {Main} : w.th[u] = m.th[u]
  <2>1. m \in Machine /\ Main \in Threads /\ w = [m EXCEPT !.th[Main] = r, !.cs = c]
    BY <1>2
  <2> HIDE DEF w
  <2> QED
    BY ONLY <1>7, <1>8, <2>1, Zenon DEF Machine
<1> HIDE DEF w
<1>10. HostBegins(w, s)
  BY <1>2, <1>3, <1>4, <1>6, <1>9 DEF HostBegins, Off, r
<1>11. HostBegins(w, s) /\ AtRest(Main, s) /\ \A u \in Threads \ {Main} : w.th[u] = m.th[u]
  BY <1>4, <1>9, <1>10
<1> QED
  BY <1>11 DEF w, r, c

\* It keeps the invariant.
LEMMA StepHostCalls ==
  ASSUME NEW m, Good(m), m.cs = << >>
  PROVE  Good([m EXCEPT !.th[Main] = HostRuns(@), !.cs = <<Entry("pcall", Main, m.th[Main])>>])
<1> DEFINE w == [m EXCEPT !.th[Main] = HostRuns(@), !.cs = <<Entry("pcall", Main, m.th[Main])>>]
<1>1. HostBegins(w, m.th[Main])
  BY HostCallBegins
<1> HIDE DEF w
<1>2. Good(w)
  BY <1>1, HostStarts
<1> QED
  BY <1>2 DEF w

\* A step to the machine y.
LEMMA Becoming ==
  ASSUME NEW y, Good(y), NEW a, NEW b, NEW c, a = y.th, b = y.cs, c = y.lost
  PROVE  Good([th |-> a, cs |-> b, lost |-> c])
<1>1. y \in Machine
  BY DEF Good
<1>2. y = [th |-> a, cs |-> b, lost |-> c]
  BY <1>1 DEF Machine
<1> QED
  BY <1>2

\* The machine of the state.
LEMMA MachineIs ==
  /\ m0.th = th /\ m0.cs = cs /\ m0.lost = lost
  /\ cs # << >> => Runs = Going(m0)
BY DEF m0, Runs, Going, Last

\* The host has called the main thread.
LEMMA InitBegins == Init => HostBegins(m0, NewThread)
<1> SUFFICES ASSUME Init PROVE HostBegins(m0, NewThread)
  OBVIOUS
<1>1. m0.th = th /\ m0.cs = cs /\ m0.lost = lost
  BY MachineIs
<1>2. NewThread \in StateType /\ HostRuns(NewThread) \in StateType
  <2> DEFINE g == Frame("lua")
             a == <<g>>
  <2>1. g \in FrameType
    <3>1. "lua" \in Names
      BY DEF Names, Code
    <3> QED
      BY <3>1, Frames
  <2> HIDE DEF g
  <2>2. a \in Seq(FrameType)
    BY <2>1
  <2>3. NewThread \in StateType
    BY DEF NewThread, StateType
  <2> DEFINE x == NewThread.nny + 1
             y == NewThread.nC + 1
  <2>4. HostRuns(NewThread) = [NewThread EXCEPT !.ci = a, !.nny = x, !.nC = y, !.errfunc = Host]
    BY DEF HostRuns, g
  <2>6. x \in Int /\ y \in Int /\ Host \in Int
    BY DEF NewThread, Host
  <2> HIDE DEF a, x, y
  <2>7. HostRuns(NewThread) \in StateType
    BY ONLY <2>2, <2>3, <2>4, <2>6, Zenon DEF StateType
  <2> QED
    BY <2>3, <2>7
<1>3. /\ NewThread.ci = << >> /\ NewThread.status = "ok" /\ NewThread.nny = 1
      /\ NewThread.errfunc = 0 /\ NewThread.nC = 0
  BY DEF NewThread
<1>4. cs = <<HostEntry>>
  <2>1. Entry("pcall", Main, NewThread) = HostEntry
    BY <1>3 DEF Entry, HostEntry
  <2> QED
    BY <2>1 DEF Init
<1>5. HostEntry \in EntryType
  BY DEF HostEntry, EntryType, Threads
<1>6. m0 \in Machine
  <2>1. th \in [Threads -> StateType]
    BY <1>2 DEF Init
  <2>2. cs \in Seq(EntryType)
    BY <1>4, <1>5
  <2>3. lost \subseteq Threads
    BY DEF Init
  <2> QED
    BY <2>1, <2>2, <2>3 DEF m0, Machine
<1>7. AtRest(Main, NewThread) /\ \A u \in Threads \ {Main} : AtRest(u, NewThread)
  BY <1>3 DEF AtRest
<1>8. HostBegins(m0, NewThread)
  <2>1. Main \in Threads /\ lost = {} /\ th[Main] = HostRuns(NewThread)
    BY DEF Init, Threads
  <2>2. \A u \in Threads \ {Main} : th[u] = NewThread
    BY DEF Init
  <2> QED
    BY <1>1, <1>2, <1>4, <1>6, <1>7, <2>1, <2>2 DEF HostBegins, Off
<1> QED
  BY <1>8

\* The invariant is true at first.
LEMMA InitGood == Init => Good(m0)
BY InitBegins, HostStarts

\* Every step keeps the invariant.
LEMMA NextGood == Good(m0) /\ [Next]_vars => Good(m0)'
<1> SUFFICES ASSUME Good(m0), [Next]_vars PROVE Good(m0)'
  OBVIOUS
<1>1. m0.th = th /\ m0.cs = cs /\ m0.lost = lost
  BY MachineIs
<1>2. ASSUME InLua PROVE Runs = Going(m0) /\ \E q, v \in Positions : InCode(m0, q, v, Runs)
  <2>1. cs # << >> /\ Last(th[Runs].ci).f \in Code
    BY <1>2 DEF InLua, Top, Code
  <2>2. Runs = Going(m0)
    BY <2>1, MachineIs
  <2> QED
    BY <1>1, <2>1, <2>2, CodeRuns
<1>3. CASE CallLua
  <2>1. InLua /\ Becomes([m0 EXCEPT !.th[Runs].ci = Append(@, [Frame("lua") EXCEPT !.fresh = FALSE])])
    BY <1>3 DEF CallLua
  <2>2. Good([m0 EXCEPT !.th[Runs].ci = Append(@, [Frame("lua") EXCEPT !.fresh = FALSE])])
    BY <1>2, <2>1, StepCallLua, Zenon
  <2> QED
    BY <2>1, <2>2, Becoming, Zenon DEF Becomes, m0
<1>4. CASE Metamethod
  <2>1. InLua /\ Becomes(LuaDCall(m0, Runs, Entry("call", Runs, NoSave), FALSE))
    BY <1>4, Zenon DEF Metamethod
  <2>2. Good(LuaDCall(m0, Runs, Entry("call", Runs, NoSave), FALSE))
    BY <1>2, <2>1, StepMetamethod, Zenon
  <2> QED
    BY <2>1, <2>2, Becoming, Zenon DEF Becomes, m0
<1>5. CASE Error
  <2>1. InLua /\ Becomes(Raise(m0, Runs))
    BY <1>5 DEF Error
  <2>2. Good(Raise(m0, Runs))
    BY <1>2, <2>1, StepError
  <2> QED
    BY <2>1, <2>2, Becoming DEF Becomes, m0
<1>6. CASE MemoryError
  <2>1. InLua /\ Becomes(Throw(m0, Runs))
    BY <1>6 DEF MemoryError
  <2>2. Good(Throw(m0, Runs))
    BY <1>2, <2>1, StepMemoryError
  <2> QED
    BY <2>1, <2>2, Becoming DEF Becomes, m0
<1>7. CASE RaiseOnMain
  <2>1. InLua /\ Becomes(Throw(m0, Main))
    BY <1>7 DEF RaiseOnMain
  <2>2. Good(Throw(m0, Main))
    BY <1>2, <2>1, StepRaiseOnMain
  <2> QED
    BY <2>1, <2>2, Becoming DEF Becomes, m0
<1>8. CASE Return
  <2>1. InLua /\ Becomes(Returned(m0, Runs))
    BY <1>8 DEF Return
  <2>2. Good(Returned(m0, Runs))
    BY <1>2, <2>1, StepReturn
  <2> QED
    BY <2>1, <2>2, Becoming DEF Becomes, m0
<1>9. CASE \E f \in Kinds : CallK(f)
  <2>1. PICK f \in Kinds : CallK(f)
    BY <1>9
  <2> DEFINE k == f = "callk" /\ th[Runs].nny = 0
             y == LuaDCall([m0 EXCEPT !.th[Runs].ci = Append(@, [Frame(f) EXCEPT !.k = k])], Runs,
                           Entry(IF k THEN "call" ELSE "noyield", Runs, NoSave), ~k)
  <2>2. InLua /\ f \in {"sort", "callk"} /\ Becomes(y)
    BY <2>1 DEF CallK
  <2>3. k \in BOOLEAN /\ (k <=> f = "callk" /\ m0.th[Runs].nny = 0)
    BY <1>1
  <2> HIDE DEF k
  <2>4. Good(y)
    BY <1>2, <2>2, <2>3, StepCallK
  <2> HIDE DEF y
  <2> QED
    BY <2>2, <2>4, Becoming DEF Becomes, m0
<1>10. CASE \E f \in Kinds : PCallK(f)
  <2>1. PICK f \in Kinds : PCallK(f)
    BY <1>10
  <2>2. InLua /\ f \in {"pcall", "xpcall"} /\ Becomes(PCalled(m0, Runs, f, th[Runs]))
    BY <2>1 DEF PCallK, PCalled
  <2>3. Good(PCalled(m0, Runs, f, m0.th[Runs]))
    BY <1>2, <2>2, StepPCallK
  <2>4. Good(PCalled(m0, Runs, f, th[Runs]))
    BY <1>1, <2>3
  <2> QED
    BY <2>2, <2>4, Becoming DEF Becomes, m0
<1>11. CASE \E c \in Cos : Create(c)
  <2>1. PICK c \in Cos : Create(c)
    BY <1>11
  <2>2. /\ m0.th[c].status = "error" \/ (m0.th[c].ci = << >> /\ ~m0.th[c].fn)
        /\ Becomes([m0 EXCEPT !.th[c] = NewThread])
    BY <1>1, <2>1 DEF Create
  <2>3. Good([m0 EXCEPT !.th[c] = NewThread])
    BY <2>2, StepCreate
  <2> QED
    BY <2>2, <2>3, Becoming DEF Becomes, m0
<1>12. CASE \E c \in Cos, f \in {"resume", "wrap"} : Resume(f, c)
  <2>1. PICK c \in Cos, f \in {"resume", "wrap"} : Resume(f, c)
    BY <1>12
  <2> DEFINE t == Runs
             s == th[c]
             n == th[t].nC + 1
             suspended == (s.status = "ok" /\ s.ci = << >> /\ s.fn) \/ s.status = "yield"
             y == Resumed(m0, t, c, f, s, n)
             z == [m0 EXCEPT !.th[t].ci = Append(@, Frame("failed"))]
  <2>2. InLua /\ c # t
    BY <2>1 DEF Resume
  <2>3. IF ~suspended \/ n >= MaxCCalls THEN f = "wrap" /\ Becomes(z) ELSE Becomes(y)
    BY <2>1, Zenon DEF Resume, Resumed
  <2>4. CASE ~suspended \/ n >= MaxCCalls
    <3>1. Becomes(z)
      <4> HIDE DEF y, z, suspended, n
      <4> QED
        BY <2>4, <2>3
    <3>2. Good(z)
      BY <1>2, <2>2, StepResumeFails, Zenon
    <3> HIDE DEF z
    <3> QED
      BY <3>1, <3>2, Becoming DEF Becomes, m0
  <2>5. CASE suspended /\ ~(n >= MaxCCalls)
    <3>1. Becomes(y)
      <4> HIDE DEF y, z, suspended, n
      <4> QED
        BY <2>5, <2>3
    <3>2. Good(y)
      BY <1>1, <1>2, <2>2, <2>5, StepResume, Zenon
    <3> HIDE DEF y
    <3> QED
      BY <3>1, <3>2, Becoming DEF Becomes, m0
  <2> QED
    BY <2>4, <2>5
<1>13. CASE Yield
  <2> DEFINE t == Runs
             s == th[t]
             j == ErrorJmp(m0, t)
             y == ResumeReturns(
               [m0 EXCEPT !.th[t] = [s EXCEPT !.status = "yield", !.ci = Append(@, Frame("yield")),
                                              !.nny = cs[j].nny, !.nC = cs[j].nC - 1],
                          !.cs = SubSeq(@, 1, j - 1)], TRUE)
  <2>1. InLua
    BY <1>13 DEF Yield
  <2>2. CASE s.nny > 0
    <3>1. Becomes(Raise(m0, t))
      BY <1>13, <2>2, Zenon DEF Yield
    <3>2. Good(Raise(m0, t))
      BY <1>2, <2>1, StepError
    <3> QED
      BY <3>1, <3>2, Becoming DEF Becomes, m0
  <2>3. CASE ~(s.nny > 0)
    <3>1. Becomes(y)
      BY <1>13, <2>3, Zenon DEF Yield
    <3>2. Good(y)
      BY <1>1, <1>2, <2>1, <2>3, StepYield, Zenon
    <3> HIDE DEF y
    <3> QED
      BY <3>1, <3>2, Becoming DEF Becomes, m0
  <2> QED
    BY <2>2, <2>3
<1>14. CASE WrapRaises
  <2>1. /\ cs # << >> /\ Last(th[Runs].ci).f = "failed"
        /\ Becomes(Raise([m0 EXCEPT !.th[Runs] = Popped(@, 1)], Runs))
    BY <1>14 DEF WrapRaises, Top
  <2>2. PICK q, v \in Positions : Base(m0, q, v) /\ Goes(m0, q)
    BY DEF Good
  <2>3. /\ m0 \in Machine /\ m0.cs # << >> /\ Runs = Going(m0)
        /\ m0.th[Runs].ci[Len(m0.th[Runs].ci)].f = "failed"
    BY <1>1, <2>1, MachineIs DEF Good, Last
  <2>4. Good(Raise([m0 EXCEPT !.th[Runs] = Popped(@, 1)], Runs))
    BY <2>2, <2>3, StepWrapRaises
  <2> QED
    BY <2>1, <2>4, Becoming DEF Becomes, m0
<1>15. CASE HostCalls
  <2> DEFINE y == [m0 EXCEPT !.th[Main] = HostRuns(@), !.cs = <<Entry("pcall", Main, th[Main])>>]
  <2>1. cs = << >> /\ Becomes(y)
    BY <1>15 DEF HostCalls
  <2>2. Good(y)
    BY <1>1, <2>1, StepHostCalls, Zenon
  <2> HIDE DEF y
  <2> QED
    BY <2>1, <2>2, Becoming DEF Becomes, m0
<1>16. CASE UNCHANGED vars
  BY <1>16 DEF vars, m0
<1> QED
  BY <1>3, <1>4, <1>5, <1>6, <1>7, <1>8, <1>9, <1>10, <1>11, <1>12, <1>13, <1>14, <1>15, <1>16 DEF Next

\* Whatever calls, yields, resumes and longjmps are made (ldo.c, lcorolib.c): the C
\* stack is that of the calls of the threads, with the counters each entry saved.
THEOREM StackIsTrue == Spec => []Good(m0)
<1>1. Init => Good(m0)
  BY InitGood
<1>2. Good(m0) /\ [Next]_vars => Good(m0)'
  BY NextGood
<1> QED
  BY <1>1, <1>2, PTL DEF Spec

\* What it says of a thread.
LEMMA ThreadIs ==
  ASSUME Good(m0)
  PROVE  \E q, v \in Positions :
           /\ cs \in Seq(EntryType) /\ Level(cs, v)
           /\ cs # << >> => th[cs[Len(cs)].t].nC < HandlingCCalls
           /\ \A t \in Threads :
                IF Own(cs, t) # {}
                THEN /\ t \notin lost /\ th[t].ci \in Seq(FrameType) /\ th[t].status = "ok"
                     /\ HandlerAt(t, th[t].ci, Len(th[t].ci), th[t].errfunc)
                     /\ Counted(cs, v, t, th[t])
                ELSE IF t \in lost THEN Cut(t, th[t]) ELSE AtRest(t, th[t])
<1>1. PICK q, v \in Positions : Base(m0, q, v) /\ Goes(m0, q)
  BY DEF Good
<1>2. m0.th = th /\ m0.cs = cs /\ m0.lost = lost
  BY MachineIs
<1>3. cs \in Seq(EntryType) /\ th \in [Threads -> StateType]
  BY <1>2 DEF Good, Machine
<1>4. Level(cs, v)
  BY <1>1, <1>2 DEF Base
<1>5. cs # << >> => th[cs[Len(cs)].t].nC < HandlingCCalls
  BY <1>1, <1>2 DEF Goes, Going
<1>6. ASSUME NEW t \in Threads
      PROVE  IF Own(cs, t) # {}
             THEN /\ t \notin lost /\ th[t].ci \in Seq(FrameType) /\ th[t].status = "ok"
                  /\ HandlerAt(t, th[t].ci, Len(th[t].ci), th[t].errfunc)
                  /\ Counted(cs, v, t, th[t])
             ELSE IF t \in lost THEN Cut(t, th[t]) ELSE AtRest(t, th[t])
  <2>1. Fits(m0, q, v, t)
    BY <1>1 DEF Base
  <2>2. th[t].ci \in Seq(FrameType)
    BY <1>3 DEF StateType
  <2> QED
    BY <1>2, <2>1, <2>2 DEF Fits, Busy, Sound, Off
<1> QED
  BY <1>3, <1>4, <1>5, <1>6, Zenon

\* The counters of a thread on the C stack.
LEMMA CountersOf ==
  ASSUME NEW c \in Seq(EntryType), NEW v, Level(c, v), NEW t, NEW r, Own(c, t) # {},
         Counted(c, v, t, r), r.nC < HandlingCCalls \/ c[Len(c)].t # t
  PROVE  /\ r.nny = 0 <=> (t # Main /\ \A i \in 1 .. Len(c) : c[i].t = t => c[i].a \notin Blocking)
         /\ r.nC < HandlingCCalls
<1>1. Len(c) \in Nat /\ Own(c, t) \subseteq 1 .. Len(c)
  BY DEF Own
<1>2. PICK j \in Own(c, t) : \A k \in Own(c, t) : k <= j
  BY <1>1, MaxExists, Zenon
<1>3. j \in 1 .. Len(c) /\ c[j].t = t
  BY DEF Own
<1>4. r.nny = v[j] /\ (j < Len(c) => r.nC < HandlingCCalls)
  BY <1>2 DEF Counted
<1>5. \A i \in 1 .. Len(c) : c[i].t = t => i \in 1 .. j
  <2>1. ASSUME NEW i \in 1 .. Len(c), c[i].t = t PROVE i \in 1 .. j
    <3>1. i \in Own(c, t)
      BY <2>1 DEF Own
    <3> QED
      BY <1>2, <1>3, <3>1
  <2> QED
    BY <2>1
<1>6. (v[j] = 0) <=> Free(c, j)
  BY <1>3 DEF Level
<1>7. Free(c, j) <=> (t # Main /\ \A i \in 1 .. Len(c) : c[i].t = t => c[i].a \notin Blocking)
  <2>1. 1 .. j \subseteq 1 .. Len(c)
    BY <1>1, <1>3
  <2> QED
    BY <1>3, <1>5, <2>1 DEF Free
<1>8. r.nC < HandlingCCalls
  <2>1. CASE j < Len(c)
    BY <1>4, <2>1
  <2>2. CASE ~(j < Len(c))
    <3>1. j = Len(c)
      BY <1>1, <1>3, <2>2
    <3> QED
      BY <1>3, <3>1
  <2> QED
    BY <2>1, <2>2
<1> QED
  BY <1>4, <1>6, <1>7, <1>8

\* The handler as the property has it.
LEMMA HandlerOf ==
  ASSUME NEW t, NEW s \in Seq(FrameType), NEW h, HandlerAt(t, s, Len(s), h)
  PROVE  LET p == {i \in DOMAIN s : s[i].f \in {"pcall", "xpcall"}}
             i == CHOOSE x \in p : \A y \in p : y <= x
         IN h = IF p = {} THEN (IF t = Main THEN Host ELSE 0)
                ELSE IF s[i].f = "xpcall" THEN i ELSE 0
<1> DEFINE p == {i \in DOMAIN s : s[i].f \in {"pcall", "xpcall"}}
           z == CHOOSE x \in p : \A y \in p : y <= x
<1>1. DOMAIN s = 1 .. Len(s) /\ Len(s) \in Nat
  OBVIOUS
<1>2. \A i : i \in p <=> i \in 1 .. Len(s) /\ s[i].f \in Guarding
  BY <1>1 DEF Guarding
<1> HIDE DEF p
<1>3. CASE \A i \in 1 .. Len(s) : s[i].f \notin Guarding
  <2>1. p = {}
    BY <1>2, <1>3
  <2>2. h = IF t = Main THEN Host ELSE 0
    BY <1>3 DEF HandlerAt
  <2> QED
    BY <2>1, <2>2 DEF p
<1>4. CASE ~ \A i \in 1 .. Len(s) : s[i].f \notin Guarding
  <2>1. PICK i \in 1 .. Len(s) : /\ s[i].f \in Guarding
                                 /\ \A j \in i + 1 .. Len(s) : s[j].f \notin Guarding
                                 /\ h = IF s[i].f = "xpcall" THEN i ELSE 0
    BY <1>4 DEF HandlerAt
  <2>2. i \in p /\ p \subseteq Int
    BY <1>1, <1>2, <2>1
  <2>3. \A y \in p : y <= i
    <3>1. ASSUME NEW y \in p, ~(y <= i) PROVE FALSE
      <4>1. y \in i + 1 .. Len(s)
        BY <1>1, <1>2, <3>1
      <4> QED
        BY <1>2, <2>1, <4>1
    <3> QED
      BY <3>1
  <2>4. z = i
    <3>1. z \in p /\ \A y \in p : y <= z
      BY <2>2, <2>3, Zenon
    <3> HIDE DEF z
    <3>2. z \in Int /\ i \in Int /\ z <= i /\ i <= z
      BY <2>2, <2>3, <3>1
    <3> QED
      BY ONLY <3>2
  <2>5. p # {}
    BY <2>2
  <2> HIDE DEF z
  <2>6. h = IF p = {} THEN (IF t = Main THEN Host ELSE 0) ELSE IF s[z].f = "xpcall" THEN z ELSE 0
    BY <2>1, <2>4, <2>5
  <2> QED
    BY <2>6 DEF z, p
<1> QED
  BY <1>3, <1>4, Zenon

\* nny counts the C calls that cannot be left by a yield, nCcalls stays below the
\* limit, and errfunc is the handler of the innermost protected call of its thread,
\* after any sequence of calls, yields, resumes and longjmps.
THEOREM CountersStayTrue == Spec => []CountersAreTrue
<1>1. ASSUME Good(m0) PROVE CountersAreTrue
  <2>1. PICK q, v \in Positions :
           /\ cs \in Seq(EntryType) /\ Level(cs, v)
           /\ cs # << >> => th[cs[Len(cs)].t].nC < HandlingCCalls
           /\ \A t \in Threads :
                IF Own(cs, t) # {}
                THEN /\ t \notin lost /\ th[t].ci \in Seq(FrameType) /\ th[t].status = "ok"
                     /\ HandlerAt(t, th[t].ci, Len(th[t].ci), th[t].errfunc)
                     /\ Counted(cs, v, t, th[t])
                ELSE IF t \in lost THEN Cut(t, th[t]) ELSE AtRest(t, th[t])
    BY <1>1, ThreadIs, Zenon
  <2>2. DOMAIN cs = 1 .. Len(cs) /\ Len(cs) \in Nat
    BY <2>1
  <2>3. \A t \in Threads : t \in Alive <=> t \notin lost /\ Own(cs, t) # {}
    BY <2>2 DEF Alive, Own
  <2>4. ASSUME NEW t \in Alive
        PROVE  /\ (th[t].nny = 0) <=> (t # Main /\ Count(t, {"noyield", "handler", "pcall"}) = 0)
               /\ th[t].nC < HandlingCCalls
               /\ LET p == {i \in DOMAIN th[t].ci : th[t].ci[i].f \in {"pcall", "xpcall"}}
                      i == CHOOSE x \in p : \A y \in p : y <= x
                  IN th[t].errfunc = IF p = {} THEN (IF t = Main THEN Host ELSE 0)
                                     ELSE IF th[t].ci[i].f = "xpcall" THEN i ELSE 0
    <3>1. t \in Threads /\ Own(cs, t) # {}
      BY <2>3 DEF Alive
    <3>2. /\ th[t].ci \in Seq(FrameType) /\ Counted(cs, v, t, th[t])
          /\ HandlerAt(t, th[t].ci, Len(th[t].ci), th[t].errfunc)
      BY <2>1, <3>1
    <3>3. th[t].nC < HandlingCCalls \/ cs[Len(cs)].t # t
      BY <2>1, <3>1 DEF Own
    <3>4. /\ th[t].nny = 0 <=>
               (t # Main /\ \A i \in 1 .. Len(cs) : cs[i].t = t => cs[i].a \notin Blocking)
          /\ th[t].nC < HandlingCCalls
      BY <2>1, <3>1, <3>2, <3>3, CountersOf
    <3>5. Count(t, {"noyield", "handler", "pcall"}) = 0 <=>
            \A i \in 1 .. Len(cs) : cs[i].t = t => cs[i].a \notin Blocking
      <4> DEFINE S == {i \in DOMAIN cs : cs[i].t = t /\ cs[i].a \in {"noyield", "handler", "pcall"}}
      <4>1. IsFiniteSet(1 .. Len(cs))
        <5>1. Len(cs) \in Int /\ 1 \in Int
          BY <2>2
        <5> QED
          BY ONLY <5>1, FS_Interval
      <4>2. IsFiniteSet(S)
        <5>1. S \in SUBSET (1 .. Len(cs))
          BY <2>2
        <5> HIDE DEF S
        <5> QED
          BY ONLY <4>1, <5>1, FS_Subset, Zenon
      <4>3. Cardinality(S) = 0 <=> S = {}
        BY <4>2, FS_EmptySet
      <4>4. S = {} <=> \A i \in 1 .. Len(cs) : cs[i].t = t => cs[i].a \notin Blocking
        BY <2>2 DEF Blocking
      <4> QED
        BY <4>3, <4>4 DEF Count
    <3>6. LET p == {i \in DOMAIN th[t].ci : th[t].ci[i].f \in {"pcall", "xpcall"}}
              i == CHOOSE x \in p : \A y \in p : y <= x
          IN th[t].errfunc = IF p = {} THEN (IF t = Main THEN Host ELSE 0)
                             ELSE IF th[t].ci[i].f = "xpcall" THEN i ELSE 0
      BY <3>2, HandlerOf, Zenon
    <3> QED
      BY <3>4, <3>5, <3>6
  <2>5. ASSUME NEW t \in Threads \ Alive, t \notin lost PROVE th[t].nny = 1
    BY <2>1, <2>3, <2>5 DEF AtRest
  <2> QED
    BY <2>4, <2>5, Zenon DEF CountersAreTrue
<1> QED
  BY <1>1, StackIsTrue, PTL

\* "must have a continuation and must be able to call it" (ldo.c:522): every C
\* function that a yield leaves can be finished later.
THEOREM YieldedStayContinuable == Spec => []YieldedCanContinue
<1>1. ASSUME Good(m0) PROVE YieldedCanContinue
  <2>1. SUFFICES ASSUME NEW c \in Cos, th[c].status = "yield", NEW i \in DOMAIN th[c].ci
                 PROVE  th[c].ci[i].f \in {"lua", "yield"} \/ th[c].ci[i].k
    BY DEF YieldedCanContinue
  <2>2. c \in Threads
    BY DEF Threads
  <2>3. AtRest(c, th[c])
    BY <1>1, <2>1, <2>2, ThreadIs DEF Cut
  <2>4. th[c].ci \in Seq(FrameType)
    <3>1. th \in [Threads -> StateType]
      BY <1>1, MachineIs DEF Good, Machine
    <3> QED
      BY <2>2, <3>1 DEF StateType
  <2>5. i \in 1 .. Len(th[c].ci) - 1 \/ i = Len(th[c].ci)
    BY <2>4
  <2> QED
    BY <2>1, <2>3, <2>5 DEF AtRest
<1> QED
  BY <1>1, StackIsTrue, PTL
=====
