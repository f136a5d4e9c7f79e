------------------------ MODULE LuaThreadRefinement -------------------------
(***************************************************************************)
(* LuaThread implements Coroutines, for any number of coroutines and any   *)
(* limits: an error reaches the innermost protected call of its thread,    *)
(* whether luaD_pcall has made it or a yield went through it, and calls,   *)
(* returns, resumes and yields do what is promised.                        *)
(***************************************************************************)
EXTENDS LuaThreadProofs

-----------------------------------------------------------------------------
(* What a program sees of a thread *)

\* Sequences with the same elements.
LEMMA SameSeq ==
  ASSUME NEW T, NEW a \in Seq(T), NEW b \in Seq(T), Len(a) = Len(b),
         \A i \in 1 .. Len(a) : a[i] = b[i]
  PROVE  a = b
OBVIOUS

\* The names that a program sees.
LEMMA FunctionsOf ==
  ASSUME NEW a \in Seq(FrameType)
  PROVE  /\ Len(Functions(a)) = Len(a) /\ Len(a) \in Nat /\ DOMAIN Functions(a) = 1 .. Len(a)
         /\ \A i \in 1 .. Len(a) :
              Functions(a)[i] = IF a[i].f = "wrap" THEN "resume" ELSE a[i].f
         /\ Functions(a) \in Seq(Names)
         /\ Functions(a) = << >> <=> a = << >>
<1>1. Len(a) \in Nat
  OBVIOUS
<1>2. \A i \in 1 .. Len(a) : (IF a[i].f = "wrap" THEN "resume" ELSE a[i].f) \in Names
  <2>1. "resume" \in Names
    BY DEF Names, Leaving
  <2>2. \A i \in 1 .. Len(a) : a[i] \in FrameType
    OBVIOUS
  <2> QED
    BY <2>1, <2>2, Zenon DEF FrameType
<1>3. Functions(a) \in [1 .. Len(a) -> Names]
  BY <1>2, Zenon DEF Functions
<1>4. Functions(a) \in Seq(Names) /\ Len(Functions(a)) = Len(a)
  BY <1>1, <1>3
<1> QED
  BY <1>1, <1>4 DEF Functions

\* They depend on the functions only.
LEMMA FunctionsSame ==
  ASSUME NEW a, NEW b, Len(a) = Len(b), \A i \in 1 .. Len(a) : a[i].f = b[i].f
  PROVE  Functions(a) = Functions(b)
BY DEF Functions

\* Those of a prefix.
LEMMA FunctionsPrefix ==
  ASSUME NEW a \in Seq(FrameType), NEW n \in 0 .. Len(a)
  PROVE  Functions(SubSeq(a, 1, n)) = SubSeq(Functions(a), 1, n)
<1>1. /\ SubSeq(a, 1, n) \in Seq(FrameType) /\ Len(SubSeq(a, 1, n)) = n
      /\ n \in Nat /\ n <= Len(a) /\ Len(a) \in Nat
      /\ \A i \in 1 .. n : SubSeq(a, 1, n)[i] = a[i]
  BY PrefixElements
<1>2. /\ Functions(a) \in Seq(Names) /\ Len(Functions(a)) = Len(a)
      /\ \A i \in 1 .. Len(a) :
              Functions(a)[i] = IF a[i].f = "wrap" THEN "resume" ELSE a[i].f
  BY FunctionsOf
<1>3. /\ Functions(SubSeq(a, 1, n)) \in Seq(Names) /\ Len(Functions(SubSeq(a, 1, n))) = n
      /\ \A i \in 1 .. n :
              Functions(SubSeq(a, 1, n))[i] = IF a[i].f = "wrap" THEN "resume" ELSE a[i].f
  <2> DEFINE b == SubSeq(a, 1, n)
  <2>1. b \in Seq(FrameType) /\ Len(b) = n /\ \A i \in 1 .. n : b[i] = a[i]
    BY <1>1
  <2> HIDE DEF b
  <2>2. /\ Functions(b) \in Seq(Names) /\ Len(Functions(b)) = n
        /\ \A i \in 1 .. n : Functions(b)[i] = IF b[i].f = "wrap" THEN "resume" ELSE b[i].f
    BY <2>1, FunctionsOf
  <2>3. \A i \in 1 .. n : Functions(b)[i] = IF a[i].f = "wrap" THEN "resume" ELSE a[i].f
    BY <2>1, <2>2
  <2> QED
    BY <2>2, <2>3 DEF b
<1>4. /\ SubSeq(Functions(a), 1, n) \in Seq(Names) /\ Len(SubSeq(Functions(a), 1, n)) = n
      /\ \A i \in 1 .. n : SubSeq(Functions(a), 1, n)[i] = Functions(a)[i]
  BY <1>1, <1>2, PrefixElements
<1>5. \A i \in 1 .. n : Functions(SubSeq(a, 1, n))[i] = SubSeq(Functions(a), 1, n)[i]
  BY <1>1, <1>2, <1>3, <1>4
<1> QED
  BY <1>1, <1>3, <1>4, <1>5, SameSeq

\* With a call on top.
LEMMA FunctionsPush ==
  ASSUME NEW a \in Seq(FrameType), NEW g \in FrameType
  PROVE  /\ g.f # "wrap" => Functions(Append(a, g)) = Append(Functions(a), g.f)
         /\ g.f = "wrap" => Functions(Append(a, g)) = Append(Functions(a), "resume")
<1> DEFINE h == IF g.f = "wrap" THEN "resume" ELSE g.f
<1>1. /\ Append(a, g) \in Seq(FrameType) /\ Len(Append(a, g)) = Len(a) + 1 /\ Len(a) \in Nat
      /\ \A i \in 1 .. Len(a) : Append(a, g)[i] = a[i]
      /\ Append(a, g)[Len(a) + 1] = g
  BY AppendElements
<1>2. /\ Functions(a) \in Seq(Names) /\ Len(Functions(a)) = Len(a)
      /\ \A i \in 1 .. Len(a) :
              Functions(a)[i] = IF a[i].f = "wrap" THEN "resume" ELSE a[i].f
  BY FunctionsOf
<1>3. /\ Functions(Append(a, g)) \in Seq(Names) /\ Len(Functions(Append(a, g))) = Len(a) + 1
      /\ \A i \in 1 .. Len(a) + 1 :
              Functions(Append(a, g))[i] = IF Append(a, g)[i].f = "wrap" THEN "resume"
                                           ELSE Append(a, g)[i].f
  BY <1>1, FunctionsOf
<1>4. h \in Names
  BY DEF FrameType, Names, Leaving
<1>5. /\ Append(Functions(a), h) \in Seq(Names) /\ Len(Append(Functions(a), h)) = Len(a) + 1
      /\ \A i \in 1 .. Len(a) : Append(Functions(a), h)[i] = Functions(a)[i]
      /\ Append(Functions(a), h)[Len(a) + 1] = h
  BY <1>2, <1>4, AppendElements
<1>6. \A i \in 1 .. Len(a) + 1 : Functions(Append(a, g))[i] = Append(Functions(a), h)[i]
  <2>1. ASSUME NEW i \in 1 .. Len(a) PROVE Functions(Append(a, g))[i] = Append(Functions(a), h)[i]
    BY <1>1, <1>2, <1>3, <1>5
  <2>2. Functions(Append(a, g))[Len(a) + 1] = Append(Functions(a), h)[Len(a) + 1]
    BY <1>1, <1>3, <1>5
  <2>3. \A i \in 1 .. Len(a) + 1 : i \in 1 .. Len(a) \/ i = Len(a) + 1
    BY <1>1
  <2> QED
    BY <2>1, <2>2, <2>3, Zenon
<1>7. Functions(Append(a, g)) = Append(Functions(a), h)
  BY <1>1, <1>3, <1>5, <1>6, SameSeq
<1> QED
  BY <1>7

\* The calls of a thread without an error, when coroutine.wrap does not raise one.
LEMMA CallsOf ==
  ASSUME NEW s \in StateType, s.status # "error"
  PROVE  /\ (s.ci # << >> => s.ci[Len(s.ci)].f # "failed") => Calls(s) = Functions(s.ci)
         /\ s.ci # << >> /\ s.ci[Len(s.ci)].f = "failed" =>
              Calls(s) = Functions(SubSeq(s.ci, 1, Len(s.ci) - 1))
<1>1. s.ci \in Seq(FrameType)
  BY DEF StateType
<1>2. Len(s.ci) > 0 <=> s.ci # << >>
  BY <1>1
<1> QED
  BY <1>2 DEF Calls

-----------------------------------------------------------------------------
(* Who waits for whom *)

\* The entries of lua_resume for t.
ResumesOf(c, t) == {i \in 1 .. Len(c) : c[i].a = "resume" /\ c[i].t = t}

\* Resumer, with them.
LEMMA ResumerIs ==
  ASSUME NEW c \in Seq(EntryType), NEW t
  PROVE  /\ ResumesOf(c, t) = {} => Resumer(c, t) = t
         /\ \A i \in ResumesOf(c, t) :
              (\A j \in ResumesOf(c, t) : j <= i) => Resumer(c, t) = c[i - 1].t
<1>1. DOMAIN c = 1 .. Len(c) /\ Len(c) \in Nat
  OBVIOUS
<1>2. {i \in DOMAIN c : c[i].a = "resume" /\ c[i].t = t} = ResumesOf(c, t)
  BY <1>1 DEF ResumesOf
<1>3. Resumer(c, t) = IF ResumesOf(c, t) = {} THEN t ELSE c[Max(ResumesOf(c, t)) - 1].t
  BY <1>2, Zenon DEF Resumer
<1>4. ResumesOf(c, t) \subseteq Int
  BY <1>1 DEF ResumesOf
<1>5. ASSUME NEW i \in ResumesOf(c, t), \A j \in ResumesOf(c, t) : j <= i
      PROVE  Resumer(c, t) = c[i - 1].t
  <2>1. Max(ResumesOf(c, t)) = i
    BY <1>4, <1>5, MaxIs
  <2> QED
    BY <1>3, <1>5, <2>1
<1> QED
  BY <1>3, <1>5, Zenon

\* They are the same in b.
LEMMA ResumerSame ==
  ASSUME NEW c \in Seq(EntryType), NEW b \in Seq(EntryType), NEW t,
         ResumesOf(b, t) = ResumesOf(c, t),
         \A i \in ResumesOf(c, t) : b[i - 1].t = c[i - 1].t
  PROVE  Resumer(b, t) = Resumer(c, t)
<1>1. CASE ResumesOf(c, t) = {}
  BY <1>1, ResumerIs
<1>2. CASE ResumesOf(c, t) # {}
  <2>1. PICK i \in ResumesOf(c, t) : \A j \in ResumesOf(c, t) : j <= i
    <3>1. Len(c) \in Nat /\ ResumesOf(c, t) \subseteq 1 .. Len(c)
      BY DEF ResumesOf
    <3> QED
      BY <1>2, <3>1, MaxExists, Zenon
  <2>2. Resumer(c, t) = c[i - 1].t
    BY <2>1, ResumerIs
  <2>3. Resumer(b, t) = b[i - 1].t
    BY <2>1, ResumerIs
  <2> QED
    BY <2>1, <2>2, <2>3
<1> QED
  BY <1>1, <1>2

\* An entry that does not resume.
LEMMA ResumersPush ==
  ASSUME NEW c \in Seq(EntryType), NEW e \in EntryType, e.a # "resume", NEW u,
         c # << >> => c[1].a # "resume"
  PROVE  Resumer(Append(c, e), u) = Resumer(c, u)
<1> DEFINE b == Append(c, e)
<1>1. /\ b \in Seq(EntryType) /\ Len(b) = Len(c) + 1 /\ Len(c) \in Nat
      /\ \A i \in 1 .. Len(c) : b[i] = c[i]
      /\ b[Len(c) + 1] = e
  BY AppendElements
<1>0. c # << >> <=> Len(c) > 0
  OBVIOUS
<1> HIDE DEF b
<1>2. ResumesOf(b, u) = ResumesOf(c, u)
  <2>1. ASSUME NEW i \in 1 .. Len(b), b[i].a = "resume" PROVE i \in 1 .. Len(c)
    <3>1. i # Len(c) + 1
      BY <1>1, <2>1
    <3> QED
      BY <1>1, <3>1
  <2> QED
    BY <1>1, <2>1 DEF ResumesOf
<1>3. \A i \in ResumesOf(c, u) : b[i - 1].t = c[i - 1].t
  <2>1. \A i \in ResumesOf(c, u) : i # 1
    BY <1>0, <1>1 DEF ResumesOf
  <2>2. \A i \in ResumesOf(c, u) : i - 1 \in 1 .. Len(c)
    BY <1>1, <2>1 DEF ResumesOf
  <2> QED
    BY <1>1, <2>2
<1>4. Resumer(b, u) = Resumer(c, u)
  BY <1>1, <1>2, <1>3, ResumerSame
<1> QED
  BY <1>4 DEF b

\* Entries that do not resume are cut.
LEMMA ResumersCut ==
  ASSUME NEW c \in Seq(EntryType), c # << >> => c[1].a # "resume", NEW n \in 0 .. Len(c), NEW u,
         \A i \in n + 1 .. Len(c) : ~(c[i].a = "resume" /\ c[i].t = u)
  PROVE  Resumer(SubSeq(c, 1, n), u) = Resumer(c, u)
<1> DEFINE b == SubSeq(c, 1, n)
<1>1. /\ b \in Seq(EntryType) /\ Len(b) = n /\ n \in Nat /\ Len(c) \in Nat /\ n <= Len(c)
      /\ \A i \in 1 .. n : b[i] = c[i]
  BY PrefixElements
<1>0. c # << >> <=> Len(c) > 0
  OBVIOUS
<1> HIDE DEF b
<1>2. ResumesOf(b, u) = ResumesOf(c, u)
  <2>1. ASSUME NEW i \in 1 .. Len(c), c[i].a = "resume", c[i].t = u PROVE i \in 1 .. n
    <3>1. ~(i \in n + 1 .. Len(c))
      BY <2>1
    <3> QED
      BY <1>1, <3>1
  <2> QED
    BY <1>1, <2>1 DEF ResumesOf
<1>3. \A i \in ResumesOf(c, u) : b[i - 1].t = c[i - 1].t
  <2>1. \A i \in ResumesOf(c, u) : i # 1
    BY <1>0, <1>1 DEF ResumesOf
  <2>3. \A i \in ResumesOf(c, u) : i \in 1 .. n
    BY <1>1, <1>2 DEF ResumesOf
  <2>2. \A i \in ResumesOf(c, u) : i - 1 \in 1 .. n
    BY <1>1, <2>1, <2>3
  <2> QED
    BY <1>1, <2>2
<1>4. Resumer(b, u) = Resumer(c, u)
  BY <1>1, <1>2, <1>3, ResumerSame
<1> QED
  BY <1>4 DEF b

\* An entry of lua_resume for e.t.
LEMMA ResumerNew ==
  ASSUME NEW c \in Seq(EntryType), NEW e \in EntryType, e.a = "resume", Len(c) > 0,
         c[1].a # "resume"
  PROVE  /\ Resumer(Append(c, e), e.t) = c[Len(c)].t
         /\ \A u : u # e.t => Resumer(Append(c, e), u) = Resumer(c, u)
<1> DEFINE b == Append(c, e)
<1>1. /\ b \in Seq(EntryType) /\ Len(b) = Len(c) + 1 /\ Len(c) \in Nat
      /\ \A i \in 1 .. Len(c) : b[i] = c[i]
      /\ b[Len(c) + 1] = e
  BY AppendElements
<1> HIDE DEF b
<1>2. Resumer(b, e.t) = c[Len(c)].t
  <2>1. Len(c) + 1 \in ResumesOf(b, e.t)
    BY <1>1 DEF ResumesOf
  <2>2. \A j \in ResumesOf(b, e.t) : j <= Len(c) + 1
    BY <1>1 DEF ResumesOf
  <2>3. Resumer(b, e.t) = b[(Len(c) + 1) - 1].t
    BY <1>1, <2>1, <2>2, ResumerIs
  <2>4. (Len(c) + 1) - 1 = Len(c) /\ Len(c) \in 1 .. Len(c)
    BY <1>1
  <2> QED
    BY <1>1, <2>3, <2>4
<1>3. ASSUME NEW u, u # e.t PROVE Resumer(b, u) = Resumer(c, u)
  <2>1. ResumesOf(b, u) = ResumesOf(c, u)
    <3>1. ASSUME NEW i \in 1 .. Len(b), b[i].t = u PROVE i \in 1 .. Len(c)
      <4>1. i # Len(c) + 1
        BY <1>1, <1>3, <3>1
      <4> QED
        BY <1>1, <4>1
    <3> QED
      BY <1>1, <3>1 DEF ResumesOf
  <2>2. \A i \in ResumesOf(c, u) : b[i - 1].t = c[i - 1].t
    <3>1. \A i \in ResumesOf(c, u) : i # 1
      BY <1>1 DEF ResumesOf
    <3>2. \A i \in ResumesOf(c, u) : i - 1 \in 1 .. Len(c)
      BY <1>1, <3>1 DEF ResumesOf
    <3> QED
      BY <1>1, <3>2
  <2> QED
    BY <1>1, <2>1, <2>2, ResumerSame
<1> QED
  BY <1>2, <1>3 DEF b

\* The last entry of lua_resume, which is for t, is cut, with all above it.
LEMMA ResumerGone ==
  ASSUME NEW c \in Seq(EntryType), Stacked(c), NEW t, NEW j \in Own(c, t), c[j].a = "resume",
         \A i \in j + 1 .. Len(c) : c[i].a # "resume"
  PROVE  /\ Resumer(c, t) = c[j - 1].t
         /\ Resumer(SubSeq(c, 1, j - 1), t) = t
         /\ \A u : u # t => Resumer(SubSeq(c, 1, j - 1), u) = Resumer(c, u)
<1>1. /\ j \in 1 .. Len(c) /\ j - 1 \in 1 .. Len(c) - 1 /\ c[j].t = t
      /\ Own(SubSeq(c, 1, j - 1), t) = {}
  BY ResumeAt
<1>2. Len(c) \in Nat /\ j - 1 \in 0 .. Len(c)
  BY <1>1
<1>3. c # << >> => c[1].a # "resume"
  BY DEF Stacked, HostEntry
<1>4. Resumer(c, t) = c[j - 1].t
  <2>1. j \in ResumesOf(c, t)
    BY <1>1 DEF ResumesOf
  <2>2. \A i \in ResumesOf(c, t) : i <= j
    <3>1. ASSUME NEW i \in ResumesOf(c, t), ~(i <= j) PROVE FALSE
      <4>1. i \in j + 1 .. Len(c) /\ c[i].a = "resume"
        BY <1>1, <1>2, <3>1 DEF ResumesOf
      <4> QED
        BY <4>1
    <3> QED
      BY <3>1
  <2> QED
    BY <2>1, <2>2, ResumerIs
<1>5. Resumer(SubSeq(c, 1, j - 1), t) = t
  <2>1. ResumesOf(SubSeq(c, 1, j - 1), t) = {}
    BY <1>1 DEF ResumesOf, Own
  <2>2. SubSeq(c, 1, j - 1) \in Seq(EntryType)
    BY <1>2, PrefixElements
  <2> QED
    BY <2>1, <2>2, ResumerIs
<1>6. ASSUME NEW u, u # t PROVE Resumer(SubSeq(c, 1, j - 1), u) = Resumer(c, u)
  <2>1. ASSUME NEW i \in (j - 1) + 1 .. Len(c) PROVE ~(c[i].a = "resume" /\ c[i].t = u)
    <3>1. i = j \/ i \in j + 1 .. Len(c)
      BY <1>1, <1>2
    <3> QED
      BY <1>1, <1>6, <3>1
  <2> QED
    BY <1>2, <1>3, <2>1, ResumersCut
<1> QED
  BY <1>4, <1>5, <1>6

\* Nobody is resumed.
LEMMA ResumerNone ==
  ASSUME NEW c \in Seq(EntryType), \A i \in 1 .. Len(c) : c[i].a # "resume", NEW u
  PROVE  Resumer(c, u) = u
<1>1. ResumesOf(c, u) = {}
  BY DEF ResumesOf
<1> QED
  BY <1>1, ResumerIs

\* Above an entry of the thread that runs there are only others of its.
LEMMA RunsAbove ==
  ASSUME NEW c \in Seq(EntryType), Stacked(c), NEW t, c # << >>, t = c[Len(c)].t,
         NEW j \in Own(c, t)
  PROVE  /\ j \in 1 .. Len(c) /\ Len(c) \in Nat
         /\ \A i \in j .. Len(c) : c[i].t = t
         /\ \A i \in j + 1 .. Len(c) : c[i].a # "resume"
<1>1. j \in 1 .. Len(c) /\ Len(c) \in Nat /\ c[j].t = t /\ Len(c) \in j .. Len(c)
  BY DEF Own
<1>2. \A i \in j .. Len(c) : c[i].t = t
  BY <1>1 DEF Stacked, Together
<1>3. ASSUME NEW i \in j + 1 .. Len(c), c[i].a = "resume" PROVE FALSE
  <2>1. i \in 2 .. Len(c) /\ j \in 1 .. i - 1 /\ i \in j .. Len(c)
    BY <1>1
  <2>2. c[j].t # c[i].t
    BY <1>3, <2>1 DEF Stacked
  <2> QED
    BY <1>1, <1>2, <2>1, <2>2
<1> QED
  BY <1>1, <1>2, <1>3

\* Below an entry of the main thread there are only others of its.
LEMMA MainBelow ==
  ASSUME NEW c \in Seq(EntryType), Stacked(c), NEW j \in Own(c, Main)
  PROVE  /\ \A i \in 1 .. j : c[i].t = Main
         /\ \A i \in 1 .. j : c[i].a # "resume"
<1>1. j \in 1 .. Len(c) /\ Len(c) \in Nat /\ c[j].t = Main /\ c # << >>
  BY DEF Own
<1>2. c[1].t = Main /\ c[1].a = "pcall"
  BY <1>1 DEF Stacked, HostEntry
<1>3. \A i \in 1 .. j : c[i].t = Main
  <2>1. 1 \in 1 .. Len(c) /\ j \in 1 .. Len(c)
    BY <1>1
  <2> QED
    BY <1>1, <1>2, <2>1 DEF Stacked, Together
<1>4. ASSUME NEW i \in 1 .. j, c[i].a = "resume" PROVE FALSE
  <2>1. i # 1
    BY <1>2, <1>4
  <2>2. i \in 2 .. Len(c) /\ 1 \in 1 .. i - 1
    BY <1>1, <2>1
  <2>3. c[1].t # c[i].t
    BY <1>4, <2>2 DEF Stacked
  <2> QED
    BY <1>2, <1>3, <2>3
<1> QED
  BY <1>3, <1>4

-----------------------------------------------------------------------------
(* What a step changes, as a program sees it *)

\* The thread u is the same in m and w.
Seen(m, w, u) == Calls(w.th[u]) = Calls(m.th[u]) /\ Status(w.th[u]) = Status(m.th[u])

\* The calls of the thread that runs are s.
KeepsCalls(m, w, t, s) ==
  /\ t \in Threads /\ Running(m.cs) = t /\ Running(w.cs) = t
  /\ Calls(w.th[t]) = s
  /\ \A u \in Threads \ {t} : Seen(m, w, u)
  /\ \A u \in Threads : Resumer(w.cs, u) = Resumer(m.cs, u)

\* It stops with the status a and the calls s; r, which had resumed it, goes on.
LeavesCalls(m, w, t, r, a, s) ==
  /\ t \in Threads /\ r \in Threads /\ r # t /\ t # Main
  /\ Running(m.cs) = t /\ Running(w.cs) = r /\ Resumer(m.cs, t) = r
  /\ Calls(w.th[t]) = s /\ Status(w.th[t]) = a
  /\ Calls(w.th[r]) = SubSeq(Calls(m.th[r]), 1, Len(Calls(m.th[r])) - 1)
  /\ \A u \in Threads \ {t, r} : Seen(m, w, u)
  /\ Resumer(w.cs, t) = t
  /\ \A u \in Threads \ {t} : Resumer(w.cs, u) = Resumer(m.cs, u)

\* What an error leaves of the calls s.
ProtectedIn(s) == {i \in DOMAIN s : s[i] \in {"pcall", "xpcall"}}
CaughtIn(s) ==
  IF ProtectedIn(s) = {} THEN << >>
  ELSE SubSeq(s, 1, (CHOOSE i \in ProtectedIn(s) : \A j \in ProtectedIn(s) : j <= i) - 1)
ErrorSeen(m, w, t) ==
  LET s == Calls(m.th[t])
  IN IF ProtectedIn(s) # {} \/ t = Main THEN KeepsCalls(m, w, t, CaughtIn(s))
     ELSE \E r \in Threads : LeavesCalls(m, w, t, r, "dead", << >>)
MainRaised(m, w) ==
  /\ Running(w.cs) = Main /\ Calls(w.th[Main]) = CaughtIn(Calls(m.th[Main]))
  /\ \A u \in Threads \ {Main} : Seen(m, w, u)
  /\ \A u \in Threads : Resumer(w.cs, u) = u

\* The rest of the invariant: a protected call that yields may not cross has an entry
\* of luaD_pcall; only the thread that runs may be about to raise coroutine.wrap's
\* error again.
Unmarked(s, i) == s[i].f \in Guarding /\ ~s[i].k
Guarded(m) ==
  \A u \in Threads : Own(m.cs, u) # {} =>
    \A i \in 1 .. Len(m.th[u].ci) : Unmarked(m.th[u].ci, i) =>
      \E j \in Own(m.cs, u) : j > 1 /\ m.cs[j].a = "pcall" /\ m.cs[j].d = i
NoneFailed(s) == \A i \in 1 .. Len(s) : s[i].f # "failed"
Clean(m) == \A u \in Threads : NoneFailed(m.th[u].ci)
FailedLast(m) ==
  \A u \in Threads : \A i \in 1 .. Len(m.th[u].ci) :
    m.th[u].ci[i].f = "failed" => m.cs # << >> /\ u = Going(m) /\ i = Len(m.th[u].ci)
Safe(m) == Guarded(m) /\ FailedLast(m)

\* The calls, when no function of coroutine.wrap has failed.
LEMMA CallsClean ==
  ASSUME NEW s \in StateType, NoneFailed(s.ci)
  PROVE  Calls(s) = IF s.status = "error" THEN << >> ELSE Functions(s.ci)
<1>1. s.ci \in Seq(FrameType) /\ Len(s.ci) \in Nat
  BY DEF StateType
<1>2. CASE s.status = "error"
  BY <1>2 DEF Calls
<1>3. CASE s.status # "error"
  <2>1. s.ci # << >> => s.ci[Len(s.ci)].f # "failed"
    <3>1. s.ci # << >> => Len(s.ci) \in 1 .. Len(s.ci)
      BY <1>1
    <3> QED
      BY <3>1 DEF NoneFailed
  <2> QED
    BY <1>3, <2>1, CallsOf
<1> QED
  BY <1>2, <1>3

\* The protected calls that a program sees.
LEMMA GuardsSeen ==
  ASSUME NEW a \in Seq(FrameType)
  PROVE  ProtectedIn(Functions(a)) = {i \in 1 .. Len(a) : a[i].f \in Guarding}
<1>1. /\ DOMAIN Functions(a) = 1 .. Len(a)
      /\ \A i \in 1 .. Len(a) : Functions(a)[i] = IF a[i].f = "wrap" THEN "resume" ELSE a[i].f
  BY FunctionsOf
<1> QED
  BY <1>1 DEF ProtectedIn, Guarding

\* The innermost one is the n-th call.
LEMMA CaughtBy ==
  ASSUME NEW a \in Seq(FrameType), NEW n \in 1 .. Len(a), a[n].f \in Guarding,
         \A i \in n + 1 .. Len(a) : a[i].f \notin Guarding
  PROVE  /\ ProtectedIn(Functions(a)) # {}
         /\ CaughtIn(Functions(a)) = Functions(SubSeq(a, 1, n - 1))
<1> DEFINE p == ProtectedIn(Functions(a))
<1>1. p = {i \in 1 .. Len(a) : a[i].f \in Guarding}
  BY GuardsSeen
<1>2. n \in p /\ \A j \in p : j <= n /\ p \subseteq Int
  <2>1. ASSUME NEW j \in p, ~(j <= n) PROVE FALSE
    <3>1. j \in n + 1 .. Len(a)
      BY <1>1, <2>1
    <3> QED
      BY <1>1, <2>1, <3>1
  <2> QED
    BY <1>1, <2>1
<1> HIDE DEF p
<1>3. (CHOOSE i \in p : \A j \in p : j <= i) = n
  <2> DEFINE c == CHOOSE i \in p : \A j \in p : j <= i
  <2>1. c \in p /\ \A j \in p : j <= c
    BY <1>2, Zenon
  <2>2. p \subseteq Int
    BY <1>2
  <2> HIDE DEF c
  <2>3. c = n
    BY <1>2, <2>1, <2>2
  <2> QED
    BY <2>3 DEF c
<1>4. CaughtIn(Functions(a)) = SubSeq(Functions(a), 1, n - 1)
  BY <1>2, <1>3 DEF CaughtIn, p
<1>5. n - 1 \in 0 .. Len(a)
  OBVIOUS
<1> QED
  BY <1>2, <1>4, <1>5, FunctionsPrefix DEF p

\* Without one.
LEMMA CaughtByNone ==
  ASSUME NEW a \in Seq(FrameType), \A i \in 1 .. Len(a) : a[i].f \notin Guarding
  PROVE  ProtectedIn(Functions(a)) = {} /\ CaughtIn(Functions(a)) = << >>
BY GuardsSeen DEF CaughtIn

\* Protected calls keep their entries when others are cut.
LEMMA GuardedCut ==
  ASSUME NEW m, m.cs \in Seq(EntryType), NEW w, Guarded(m), NEW n \in 0 .. Len(m.cs),
         w.cs = SubSeq(m.cs, 1, n),
         \A u \in Threads : Own(w.cs, u) # {} =>
           \A i \in 1 .. Len(w.th[u].ci) : Unmarked(w.th[u].ci, i) =>
             /\ i \in 1 .. Len(m.th[u].ci) /\ Unmarked(m.th[u].ci, i)
             /\ \A j \in Own(m.cs, u) : j > n /\ m.cs[j].a = "pcall" => m.cs[j].d # i
  PROVE  Guarded(w)
<1>1. /\ Len(w.cs) = n /\ n \in Nat /\ Len(m.cs) \in Nat /\ n <= Len(m.cs)
      /\ \A i \in 1 .. n : w.cs[i] = m.cs[i]
  BY PrefixElements
<1>2. ASSUME NEW u \in Threads, Own(w.cs, u) # {}, NEW i \in 1 .. Len(w.th[u].ci),
             Unmarked(w.th[u].ci, i)
      PROVE  \E j \in Own(w.cs, u) : j > 1 /\ w.cs[j].a = "pcall" /\ w.cs[j].d = i
  <2>1. /\ i \in 1 .. Len(m.th[u].ci) /\ Unmarked(m.th[u].ci, i)
        /\ \A j \in Own(m.cs, u) : j > n /\ m.cs[j].a = "pcall" => m.cs[j].d # i
    BY <1>2
  <2>2. Own(m.cs, u) # {}
    BY <1>1, <1>2 DEF Own
  <2>3. PICK j \in Own(m.cs, u) : j > 1 /\ m.cs[j].a = "pcall" /\ m.cs[j].d = i
    BY <2>1, <2>2, Zenon DEF Guarded
  <2>4. j \in 1 .. n
    BY <1>1, <2>1, <2>3 DEF Own
  <2>5. j \in Own(w.cs, u) /\ w.cs[j] = m.cs[j]
    BY <1>1, <2>4 DEF Own
  <2> QED
    BY <2>3, <2>5
<1> QED
  BY <1>2, Zenon DEF Guarded

-----------------------------------------------------------------------------
(* lua_resume returns, luaD_throw *)

\* lua_resume returns to r: coroutine.resume returns, or coroutine.wrap is left to
\* raise the error again.
LEMMA ReturnsSeen ==
  ASSUME NEW w \in Machine, w.cs # << >>, NEW r \in Threads, r = Going(w),
         NEW s, s = w.th[r].ci, NEW n, n = Len(s), n > 0, w.th[r].status = "ok",
         NoneFailed(s), s[n].f \in {"resume", "wrap"}, NEW ok, NEW z, z = ResumeReturns(w, ok)
  PROVE  /\ z.cs = w.cs /\ \A u \in Threads \ {r} : z.th[u] = w.th[u]
         /\ Calls(z.th[r]) = SubSeq(Calls(w.th[r]), 1, Len(Calls(w.th[r])) - 1)
         /\ \A i \in 1 .. Len(z.th[r].ci) :
              /\ Unmarked(z.th[r].ci, i) => i \in 1 .. n /\ Unmarked(s, i)
              /\ z.th[r].ci[i].f = "failed" => i = Len(z.th[r].ci)
<1> DEFINE b == SubSeq(s, 1, n - 1)
           r1 == Popped(w.th[r], 1)
<1>1. /\ w.th[r] \in StateType /\ s \in Seq(FrameType) /\ n \in Nat /\ n \in 1 .. n
      /\ n - 1 \in 0 .. n /\ n - 1 \in Nat
  BY DEF Machine, StateType
<1>2. /\ b \in Seq(FrameType) /\ Len(b) = n - 1 /\ \A i \in 1 .. n - 1 : b[i] = s[i]
  BY <1>1, PrefixElements
<1>3. Calls(w.th[r]) = Functions(s) /\ Len(Functions(s)) = n
  <2>1. Calls(w.th[r]) = Functions(s)
    BY <1>1, CallsClean
  <2> QED
    BY <1>1, <2>1, FunctionsOf
<1>4. Functions(b) = SubSeq(Calls(w.th[r]), 1, Len(Calls(w.th[r])) - 1)
  <2>1. Functions(b) = SubSeq(Functions(s), 1, n - 1)
    BY <1>1, FunctionsPrefix
  <2> QED
    BY <1>3, <2>1
<1>5. NoneFailed(b)
  <2>1. \A i \in 1 .. n - 1 : i \in 1 .. n
    BY <1>1
  <2> QED
    BY <1>2, <2>1 DEF NoneFailed
<1> HIDE DEF b
<1>6. r1 \in StateType /\ r1.ci = b /\ r1.status = "ok"
  <2>1. r1 = [w.th[r] EXCEPT !.ci = b]
    BY DEF Popped, b
  <2> HIDE DEF r1
  <2> QED
    BY <1>1, <1>2, <2>1, Zenon DEF StateType
<1> HIDE DEF r1
<1>7. CASE ~(~ok /\ s[n].f = "wrap")
  <2>1. z = [w EXCEPT !.th[r] = r1]
    <3>1. Last(w.cs).t = r
      BY DEF Going, Last
    <3>2. ResumeReturns(w, ok) = [w EXCEPT !.th[r] = Popped(@, 1)]
      BY <1>7, <3>1, Zenon DEF ResumeReturns
    <3>3. [w EXCEPT !.th[r] = Popped(@, 1)] = [w EXCEPT !.th[r] = r1]
      BY DEF Machine, r1
    <3> QED
      BY <3>2, <3>3
  <2>2. z.th[r] = r1 /\ z.cs = w.cs /\ \A u \in Threads \ {r} : z.th[u] = w.th[u]
    BY ONLY <1>6, <2>1, ThreadSet, w \in Machine, r \in Threads
  <2>3. Calls(z.th[r]) = Functions(b)
    BY <1>5, <1>6, <2>2, CallsClean
  <2>4. ASSUME NEW i \in 1 .. Len(b)
        PROVE  (Unmarked(b, i) => i \in 1 .. n /\ Unmarked(s, i)) /\ b[i].f # "failed"
    <3>1. i \in 1 .. n - 1 /\ i \in 1 .. n /\ b[i] = s[i]
      BY <1>1, <1>2
    <3> QED
      BY <1>5, <3>1 DEF Unmarked, NoneFailed
  <2> QED
    BY <1>4, <1>6, <2>2, <2>3, <2>4, Zenon
<1>8. CASE ~ok /\ s[n].f = "wrap"
  <2> DEFINE g == [s[n] EXCEPT !.f = "failed"]
             a == Append(b, g)
             r2 == [w.th[r] EXCEPT !.ci = a]
  <2>1. s[n] \in FrameType /\ g \in FrameType /\ g.f = "failed"
    <3>1. s[n] \in FrameType /\ "failed" \in Names
      BY <1>1 DEF Names, Leaving
    <3> QED
      BY ONLY <3>1 DEF FrameType
  <2>2. [s EXCEPT ![n] = g] = a
    BY <1>1, <2>1, ReplaceTop DEF b
  <2>3. z = [w EXCEPT !.th[r] = r2]
    <3>1. Last(w.cs).t = r
      BY DEF Going, Last
    <3>2. ResumeReturns(w, ok) = [w EXCEPT !.th[r].ci[n].f = "failed"]
      BY <1>8, <3>1, Zenon DEF ResumeReturns
    <3> QED
      BY <1>1, <2>2, <3>2, Zenon DEF Machine, StateType
  <2> HIDE DEF g
  <2>4. /\ a \in Seq(FrameType) /\ Len(a) = n /\ a[n] = g /\ \A i \in 1 .. n - 1 : a[i] = s[i]
    <3>1. /\ a \in Seq(FrameType) /\ Len(a) = Len(b) + 1 /\ a[Len(b) + 1] = g
          /\ \A i \in 1 .. Len(b) : a[i] = b[i]
      BY <1>2, <2>1, AppendElements
    <3>2. (n - 1) + 1 = n
      BY <1>1
    <3> QED
      BY <1>2, <3>1, <3>2
  <2>5. SubSeq(a, 1, n - 1) = b
    <3>1. Len(b) = n - 1 /\ n - 1 \in Nat
      BY <1>1, <1>2
    <3> HIDE DEF a
    <3>2. /\ SubSeq(a, 1, n - 1) \in Seq(FrameType) /\ Len(SubSeq(a, 1, n - 1)) = n - 1
          /\ \A i \in 1 .. n - 1 : SubSeq(a, 1, n - 1)[i] = a[i]
      BY <1>1, <2>4, PrefixElements
    <3> QED
      BY <1>2, <2>4, <3>2, SameSeq
  <2> HIDE DEF a
  <2>6. r2 \in StateType /\ r2.ci = a /\ r2.status = "ok"
    BY <1>1, <2>4, Zenon DEF StateType
  <2> HIDE DEF r2
  <2>7. z.th[r] = r2 /\ z.cs = w.cs /\ \A u \in Threads \ {r} : z.th[u] = w.th[u]
    BY ONLY <2>6, <2>3, ThreadSet, w \in Machine, r \in Threads
  <2>8. Calls(z.th[r]) = Functions(b)
    <3>1. r2.ci # << >> /\ r2.ci[Len(r2.ci)].f = "failed" /\ r2.status # "error"
      <4>1. a # << >>
        BY <2>4
      <4> QED
        BY <2>1, <2>4, <2>6, <4>1
    <3>2. Calls(r2) = Functions(SubSeq(r2.ci, 1, Len(r2.ci) - 1))
      BY <2>6, <3>1, CallsOf
    <3> QED
      BY <2>4, <2>5, <2>6, <2>7, <3>2
  <2>9. ASSUME NEW i \in 1 .. Len(a)
        PROVE  (Unmarked(a, i) => i \in 1 .. n /\ Unmarked(s, i)) /\ (a[i].f = "failed" => i = Len(a))
    <3>1. i \in 1 .. n /\ (i = n \/ i \in 1 .. n - 1)
      BY <1>1, <2>4
    <3>2. CASE i = n
      BY <2>1, <2>4, <3>2 DEF Unmarked, Guarding
    <3>3. CASE i \in 1 .. n - 1
      BY <2>4, <3>1, <3>3 DEF Unmarked, NoneFailed
    <3> QED
      BY <3>1, <3>2, <3>3
  <2> QED
    BY <1>4, <2>6, <2>7, <2>8, <2>9, Zenon
<1> QED
  BY <1>7, <1>8

\* The protected calls of a thread, above its errorJmp: if that is luaD_pcall, the
\* one that made it is the innermost.
LEMMA GuardsAbove ==
  ASSUME NEW m, NEW q, NEW v, NEW t, NEW j, Throws(m, q, v, t, j), Guarded(m)
  PROVE  LET s == m.th[t].ci
         IN /\ m.cs[j].a = "resume" =>
                 \A i \in 1 .. Len(s) : s[i].f \in Guarding => s[i].k /\ s[i].yp
            /\ j = 1 => \A i \in 1 .. Len(s) : s[i].f \notin Guarding
            /\ j > 1 /\ m.cs[j].a = "pcall" =>
                 /\ m.cs[j].d \in 1 .. Len(s) /\ s[m.cs[j].d].f \in Guarding
                 /\ \A i \in m.cs[j].d + 1 .. Len(s) : s[i].f \notin Guarding
<1> DEFINE s == m.th[t].ci
           c == m.cs
<1>1. /\ c \in Seq(EntryType) /\ Len(c) \in Nat /\ j \in 1 .. Len(c) /\ c[j].t = t
      /\ s \in Seq(FrameType) /\ Len(s) \in Nat /\ Manned(c, s, q, t) /\ Framed(t, s)
      /\ Stacked(c) /\ c[1] = HostEntry
  BY ThrowsFacts DEF Sound
<1>2. /\ q \in Positions /\ t \in Threads /\ j \in Own(c, t) /\ c[j].a \in {"pcall", "resume"}
      /\ \A i \in Own(c, t) : i > j => c[i].a \notin {"pcall", "resume"}
  BY DEF Throws
<1>3. ASSUME NEW i \in 1 .. Len(s), Unmarked(s, i)
      PROVE  \E x \in Own(c, t) : x > 1 /\ x <= j /\ c[x].a = "pcall" /\ c[x].d = i
  <2>1. PICK x \in Own(c, t) : x > 1 /\ c[x].a = "pcall" /\ c[x].d = i
    BY <1>2, <1>3, Zenon DEF Guarded
  <2>2. ~(x > j)
    BY <1>2, <2>1
  <2>3. x \in Nat
    BY <1>1 DEF Own
  <2> QED
    BY <1>1, <2>1, <2>2, <2>3
<1>4. \A x \in Own(c, t) : Made(t, s, c[x], x, q[x]) /\ x \in 1 .. Len(c) /\ q[x] \in Nat
  BY <1>1, <1>2 DEF Manned, Linked, AllMade, Own, Positions
<1>5. \A x \in Own(c, t) : c[x].a \in Blocking => \A i \in q[x] .. Len(s) : ~s[i].k
  BY <1>1 DEF Manned, Linked, Stuck
<1> HIDE DEF c, s
<1>6. ASSUME c[j].a = "resume", NEW i \in 1 .. Len(s), s[i].f \in Guarding
      PROVE  s[i].k /\ s[i].yp
  <2>1. ASSUME ~s[i].k PROVE FALSE
    <3>1. PICK x \in Own(c, t) : x > 1 /\ x <= j /\ c[x].a = "pcall" /\ c[x].d = i
      BY <1>3, <1>6, <2>1 DEF Unmarked
    <3>2. x # j
      BY <1>6, <3>1
    <3>3. x \in 1 .. j - 1 /\ c[x].t = t
      BY <1>1, <3>1, <3>2 DEF Own
    <3>4. j \in 2 .. Len(c)
      BY <1>1, <3>2, <3>3
    <3>5. \A y \in 1 .. j - 1 : c[y].t # c[j].t
      BY <1>1, <1>6, <3>4 DEF Stacked
    <3> QED
      BY <1>1, <3>3, <3>5
  <2> QED
    BY <1>1, <1>6, <2>1 DEF Framed
<1>7. ASSUME j = 1, NEW i \in 1 .. Len(s), s[i].f \in Guarding
      PROVE  FALSE
  <2>1. q[1] = 1 /\ c[1].a \in Blocking
    BY <1>1, <1>2, <1>4, <1>7 DEF Made, HostEntry, Blocking
  <2>2. ~s[i].k
    <3>1. 1 \in Own(c, t) /\ i \in q[1] .. Len(s)
      BY <1>1, <1>2, <1>7, <2>1
    <3> QED
      BY <1>5, <2>1, <3>1
  <2>3. PICK x \in Own(c, t) : x > 1 /\ x <= j
    BY <1>3, <1>7, <2>2 DEF Unmarked
  <2> QED
    BY <1>4, <1>7, <2>3
<1>8. ASSUME j > 1, c[j].a = "pcall"
      PROVE  /\ c[j].d \in 1 .. Len(s) /\ s[c[j].d].f \in Guarding
             /\ \A i \in c[j].d + 1 .. Len(s) : s[i].f \notin Guarding
  <2> DEFINE d == c[j].d
  <2>1. q[j] \in Nat /\ q[j] > 2 /\ s[q[j] - 1].f \in Guarding /\ d = q[j] - 1
    BY <1>1, <1>2, <1>4, <1>8 DEF Made
  <2>2. q[j] <= Len(s) + 1
    <3>1. Entered(s, q[j]) \/ q[j] = Len(s) + 1
      BY <1>1, <1>2 DEF Manned, Linked, Placed
    <3> QED
      BY <1>1, <2>1, <3>1 DEF Entered
  <2>3. d \in 1 .. Len(s) /\ s[d].f \in Guarding
    BY <1>1, <2>1, <2>2
  <2>4. ASSUME NEW i \in d + 1 .. Len(s), s[i].f \in Guarding PROVE FALSE
    <3>1. i \in 1 .. Len(s) /\ i \in q[j] .. Len(s) /\ i > d
      BY <1>1, <2>1, <2>3
    <3>2. ~s[i].k
      BY <1>2, <1>5, <1>8, <3>1 DEF Blocking
    <3>3. PICK x \in Own(c, t) : x > 1 /\ x <= j /\ c[x].a = "pcall" /\ c[x].d = i
      BY <1>3, <2>4, <3>1, <3>2 DEF Unmarked
    <3>4. q[x] \in Nat /\ i = q[x] - 1
      BY <1>4, <3>3 DEF Made
    <3>5. x # j
      BY <3>1, <3>3
    <3>6. x < j
      BY <1>1, <1>4, <3>3, <3>5
    <3>7. q[x] <= q[j]
      <4>1. q[x] < q[j] \/ q[x] = q[j]
        BY <1>1, <1>2, <3>6 DEF Manned, Linked, Ordered
      <4> QED
        BY <2>1, <3>4, <4>1
    <3> QED
      BY <2>1, <3>1, <3>4, <3>7
  <2> QED
    BY <2>3, <2>4
<1> QED
  BY <1>6, <1>7, <1>8 DEF c, s

\* The other threads that are left have all their entries.
LEMMA OthersLeft ==
  ASSUME NEW m, NEW q, NEW v, NEW t, NEW j, Throws(m, q, v, t, j), t = Going(m) \/ t = Main,
         NEW n \in {j - 1, j}, NEW u \in Threads \ {t}, Own(SubSeq(m.cs, 1, n), u) # {},
         NEW k \in Own(m.cs, u)
  PROVE  k < j
<1> DEFINE c == m.cs
<1>1. /\ c \in Seq(EntryType) /\ Len(c) \in Nat /\ j \in 1 .. Len(c) /\ Stacked(c) /\ c # << >>
  BY ThrowsFacts
<1>2. j \in Own(c, t)
  BY DEF Throws
<1>3. k \in 1 .. Len(c) /\ c[k].t = u
  BY DEF Own
<1>4. CASE t = Going(m)
  <2>1. \A i \in j .. Len(c) : c[i].t = t
    BY <1>1, <1>2, <1>4, RunsAbove DEF Going
  <2>2. ~(k \in j .. Len(c))
    BY <1>3, <2>1
  <2> HIDE DEF c
  <2> QED
    BY <1>1, <1>3, <2>2
<1>5. CASE t = Main
  <2>1. \A i \in 1 .. j : c[i].t = Main
    BY <1>1, <1>2, <1>5, MainBelow
  <2>2. n \in 0 .. Len(c)
    BY <1>1
  <2>3. Len(SubSeq(c, 1, n)) = n /\ \A i \in 1 .. n : SubSeq(c, 1, n)[i] = c[i]
    BY <1>1, <2>2, PrefixElements
  <2>4. \A i \in 1 .. n : i \in 1 .. j
    BY <1>1
  <2> HIDE DEF c
  <2>5. \A i \in 1 .. Len(SubSeq(c, 1, n)) : SubSeq(c, 1, n)[i].t # u
    BY <1>5, <2>1, <2>3, <2>4
  <2> QED
    BY <2>5 DEF Own, c
<1> QED
  BY <1>4, <1>5

\* z has the first n entries and the first p calls of t.
ThrownTo(m, t, n, p, z) ==
  /\ z.cs = SubSeq(m.cs, 1, n) /\ z.th[t] \in StateType
  /\ z.th[t].status = "ok" /\ Len(z.th[t].ci) = p
  /\ \A i \in 1 .. p : z.th[t].ci[i].f = m.th[t].ci[i].f /\ z.th[t].ci[i].k = m.th[t].ci[i].k
  /\ \A u \in Threads \ {t} : z.th[u] = m.th[u]

\* What that keeps.
LEMMA ThrownSafe ==
  ASSUME NEW m, NEW q, NEW v, NEW t, NEW j, Throws(m, q, v, t, j), t = Going(m) \/ t = Main,
         Guarded(m), Clean(m), NEW n \in {j - 1, j}, NEW p \in 0 .. Len(m.th[t].ci), NEW z,
         ThrownTo(m, t, n, p, z),
         n = j - 1 /\ m.cs[j].a = "pcall" => p < m.cs[j].d \/ p = 0
  PROVE  /\ Guarded(z) /\ Clean(z) /\ \A u \in Threads \ {t} : Seen(m, z, u)
         /\ Calls(z.th[t]) = Functions(SubSeq(m.th[t].ci, 1, p))
<1> DEFINE c == m.cs
           s == m.th[t].ci
<1>1. /\ c \in Seq(EntryType) /\ Len(c) \in Nat /\ j \in 1 .. Len(c) /\ c[j] \in EntryType
      /\ s \in Seq(FrameType) /\ Len(s) \in Nat /\ m.th[t] \in StateType
  BY ThrowsFacts
<1>2. /\ t \in Threads /\ \A i \in Own(c, t) : i > j => c[i].a \notin {"pcall", "resume"}
  BY DEF Throws
<1>3. /\ z.cs = SubSeq(c, 1, n) /\ z.th[t] \in StateType
      /\ z.th[t].status = "ok" /\ Len(z.th[t].ci) = p
      /\ \A i \in 1 .. p : z.th[t].ci[i].f = s[i].f /\ z.th[t].ci[i].k = s[i].k
      /\ \A u \in Threads \ {t} : z.th[u] = m.th[u]
  BY DEF ThrownTo
<1>4. /\ n \in 0 .. Len(c) /\ n \in Nat /\ p \in Nat /\ \A i \in 1 .. p : i \in 1 .. Len(s)
  BY <1>1
<1>5. Guarded(z)
  <2>1. ASSUME NEW u \in Threads, Own(z.cs, u) # {}, NEW i \in 1 .. Len(z.th[u].ci),
               Unmarked(z.th[u].ci, i)
        PROVE  /\ i \in 1 .. Len(m.th[u].ci) /\ Unmarked(m.th[u].ci, i)
               /\ \A k \in Own(m.cs, u) : k > n /\ m.cs[k].a = "pcall" => m.cs[k].d # i
    <3>1. CASE u # t
      <4>1. z.th[u] = m.th[u]
        BY <1>3, <3>1
      <4>2. \A k \in Own(m.cs, u) : k < j
        BY <1>3, <2>1, <3>1, OthersLeft
      <4>3. \A k \in Own(m.cs, u) : ~(k > n)
        <5>1. \A k \in Own(m.cs, u) : k \in Nat
          BY DEF Own
        <5> QED
          BY <1>1, <4>2, <5>1
      <4> QED
        BY <2>1, <4>1, <4>3, Zenon
    <3>2. CASE u = t
      <4>1. i \in 1 .. p
        BY <1>3, <2>1, <3>2
      <4>2. i \in 1 .. Len(s) /\ Unmarked(s, i)
        BY <1>3, <1>4, <2>1, <3>2, <4>1 DEF Unmarked
      <4>3. ASSUME NEW k \in Own(c, t), k > n, c[k].a = "pcall" PROVE c[k].d # i
        <5>1. ~(k > j)
          BY <1>2, <4>3
        <5>2. k \in Nat
          BY DEF Own
        <5>3. k = j /\ n = j - 1
          BY <1>1, <4>3, <5>1, <5>2
        <5>4. p < c[j].d \/ p = 0
          BY <4>3, <5>3
        <5>5. c[j].d \in Nat
          BY <1>1 DEF EntryType
        <5> HIDE DEF c
        <5> QED
          BY <1>4, <4>1, <5>3, <5>4, <5>5
      <4> QED
        BY <3>2, <4>2, <4>3
    <3> QED
      BY <3>1, <3>2
  <2> QED
    BY <1>1, <1>3, <1>4, <2>1, GuardedCut
<1>6. NoneFailed(z.th[t].ci) /\ NoneFailed(s)
  <2>1. NoneFailed(s)
    BY <1>2 DEF Clean
  <2> QED
    BY <1>3, <1>4, <2>1 DEF NoneFailed
<1>7. Clean(z)
  <2>1. \A u \in Threads \ {t} : NoneFailed(z.th[u].ci)
    BY <1>3 DEF Clean
  <2> QED
    BY <1>6, <2>1 DEF Clean
<1>8. \A u \in Threads \ {t} : Seen(m, z, u)
  BY <1>3 DEF Seen
<1>9. Calls(z.th[t]) = Functions(SubSeq(s, 1, p))
  <2> DEFINE b == SubSeq(s, 1, p)
  <2>1. Len(b) = p /\ \A i \in 1 .. p : b[i] = s[i]
    BY <1>1, PrefixElements
  <2>2. Calls(z.th[t]) = Functions(z.th[t].ci)
    BY <1>3, <1>6, CallsClean
  <2> HIDE DEF b
  <2> DEFINE d == z.th[t].ci
  <2>4. Len(d) = p /\ \A i \in 1 .. p : d[i].f = b[i].f
    BY <1>3, <2>1
  <2> HIDE DEF d
  <2>3. Functions(d) = Functions(b)
    <3>1. Len(d) = Len(b) /\ \A i \in 1 .. Len(d) : d[i].f = b[i].f
      BY <2>1, <2>4
    <3> QED
      BY ONLY <3>1, FunctionsSame
  <2> QED
    BY <2>2, <2>3 DEF b, d
<1> QED
  BY <1>5, <1>7, <1>8, <1>9

\* The calls of a thread that has an error.
LEMMA ThrowsCalls ==
  ASSUME NEW m, NEW q, NEW v, NEW t, NEW j, Throws(m, q, v, t, j), Clean(m)
  PROVE  Calls(m.th[t]) = Functions(m.th[t].ci)
<1>1. m.th[t] \in StateType /\ m.th[t].status = "ok" /\ t \in Threads
  BY ThrowsFacts DEF Sound, Throws
<1>2. NoneFailed(m.th[t].ci)
  BY <1>1 DEF Clean
<1> QED
  BY <1>1, <1>2, CallsClean

\* luaD_pcall catches it.
LEMMA ThrowPcallSeen ==
  ASSUME NEW m, NEW q, NEW v, NEW t, NEW j, Throws(m, q, v, t, j), t = Going(m) \/ t = Main,
         Guarded(m), Clean(m), m.cs[j].a = "pcall", NEW z, z = Throw(m, t)
  PROVE  /\ Guarded(z) /\ Clean(z) /\ \A u \in Threads \ {t} : Seen(m, z, u)
         /\ Calls(z.th[t]) = CaughtIn(Calls(m.th[t]))
         /\ z.cs = SubSeq(m.cs, 1, j - 1) /\ Running(z.cs) = t
         /\ t # Main => ProtectedIn(Calls(m.th[t])) # {}
<1> DEFINE s == m.th[t]
           e == m.cs[j]
           p == IF j = 1 THEN 0 ELSE e.d - 1
           a == SubSeq(s.ci, 1, p)
           l == m.lost \cup CutFrom(m, t, j)
           r == [s EXCEPT !.ci = a, !.nny = e.nny, !.errfunc = e.errfunc, !.nC = e.nC]
           c == SubSeq(m.cs, 1, j - 1)
           w == [[m EXCEPT !.lost = l] EXCEPT !.th[t] = r, !.cs = c]
<1>1. /\ m.cs \in Seq(EntryType) /\ Len(m.cs) \in Nat /\ j \in 1 .. Len(m.cs) /\ e.t = t
      /\ e \in EntryType /\ s \in StateType /\ s.ci \in Seq(FrameType) /\ Len(s.ci) \in Nat
      /\ Stacked(m.cs) /\ m.cs[1] = HostEntry /\ s.status = "ok"
  BY ThrowsFacts DEF Sound
<1>2. m \in Machine /\ t \in Threads /\ j = ErrorJmp(m, t)
  BY DEF Throws
<1>3. /\ j = 1 => \A i \in 1 .. Len(s.ci) : s.ci[i].f \notin Guarding
      /\ j > 1 => /\ e.d \in 1 .. Len(s.ci) /\ s.ci[e.d].f \in Guarding
                  /\ \A i \in e.d + 1 .. Len(s.ci) : s.ci[i].f \notin Guarding
  BY GuardsAbove
<1>4. j = 1 => e.d = 0 /\ t = Main
  BY <1>1 DEF HostEntry
<1>5. /\ p \in 0 .. Len(s.ci) /\ (j = 1 => p = 0) /\ (j > 1 => e.d # 0 /\ p = e.d - 1)
  <2> HIDE DEF s, e
  <2> QED
    BY <1>1, <1>3
<1>6. /\ a \in Seq(FrameType) /\ Len(a) = p /\ \A i \in 1 .. p : a[i] = s.ci[i]
  <2> HIDE DEF p, s
  <2> QED
    BY <1>1, <1>5, PrefixElements
<1>7. z = w
  <2> DEFINE s1 == [s EXCEPT !.ci = SubSeq(@, 1, e.d), !.nny = e.nny, !.errfunc = e.errfunc,
                             !.nC = e.nC]
  <2>1. z = [[m EXCEPT !.lost = l] EXCEPT !.th[t] = IF e.d = 0 THEN s1 ELSE Popped(s1, 1),
                                          !.cs = SubSeq(@, 1, j - 1)]
    <3>1. e.a = "pcall" /\ j = ErrorJmp(m, t)
      BY <1>2
    <3> HIDE DEF s
    <3> QED
      BY <3>1 DEF Throw, CutFrom, s, e
  <2>2. (IF e.d = 0 THEN s1 ELSE Popped(s1, 1)) = r
    <3>1. CASE j = 1
      <4>1. s1 = r
        BY <1>4, <3>1
      <4> QED
        BY <1>4, <3>1, <4>1
    <3>2. CASE j # 1
      <4>1. j > 1 /\ e.d # 0 /\ p = e.d - 1 /\ e.d \in 1 .. Len(s.ci)
        BY <1>1, <1>3, <1>5, <3>2
      <4>2. s1.ci = SubSeq(s.ci, 1, e.d)
        BY <1>1, Zenon DEF StateType
      <4>3. Len(SubSeq(s.ci, 1, e.d)) = e.d
        <5>1. e.d \in 0 .. Len(s.ci)
          BY <4>1
        <5> QED
          BY <1>1, <5>1, PrefixElements
      <4>4. SubSeq(SubSeq(s.ci, 1, e.d), 1, p) = a
        <5>1. e.d \in 0 .. Len(s.ci) /\ p \in 0 .. e.d
          BY <4>1
        <5> HIDE DEF p
        <5> QED
          BY <1>1, <5>1, PrefixTwice
      <4>5. Popped(s1, 1) = [s1 EXCEPT !.ci = a]
        BY <4>1, <4>2, <4>3, <4>4, Zenon DEF Popped
      <4>6. [s1 EXCEPT !.ci = a] = r
        BY <1>1, Zenon DEF StateType
      <4> QED
        BY <4>1, <4>5, <4>6
    <3> QED
      BY <3>1, <3>2
  <2> HIDE DEF s, r, l, s1
  <2> QED
    BY <2>1, <2>2, Zenon
<1> HIDE DEF a
<1>8. r \in StateType /\ r.ci = a /\ r.status = "ok"
  <2>1. e.nny \in Int /\ e.errfunc \in Int /\ e.nC \in Int
    BY <1>1 DEF EntryType
  <2> HIDE DEF s
  <2> QED
    BY <1>1, <1>6, <2>1, Zenon DEF StateType
<1> HIDE DEF r
<1>9. z.cs = c /\ z.th[t] = r /\ \A u \in Threads \ {t} : z.th[u] = m.th[u]
  <2> HIDE DEF l
  <2> QED
    BY <1>2, <1>7, Zenon DEF Machine
<1>10. ThrownTo(m, t, j - 1, p, z)
  <2> HIDE DEF p
  <2> QED
    BY <1>6, <1>8, <1>9 DEF ThrownTo
<1>11. /\ Guarded(z) /\ Clean(z) /\ \A u \in Threads \ {t} : Seen(m, z, u)
       /\ Calls(z.th[t]) = Functions(a)
  <2>1. p < m.cs[j].d \/ p = 0
    <3>1. j > 1 \/ j = 1
      BY <1>1
    <3>2. e.d \in Nat
      BY <1>1 DEF EntryType
    <3> HIDE DEF p
    <3> QED
      BY <1>5, <3>1, <3>2
  <2> HIDE DEF p
  <2> QED
    BY <1>5, <1>10, <2>1, ThrownSafe DEF a
<1>12. Calls(m.th[t]) = Functions(s.ci)
  BY ThrowsCalls
<1>13. Running(z.cs) = t
  <2>1. CASE j = 1
    <3>1. c = << >>
      BY <1>1, <2>1
    <3> QED
      BY <1>4, <1>9, <2>1, <3>1 DEF Running
  <2>2. CASE j # 1
    <3>1. j \in 2 .. Len(m.cs) /\ j - 1 \in 0 .. Len(m.cs) /\ j - 1 \in 1 .. j - 1
      BY <1>1, <2>2
    <3>2. Len(c) = j - 1 /\ c[j - 1] = m.cs[j - 1]
      BY <1>1, <3>1, PrefixElements
    <3>3. c # << >> /\ Last(c) = m.cs[j - 1]
      <4>1. c # << >>
        BY <3>1, <3>2
      <4> QED
        BY <3>2, <4>1 DEF Last
    <3>4. m.cs[j - 1].t = t
      BY <1>1, <3>1 DEF Stacked
    <3> QED
      BY <1>9, <3>3, <3>4 DEF Running
  <2> QED
    BY <2>1, <2>2
<1>14. CASE j = 1
  <2>1. CaughtIn(Functions(s.ci)) = << >>
    BY <1>1, <1>3, <1>14, CaughtByNone
  <2>2. Functions(a) = << >>
    <3>1. a = << >>
      BY <1>5, <1>6, <1>14
    <3> QED
      BY <1>6, <3>1, FunctionsOf
  <2> QED
    BY <1>4, <1>9, <1>11, <1>12, <1>13, <1>14, <2>1, <2>2
<1>15. CASE j # 1
  <2>1. j > 1
    BY <1>1, <1>15
  <2>2. /\ ProtectedIn(Functions(s.ci)) # {}
        /\ CaughtIn(Functions(s.ci)) = Functions(SubSeq(s.ci, 1, e.d - 1))
    <3> HIDE DEF s, e
    <3> QED
      BY <1>1, <1>3, <2>1, CaughtBy
  <2>3. SubSeq(s.ci, 1, e.d - 1) = a
    BY <1>5, <2>1 DEF a
  <2> QED
    BY <1>9, <1>11, <1>12, <1>13, <2>2, <2>3
<1> QED
  BY <1>14, <1>15

\* lua_resume of t returns: what is left below its entry, w, but for the thread that
\* had resumed t.
ReturnsFrom(m, q, v, t, j, w) ==
  /\ m \in Machine /\ q \in Positions /\ v \in Positions /\ Base(m, q, v)
  /\ m.cs # << >> /\ t = Going(m) /\ Guarded(m) /\ Clean(m)
  /\ j \in Own(m.cs, t) /\ m.cs[j].a = "resume"
  /\ w \in Machine /\ w.cs = SubSeq(m.cs, 1, j - 1) /\ NoneFailed(w.th[t].ci)
  /\ \A u \in Threads \ {t} : w.th[u] = m.th[u]

\* That thread goes on.
LEMMA LeavesSeen ==
  ASSUME NEW m, NEW q, NEW v, NEW t, NEW j, NEW w, ReturnsFrom(m, q, v, t, j, w), NEW ok,
         NEW z, z = ResumeReturns(w, ok)
  PROVE  /\ t # Main /\ Safe(z)
         /\ \E r \in Threads : LeavesCalls(m, z, t, r, Status(w.th[t]), Calls(w.th[t]))
<1> DEFINE c == m.cs
           b == SubSeq(c, 1, j - 1)
           r == c[j - 1].t
           s == m.th[r].ci
           n == Len(s)
<1>1. /\ m \in Machine /\ q \in Positions /\ v \in Positions /\ Base(m, q, v)
      /\ c # << >> /\ t = Going(m) /\ Guarded(m) /\ Clean(m)
      /\ j \in Own(c, t) /\ c[j].a = "resume"
      /\ w \in Machine /\ w.cs = b /\ NoneFailed(w.th[t].ci)
      /\ \A u \in Threads \ {t} : w.th[u] = m.th[u]
  BY DEF ReturnsFrom
<1>2. c \in Seq(EntryType) /\ Stacked(c) /\ Len(c) \in Nat /\ t \in Threads
  BY <1>1, Here
<1>3. /\ j \in 1 .. Len(c) /\ j - 1 \in 1 .. Len(c) - 1 /\ c[j].t = t /\ t # Main
      /\ r \in Threads /\ r # t /\ Own(b, t) = {}
  BY <1>1, <1>2, ResumeAt
<1>4. /\ \A i \in j .. Len(c) : c[i].t = t
      /\ \A i \in j + 1 .. Len(c) : c[i].a # "resume"
  <2>1. t = c[Len(c)].t
    BY <1>1 DEF Going
  <2> QED
    BY <1>1, <1>2, <2>1, RunsAbove
<1>5. j - 1 \in Nat /\ j - 1 \in 0 .. Len(c) /\ j - 1 \in 1 .. j - 1 /\ j - 1 \in 1 .. Len(c)
  BY <1>2, <1>3
<1>6. /\ Len(b) = j - 1 /\ b \in Seq(EntryType) /\ b[j - 1] = c[j - 1] /\ b # << >>
      /\ \A i \in 1 .. j - 1 : b[i] = c[i]
  <2>1. /\ Len(b) = j - 1 /\ b \in Seq(EntryType) /\ \A i \in 1 .. j - 1 : b[i] = c[i]
    BY <1>2, <1>5, PrefixElements
  <2> HIDE DEF b
  <2> QED
    BY <1>5, <2>1
<1>7. /\ s \in Seq(FrameType) /\ m.th[r] \in StateType /\ m.th[r].status = "ok" /\ n > 0
      /\ s[n].f \in {"resume", "wrap"} /\ NoneFailed(s)
  <2>1. j - 1 \in Own(c, r) /\ \A k \in Own(c, r) : k <= j - 1
    <3>1. ASSUME NEW k \in Own(c, r), ~(k <= j - 1) PROVE FALSE
      <4>1. k \in j .. Len(c) /\ c[k].t = r
        BY <1>3, <3>1 DEF Own
      <4> QED
        BY <1>3, <1>4, <4>1
    <3> QED
      BY <1>5, <3>1 DEF Own
  <2>2. Busy(m, q, v, r)
    BY <1>1, <1>3, <2>1 DEF Base, Fits
  <2>3. Sound(r, m.th[r]) /\ Counted(m.cs, v, r, m.th[r])
    BY <2>2 DEF Busy
  <2>4. j - 1 < Len(c)
    BY <1>3
  <2>5. s[n].f \in {"resume", "wrap"}
    BY <2>1, <2>3, <2>4 DEF Counted
  <2>6. m.th[r] \in StateType
    BY <1>1, <1>3 DEF Machine
  <2>7. m.th[r].status = "ok" /\ s # << >>
    BY <2>3 DEF Sound, Framed
  <2>8. s \in Seq(FrameType)
    BY <2>6 DEF StateType
  <2>9. NoneFailed(s)
    BY <1>1, <1>3 DEF Clean
  <2> HIDE DEF s
  <2> QED
    BY <2>5, <2>6, <2>7, <2>8, <2>9
<1>8. w.th[r] = m.th[r] /\ Going(w) = r
  BY <1>1, <1>3, <1>6 DEF Going
<1>9. /\ z.cs = b /\ \A u \in Threads \ {r} : z.th[u] = w.th[u]
      /\ Calls(z.th[r]) = SubSeq(Calls(m.th[r]), 1, Len(Calls(m.th[r])) - 1)
      /\ \A i \in 1 .. Len(z.th[r].ci) :
           /\ Unmarked(z.th[r].ci, i) => i \in 1 .. n /\ Unmarked(s, i)
           /\ z.th[r].ci[i].f = "failed" => i = Len(z.th[r].ci)
  <2>1. /\ w \in Machine /\ w.cs # << >> /\ r \in Threads /\ r = Going(w)
        /\ s = w.th[r].ci /\ n = Len(s) /\ n > 0 /\ w.th[r].status = "ok"
        /\ NoneFailed(s) /\ s[n].f \in {"resume", "wrap"} /\ z = ResumeReturns(w, ok)
    BY <1>1, <1>3, <1>6, <1>7, <1>8
  <2> HIDE DEF s, n, r, b
  <2>2. /\ z.cs = w.cs /\ \A u \in Threads \ {r} : z.th[u] = w.th[u]
        /\ Calls(z.th[r]) = SubSeq(Calls(w.th[r]), 1, Len(Calls(w.th[r])) - 1)
        /\ \A i \in 1 .. Len(z.th[r].ci) :
             /\ Unmarked(z.th[r].ci, i) => i \in 1 .. n /\ Unmarked(s, i)
             /\ z.th[r].ci[i].f = "failed" => i = Len(z.th[r].ci)
    BY ONLY <2>1, ReturnsSeen
  <2> QED
    BY <1>1, <1>8, <2>2
<1> HIDE DEF b
<1>10. Guarded(z)
  <2>1. ASSUME NEW u \in Threads, Own(z.cs, u) # {}, NEW i \in 1 .. Len(z.th[u].ci),
               Unmarked(z.th[u].ci, i)
        PROVE  /\ i \in 1 .. Len(m.th[u].ci) /\ Unmarked(m.th[u].ci, i)
               /\ \A k \in Own(m.cs, u) : k > j - 1 /\ m.cs[k].a = "pcall" => m.cs[k].d # i
    <3>1. u # t
      BY <1>3, <1>9, <2>1
    <3>2. \A k \in Own(m.cs, u) : ~(k > j - 1)
      <4>1. ASSUME NEW k \in Own(m.cs, u), k > j - 1 PROVE FALSE
        <5>1. k \in j .. Len(c) /\ c[k].t = u
          BY <1>3, <4>1 DEF Own
        <5> QED
          BY <1>4, <3>1, <5>1
      <4> QED
        BY <4>1
    <3>3. i \in 1 .. Len(m.th[u].ci) /\ Unmarked(m.th[u].ci, i)
      <4>1. CASE u = r
        BY <1>9, <2>1, <4>1
      <4>2. CASE u # r
        <5>1. z.th[u] = m.th[u]
          BY <1>1, <1>9, <3>1, <4>2
        <5> QED
          BY <2>1, <5>1
      <4> QED
        BY <4>1, <4>2
    <3> QED
      BY <3>2, <3>3
  <2>2. z.cs = SubSeq(m.cs, 1, j - 1)
    BY <1>9 DEF b
  <2> QED
    BY <1>1, <1>2, <1>5, <2>1, <2>2, GuardedCut
<1>11. FailedLast(z)
  <2>1. z.cs # << >> /\ Going(z) = r
    BY <1>6, <1>9 DEF Going
  <2>2. ASSUME NEW u \in Threads, NEW i \in 1 .. Len(z.th[u].ci), z.th[u].ci[i].f = "failed"
        PROVE  u = r /\ i = Len(z.th[u].ci)
    <3>1. CASE u = r
      BY <1>9, <2>2, <3>1
    <3>2. CASE u = t
      <4>1. z.th[t] = w.th[t]
        BY <1>2, <1>3, <1>9
      <4> QED
        BY <1>1, <2>2, <3>2, <4>1 DEF NoneFailed
    <3>3. CASE u # t /\ u # r
      <4>1. z.th[u] = m.th[u]
        BY <1>1, <1>9, <3>3
      <4> QED
        BY <1>1, <2>2, <4>1 DEF Clean, NoneFailed
    <3> QED
      BY <3>1, <3>2, <3>3
  <2> QED
    BY <2>1, <2>2 DEF FailedLast
<1>12. LeavesCalls(m, z, t, r, Status(w.th[t]), Calls(w.th[t]))
  <2>1. Running(m.cs) = t /\ Running(z.cs) = r
    BY <1>1, <1>6, <1>9 DEF Running, Going, Last
  <2>2. z.th[t] = w.th[t]
    BY <1>2, <1>3, <1>9
  <2>3. \A u \in Threads \ {t, r} : Seen(m, z, u)
    BY <1>1, <1>9 DEF Seen
  <2>4. /\ Resumer(c, t) = r /\ Resumer(b, t) = t
        /\ \A u : u # t => Resumer(b, u) = Resumer(c, u)
    BY <1>1, <1>2, <1>4, ResumerGone DEF b
  <2> QED
    BY <1>2, <1>3, <1>9, <2>1, <2>2, <2>3, <2>4, Zenon DEF LeavesCalls
<1> QED
  BY <1>3, <1>10, <1>11, <1>12 DEF Safe

\* The coroutine dies.
LEMMA ThrowDiesSeen ==
  ASSUME NEW m, NEW q, NEW v, NEW t, NEW j, Throws(m, q, v, t, j), m.cs # << >>, t = Going(m),
         Guarded(m), Clean(m), m.cs[j].a = "resume", RecoverPoints(m.th[t]) = {},
         NEW z, z = Throw(m, t)
  PROVE  /\ Safe(z) /\ t # Main /\ ProtectedIn(Calls(m.th[t])) = {}
         /\ \E r \in Threads : LeavesCalls(m, z, t, r, "dead", << >>)
<1> DEFINE s == m.th[t]
           e == m.cs[j]
           l == m.lost \cup CutFrom(m, t, j)
           r == [s EXCEPT !.status = "error", !.nny = e.nny, !.nC = e.nC - 1]
           c == SubSeq(m.cs, 1, j - 1)
           w == [[m EXCEPT !.lost = l] EXCEPT !.th[t] = r, !.cs = c]
<1>1. /\ m \in Machine /\ q \in Positions /\ v \in Positions /\ t \in Threads
      /\ m.cs \in Seq(EntryType) /\ Len(m.cs) \in Nat
      /\ s \in StateType /\ s.ci \in Seq(FrameType) /\ m.lost \subseteq Threads
      /\ j = ErrorJmp(m, t) /\ e \in EntryType
      /\ Base(m, q, v) /\ j \in Own(m.cs, t) /\ Stacked(m.cs)
  <2>1. /\ m.cs \in Seq(EntryType) /\ Len(m.cs) \in Nat /\ m.lost \subseteq Threads
        /\ m.cs[j] \in EntryType /\ m.th[t] \in StateType /\ m.th[t].ci \in Seq(FrameType)
        /\ Stacked(m.cs)
    BY ThrowsFacts
  <2>2. /\ m \in Machine /\ q \in Positions /\ v \in Positions /\ t \in Threads
        /\ j = ErrorJmp(m, t) /\ Base(m, q, v) /\ j \in Own(m.cs, t)
    BY DEF Throws
  <2> QED
    BY <2>1, <2>2
<1>2. j - 1 \in 1 .. Len(m.cs) - 1 /\ j - 1 \in 0 .. Len(m.cs)
  <2>1. j - 1 \in 1 .. Len(m.cs) - 1
    BY <1>1, ResumeAt
  <2> QED
    BY <1>1, <2>1
<1>3. z = ResumeReturns(w, FALSE)
  <2>1. e.a # "pcall" /\ j = ErrorJmp(m, t) /\ RecoverPoints(s) = {}
    BY <1>1
  <2> HIDE DEF s, e
  <2> QED
    BY <2>1, Zenon DEF Throw, CutFrom, s, e
<1>4. r \in StateType /\ r.status = "error" /\ r.ci = s.ci
  <2>1. e.nny \in Int /\ e.nC - 1 \in Int
    BY <1>1 DEF EntryType
  <2> HIDE DEF s, e
  <2> QED
    BY <1>1, <2>1, Zenon DEF StateType
<1> HIDE DEF r
<1>5. l \subseteq Threads
  BY <1>1, CutFromThreads
<1>6. /\ w \in Machine /\ w.th[t] = r /\ w.cs = c
      /\ \A u \in Threads \ {t} : w.th[u] = m.th[u]
  <2>1. /\ c \in Seq(EntryType) /\ m \in Machine /\ t \in Threads
        /\ w = [[m EXCEPT !.lost = l] EXCEPT !.th[t] = r, !.cs = c]
    BY <1>1, <1>2, PrefixElements
  <2> HIDE DEF w, r, l, c
  <2> QED
    BY ONLY <1>4, <1>5, <2>1, Zenon DEF Machine
<1> HIDE DEF w
<1>7. NoneFailed(s.ci)
  BY <1>1 DEF Clean
<1>8. ReturnsFrom(m, q, v, t, j, w)
  BY <1>1, <1>4, <1>6, <1>7 DEF ReturnsFrom
<1>9. Status(r) = "dead" /\ Calls(r) = << >>
  BY <1>4 DEF Status, Calls
<1>10. ProtectedIn(Calls(s)) = {}
  <2>1. \A i \in 1 .. Len(s.ci) : s.ci[i].f \in Guarding => s.ci[i].yp
    BY GuardsAbove
  <2>2. DOMAIN s.ci = 1 .. Len(s.ci)
    BY <1>1
  <2>3. \A i \in 1 .. Len(s.ci) : ~s.ci[i].yp
    BY <2>2 DEF RecoverPoints
  <2>4. Calls(s) = Functions(s.ci)
    BY ThrowsCalls
  <2>5. \A i \in 1 .. Len(s.ci) : s.ci[i].f \notin Guarding
    BY <2>1, <2>3
  <2> HIDE DEF s
  <2> QED
    BY <1>1, <2>4, <2>5, CaughtByNone
<1>11. /\ t # Main /\ Safe(z)
       /\ \E x \in Threads : LeavesCalls(m, z, t, x, Status(w.th[t]), Calls(w.th[t]))
  BY <1>3, <1>8, LeavesSeen, Zenon
<1> QED
  BY <1>6, <1>9, <1>10, <1>11

-----------------------------------------------------------------------------
(* lua_resume goes on, as a program sees it *)

\* z is w when the i-th call of t, a Lua function, goes on.
UnrolledTo(w, t, i, z) ==
  /\ w \in Machine /\ t \in Threads /\ w.th[t].status = "ok" /\ GoesOn(t, w.th[t], i)
  /\ z = Unroll(w, t)
GoneOn(w, t, i, z) ==
  /\ z.cs = w.cs /\ \A u \in Threads \ {t} : z.th[u] = w.th[u]
  /\ z.th[t] \in StateType /\ z.th[t].status = "ok" /\ Len(z.th[t].ci) = i
  /\ i \in 1 .. Len(w.th[t].ci)
  /\ \A x \in 1 .. i : /\ z.th[t].ci[x].f = w.th[t].ci[x].f
                       /\ z.th[t].ci[x].k = w.th[t].ci[x].k

\* That function is on top.
LEMMA UnrollKeeps ==
  ASSUME NEW w, NEW t, NEW i, NEW z, UnrolledTo(w, t, i, z)
  PROVE  GoneOn(w, t, i, z)
<1> DEFINE s == w.th[t]
           h == IF i < Len(s.ci) /\ s.ci[Len(s.ci)].yp THEN s.ci[Len(s.ci)].old ELSE s.errfunc
           b == SubSeq(s.ci, 1, i)
           g == [b[i] EXCEPT !.fresh = TRUE]
           a == [b EXCEPT ![i] = g]
           r == [s EXCEPT !.ci = a, !.errfunc = h]
           w2 == [w EXCEPT !.th[t] = r]
<1>0. w \in Machine /\ t \in Threads /\ s.status = "ok" /\ GoesOn(t, s, i) /\ z = Unroll(w, t)
  BY DEF UnrolledTo
<1>1. s \in StateType /\ s.ci \in Seq(FrameType) /\ Len(s.ci) \in Nat /\ s.status = "ok"
  BY <1>0 DEF Machine, StateType
<1>2. i \in 1 .. Len(s.ci) /\ s.ci[i].f = "lua"
  BY <1>0 DEF GoesOn
<1>3. /\ b \in Seq(FrameType) /\ Len(b) = i /\ i \in 1 .. i /\ i \in Nat
      /\ \A x \in 1 .. i : b[x] = s.ci[x]
  <2>1. i \in 0 .. Len(s.ci) /\ i \in 1 .. i /\ i \in Nat
    BY <1>1, <1>2
  <2> QED
    BY <1>1, <2>1, PrefixElements
<1>4. h \in Int
  <2>1. Len(s.ci) \in 1 .. Len(s.ci)
    BY <1>1, <1>2
  <2>2. s.ci[Len(s.ci)] \in FrameType
    BY <1>1, <2>1
  <2> QED
    BY <1>1, <2>2 DEF FrameType, StateType
<1> HIDE DEF h, b
<1>5. g \in FrameType /\ g.f = b[i].f /\ g.k = b[i].k
  <2>1. b[i] \in FrameType
    BY <1>3
  <2> QED
    BY ONLY <2>1, Zenon DEF FrameType
<1>6. /\ a \in Seq(FrameType) /\ Len(a) = i /\ a[i] = g /\ \A x \in 1 .. i - 1 : a[x] = b[x]
  <2> HIDE DEF g
  <2> QED
    BY <1>3, <1>5
<1>7. \A x \in 1 .. i : a[x].f = s.ci[x].f /\ a[x].k = s.ci[x].k
  <2>1. ASSUME NEW x \in 1 .. i PROVE a[x].f = s.ci[x].f /\ a[x].k = s.ci[x].k
    <3> HIDE DEF a, g, s
    <3>1. x = i \/ x \in 1 .. i - 1
      BY <1>3
    <3> QED
      BY <1>3, <1>5, <1>6, <3>1
  <2> QED
    BY <2>1
<1>8. Unroll(w, t) = w2
  <2> DEFINE s1 == [s EXCEPT !.ci = b, !.errfunc = h]
  <2>1. LastLua(s) = i /\ FinishedHandler(s, i) = h
    <3>1. s \in StateType /\ GoesOn(t, s, i)
      BY <1>0, <1>1
    <3> HIDE DEF s
    <3> QED
      BY ONLY <3>1, UnrollFinds DEF h
  <2>2. i # 0
    BY <1>2
  <2>3. [s1 EXCEPT !.ci[i].fresh = TRUE] = r
    BY <1>1, Zenon DEF a, g, StateType
  <2>4. Unroll(w, t) = [w EXCEPT !.th[t] = [s1 EXCEPT !.ci[i].fresh = TRUE]]
    BY ONLY <2>1, <2>2, Zenon DEF Unroll, b
  <2> QED
    BY <2>3, <2>4
<1> HIDE DEF g, a
<1>9. r \in StateType /\ r.ci = a /\ r.status = "ok"
  <2> HIDE DEF s
  <2> QED
    BY ONLY <1>1, <1>4, <1>6, Zenon DEF StateType
<1> HIDE DEF r
<1>10. w2.th[t] = r /\ w2.cs = w.cs /\ \A u \in Threads \ {t} : w2.th[u] = w.th[u]
  BY <1>0, <1>9, ThreadSet
<1> HIDE DEF w2, s
<1>11. /\ z.cs = w.cs /\ \A u \in Threads \ {t} : z.th[u] = w.th[u]
       /\ z.th[t] \in StateType /\ z.th[t].status = "ok" /\ Len(z.th[t].ci) = i
       /\ \A x \in 1 .. i : z.th[t].ci[x].f = s.ci[x].f /\ z.th[t].ci[x].k = s.ci[x].k
  BY <1>0, <1>6, <1>7, <1>8, <1>9, <1>10
<1> QED
  BY <1>2, <1>11 DEF s, GoneOn

\* The entry of lua_resume for t, without calls of t, is the last.
LEMMA UnrollEndsSeen ==
  ASSUME NEW m \in Machine, NEW q \in Positions, NEW v \in Positions, Base(m, q, v),
         m.cs # << >>, NEW t, t = Going(m), Guarded(m), Clean(m), m.cs[Len(m.cs)].a = "resume",
         NEW w \in Machine, w.cs = m.cs, \A u \in Threads \ {t} : w.th[u] = m.th[u],
         w.th[t].status = "ok", w.th[t].ci = << >>, NEW z, z = Unroll(w, t)
  PROVE  t # Main /\ Safe(z) /\ \E r \in Threads : LeavesCalls(m, z, t, r, "dead", << >>)
<1> DEFINE n == Len(m.cs)
           s == w.th[t]
           e == w.cs[n]
           r == [s EXCEPT !.ci = << >>, !.nny = e.nny, !.nC = e.nC - 1, !.fn = FALSE]
           w2 == [w EXCEPT !.th[t] = r, !.cs = SubSeq(w.cs, 1, n - 1)]
<1>1. /\ m.cs \in Seq(EntryType) /\ t \in Threads /\ n \in Nat \ {0} /\ n \in Own(m.cs, t)
      /\ Stacked(m.cs)
  BY Here
<1>2. s \in StateType /\ s.status = "ok" /\ s.ci = << >>
  BY <1>1 DEF Machine
<1>3. n - 1 \in 0 .. n /\ n \in 1 .. n /\ m.cs[n] \in EntryType /\ m.cs[n].t = t
  BY <1>1 DEF Own
<1>4. Unroll(w, t) = ResumeReturns(w2, TRUE)
  <2>1. DOMAIN s.ci = {} /\ Len(s.ci) = 0 /\ SubSeq(s.ci, 1, 0) = << >>
    BY <1>2
  <2>2. LastLua(s) = 0 /\ FinishedHandler(s, 0) = s.errfunc
    <3> HIDE DEF s
    <3> QED
      BY <2>1 DEF LastLua, FinishedHandler
  <2>3. [[s EXCEPT !.ci = SubSeq(@, 1, 0), !.errfunc = s.errfunc]
           EXCEPT !.nny = e.nny, !.nC = e.nC - 1, !.fn = FALSE] = r
    BY <1>2, <2>1, Zenon DEF StateType
  <2>4. Last(w.cs) = e /\ Front(w.cs) = SubSeq(w.cs, 1, n - 1)
    BY DEF Last, Front
  <2> HIDE DEF s, e, n, r
  <2>5. Unroll(w, t) = ResumeReturns([w EXCEPT !.th[t] = [[s EXCEPT !.ci = SubSeq(@, 1, 0), !.errfunc = s.errfunc]
           EXCEPT !.nny = e.nny, !.nC = e.nC - 1, !.fn = FALSE], !.cs = SubSeq(w.cs, 1, n - 1)], TRUE)
    BY ONLY <2>2, <2>4, Zenon DEF Unroll, s
  <2> QED
    BY <2>3, <2>5, Zenon
<1>5. r \in StateType /\ r.ci = << >> /\ r.fn = FALSE /\ r.status = "ok"
  <2>1. e \in EntryType
    BY <1>3
  <2> HIDE DEF e, s
  <2>2. e.nC - 1 \in Int /\ e.nny \in Int
    BY ONLY <2>1 DEF EntryType
  <2>3. << >> \in Seq(FrameType) /\ FALSE \in BOOLEAN
    OBVIOUS
  <2> QED
    BY ONLY <1>2, <2>2, <2>3, Zenon DEF StateType
<1> HIDE DEF r
<1>6. /\ w2 \in Machine /\ w2.th[t] = r /\ w2.cs = SubSeq(m.cs, 1, n - 1)
      /\ \A u \in Threads \ {t} : w2.th[u] = w.th[u]
  <2>1. SubSeq(w.cs, 1, n - 1) \in Seq(EntryType)
    BY <1>1, <1>3, PrefixElements
  <2> HIDE DEF n, r
  <2> QED
    BY <1>1, <1>5, <2>1, Zenon DEF Machine
<1> HIDE DEF w2
<1>7. ReturnsFrom(m, q, v, t, n, w2)
  <2>1. NoneFailed(w2.th[t].ci)
    BY <1>5, <1>6 DEF NoneFailed
  <2>2. m.cs[n].a = "resume"
    OBVIOUS
  <2> HIDE DEF n
  <2> QED
    BY <1>1, <1>6, <2>1, <2>2, Zenon DEF ReturnsFrom
<1>8. Status(r) = "dead" /\ Calls(r) = << >>
  <2>1. Status(r) = "dead"
    BY <1>5 DEF Status
  <2>2. NoneFailed(r.ci)
    BY <1>5 DEF NoneFailed
  <2>3. Calls(r) = Functions(r.ci)
    BY <1>5, <2>2, CallsClean
  <2>4. << >> \in Seq(FrameType)
    OBVIOUS
  <2>5. Functions(<< >>) = << >>
    BY ONLY <2>4, FunctionsOf
  <2> QED
    BY <1>5, <2>1, <2>3, <2>5
<1>9. /\ t # Main /\ Safe(z)
      /\ \E x \in Threads : LeavesCalls(m, z, t, x, Status(w2.th[t]), Calls(w2.th[t]))
  BY <1>4, <1>7, LeavesSeen, Zenon
<1> QED
  BY <1>6, <1>8, <1>9

\* A pcall that a yield may cross catches the error.
LEMMA ThrowRecoverSeen ==
  ASSUME NEW m, NEW q, NEW v, NEW t, NEW j, Throws(m, q, v, t, j), t = Going(m) \/ t = Main,
         Guarded(m), Clean(m), m.cs[j].a = "resume", RecoverPoints(m.th[t]) # {},
         NEW z, z = Throw(m, t)
  PROVE  /\ Guarded(z) /\ Clean(z) /\ \A u \in Threads \ {t} : Seen(m, z, u)
         /\ Calls(z.th[t]) = CaughtIn(Calls(m.th[t]))
         /\ z.cs = SubSeq(m.cs, 1, j) /\ Running(z.cs) = t
         /\ ProtectedIn(Calls(m.th[t])) # {}
<1> DEFINE s == m.th[t].ci
<1>1. /\ m.cs \in Seq(EntryType) /\ Len(m.cs) \in Nat /\ j \in 1 .. Len(m.cs) /\ m.cs[j].t = t
      /\ s \in Seq(FrameType) /\ Len(s) \in Nat /\ Framed(t, s) /\ t \in Threads
  BY ThrowsFacts DEF Sound, Throws
<1>2. PICK w, p : Recovers(m, q, v, t, j, w, p)
  BY RecoversAt
<1>3. /\ z = Unroll(w, t) /\ w \in Machine /\ w.th[t].status = "ok"
      /\ w.cs = SubSeq(m.cs, 1, j) /\ \A u \in Threads \ {t} : w.th[u] = m.th[u]
      /\ p \in RecoverPoints(m.th[t]) /\ \A x \in RecoverPoints(m.th[t]) : x <= p
      /\ p \in 2 .. Len(s) /\ GoesOn(t, w.th[t], p - 1)
      /\ \A x \in 1 .. p : w.th[t].ci[x] = s[x]
  BY <1>2 DEF Recovers, Resumes
<1>4. /\ z.cs = w.cs /\ \A u \in Threads \ {t} : z.th[u] = w.th[u]
      /\ z.th[t] \in StateType /\ z.th[t].status = "ok" /\ Len(z.th[t].ci) = p - 1
      /\ \A x \in 1 .. p - 1 : /\ z.th[t].ci[x].f = w.th[t].ci[x].f
                               /\ z.th[t].ci[x].k = w.th[t].ci[x].k
  <2>1. PICK i : i = p - 1
    OBVIOUS
  <2>2. UnrolledTo(w, t, i, z)
    BY <1>1, <1>3, <2>1 DEF UnrolledTo
  <2>3. GoneOn(w, t, i, z)
    BY <2>2, UnrollKeeps
  <2> QED
    BY <2>1, <2>3 DEF GoneOn
<1>5. /\ p - 1 \in 0 .. Len(s) /\ p \in 1 .. Len(s) /\ p \in Nat
      /\ \A x \in 1 .. p - 1 : x \in 1 .. p
  BY <1>1, <1>3
<1>6. ThrownTo(m, t, j, p - 1, z)
  <2>1. \A x \in 1 .. p - 1 : z.th[t].ci[x].f = s[x].f /\ z.th[t].ci[x].k = s[x].k
    BY <1>3, <1>4, <1>5
  <2> QED
    BY <1>3, <1>4, <2>1 DEF ThrownTo
<1>7. /\ Guarded(z) /\ Clean(z) /\ \A u \in Threads \ {t} : Seen(m, z, u)
      /\ Calls(z.th[t]) = Functions(SubSeq(s, 1, p - 1))
  <2>1. j \in {j - 1, j} /\ ~(j = j - 1 /\ m.cs[j].a = "pcall")
    BY <1>1
  <2> QED
    BY <1>5, <1>6, <2>1, ThrownSafe
<1>8. s[p].f \in Guarding /\ \A i \in p + 1 .. Len(s) : s[i].f \notin Guarding
  <2>1. RecoverPoints(m.th[t]) = {i \in 1 .. Len(s) : s[i].yp}
    BY <1>1 DEF RecoverPoints
  <2>2. \A i \in 1 .. Len(s) : s[i].f \in Guarding => s[i].yp
    BY GuardsAbove
  <2>3. s[p].yp /\ \A i \in 1 .. Len(s) : s[i].yp => i <= p
    BY <1>3, <2>1
  <2>4. ASSUME NEW i \in p + 1 .. Len(s), s[i].f \in Guarding PROVE FALSE
    <3>1. i \in 1 .. Len(s) /\ ~(i <= p)
      BY <1>5
    <3> QED
      BY <2>2, <2>3, <2>4, <3>1
  <2> QED
    BY <1>1, <1>5, <2>3, <2>4 DEF Framed
<1>9. /\ ProtectedIn(Functions(s)) # {}
      /\ CaughtIn(Functions(s)) = Functions(SubSeq(s, 1, p - 1))
  <2> HIDE DEF s
  <2> QED
    BY <1>1, <1>5, <1>8, CaughtBy
<1>10. Calls(m.th[t]) = Functions(s)
  BY ThrowsCalls
<1>11. Running(z.cs) = t
  <2>1. j \in 0 .. Len(m.cs) /\ j \in 1 .. j
    BY <1>1
  <2>2. Len(z.cs) = j /\ z.cs[j] = m.cs[j]
    BY <1>1, <1>3, <1>4, <2>1, PrefixElements
  <2>3. z.cs # << >>
    BY <2>1, <2>2
  <2> QED
    BY <1>1, <2>2, <2>3 DEF Running, Last
<1> QED
  BY <1>3, <1>4, <1>7, <1>9, <1>10, <1>11

-----------------------------------------------------------------------------
(* luaD_throw, as a program sees it *)

\* What is true of the thread that runs when no function of coroutine.wrap fails.
Tidy(m, q, v, t) ==
  /\ m \in Machine /\ q \in Positions /\ v \in Positions /\ Base(m, q, v)
  /\ m.cs # << >> /\ t = Going(m) /\ Guarded(m) /\ Clean(m)

\* No function has failed.
LEMMA CleanSafe == ASSUME NEW m, Guarded(m), Clean(m) PROVE Safe(m)
BY DEF Safe, FailedLast, Clean, NoneFailed

\* Its facts.
LEMMA TidyFacts ==
  ASSUME NEW m, NEW q, NEW v, NEW t, Tidy(m, q, v, t)
  PROVE  /\ m.cs \in Seq(EntryType) /\ Len(m.cs) \in Nat \ {0} /\ m.cs # << >>
         /\ Len(m.cs) \in Own(m.cs, t) /\ m.cs[Len(m.cs)].t = t /\ t = Going(m)
         /\ t \in Threads /\ m.th[t] \in StateType /\ m.th[t].status = "ok"
         /\ m.th[t].ci \in Seq(FrameType) /\ Len(m.th[t].ci) \in Nat \ {0}
         /\ Stacked(m.cs) /\ m.cs[1].a # "resume" /\ Running(m.cs) = t
         /\ NoneFailed(m.th[t].ci) /\ Calls(m.th[t]) = Functions(m.th[t].ci)
         /\ m \in Machine /\ q \in Positions /\ v \in Positions /\ Base(m, q, v)
         /\ Guarded(m) /\ Clean(m)
<1>1. /\ m \in Machine /\ q \in Positions /\ v \in Positions /\ Base(m, q, v)
      /\ m.cs # << >> /\ t = Going(m) /\ Guarded(m) /\ Clean(m)
  BY DEF Tidy
<1>2. /\ m.cs \in Seq(EntryType) /\ Len(m.cs) \in Nat \ {0}
      /\ Len(m.cs) \in Own(m.cs, t) /\ m.cs[Len(m.cs)].t = t
      /\ t \in Threads /\ m.th[t] \in StateType /\ m.th[t].status = "ok"
      /\ m.th[t].ci \in Seq(FrameType) /\ Len(m.th[t].ci) \in Nat \ {0}
      /\ Stacked(m.cs)
  BY <1>1, Here DEF Sound
<1>3. m.cs[1].a # "resume"
  BY <1>1, <1>2 DEF Stacked, HostEntry
<1>4. Running(m.cs) = t
  BY <1>1 DEF Running, Going, Last
<1>5. NoneFailed(m.th[t].ci)
  BY <1>1, <1>2 DEF Clean
<1>6. Calls(m.th[t]) = Functions(m.th[t].ci)
  BY <1>2, <1>5, CallsClean
<1> QED
  BY <1>1, <1>2, <1>3, <1>4, <1>5, <1>6

\* The innermost protected call of the thread that runs catches its error, or the
\* coroutine dies.
LEMMA ThrowSeen ==
  ASSUME NEW m, NEW q, NEW v, NEW t, Tidy(m, q, v, t), NEW z, z = Throw(m, t)
  PROVE  ErrorSeen(m, z, t) /\ Safe(z)
<1> DEFINE j == ErrorJmp(m, t)
           c == m.cs
<1>1. /\ c \in Seq(EntryType) /\ Len(c) \in Nat \ {0} /\ c # << >>
      /\ Len(c) \in Own(c, t) /\ c[Len(c)].t = t /\ t = Going(m) /\ t \in Threads
      /\ Stacked(c) /\ c[1].a # "resume" /\ Running(c) = t
      /\ m \in Machine /\ q \in Positions /\ v \in Positions /\ Base(m, q, v)
      /\ Guarded(m) /\ Clean(m)
  BY TidyFacts
<1>2. /\ j \in Own(c, t) /\ c[j].a \in {"pcall", "resume"}
      /\ \A i \in Own(c, t) : i > j => c[i].a \notin {"pcall", "resume"}
  BY <1>1, Jumps
<1>3. Throws(m, q, v, t, j)
  BY <1>1, <1>2 DEF Throws
<1>4. /\ j \in 1 .. Len(c) /\ \A i \in j + 1 .. Len(c) : c[i].a # "resume"
  BY <1>1, <1>2, RunsAbove
<1> HIDE DEF j
<1>5. CASE c[j].a = "pcall"
  <2>1. /\ Guarded(z) /\ Clean(z) /\ \A u \in Threads \ {t} : Seen(m, z, u)
        /\ Calls(z.th[t]) = CaughtIn(Calls(m.th[t]))
        /\ z.cs = SubSeq(c, 1, j - 1) /\ Running(z.cs) = t
        /\ t # Main => ProtectedIn(Calls(m.th[t])) # {}
    <3>1. m.cs[j].a = "pcall" /\ (t = Going(m) \/ t = Main)
      BY <1>1, <1>5
    <3> HIDE DEF c
    <3>2. Guarded(m) /\ Clean(m) /\ z = Throw(m, t)
      BY <1>1
    <3>3. c = m.cs
      BY DEF c
    <3> QED
      BY ONLY <1>3, <3>1, <3>2, <3>3, ThrowPcallSeen
  <2>2. ASSUME NEW u \in Threads PROVE Resumer(z.cs, u) = Resumer(c, u)
    <3>1. j - 1 \in 0 .. Len(c)
      BY <1>1, <1>4
    <3>2. \A i \in (j - 1) + 1 .. Len(c) : i = j \/ i \in j + 1 .. Len(c)
      BY <1>1, <1>4
    <3>3. \A i \in (j - 1) + 1 .. Len(c) : c[i].a # "resume"
      BY <1>4, <1>5, <3>2
    <3>4. \A i \in (j - 1) + 1 .. Len(c) : ~(c[i].a = "resume" /\ c[i].t = u)
      BY <3>3
    <3>5. z.cs = SubSeq(c, 1, j - 1)
      BY <2>1
    <3> HIDE DEF c
    <3> QED
      BY ONLY <1>1, <3>1, <3>4, <3>5, ResumersCut
  <2>3. KeepsCalls(m, z, t, CaughtIn(Calls(m.th[t])))
    BY <1>1, <2>1, <2>2 DEF KeepsCalls
  <2> QED
    BY <2>1, <2>3, CleanSafe DEF ErrorSeen
<1>6. CASE c[j].a = "resume" /\ RecoverPoints(m.th[t]) # {}
  <2>1. /\ Guarded(z) /\ Clean(z) /\ \A u \in Threads \ {t} : Seen(m, z, u)
        /\ Calls(z.th[t]) = CaughtIn(Calls(m.th[t]))
        /\ z.cs = SubSeq(c, 1, j) /\ Running(z.cs) = t
        /\ ProtectedIn(Calls(m.th[t])) # {}
    <3>1. m.cs[j].a = "resume" /\ RecoverPoints(m.th[t]) # {} /\ (t = Going(m) \/ t = Main)
      BY <1>1, <1>6
    <3> HIDE DEF c
    <3>2. Guarded(m) /\ Clean(m) /\ z = Throw(m, t)
      BY <1>1
    <3>3. c = m.cs
      BY DEF c
    <3> QED
      BY ONLY <1>3, <3>1, <3>2, <3>3, ThrowRecoverSeen
  <2>2. ASSUME NEW u \in Threads PROVE Resumer(z.cs, u) = Resumer(c, u)
    <3>1. j \in 0 .. Len(c)
      BY <1>1, <1>4
    <3>2. \A i \in j + 1 .. Len(c) : ~(c[i].a = "resume" /\ c[i].t = u)
      BY <1>4
    <3>3. z.cs = SubSeq(c, 1, j)
      BY <2>1
    <3> HIDE DEF c
    <3> QED
      BY ONLY <1>1, <3>1, <3>2, <3>3, ResumersCut
  <2>3. KeepsCalls(m, z, t, CaughtIn(Calls(m.th[t])))
    BY <1>1, <2>1, <2>2 DEF KeepsCalls
  <2> QED
    BY <2>1, <2>3, CleanSafe DEF ErrorSeen
<1>7. CASE c[j].a = "resume" /\ RecoverPoints(m.th[t]) = {}
  <2>1. /\ Safe(z) /\ t # Main /\ ProtectedIn(Calls(m.th[t])) = {}
        /\ \E r \in Threads : LeavesCalls(m, z, t, r, "dead", << >>)
    BY <1>1, <1>3, <1>7, ThrowDiesSeen
  <2> QED
    BY <2>1 DEF ErrorSeen
<1> QED
  BY <1>2, <1>5, <1>6, <1>7

\* The innermost protected call of the main thread, or the host, catches one that is
\* raised there while a coroutine runs.
LEMMA ThrowMainSeen ==
  ASSUME NEW m, NEW q, NEW v, NEW t, Tidy(m, q, v, t), NEW z, z = Throw(m, Main)
  PROVE  MainRaised(m, z) /\ Safe(z)
<1> DEFINE j == ErrorJmp(m, Main)
           c == m.cs
<1>1. /\ c \in Seq(EntryType) /\ Len(c) \in Nat \ {0} /\ c # << >>
      /\ Stacked(c) /\ m \in Machine /\ q \in Positions /\ v \in Positions /\ Base(m, q, v)
      /\ Guarded(m) /\ Clean(m)
  BY TidyFacts
<1>2. 1 \in Own(c, Main)
  <2>1. c[1].t = Main
    BY <1>1 DEF Stacked, HostEntry
  <2> QED
    BY <1>1, <2>1 DEF Own
<1>3. /\ j \in Own(c, Main) /\ c[j].a \in {"pcall", "resume"}
      /\ \A i \in Own(c, Main) : i > j => c[i].a \notin {"pcall", "resume"}
  BY <1>1, <1>2, Jumps
<1>4. Throws(m, q, v, Main, j)
  <2>1. Main \in Threads
    BY DEF Threads
  <2> QED
    BY <1>1, <1>3, <2>1 DEF Throws
<1> HIDE DEF j
<1>5. j \in 1 .. Len(c) /\ \A i \in 1 .. j : c[i].a # "resume"
  BY <1>1, <1>3, MainBelow DEF Own
<1>6. c[j].a = "pcall"
  BY <1>1, <1>3, <1>5
<1>7. /\ Guarded(z) /\ Clean(z) /\ \A u \in Threads \ {Main} : Seen(m, z, u)
      /\ Calls(z.th[Main]) = CaughtIn(Calls(m.th[Main]))
      /\ z.cs = SubSeq(c, 1, j - 1) /\ Running(z.cs) = Main
  BY <1>1, <1>4, <1>6, ThrowPcallSeen
<1>8. ASSUME NEW u \in Threads PROVE Resumer(z.cs, u) = u
  <2>1. j - 1 \in 0 .. Len(c) /\ \A i \in 1 .. j - 1 : i \in 1 .. j
    BY <1>1, <1>5
  <2>2. /\ z.cs \in Seq(EntryType) /\ Len(z.cs) = j - 1
        /\ \A i \in 1 .. j - 1 : z.cs[i] = c[i]
    BY <1>1, <1>7, <2>1, PrefixElements
  <2>3. \A i \in 1 .. Len(z.cs) : z.cs[i].a # "resume"
    BY <1>5, <2>1, <2>2
  <2> QED
    BY <2>2, <2>3, ResumerNone
<1> QED
  BY <1>7, <1>8, CleanSafe DEF MainRaised

-----------------------------------------------------------------------------
(* Calls and message handlers, as a program sees them *)

\* Entries are made, and calls.
LEMMA GuardedGrow ==
  ASSUME NEW m, NEW w, Guarded(m), Len(m.cs) \in Nat, Len(w.cs) \in Nat, Extends(m.cs, w.cs),
         \A u \in Threads : Own(w.cs, u) # {} =>
           \A i \in 1 .. Len(w.th[u].ci) : Unmarked(w.th[u].ci, i) =>
             \/ /\ Own(m.cs, u) # {}
                /\ i \in 1 .. Len(m.th[u].ci) /\ Unmarked(m.th[u].ci, i)
             \/ \E j \in Own(w.cs, u) : j > 1 /\ w.cs[j].a = "pcall" /\ w.cs[j].d = i
  PROVE  Guarded(w)
<1>1. ASSUME NEW u \in Threads, Own(w.cs, u) # {}, NEW i \in 1 .. Len(w.th[u].ci),
             Unmarked(w.th[u].ci, i)
      PROVE  \E j \in Own(w.cs, u) : j > 1 /\ w.cs[j].a = "pcall" /\ w.cs[j].d = i
  <2>1. CASE Own(m.cs, u) # {} /\ i \in 1 .. Len(m.th[u].ci) /\ Unmarked(m.th[u].ci, i)
    <3>1. PICK j \in Own(m.cs, u) : j > 1 /\ m.cs[j].a = "pcall" /\ m.cs[j].d = i
      BY <2>1, Zenon DEF Guarded
    <3>2. j \in Own(w.cs, u) /\ w.cs[j] = m.cs[j]
      BY DEF Own, Extends
    <3> QED
      BY <3>1, <3>2
  <2> QED
    BY <1>1, <2>1, Zenon
<1> QED
  BY <1>1, Zenon DEF Guarded

\* w has one entry more of the thread that runs, or the same.
Enlarges(m, w, t) ==
  \/ w.cs = m.cs
  \/ \E e \in EntryType : w.cs = Append(m.cs, e) /\ e.t = t /\ e.a # "resume"

\* What a program sees of that.
LEMMA EnlargesSeen ==
  ASSUME NEW m, NEW q, NEW v, NEW t, Tidy(m, q, v, t), NEW w, Enlarges(m, w, t)
  PROVE  /\ w.cs \in Seq(EntryType) /\ Len(w.cs) \in Nat /\ Extends(m.cs, w.cs)
         /\ Running(w.cs) = t /\ \A u \in Threads : Resumer(w.cs, u) = Resumer(m.cs, u)
         /\ \A u \in Threads : Own(w.cs, u) # {} => Own(m.cs, u) # {}
<1>1. /\ m.cs \in Seq(EntryType) /\ Len(m.cs) \in Nat \ {0} /\ Running(m.cs) = t
      /\ m.cs[1].a # "resume" /\ Len(m.cs) \in Own(m.cs, t)
  BY TidyFacts
<1>2. CASE w.cs = m.cs
  BY <1>1, <1>2 DEF Extends
<1>3. ASSUME NEW e \in EntryType, w.cs = Append(m.cs, e), e.t = t, e.a # "resume"
      PROVE  /\ w.cs \in Seq(EntryType) /\ Len(w.cs) \in Nat /\ Extends(m.cs, w.cs)
             /\ Running(w.cs) = t /\ \A u \in Threads : Resumer(w.cs, u) = Resumer(m.cs, u)
             /\ \A u \in Threads : Own(w.cs, u) # {} => Own(m.cs, u) # {}
  <2>1. /\ w.cs \in Seq(EntryType) /\ Len(w.cs) = Len(m.cs) + 1
        /\ \A i \in 1 .. Len(m.cs) : w.cs[i] = m.cs[i]
        /\ w.cs[Len(m.cs) + 1] = e
    BY <1>1, <1>3, AppendElements
  <2>2. Running(w.cs) = t
    <3>1. w.cs # << >>
      BY <1>1, <2>1
    <3> QED
      BY <1>1, <1>3, <2>1, <3>1 DEF Running, Last
  <2>3. \A u \in Threads : Resumer(w.cs, u) = Resumer(m.cs, u)
    BY <1>1, <1>3, ResumersPush
  <2>4. ASSUME NEW u \in Threads, Own(w.cs, u) # {} PROVE Own(m.cs, u) # {}
    <3>1. Own(Append(m.cs, e), u) = IF e.t = u THEN Own(m.cs, u) \cup {Len(m.cs) + 1}
                                    ELSE Own(m.cs, u)
      <4>1. m.cs \in Seq(EntryType) /\ e \in EntryType
        BY <1>1, <1>3
      <4> QED
        BY ONLY <4>1, OwnEntry
    <3> QED
      BY <1>1, <1>3, <2>4, <3>1
  <2>5. Extends(m.cs, w.cs) /\ Len(w.cs) \in Nat
    BY <1>1, <2>1 DEF Extends
  <2> QED
    BY <2>1, <2>2, <2>3, <2>4, <2>5
<1> QED
  BY <1>2, <1>3 DEF Enlarges

\* t has the same calls, but may have an entry more.
LEMMA EntrySeen ==
  ASSUME NEW m, NEW q, NEW v, NEW t, Tidy(m, q, v, t), NEW w, Enlarges(m, w, t),
         w.th[t] \in StateType, w.th[t].status = "ok", w.th[t].ci = m.th[t].ci,
         \A u \in Threads \ {t} : w.th[u] = m.th[u]
  PROVE  KeepsCalls(m, w, t, Calls(m.th[t])) /\ Guarded(w) /\ Clean(w)
<1>1. /\ m.cs \in Seq(EntryType) /\ Len(m.cs) \in Nat \ {0} /\ Running(m.cs) = t
      /\ t \in Threads /\ Guarded(m) /\ Clean(m) /\ NoneFailed(m.th[t].ci)
      /\ Calls(m.th[t]) = Functions(m.th[t].ci)
  BY TidyFacts
<1>2. /\ w.cs \in Seq(EntryType) /\ Len(w.cs) \in Nat /\ Extends(m.cs, w.cs)
      /\ Running(w.cs) = t /\ \A u \in Threads : Resumer(w.cs, u) = Resumer(m.cs, u)
      /\ \A u \in Threads : Own(w.cs, u) # {} => Own(m.cs, u) # {}
  BY EnlargesSeen
<1>3. Calls(w.th[t]) = Calls(m.th[t])
  BY <1>1, CallsClean
<1>4. \A u \in Threads : w.th[u].ci = m.th[u].ci
  OBVIOUS
<1>5. Guarded(w)
  <2>1. \A u \in Threads : Own(w.cs, u) # {} =>
           \A i \in 1 .. Len(w.th[u].ci) : Unmarked(w.th[u].ci, i) =>
             /\ Own(m.cs, u) # {}
             /\ i \in 1 .. Len(m.th[u].ci) /\ Unmarked(m.th[u].ci, i)
    BY <1>2, <1>4, Zenon
  <2> QED
    BY <1>1, <1>2, <2>1, GuardedGrow
<1>6. Clean(w)
  BY <1>1, <1>4, Zenon DEF Clean
<1>7. \A u \in Threads \ {t} : Seen(m, w, u)
  BY DEF Seen
<1> QED
  BY <1>1, <1>2, <1>3, <1>5, <1>6, <1>7 DEF KeepsCalls

\* It has called g; a protected call that no yield may cross has made its entry.
LEMMA PushSeen ==
  ASSUME NEW m, NEW q, NEW v, NEW t, Tidy(m, q, v, t), NEW w, Enlarges(m, w, t),
         w.th[t] \in StateType, w.th[t].status = "ok",
         NEW g \in FrameType, w.th[t].ci = Append(m.th[t].ci, g), g.f \notin Leaving,
         \A u \in Threads \ {t} : w.th[u] = m.th[u],
         g.f \in Guarding /\ ~g.k =>
           \E e \in EntryType : /\ w.cs = Append(m.cs, e) /\ e.t = t /\ e.a = "pcall"
                                /\ e.d = Len(m.th[t].ci) + 1
  PROVE  KeepsCalls(m, w, t, Append(Calls(m.th[t]), g.f)) /\ Guarded(w) /\ Clean(w)
<1> DEFINE s == m.th[t].ci
           a == w.th[t].ci
<1>1. /\ m.cs \in Seq(EntryType) /\ Len(m.cs) \in Nat \ {0} /\ Running(m.cs) = t
      /\ t \in Threads /\ Guarded(m) /\ Clean(m) /\ NoneFailed(s) /\ s \in Seq(FrameType)
      /\ Calls(m.th[t]) = Functions(s) /\ Len(s) \in Nat /\ Len(m.cs) \in Own(m.cs, t)
  BY TidyFacts
<1>2. /\ w.cs \in Seq(EntryType) /\ Len(w.cs) \in Nat /\ Extends(m.cs, w.cs)
      /\ Running(w.cs) = t /\ \A u \in Threads : Resumer(w.cs, u) = Resumer(m.cs, u)
      /\ \A u \in Threads : Own(w.cs, u) # {} => Own(m.cs, u) # {}
  BY EnlargesSeen
<1>3. /\ a = Append(s, g) /\ a \in Seq(FrameType) /\ Len(a) = Len(s) + 1
      /\ \A i \in 1 .. Len(s) : a[i] = s[i]
      /\ a[Len(s) + 1] = g
  BY <1>1, AppendElements
<1> HIDE DEF s, a
<1>4. \A i \in 1 .. Len(a) : i \in 1 .. Len(s) \/ i = Len(s) + 1
  BY <1>1, <1>3
<1>5. NoneFailed(a)
  BY <1>1, <1>3, <1>4 DEF NoneFailed, Leaving
<1>6. Calls(w.th[t]) = Append(Calls(m.th[t]), g.f)
  <2>1. Functions(a) = Append(Functions(s), g.f)
    BY <1>1, <1>3, FunctionsPush DEF Leaving
  <2>2. Calls(w.th[t]) = Functions(a)
    BY <1>5, CallsClean DEF a
  <2> QED
    BY <1>1, <2>1, <2>2
<1>7. Clean(w)
  <2>1. \A u \in Threads \ {t} : NoneFailed(w.th[u].ci)
    BY <1>1 DEF Clean
  <2> QED
    BY <1>5, <2>1 DEF Clean, a
<1>8. Guarded(w)
  <2>1. ASSUME NEW u \in Threads, Own(w.cs, u) # {}, NEW i \in 1 .. Len(w.th[u].ci),
               Unmarked(w.th[u].ci, i)
        PROVE  \/ /\ Own(m.cs, u) # {}
                  /\ i \in 1 .. Len(m.th[u].ci) /\ Unmarked(m.th[u].ci, i)
               \/ \E j \in Own(w.cs, u) : j > 1 /\ w.cs[j].a = "pcall" /\ w.cs[j].d = i
    <3>1. CASE u # t
      BY <1>2, <2>1, <3>1
    <3>2. CASE u = t /\ i \in 1 .. Len(s)
      <4>1. Unmarked(s, i)
        BY <1>3, <2>1, <3>2 DEF Unmarked, a
      <4> QED
        BY <1>1, <3>2, <4>1 DEF s
    <3>3. CASE u = t /\ i = Len(s) + 1
      <4>1. g.f \in Guarding /\ ~g.k
        BY <1>3, <2>1, <3>3 DEF Unmarked, a
      <4>2. PICK e \in EntryType : /\ w.cs = Append(m.cs, e) /\ e.t = t /\ e.a = "pcall"
                                   /\ e.d = Len(s) + 1
        BY <4>1 DEF s
      <4>3. Len(w.cs) = Len(m.cs) + 1 /\ w.cs[Len(m.cs) + 1] = e
        BY <1>1, <4>2, AppendElements
      <4>4. Len(m.cs) + 1 \in Own(w.cs, t) /\ Len(m.cs) + 1 > 1
        BY <1>1, <4>2, <4>3 DEF Own
      <4> QED
        BY <3>3, <4>2, <4>3, <4>4
    <3> QED
      BY <1>4, <2>1, <3>1, <3>2, <3>3 DEF a
  <2> QED
    BY <1>1, <1>2, <2>1, GuardedGrow
<1>9. \A u \in Threads \ {t} : Seen(m, w, u)
  BY DEF Seen
<1> QED
  BY <1>1, <1>2, <1>6, <1>7, <1>8, <1>9 DEF KeepsCalls

\* luaG_errormsg calls the message handler, or throws.
LEMMA RaiseSeen ==
  ASSUME NEW m, NEW q, NEW v, NEW t, Tidy(m, q, v, t), NEW z, z = Raise(m, t)
  PROVE  /\ Safe(z)
         /\ ErrorSeen(m, z, t) \/ KeepsCalls(m, z, t, Append(Calls(m.th[t]), "handler"))
<1> DEFINE s == m.th[t]
           n == IF s.nC + 1 = MaxCCalls THEN s.nC + 2 ELSE s.nC + 1
           g == Frame("handler")
           e == Entry("handler", t, NoSave)
           a == Append(s.ci, g)
           r == [s EXCEPT !.ci = a, !.nC = n, !.nny = s.nny + (n - s.nC)]
           c == Append(m.cs, e)
           w == [m EXCEPT !.th[t] = r, !.cs = c]
<1>1. /\ m \in Machine /\ t \in Threads /\ s \in StateType
      /\ m.cs \in Seq(EntryType) /\ s.ci \in Seq(FrameType) /\ s.status = "ok"
  BY TidyFacts
<1>2. CASE s.errfunc \in {0, Host} \/ n >= HandlingCCalls
  <2>1. Raise(m, t) = Throw(m, t)
    BY <1>2 DEF Raise
  <2> QED
    BY <2>1, ThrowSeen, Zenon
<1>3. CASE ~(s.errfunc \in {0, Host} \/ n >= HandlingCCalls)
  <2>1. g \in FrameType /\ g.f = "handler"
    <3>1. "handler" \in Names
      BY DEF Names, Code
    <3> QED
      BY <3>1, Frames
  <2>2. e \in EntryType /\ e.a = "handler" /\ e.t = t
    BY <1>1, NoSaves
  <2> HIDE DEF g, e
  <2>3. n \in Int /\ s.nC \in Int /\ s.nny \in Int
    BY <1>1, ConstantsAssumption DEF StateType
  <2>4. z = w
    BY <1>3 DEF Raise, g, e
  <2> HIDE DEF n
  <2>5. r \in StateType /\ r.ci = a /\ r.status = "ok"
    <3>1. a \in Seq(FrameType) /\ s.nny + (n - s.nC) \in Int
      BY <1>1, <2>1, <2>3
    <3> HIDE DEF s, a
    <3> QED
      BY <1>1, <2>3, <3>1, Zenon DEF StateType
  <2> HIDE DEF r
  <2>6. c \in Seq(EntryType)
    BY <1>1, <2>2
  <2> HIDE DEF c
  <2>7. w.th[t] = r /\ w.cs = c /\ \A u \in Threads \ {t} : w.th[u] = m.th[u]
    <3>1. m \in Machine /\ t \in Threads /\ w = [m EXCEPT !.th[t] = r, !.cs = c]
      BY <1>1
    <3> HIDE DEF w
    <3> QED
      BY ONLY <2>5, <2>6, <3>1, Zenon DEF Machine
  <2> HIDE DEF w, s
  <2>8. Enlarges(m, w, t)
    BY <2>2, <2>7 DEF Enlarges, c
  <2>9. KeepsCalls(m, w, t, Append(Calls(m.th[t]), g.f)) /\ Guarded(w) /\ Clean(w)
    <3>1. g.f \notin Leaving /\ g.f \notin Guarding
      BY <2>1 DEF Leaving, Guarding
    <3>2. w.th[t] \in StateType /\ w.th[t].status = "ok" /\ w.th[t].ci = Append(m.th[t].ci, g)
      BY <2>5, <2>7 DEF a, s
    <3> HIDE DEF a
    <3> QED
      BY <2>1, <2>7, <2>8, <3>1, <3>2, PushSeen
  <2> QED
    BY <2>1, <2>4, <2>9, CleanSafe
<1> QED
  BY <1>2, <1>3

\* luaD_call of a Lua function, when its entry has been made in w.
LEMMA LuaDCallSeen ==
  ASSUME NEW w, NEW q, NEW v, NEW t, Tidy(w, q, v, t),
         NEW m \in Machine, NEW e, NEW b, MakesEntry(m, t, e, b, w),
         NEW z, z = LuaDCall(m, t, e, b)
  PROVE  /\ Safe(z)
         /\ \/ ErrorSeen(w, z, t)
            \/ \E f \in Code : KeepsCalls(w, z, t, Append(Calls(w.th[t]), f))
<1> DEFINE s == w.th[t]
           g == Frame("lua")
           a == Append(s.ci, g)
           r == [s EXCEPT !.ci = a]
           w1 == [w EXCEPT !.th[t] = r]
<1>1. /\ w \in Machine /\ t \in Threads /\ s \in StateType
      /\ w.cs \in Seq(EntryType) /\ s.ci \in Seq(FrameType) /\ s.status = "ok"
  BY TidyFacts
<1>2. z = IF s.nC = MaxCCalls THEN Raise(w, t)
          ELSE IF s.nC >= HandlingCCalls THEN Throw(w, t)
          ELSE [w EXCEPT !.th[t].ci = Append(@, Frame("lua"))]
  <2> DEFINE y == [m.th[t] EXCEPT !.nC = @ + 1, !.nny = IF b THEN @ + 1 ELSE @]
             w2 == [m EXCEPT !.th[t] = y, !.cs = Append(@, e)]
  <2>1. w = w2
    BY DEF MakesEntry
  <2>2. LuaDCall(m, t, e, b) = IF y.nC = MaxCCalls THEN Raise(w2, t)
                               ELSE IF y.nC >= HandlingCCalls THEN Throw(w2, t)
                               ELSE [w2 EXCEPT !.th[t].ci = Append(@, Frame("lua"))]
    BY DEF LuaDCall
  <2>3. m \in Machine /\ t \in Threads
    BY <1>1
  <2> HIDE DEF y
  <2>4. w2.th[t] = y
    BY ONLY <2>3 DEF Machine
  <2> HIDE DEF w2
  <2>5. s = y
    BY ONLY <2>1, <2>4
  <2> HIDE DEF s
  <2> QED
    BY ONLY <2>1, <2>2, <2>5, z = LuaDCall(m, t, e, b)
<1>3. CASE s.nC = MaxCCalls
  <2>1. z = Raise(w, t)
    BY <1>2, <1>3
  <2>2. /\ Safe(z)
        /\ ErrorSeen(w, z, t) \/ KeepsCalls(w, z, t, Append(Calls(w.th[t]), "handler"))
    BY <2>1, RaiseSeen
  <2>3. "handler" \in Code
    BY DEF Code
  <2> QED
    BY <2>2, <2>3, Zenon
<1>4. CASE s.nC # MaxCCalls /\ s.nC >= HandlingCCalls
  <2>1. z = Throw(w, t)
    BY <1>2, <1>4
  <2> QED
    BY <2>1, ThrowSeen, Zenon
<1>5. CASE s.nC # MaxCCalls /\ ~(s.nC >= HandlingCCalls)
  <2>1. z = w1
    <3>1. z = [w EXCEPT !.th[t].ci = Append(@, Frame("lua"))]
      BY <1>2, <1>5
    <3> QED
      BY <1>1, <3>1
  <2>2. g \in FrameType /\ g.f = "lua"
    <3>1. "lua" \in Names
      BY DEF Names, Code
    <3> QED
      BY <3>1, Frames
  <2> HIDE DEF g
  <2>3. r \in StateType /\ r.ci = a /\ r.status = "ok"
    <3>1. a \in Seq(FrameType)
      BY <1>1, <2>2
    <3> HIDE DEF s, a
    <3> QED
      BY <1>1, <3>1, Zenon DEF StateType
  <2> HIDE DEF r
  <2>4. w1.th[t] = r /\ w1.cs = w.cs /\ \A u \in Threads \ {t} : w1.th[u] = w.th[u]
    BY <1>1, <2>3, ThreadSet
  <2> HIDE DEF w1, s
  <2>5. KeepsCalls(w, w1, t, Append(Calls(w.th[t]), g.f)) /\ Guarded(w1) /\ Clean(w1)
    <3>1. g.f \notin Leaving /\ g.f \notin Guarding
      BY <2>2 DEF Leaving, Guarding
    <3>2. w1.th[t] \in StateType /\ w1.th[t].status = "ok" /\ w1.th[t].ci = Append(w.th[t].ci, g)
      BY <2>3, <2>4 DEF a, s
    <3>3. Enlarges(w, w1, t)
      BY <2>4 DEF Enlarges
    <3> HIDE DEF a
    <3> QED
      BY <2>2, <2>4, <3>1, <3>2, <3>3, PushSeen
  <2>6. "lua" \in Code
    BY DEF Code
  <2> QED
    BY <2>1, <2>2, <2>5, <2>6, CleanSafe
<1> QED
  BY <1>3, <1>4, <1>5

-----------------------------------------------------------------------------
(* Steps of Lua code, as a program sees them *)

\* The running function calls, or nothing happens.
Vias == {<<"lua">>, <<"handler">>} \cup (Kinds \X {"lua", "handler"})
CallSeen(m, w, t) == \E via \in Vias : KeepsCalls(m, w, t, Calls(m.th[t]) \o via)
Stays(m, w, t) == KeepsCalls(m, w, t, Calls(m.th[t]))

\* While Lua code runs no function of coroutine.wrap has failed.
LEMMA CodeTidy ==
  ASSUME NEW m, NEW q, NEW v, NEW t, InCode(m, q, v, t), Safe(m)
  PROVE  Tidy(m, q, v, t)
<1>1. /\ m \in Machine /\ q \in Positions /\ v \in Positions /\ Base(m, q, v)
      /\ m.cs # << >> /\ t = Going(m) /\ m.th[t].ci[Len(m.th[t].ci)].f \in Code
  BY DEF InCode, Runnable
<1>2. Clean(m)
  <2>1. ASSUME NEW u \in Threads, NEW i \in 1 .. Len(m.th[u].ci), m.th[u].ci[i].f = "failed"
        PROVE  FALSE
    <3>1. u = t /\ i = Len(m.th[u].ci)
      BY <1>1, <2>1 DEF Safe, FailedLast
    <3> QED
      BY <1>1, <2>1, <3>1 DEF Code
  <2> QED
    BY <2>1 DEF Clean, NoneFailed
<1> QED
  BY <1>1, <1>2 DEF Tidy, Safe

\* Two steps of the running thread.
LEMMA KeepsKeeps ==
  ASSUME NEW m, NEW w, NEW z, NEW t, NEW s, NEW r, KeepsCalls(m, w, t, s), KeepsCalls(w, z, t, r)
  PROVE  KeepsCalls(m, z, t, r)
BY DEF KeepsCalls, Seen

\* The second is an error.
LEMMA KeepsError ==
  ASSUME NEW m, NEW w, NEW z, NEW t, KeepsCalls(m, w, t, Calls(m.th[t])), ErrorSeen(w, z, t)
  PROVE  ErrorSeen(m, z, t)
<1>1. Calls(w.th[t]) = Calls(m.th[t])
  BY DEF KeepsCalls
<1>2. ASSUME NEW r, LeavesCalls(w, z, t, r, "dead", << >>)
      PROVE  LeavesCalls(m, z, t, r, "dead", << >>)
  BY <1>2 DEF LeavesCalls, KeepsCalls, Seen
<1>3. CASE ProtectedIn(Calls(m.th[t])) # {} \/ t = Main
  <2>1. KeepsCalls(w, z, t, CaughtIn(Calls(m.th[t])))
    BY <1>1, <1>3 DEF ErrorSeen
  <2> QED
    BY <1>3, <2>1, KeepsKeeps DEF ErrorSeen
<1>4. CASE ~(ProtectedIn(Calls(m.th[t])) # {} \/ t = Main)
  <2>1. \E r \in Threads : LeavesCalls(w, z, t, r, "dead", << >>)
    BY <1>1, <1>4 DEF ErrorSeen
  <2> QED
    BY <1>2, <1>4, <2>1 DEF ErrorSeen
<1> QED
  BY <1>3, <1>4

\* What the error of a function f leaves that s has called.
LEMMA CaughtAbove ==
  ASSUME NEW a \in Seq(FrameType), NEW s, s = Functions(a), NEW f \in Names
  PROVE  /\ f \in Guarding => ProtectedIn(Append(s, f)) # {} /\ CaughtIn(Append(s, f)) = s
         /\ f \notin Guarding => /\ ProtectedIn(Append(s, f)) = ProtectedIn(s)
                                 /\ CaughtIn(Append(s, f)) = CaughtIn(s)
<1> DEFINE b == Append(s, f)
           n == Len(s) + 1
<1>1. s \in Seq(Names) /\ Len(s) \in Nat
  BY FunctionsOf
<1>2. /\ b \in Seq(Names) /\ Len(b) = n /\ n \in Nat /\ DOMAIN b = 1 .. n /\ DOMAIN s = 1 .. Len(s)
      /\ \A i \in 1 .. Len(s) : b[i] = s[i]
      /\ b[n] = f
  BY <1>1, AppendElements
<1>3. \A k \in 0 .. Len(s) : SubSeq(b, 1, k) = SubSeq(s, 1, k)
  <2>1. ASSUME NEW k \in 0 .. Len(s) PROVE SubSeq(b, 1, k) = SubSeq(s, 1, k)
    <3>1. k \in 0 .. n /\ k \in Nat /\ \A i \in 1 .. k : i \in 1 .. Len(s)
      BY <1>1
    <3> HIDE DEF b, n
    <3>2. /\ SubSeq(b, 1, k) \in Seq(Names) /\ Len(SubSeq(b, 1, k)) = k
          /\ \A i \in 1 .. k : SubSeq(b, 1, k)[i] = b[i]
      BY <1>2, <3>1, PrefixElements
    <3>3. /\ SubSeq(s, 1, k) \in Seq(Names) /\ Len(SubSeq(s, 1, k)) = k
          /\ \A i \in 1 .. k : SubSeq(s, 1, k)[i] = s[i]
      BY <1>1, <3>1, PrefixElements
    <3> QED
      BY <1>2, <3>1, <3>2, <3>3, SameSeq
  <2> QED
    BY <2>1
<1>4. SubSeq(s, 1, Len(s)) = s
  BY <1>1
<1> HIDE DEF b
<1>5. ASSUME f \in Guarding PROVE ProtectedIn(b) # {} /\ CaughtIn(b) = s
  <2>1. n \in ProtectedIn(b) /\ \A j \in ProtectedIn(b) : j <= n
    BY <1>1, <1>2, <1>5 DEF ProtectedIn, Guarding
  <2>2. ProtectedIn(b) \subseteq Int
    BY <1>2 DEF ProtectedIn
  <2> DEFINE c == CHOOSE i \in ProtectedIn(b) : \A j \in ProtectedIn(b) : j <= i
  <2>3. c \in ProtectedIn(b) /\ \A j \in ProtectedIn(b) : j <= c
    BY <2>1, Zenon
  <2>4. CaughtIn(b) = SubSeq(b, 1, c - 1)
    BY <2>1, Zenon DEF CaughtIn
  <2> HIDE DEF c, n
  <2>5. c = n
    BY <1>2, <2>1, <2>2, <2>3
  <2>6. n - 1 = Len(s) /\ n - 1 \in 0 .. Len(s)
    BY <1>1 DEF n
  <2>7. CaughtIn(b) = SubSeq(b, 1, Len(s))
    BY <2>4, <2>5, <2>6
  <2> QED
    BY <1>3, <1>4, <2>1, <2>6, <2>7
<1>6. ASSUME f \notin Guarding PROVE ProtectedIn(b) = ProtectedIn(s) /\ CaughtIn(b) = CaughtIn(s)
  <2>1. \A i \in 1 .. n : i \in 1 .. Len(s) \/ i = n
    BY <1>1
  <2>2. ProtectedIn(b) = ProtectedIn(s)
    <3> HIDE DEF n
    <3>1. \A i \in 1 .. Len(s) : i \in 1 .. n
      BY <1>1 DEF n
    <3> QED
      BY <1>2, <1>6, <2>1, <3>1 DEF ProtectedIn, Guarding
  <2>3. CASE ProtectedIn(s) = {}
    BY <2>2, <2>3 DEF CaughtIn
  <2>4. CASE ProtectedIn(s) # {}
    <3> DEFINE c == CHOOSE i \in ProtectedIn(s) : \A j \in ProtectedIn(s) : j <= i
    <3>1. ProtectedIn(s) \subseteq 1 .. Len(s)
      BY <1>2 DEF ProtectedIn
    <3>2. \E i \in ProtectedIn(s) : \A j \in ProtectedIn(s) : j <= i
      BY <1>1, <2>4, <3>1, MaxExists, Zenon
    <3>3. c \in ProtectedIn(s)
      BY <3>2, Zenon
    <3>4. c - 1 \in 0 .. Len(s)
      <4> HIDE DEF c
      <4> QED
        BY <1>1, <3>1, <3>3
    <3>5. CaughtIn(s) = SubSeq(s, 1, c - 1) /\ CaughtIn(b) = SubSeq(b, 1, c - 1)
      BY <2>2, <2>4, Zenon DEF CaughtIn
    <3> QED
      BY <1>3, <2>2, <3>4, <3>5
  <2> QED
    BY <2>2, <2>3, <2>4
<1> QED
  BY <1>5, <1>6 DEF b

\* The second is the error of a function f that has been called.
LEMMA PushError ==
  ASSUME NEW m, NEW q, NEW v, NEW t, Tidy(m, q, v, t), NEW f \in Names, NEW w, NEW z,
         KeepsCalls(m, w, t, Append(Calls(m.th[t]), f)), ErrorSeen(w, z, t)
  PROVE  ErrorSeen(m, z, t) \/ Stays(m, z, t)
<1> DEFINE s == Calls(m.th[t])
<1>1. m.th[t].ci \in Seq(FrameType) /\ s = Functions(m.th[t].ci)
  BY TidyFacts
<1>2. Calls(w.th[t]) = Append(s, f)
  BY DEF KeepsCalls
<1>3. /\ f \in Guarding => ProtectedIn(Append(s, f)) # {} /\ CaughtIn(Append(s, f)) = s
      /\ f \notin Guarding => /\ ProtectedIn(Append(s, f)) = ProtectedIn(s)
                              /\ CaughtIn(Append(s, f)) = CaughtIn(s)
  BY <1>1, CaughtAbove
<1>4. CASE f \in Guarding
  <2>1. KeepsCalls(w, z, t, s)
    BY <1>2, <1>3, <1>4 DEF ErrorSeen
  <2> QED
    BY <2>1, KeepsKeeps DEF Stays
<1>5. CASE f \notin Guarding
  <2>1. CASE ProtectedIn(s) # {} \/ t = Main
    <3>1. KeepsCalls(w, z, t, CaughtIn(s))
      BY <1>2, <1>3, <1>5, <2>1 DEF ErrorSeen
    <3> QED
      BY <2>1, <3>1, KeepsKeeps DEF ErrorSeen
  <2>2. CASE ~(ProtectedIn(s) # {} \/ t = Main)
    <3>1. PICK r \in Threads : LeavesCalls(w, z, t, r, "dead", << >>)
      BY <1>2, <1>3, <1>5, <2>2 DEF ErrorSeen
    <3>2. LeavesCalls(m, z, t, r, "dead", << >>)
      BY <3>1 DEF LeavesCalls, KeepsCalls, Seen
    <3> QED
      BY <2>2, <3>2 DEF ErrorSeen
  <2> QED
    BY <2>1, <2>2
<1> QED
  BY <1>4, <1>5

\* Two calls.
LEMMA TwoCalls ==
  ASSUME NEW a \in Seq(FrameType), NEW s, s = Functions(a), NEW f \in Names, NEW g \in Names
  PROVE  /\ Append(s, f) = s \o <<f>>
         /\ Append(Append(s, f), g) = s \o <<f, g>>
<1>1. s \in Seq(Names)
  BY FunctionsOf
<1> QED
  BY <1>1

\* A C function has been called, and calls.
LEMMA CallsBySeen ==
  ASSUME NEW m, NEW q, NEW v, NEW t, InCode(m, q, v, t), Safe(m), NEW f \in Kinds, NEW z,
         CallsBy(m, q, v, t, f, z)
  PROVE  Safe(z) /\ (CallSeen(m, z, t) \/ ErrorSeen(m, z, t) \/ Stays(m, z, t))
<1>1. Tidy(m, q, v, t)
  BY CodeTidy
<1>2. /\ t \in Threads /\ m.th[t].ci \in Seq(FrameType) /\ m.cs \in Seq(EntryType)
      /\ Calls(m.th[t]) = Functions(m.th[t].ci)
  BY <1>1, TidyFacts
<1>3. PICK m1, e, g : CallsC(m, q, v, m1, t, e, g) /\ g.f = f /\ z = LuaDCall(m1, t, e, ~g.k)
  BY DEF CallsBy
<1>4. /\ m1 \in Machine /\ m1.cs = m.cs /\ \A u \in Threads \ {t} : m1.th[u] = m.th[u]
      /\ e \in EntryType /\ e.t = t /\ g \in FrameType /\ f \in Guarding \cup {"callk", "sort"}
      /\ m1.th[t].ci = Append(m.th[t].ci, g) /\ m1.th[t].status = "ok"
      /\ e.a = IF g.k THEN "call" ELSE IF g.f \in Guarding THEN "pcall" ELSE "noyield"
      /\ e.a = "pcall" => e.d = Len(m.th[t].ci) + 1
  BY <1>3 DEF CallsC
<1>5. PICK w : /\ MakesEntry(m1, t, e, ~g.k, w)
               /\ \E p, x \in Positions : DCalls(m1, p, x, t, e, ~g.k, w)
  BY <1>3, CallsCMade, Zenon
<1>6. PICK p \in Positions, x \in Positions : DCalls(m1, p, x, t, e, ~g.k, w)
  BY <1>5
<1>7. /\ w \in Machine /\ w.cs = Append(m1.cs, e)
      /\ \A u \in Threads \ {t} : w.th[u] = m1.th[u]
      /\ w.th[t].ci = m1.th[t].ci /\ w.th[t].status = m1.th[t].status
  BY <1>5, EntryMade
<1>8. KeepsCalls(m, w, t, Append(Calls(m.th[t]), f)) /\ Guarded(w) /\ Clean(w)
  <2>1. Enlarges(m, w, t)
    BY <1>4, <1>7 DEF Enlarges
  <2>2. w.th[t] \in StateType /\ w.th[t].status = "ok" /\ w.th[t].ci = Append(m.th[t].ci, g)
    BY <1>2, <1>4, <1>7 DEF Machine
  <2>3. g.f \notin Leaving
    BY <1>3, <1>4 DEF Leaving, Guarding
  <2>4. \A u \in Threads \ {t} : w.th[u] = m.th[u]
    BY <1>4, <1>7
  <2>5. g.f \in Guarding /\ ~g.k =>
           \E y \in EntryType : /\ w.cs = Append(m.cs, y) /\ y.t = t /\ y.a = "pcall"
                                /\ y.d = Len(m.th[t].ci) + 1
    BY <1>4, <1>7
  <2>6. KeepsCalls(m, w, t, Append(Calls(m.th[t]), g.f)) /\ Guarded(w) /\ Clean(w)
    BY ONLY <1>1, <1>4, <2>1, <2>2, <2>3, <2>4, <2>5, PushSeen
  <2> QED
    BY <1>3, <2>6
<1>9. Tidy(w, p, x, t)
  BY <1>6, <1>8 DEF Tidy, DCalls, Runnable
<1>10. /\ Safe(z)
       /\ \/ ErrorSeen(w, z, t)
          \/ \E h \in Code : KeepsCalls(w, z, t, Append(Calls(w.th[t]), h))
  <2> DEFINE b == ~g.k
  <2>1. MakesEntry(m1, t, e, b, w) /\ z = LuaDCall(m1, t, e, b) /\ m1 \in Machine
    BY <1>3, <1>4, <1>5
  <2> HIDE DEF b
  <2> QED
    BY ONLY <1>9, <2>1, LuaDCallSeen
<1>11. f \in Names
  BY <1>4 DEF Names
<1>12. CASE ErrorSeen(w, z, t)
  BY <1>1, <1>8, <1>10, <1>11, <1>12, PushError
<1>13. ASSUME NEW h \in Code, KeepsCalls(w, z, t, Append(Calls(w.th[t]), h))
       PROVE  CallSeen(m, z, t)
  <2>1. Calls(w.th[t]) = Append(Calls(m.th[t]), f)
    BY <1>8 DEF KeepsCalls
  <2>2. h \in Names
    BY DEF Names
  <2>3. Append(Append(Calls(m.th[t]), f), h) = Calls(m.th[t]) \o <<f, h>>
    BY <1>2, <1>11, <2>2, TwoCalls
  <2>4. <<f, h>> \in Vias
    BY DEF Vias, Code
  <2>5. KeepsCalls(m, z, t, Calls(m.th[t]) \o <<f, h>>)
    BY <1>8, <1>13, <2>1, <2>3, KeepsKeeps
  <2> QED
    BY <2>4, <2>5 DEF CallSeen
<1> QED
  BY <1>10, <1>12, <1>13

\* A metamethod is called.
LEMMA MetamethodSeen ==
  ASSUME NEW m, NEW q, NEW v, NEW t, InCode(m, q, v, t), Safe(m), NEW z,
         z = LuaDCall(m, t, Entry("call", t, NoSave), FALSE)
  PROVE  Safe(z) /\ (CallSeen(m, z, t) \/ ErrorSeen(m, z, t))
<1> DEFINE e == Entry("call", t, NoSave)
<1>1. Tidy(m, q, v, t)
  BY CodeTidy
<1>2. /\ t \in Threads /\ m.th[t].ci \in Seq(FrameType) /\ m \in Machine
      /\ Calls(m.th[t]) = Functions(m.th[t].ci) /\ m.th[t].status = "ok"
  BY <1>1, TidyFacts
<1>3. e \in EntryType /\ e.a = "call" /\ e.t = t
  BY <1>2, NoSaves
<1>4. PICK w : /\ MakesEntry(m, t, e, FALSE, w)
               /\ \E p, x \in Positions : DCalls(m, p, x, t, e, FALSE, w)
  BY MetamethodMade, Zenon
<1>5. PICK p \in Positions, x \in Positions : DCalls(m, p, x, t, e, FALSE, w)
  BY <1>4
<1> HIDE DEF e
<1>6. /\ w \in Machine /\ w.cs = Append(m.cs, e)
      /\ \A u \in Threads \ {t} : w.th[u] = m.th[u]
      /\ w.th[t].ci = m.th[t].ci /\ w.th[t].status = m.th[t].status
  <2> DEFINE b == FALSE
  <2>1. MakesEntry(m, t, e, b, w)
    BY <1>4
  <2> HIDE DEF b
  <2> QED
    BY ONLY <2>1, EntryMade
<1>7. KeepsCalls(m, w, t, Calls(m.th[t])) /\ Guarded(w) /\ Clean(w)
  <2>1. Enlarges(m, w, t)
    BY <1>3, <1>6 DEF Enlarges
  <2>2. w.th[t] \in StateType /\ w.th[t].status = "ok"
    BY ONLY <1>2, <1>6 DEF Machine
  <2> QED
    BY ONLY <1>1, <1>6, <2>1, <2>2, EntrySeen
<1>8. Tidy(w, p, x, t)
  BY <1>5, <1>7 DEF Tidy, DCalls, Runnable
<1>9. /\ Safe(z)
      /\ \/ ErrorSeen(w, z, t)
         \/ \E h \in Code : KeepsCalls(w, z, t, Append(Calls(w.th[t]), h))
  <2>1. z = LuaDCall(m, t, e, FALSE)
    BY DEF e
  <2> QED
    BY ONLY <1>2, <1>4, <1>8, <2>1, LuaDCallSeen
<1>10. CASE ErrorSeen(w, z, t)
  BY <1>7, <1>9, <1>10, KeepsError
<1>11. ASSUME NEW h \in Code, KeepsCalls(w, z, t, Append(Calls(w.th[t]), h))
       PROVE  CallSeen(m, z, t)
  <2>1. Calls(w.th[t]) = Calls(m.th[t])
    BY <1>7 DEF KeepsCalls
  <2>2. h \in Names
    BY DEF Names
  <2>3. Append(Calls(m.th[t]), h) = Calls(m.th[t]) \o <<h>>
    BY <1>2, <2>2, TwoCalls
  <2>4. <<h>> \in Vias
    BY DEF Vias, Code
  <2>5. KeepsCalls(m, z, t, Calls(m.th[t]) \o <<h>>)
    <3>1. KeepsCalls(w, z, t, Calls(m.th[t]) \o <<h>>)
      BY <1>11, <2>1, <2>3
    <3> QED
      BY ONLY <1>7, <3>1, KeepsKeeps
  <2> QED
    BY <2>4, <2>5 DEF CallSeen
<1> QED
  BY <1>9, <1>10, <1>11

\* Lua code calls g, which needs no entry, in z.
WithCall(m, t, g, z) == z = [m EXCEPT !.th[t].ci = Append(@, g)]

\* The thread with that call.
LEMMA CodeCallSeen ==
  ASSUME NEW m, NEW q, NEW v, NEW t, InCode(m, q, v, t), Safe(m), NEW g \in FrameType,
         NEW z, WithCall(m, t, g, z)
  PROVE  /\ Tidy(m, q, v, t)
         /\ z.cs = m.cs /\ z.th[t] \in StateType /\ z.th[t].status = "ok"
         /\ z.th[t].ci = Append(m.th[t].ci, g) /\ \A u \in Threads \ {t} : z.th[u] = m.th[u]
<1> DEFINE s == m.th[t]
           a == Append(s.ci, g)
           r == [s EXCEPT !.ci = a]
<1>1. Tidy(m, q, v, t)
  BY CodeTidy
<1>2. /\ m \in Machine /\ t \in Threads /\ s \in StateType /\ s.ci \in Seq(FrameType)
      /\ s.status = "ok"
  BY <1>1, TidyFacts
<1>3. z = [m EXCEPT !.th[t] = r]
  BY <1>2 DEF WithCall
<1>4. r \in StateType /\ r.ci = a /\ r.status = "ok"
  <2>1. a \in Seq(FrameType)
    BY <1>2
  <2> HIDE DEF s, a
  <2> QED
    BY <1>2, <2>1, Zenon DEF StateType
<1> HIDE DEF r
<1>5. z.th[t] = r /\ z.cs = m.cs /\ \A u \in Threads \ {t} : z.th[u] = m.th[u]
  BY ONLY <1>2, <1>3, <1>4, ThreadSet
<1> QED
  BY <1>1, <1>4, <1>5

\* OP_CALL of a Lua function.
LEMMA CallLuaSeen ==
  ASSUME NEW m, NEW q, NEW v, NEW t, InCode(m, q, v, t), Safe(m), NEW z,
         z = [m EXCEPT !.th[t].ci = Append(@, [Frame("lua") EXCEPT !.fresh = FALSE])]
  PROVE  Safe(z) /\ CallSeen(m, z, t)
<1> DEFINE f == Frame("lua")
           g == [f EXCEPT !.fresh = FALSE]
<1>1. f \in FrameType /\ f.f = "lua"
  <2>1. "lua" \in Names
    BY DEF Names, Code
  <2> QED
    BY <2>1, Frames
<1>2. WithCall(m, t, g, z)
  BY Zenon DEF WithCall
<1> HIDE DEF f
<1>3. g \in FrameType /\ g.f = "lua"
  BY ONLY <1>1, Zenon DEF FrameType
<1> HIDE DEF g
<1>4. /\ Tidy(m, q, v, t)
      /\ z.cs = m.cs /\ z.th[t] \in StateType /\ z.th[t].status = "ok"
      /\ z.th[t].ci = Append(m.th[t].ci, g) /\ \A u \in Threads \ {t} : z.th[u] = m.th[u]
  BY ONLY <1>2, <1>3, InCode(m, q, v, t), Safe(m), CodeCallSeen
<1>5. g.f \notin Leaving /\ g.f \notin Guarding /\ Enlarges(m, z, t)
  <2>1. g.f \notin Leaving /\ g.f \notin Guarding
    BY <1>3 DEF Leaving, Guarding
  <2> QED
    BY ONLY <1>4, <2>1 DEF Enlarges
<1>6. KeepsCalls(m, z, t, Append(Calls(m.th[t]), g.f)) /\ Guarded(z) /\ Clean(z)
  BY ONLY <1>3, <1>4, <1>5, PushSeen
<1>7. Append(Calls(m.th[t]), "lua") = Calls(m.th[t]) \o <<"lua">>
  <2>1. m.th[t].ci \in Seq(FrameType) /\ Calls(m.th[t]) = Functions(m.th[t].ci)
    BY <1>4, TidyFacts
  <2>2. "lua" \in Names
    BY DEF Names, Code
  <2> QED
    BY <2>1, <2>2, TwoCalls
<1>8. <<"lua">> \in Vias
  BY DEF Vias
<1>9. CallSeen(m, z, t)
  BY <1>3, <1>6, <1>7, <1>8 DEF CallSeen
<1> QED
  BY <1>6, <1>9, CleanSafe

\* A failure of coroutine.wrap does not show.
LEMMA WrapFailsSeen ==
  ASSUME NEW m, NEW q, NEW v, NEW t, InCode(m, q, v, t), Safe(m), NEW z,
         z = [m EXCEPT !.th[t].ci = Append(@, Frame("failed"))]
  PROVE  Safe(z) /\ Stays(m, z, t)
<1> DEFINE g == Frame("failed")
           s == m.th[t].ci
           a == z.th[t].ci
<1>1. g \in FrameType /\ g.f = "failed"
  <2>1. "failed" \in Names
    BY DEF Names, Leaving
  <2> QED
    BY <2>1, Frames
<1>2. WithCall(m, t, g, z)
  BY Zenon DEF WithCall
<1> HIDE DEF g
<1>3. /\ Tidy(m, q, v, t)
      /\ z.cs = m.cs /\ z.th[t] \in StateType /\ z.th[t].status = "ok"
      /\ a = Append(s, g) /\ \A u \in Threads \ {t} : z.th[u] = m.th[u]
  <2> HIDE DEF s, a
  <2>1. /\ Tidy(m, q, v, t)
        /\ z.cs = m.cs /\ z.th[t] \in StateType /\ z.th[t].status = "ok"
        /\ z.th[t].ci = Append(m.th[t].ci, g) /\ \A u \in Threads \ {t} : z.th[u] = m.th[u]
    BY ONLY <1>1, <1>2, InCode(m, q, v, t), Safe(m), CodeCallSeen
  <2> QED
    BY ONLY <2>1 DEF s, a
<1>4. /\ m.cs \in Seq(EntryType) /\ Len(m.cs) \in Nat /\ t \in Threads /\ s \in Seq(FrameType)
      /\ Len(s) \in Nat /\ Guarded(m) /\ Clean(m) /\ NoneFailed(s) /\ Running(m.cs) = t
      /\ Calls(m.th[t]) = Functions(s) /\ m.cs # << >> /\ t = Going(m)
  BY <1>3, TidyFacts
<1>5. /\ a \in Seq(FrameType) /\ Len(a) = Len(s) + 1 /\ a[Len(s) + 1] = g
      /\ \A i \in 1 .. Len(s) : a[i] = s[i]
  BY <1>1, <1>3, <1>4, AppendElements
<1> HIDE DEF s, a
<1>6. \A i \in 1 .. Len(a) : i \in 1 .. Len(s) \/ (i = Len(s) + 1 /\ i = Len(a))
  BY <1>4, <1>5
<1>7. Calls(z.th[t]) = Calls(m.th[t])
  <2>1. a # << >> /\ a[Len(a)].f = "failed"
    BY <1>1, <1>4, <1>5
  <2>2. Calls(z.th[t]) = Functions(SubSeq(a, 1, Len(a) - 1))
    <3>1. z.th[t].status # "error"
      BY <1>3
    <3> QED
      BY <1>3, <2>1, <3>1, CallsOf DEF a
  <2>3. SubSeq(a, 1, Len(a) - 1) = s
    <3>1. Len(s) \in 0 .. Len(a) /\ Len(a) - 1 = Len(s)
      BY <1>4, <1>5
    <3>2. /\ SubSeq(a, 1, Len(s)) \in Seq(FrameType) /\ Len(SubSeq(a, 1, Len(s))) = Len(s)
          /\ \A i \in 1 .. Len(s) : SubSeq(a, 1, Len(s))[i] = a[i]
      BY <1>5, <3>1, PrefixElements
    <3>3. SubSeq(a, 1, Len(s)) = s
      BY <1>4, <1>5, <3>2, SameSeq
    <3> QED
      BY <3>1, <3>3
  <2> QED
    BY <1>4, <2>2, <2>3
<1>8. Stays(m, z, t)
  <2>1. \A u \in Threads \ {t} : Seen(m, z, u)
    BY <1>3 DEF Seen
  <2> QED
    BY <1>3, <1>4, <1>7, <2>1 DEF Stays, KeepsCalls
<1>9. FailedLast(z)
  <2>1. ASSUME NEW u \in Threads, NEW i \in 1 .. Len(z.th[u].ci), z.th[u].ci[i].f = "failed"
        PROVE  u = t /\ i = Len(z.th[u].ci)
    <3>1. CASE u # t
      BY <1>3, <1>4, <2>1, <3>1 DEF Clean, NoneFailed
    <3>2. CASE u = t
      <4>1. i \in 1 .. Len(a) /\ a[i].f = "failed"
        BY <2>1, <3>2 DEF a
      <4>2. i \notin 1 .. Len(s)
        BY ONLY <1>4, <1>5, <4>1 DEF NoneFailed
      <4> QED
        BY <1>6, <3>2, <4>1, <4>2 DEF a
    <3> QED
      BY <3>1, <3>2
  <2>2. Going(z) = t /\ z.cs # << >>
    BY <1>3, <1>4 DEF Going
  <2> QED
    BY <2>1, <2>2 DEF FailedLast
<1>10. Guarded(z)
  <2>1. ASSUME NEW u \in Threads, Own(z.cs, u) # {}, NEW i \in 1 .. Len(z.th[u].ci),
               Unmarked(z.th[u].ci, i)
        PROVE  /\ Own(m.cs, u) # {}
               /\ i \in 1 .. Len(m.th[u].ci) /\ Unmarked(m.th[u].ci, i)
    <3>1. CASE u # t
      BY <1>3, <2>1, <3>1
    <3>2. CASE u = t
      <4>1. i \in 1 .. Len(a) /\ Unmarked(a, i)
        BY <2>1, <3>2 DEF a
      <4>2. i # Len(s) + 1
        BY <1>1, <1>5, <4>1 DEF Unmarked, Guarding
      <4>3. i \in 1 .. Len(s) /\ Unmarked(s, i)
        BY <1>5, <1>6, <4>1, <4>2 DEF Unmarked
      <4> QED
        BY <1>3, <2>1, <3>2, <4>3 DEF s
    <3> QED
      BY <3>1, <3>2
  <2>2. Len(z.cs) \in Nat /\ Extends(m.cs, z.cs)
    BY <1>3, <1>4 DEF Extends
  <2> QED
    BY <1>4, <2>1, <2>2, GuardedGrow
<1> QED
  BY <1>8, <1>9, <1>10 DEF Safe

\* It raises its error again.
LEMMA WrapRaisesSeen ==
  ASSUME NEW m, m \in Machine, NEW q \in Positions, NEW v \in Positions, Base(m, q, v), Goes(m, q),
         m.cs # << >>, NEW t, t = Going(m), m.th[t].ci[Len(m.th[t].ci)].f = "failed",
         Safe(m), NEW z, z = Raise([m EXCEPT !.th[t] = Popped(@, 1)], t)
  PROVE  Safe(z) /\ (ErrorSeen(m, z, t) \/ CallSeen(m, z, t))
<1> DEFINE s == m.th[t].ci
           k == Len(m.th[t].ci)
<1>1. PICK w : WrapEnds(m, q, v, t, w)
  BY WrapIsOver
<1>2. /\ [m EXCEPT !.th[t] = Popped(@, 1)] = w /\ Runnable(w, q, v, t)
      /\ t \in Threads /\ k \in Nat \ {0} /\ s \in Seq(FrameType)
      /\ w.cs = m.cs /\ \A u \in Threads \ {t} : w.th[u] = m.th[u]
      /\ w.th[t].ci = SubSeq(s, 1, k - 1) /\ w.th[t].status = "ok"
      /\ m.th[t].status = "ok" /\ m.th[t] \in StateType /\ w.th[t] \in StateType
  BY <1>1 DEF WrapEnds
<1>3. m.cs \in Seq(EntryType) /\ Len(m.cs) \in Nat
  BY DEF Machine
<1>4. /\ k - 1 \in 0 .. k /\ k \in 1 .. k /\ k - 1 \in Nat
      /\ k = Len(s) /\ s[k].f = "failed" /\ s # << >>
  <2>1. k = Len(s) /\ s[k].f = "failed" /\ k \in Nat \ {0} /\ s \in Seq(FrameType)
    BY <1>2
  <2> HIDE DEF k, s
  <2>2. k - 1 \in 0 .. k /\ k \in 1 .. k /\ k - 1 \in Nat
    BY ONLY <2>1
  <2>3. s # << >>
    BY ONLY <2>1
  <2> QED
    BY <2>1, <2>2, <2>3
<1> HIDE DEF k, s
<1>5. /\ w.th[t].ci \in Seq(FrameType) /\ Len(w.th[t].ci) = k - 1
      /\ \A i \in 1 .. k - 1 : w.th[t].ci[i] = s[i]
  BY ONLY <1>2, <1>4, PrefixElements
<1>6. \A i \in 1 .. k - 1 : i \in 1 .. Len(s) /\ i # Len(s)
  BY <1>4
<1>7. Clean(w)
  <2>1. ASSUME NEW u \in Threads, NEW i \in 1 .. Len(w.th[u].ci), w.th[u].ci[i].f = "failed"
        PROVE  FALSE
    <3>1. CASE u # t
      BY <1>2, <2>1, <3>1 DEF Safe, FailedLast
    <3>2. CASE u = t
      <4>1. i \in 1 .. k - 1 /\ s[i].f = "failed"
        BY <1>5, <2>1, <3>2
      <4>2. i \in 1 .. Len(s) /\ i # Len(s)
        BY <1>6, <4>1
      <4> QED
        BY <1>2, <4>1, <4>2 DEF Safe, FailedLast, s
    <3> QED
      BY <3>1, <3>2
  <2> QED
    BY <2>1 DEF Clean, NoneFailed
<1>8. Guarded(w)
  <2>1. ASSUME NEW u \in Threads, Own(w.cs, u) # {}, NEW i \in 1 .. Len(w.th[u].ci),
               Unmarked(w.th[u].ci, i)
        PROVE  /\ Own(m.cs, u) # {}
               /\ i \in 1 .. Len(m.th[u].ci) /\ Unmarked(m.th[u].ci, i)
    <3>1. CASE u # t
      BY <1>2, <2>1, <3>1
    <3>2. CASE u = t
      <4>1. i \in 1 .. k - 1 /\ Unmarked(s, i)
        BY <1>5, <2>1, <3>2 DEF Unmarked
      <4> QED
        BY <1>2, <1>6, <2>1, <3>2, <4>1 DEF s
    <3> QED
      BY <3>1, <3>2
  <2>2. Len(w.cs) \in Nat /\ Extends(m.cs, w.cs)
    BY <1>2, <1>3 DEF Extends
  <2> QED
    BY <2>1, <2>2, <1>3, GuardedGrow DEF Safe
<1>9. Tidy(w, q, v, t)
  BY <1>2, <1>7, <1>8 DEF Tidy, Runnable
<1>10. KeepsCalls(m, w, t, Calls(m.th[t]))
  <2>1. Calls(m.th[t]) = Functions(SubSeq(s, 1, k - 1))
    <3>1. m.th[t].status # "error"
      BY <1>2
    <3> QED
      BY <1>2, <1>4, <3>1, CallsOf DEF s
  <2>2. Calls(w.th[t]) = Functions(w.th[t].ci)
    BY <1>9, TidyFacts
  <2>3. \A u \in Threads \ {t} : Seen(m, w, u)
    BY <1>2 DEF Seen
  <2>4. Running(m.cs) = t
    BY DEF Running, Going, Last
  <2> QED
    BY <1>2, <2>1, <2>2, <2>3, <2>4 DEF KeepsCalls
<1>11. z = Raise(w, t)
  BY <1>2
<1>12. /\ Safe(z)
       /\ ErrorSeen(w, z, t) \/ KeepsCalls(w, z, t, Append(Calls(w.th[t]), "handler"))
  BY <1>9, <1>11, RaiseSeen
<1>13. CASE ErrorSeen(w, z, t)
  BY <1>10, <1>12, <1>13, KeepsError
<1>14. CASE KeepsCalls(w, z, t, Append(Calls(w.th[t]), "handler"))
  <2>1. Calls(w.th[t]) = Calls(m.th[t]) /\ Calls(w.th[t]) = Functions(w.th[t].ci)
    BY <1>9, <1>10, TidyFacts DEF KeepsCalls
  <2>2. "handler" \in Names
    BY DEF Names, Code
  <2>3. Append(Calls(w.th[t]), "handler") = Calls(m.th[t]) \o <<"handler">>
    <3>1. Append(Calls(w.th[t]), "handler") = Calls(w.th[t]) \o <<"handler">>
      BY <1>5, <2>1, <2>2, TwoCalls
    <3> QED
      BY <2>1, <3>1
  <2>4. KeepsCalls(m, z, t, Calls(m.th[t]) \o <<"handler">>)
    <3>1. KeepsCalls(w, z, t, Calls(m.th[t]) \o <<"handler">>)
      BY ONLY <1>14, <2>3
    <3> QED
      BY ONLY <1>10, <3>1, KeepsKeeps
  <2>5. <<"handler">> \in Vias
    BY DEF Vias
  <2> QED
    BY <1>12, <2>4, <2>5 DEF CallSeen
<1> QED
  BY <1>12, <1>13, <1>14

\* error(), or a yield that cannot be made.
LEMMA RaisedSeen ==
  ASSUME NEW m, NEW q, NEW v, NEW t, InCode(m, q, v, t), Safe(m), NEW z, z = Raise(m, t)
  PROVE  Safe(z) /\ (ErrorSeen(m, z, t) \/ CallSeen(m, z, t))
<1>1. Tidy(m, q, v, t)
  BY CodeTidy
<1>2. /\ Safe(z)
      /\ ErrorSeen(m, z, t) \/ KeepsCalls(m, z, t, Append(Calls(m.th[t]), "handler"))
  BY <1>1, RaiseSeen
<1>3. m.th[t].ci \in Seq(FrameType) /\ Calls(m.th[t]) = Functions(m.th[t].ci)
  BY <1>1, TidyFacts
<1>4. "handler" \in Names /\ <<"handler">> \in Vias
  BY DEF Names, Code, Vias
<1>5. Append(Calls(m.th[t]), "handler") = Calls(m.th[t]) \o <<"handler">>
  BY <1>3, <1>4, TwoCalls
<1> QED
  BY <1>2, <1>4, <1>5 DEF CallSeen

-----------------------------------------------------------------------------
(* Returns, as a program sees them *)

\* What a return leaves of the calls s.
CodeIn(s) == {i \in 1 .. Len(s) - 1 : s[i] \in {"lua", "handler"}}
ReturnsIn(s) ==
  IF CodeIn(s) = {} THEN << >>
  ELSE SubSeq(s, 1, CHOOSE i \in CodeIn(s) : \A j \in CodeIn(s) : j <= i)
ReturnSeen(m, w, t) ==
  LET rest == ReturnsIn(Calls(m.th[t]))
  IN IF rest # << >> \/ t = Main THEN KeepsCalls(m, w, t, rest)
     ELSE \E r \in Threads : LeavesCalls(m, w, t, r, "dead", << >>)

\* The positions of Lua code that a program sees.
LEMMA CodeSeen ==
  ASSUME NEW a \in Seq(FrameType)
  PROVE  CodeIn(Functions(a)) = {i \in 1 .. Len(a) - 1 : a[i].f \in Code}
<1>1. /\ Len(Functions(a)) = Len(a) /\ Len(a) \in Nat
      /\ \A i \in 1 .. Len(a) : Functions(a)[i] = IF a[i].f = "wrap" THEN "resume" ELSE a[i].f
  BY FunctionsOf
<1>2. \A i \in 1 .. Len(a) - 1 : i \in 1 .. Len(a)
  BY <1>1
<1> QED
  BY <1>1, <1>2 DEF CodeIn, Code

\* The last Lua code below goes on.
LEMMA ReturnsAt ==
  ASSUME NEW a \in Seq(FrameType), NEW p \in 1 .. Len(a) - 1, a[p].f \in Code,
         \A i \in p + 1 .. Len(a) - 1 : a[i].f \notin Code
  PROVE  ReturnsIn(Functions(a)) = Functions(SubSeq(a, 1, p)) /\ ReturnsIn(Functions(a)) # << >>
<1> DEFINE S == CodeIn(Functions(a))
           x == CHOOSE i \in S : \A j \in S : j <= i
<1>1. Len(a) \in Nat /\ p \in Nat \ {0} /\ p \in 0 .. Len(a) /\ p <= Len(a) - 1
  OBVIOUS
<1>2. S = {i \in 1 .. Len(a) - 1 : a[i].f \in Code}
  BY CodeSeen
<1> HIDE DEF S
<1>3. p \in S /\ S \subseteq 1 .. Len(a) - 1
  BY <1>2
<1>4. \A j \in S : j <= p
  <2>1. ASSUME NEW j \in S PROVE j <= p
    <3>1. j \in 1 .. Len(a) - 1 /\ a[j].f \in Code
      BY <1>2
    <3>2. j \notin p + 1 .. Len(a) - 1
      BY <3>1
    <3> QED
      BY <1>1, <3>1, <3>2
  <2> QED
    BY <2>1
<1>5. x \in S /\ \A j \in S : j <= x
  BY <1>3, <1>4, Zenon
<1>6. S # {}
  BY <1>3
<1>7. ReturnsIn(Functions(a)) = SubSeq(Functions(a), 1, x)
  BY <1>6, Zenon DEF ReturnsIn, S
<1> HIDE DEF x
<1>8. x = p
  <2>1. x \in Int /\ x <= p /\ p <= x
    BY <1>3, <1>4, <1>5
  <2> QED
    BY <1>1, <2>1
<1>9. Functions(SubSeq(a, 1, p)) = SubSeq(Functions(a), 1, p)
  BY <1>1, FunctionsPrefix
<1>10. SubSeq(a, 1, p) \in Seq(FrameType) /\ SubSeq(a, 1, p) # << >>
  <2>1. SubSeq(a, 1, p) \in Seq(FrameType) /\ Len(SubSeq(a, 1, p)) = p
    BY <1>1, PrefixElements
  <2> QED
    BY <1>1, <2>1
<1>11. Functions(SubSeq(a, 1, p)) # << >>
  BY <1>10, FunctionsOf
<1> QED
  BY <1>7, <1>8, <1>9, <1>11

\* There is none.
LEMMA ReturnsNone ==
  ASSUME NEW a \in Seq(FrameType), \A i \in 1 .. Len(a) - 1 : a[i].f \notin Code
  PROVE  ReturnsIn(Functions(a)) = << >>
<1>1. CodeIn(Functions(a)) = {}
  <2>1. CodeIn(Functions(a)) = {i \in 1 .. Len(a) - 1 : a[i].f \in Code}
    BY CodeSeen
  <2> QED
    BY <2>1
<1> QED
  BY <1>1 DEF ReturnsIn

\* t goes on with its first p calls, in the C function that its last entry left.
LEMMA CutSeen ==
  ASSUME NEW m, NEW q, NEW v, NEW t, Tidy(m, q, v, t), NEW w, NEW p \in 1 .. Len(m.th[t].ci) - 1,
         m.th[t].ci[p].f \in Code,
         \A i \in p + 1 .. Len(m.th[t].ci) - 1 : m.th[t].ci[i].f \notin Code,
         w.th[t] \in StateType, w.th[t].status = "ok", Len(w.th[t].ci) = p,
         \A i \in 1 .. p : /\ w.th[t].ci[i].f = m.th[t].ci[i].f
                           /\ w.th[t].ci[i].k = m.th[t].ci[i].k,
         \A u \in Threads \ {t} : w.th[u] = m.th[u],
         w.cs = m.cs \/ (/\ w.cs = SubSeq(m.cs, 1, Len(m.cs) - 1) /\ Len(m.cs) > 1
                         /\ m.cs[Len(m.cs) - 1].t = t
                         /\ m.cs[Len(m.cs)].a = "pcall" => m.cs[Len(m.cs)].d > p)
  PROVE  Safe(w) /\ ReturnSeen(m, w, t)
<1> DEFINE s == m.th[t].ci
           a == w.th[t].ci
           n == Len(m.cs)
<1>1. /\ m.cs \in Seq(EntryType) /\ n \in Nat \ {0} /\ n \in Own(m.cs, t) /\ m.cs[n].t = t
      /\ t \in Threads /\ s \in Seq(FrameType) /\ Len(s) \in Nat /\ Stacked(m.cs)
      /\ Running(m.cs) = t /\ NoneFailed(s) /\ Calls(m.th[t]) = Functions(s)
      /\ Guarded(m) /\ Clean(m) /\ m.cs # << >> /\ m.cs[1].a # "resume"
  BY TidyFacts
<1>2. a \in Seq(FrameType) /\ Len(a) = p /\ \A i \in 1 .. p : a[i].f = s[i].f /\ a[i].k = s[i].k
  BY DEF StateType
<1>3. p \in Nat \ {0} /\ p \in 0 .. Len(s) /\ \A i \in 1 .. p : i \in 1 .. Len(s)
  BY <1>1
<1>4. /\ ReturnsIn(Functions(s)) = Functions(SubSeq(s, 1, p))
      /\ ReturnsIn(Functions(s)) # << >>
  <2> HIDE DEF s
  <2> QED
    BY <1>1, ReturnsAt DEF s
<1> HIDE DEF s, a, n
<1>5. NoneFailed(a)
  BY <1>1, <1>2, <1>3 DEF NoneFailed
<1>6. Calls(w.th[t]) = Functions(SubSeq(s, 1, p))
  <2>1. Calls(w.th[t]) = Functions(a)
    BY <1>5, CallsClean DEF a
  <2>2. /\ SubSeq(s, 1, p) \in Seq(FrameType) /\ Len(SubSeq(s, 1, p)) = p
        /\ \A i \in 1 .. p : SubSeq(s, 1, p)[i] = s[i]
    BY <1>1, <1>3, PrefixElements
  <2>3. \A i \in 1 .. Len(a) : a[i].f = SubSeq(s, 1, p)[i].f
    BY <1>2, <2>2
  <2>4. Functions(a) = Functions(SubSeq(s, 1, p))
    <3> DEFINE b == SubSeq(s, 1, p)
    <3>1. Len(a) = Len(b) /\ \A i \in 1 .. Len(a) : a[i].f = b[i].f
      BY <1>2, <2>2, <2>3
    <3> HIDE DEF b
    <3>2. Functions(a) = Functions(b)
      BY ONLY <3>1, FunctionsSame
    <3> QED
      BY <3>2 DEF b
  <2> QED
    BY <2>1, <2>4
<1>7. Clean(w)
  <2>1. \A u \in Threads \ {t} : NoneFailed(w.th[u].ci)
    BY <1>1 DEF Clean
  <2> QED
    BY <1>5, <2>1 DEF Clean, a
<1>8. ASSUME NEW i \in 1 .. Len(a), Unmarked(a, i) PROVE i \in 1 .. Len(s) /\ Unmarked(s, i) /\ i <= p
  BY <1>2, <1>3, <1>8 DEF Unmarked
<1>9. /\ Guarded(w) /\ Running(w.cs) = t
      /\ \A u \in Threads : Resumer(w.cs, u) = Resumer(m.cs, u)
  <2>1. CASE w.cs = m.cs
    <3>1. ASSUME NEW u \in Threads, Own(w.cs, u) # {}, NEW i \in 1 .. Len(w.th[u].ci),
                 Unmarked(w.th[u].ci, i)
          PROVE  /\ Own(m.cs, u) # {}
                 /\ i \in 1 .. Len(m.th[u].ci) /\ Unmarked(m.th[u].ci, i)
      <4>1. CASE u # t
        BY <2>1, <3>1, <4>1
      <4>2. CASE u = t
        BY <1>8, <2>1, <3>1, <4>2 DEF a, s
      <4> QED
        BY <4>1, <4>2
    <3>2. Len(m.cs) \in Nat /\ Len(w.cs) \in Nat /\ Extends(m.cs, w.cs)
      BY <1>1, <2>1 DEF Extends, n
    <3>3. Guarded(w)
      BY <1>1, <3>1, <3>2, GuardedGrow
    <3> QED
      BY <1>1, <2>1, <3>3
  <2>2. CASE /\ w.cs = SubSeq(m.cs, 1, n - 1) /\ n > 1 /\ m.cs[n - 1].t = t
             /\ m.cs[n].a = "pcall" => m.cs[n].d > p
    <3>1. /\ n - 1 \in 0 .. Len(m.cs) /\ n - 1 \in 1 .. n - 1 /\ n \in 2 .. Len(m.cs)
          /\ \A i \in (n - 1) + 1 .. Len(m.cs) : i = n
      BY <1>1, <2>2 DEF n
    <3>2. m.cs[n].a # "resume"
      <4>1. m.cs[n].a = "resume" => \A i \in 1 .. n - 1 : m.cs[i].t # m.cs[n].t
        BY <1>1, <3>1 DEF Stacked
      <4>2. m.cs[n - 1].t = t /\ m.cs[n].t = t
        BY <1>1, <2>2
      <4> QED
        BY ONLY <3>1, <4>1, <4>2
    <3>3. /\ w.cs \in Seq(EntryType) /\ Len(w.cs) = n - 1 /\ w.cs[n - 1] = m.cs[n - 1]
      BY <1>1, <2>2, <3>1, PrefixElements
    <3>4. Running(w.cs) = t
      <4>1. w.cs # << >>
        BY <3>1, <3>3
      <4> QED
        BY <2>2, <3>3, <4>1 DEF Running, Last
    <3>5. ASSUME NEW u \in Threads PROVE Resumer(w.cs, u) = Resumer(m.cs, u)
      <4>1. \A i \in (n - 1) + 1 .. Len(m.cs) : ~(m.cs[i].a = "resume" /\ m.cs[i].t = u)
        BY <3>1, <3>2
      <4>2. w.cs = SubSeq(m.cs, 1, n - 1)
        BY <2>2
      <4> QED
        BY ONLY <1>1, <3>1, <4>1, <4>2, ResumersCut
    <3>6. ASSUME NEW u \in Threads, Own(w.cs, u) # {}, NEW i \in 1 .. Len(w.th[u].ci),
                 Unmarked(w.th[u].ci, i)
          PROVE  /\ i \in 1 .. Len(m.th[u].ci) /\ Unmarked(m.th[u].ci, i)
                 /\ \A j \in Own(m.cs, u) : j > n - 1 /\ m.cs[j].a = "pcall" => m.cs[j].d # i
      <4>1. ASSUME NEW j \in Own(m.cs, u), j > n - 1 PROVE j = n /\ u = t
        <5>1. j \in 1 .. Len(m.cs) /\ m.cs[j].t = u
          BY DEF Own
        <5>2. j = n
          BY <1>1, <4>1, <5>1 DEF n
        <5> QED
          BY <1>1, <5>1, <5>2
      <4>2. CASE u # t
        BY <3>6, <4>1, <4>2
      <4>3. CASE u = t
        <5>1. i \in 1 .. Len(s) /\ Unmarked(s, i) /\ i <= p
          BY <1>8, <3>6, <4>3 DEF a
        <5>2. m.cs[n].d > p => m.cs[n].d # i
          <6>1. m.cs[n] \in EntryType
            BY <1>1, <3>1
          <6>2. m.cs[n].d \in Nat
            BY <6>1 DEF EntryType
          <6> QED
            BY <1>3, <5>1, <6>2
        <5> QED
          BY <2>2, <4>1, <4>3, <5>1, <5>2 DEF s
      <4> QED
        BY <4>2, <4>3
    <3>7. Guarded(w)
      <4>1. m.cs \in Seq(EntryType) /\ Guarded(m) /\ n - 1 \in 0 .. Len(m.cs)
            /\ w.cs = SubSeq(m.cs, 1, n - 1)
        BY <1>1, <2>2, <3>1
      <4> DEFINE x == n - 1
      <4>2. \A u \in Threads : Own(w.cs, u) # {} =>
           \A i \in 1 .. Len(w.th[u].ci) : Unmarked(w.th[u].ci, i) =>
             /\ i \in 1 .. Len(m.th[u].ci) /\ Unmarked(m.th[u].ci, i)
             /\ \A j \in Own(m.cs, u) : j > x /\ m.cs[j].a = "pcall" => m.cs[j].d # i
        BY <3>6
      <4>3. x \in 0 .. Len(m.cs) /\ w.cs = SubSeq(m.cs, 1, x)
        BY <4>1
      <4> HIDE DEF x
      <4> QED
        BY ONLY <4>1, <4>2, <4>3, GuardedCut
    <3> QED
      BY <3>4, <3>5, <3>7
  <2> QED
    BY <2>1, <2>2 DEF n
<1>10. KeepsCalls(m, w, t, ReturnsIn(Calls(m.th[t])))
  <2>1. \A u \in Threads \ {t} : Seen(m, w, u)
    BY DEF Seen
  <2> QED
    BY <1>1, <1>4, <1>6, <1>9, <2>1 DEF KeepsCalls
<1>11. ReturnSeen(m, w, t)
  BY <1>1, <1>4, <1>10 DEF ReturnSeen
<1> QED
  BY <1>7, <1>9, <1>11, CleanSafe

\* A function that runs in the luaV_execute of its caller returns.
LEMMA ReturnsToLuaSeen ==
  ASSUME NEW m, NEW q, NEW v, NEW t, InCode(m, q, v, t), Safe(m),
         ~m.th[t].ci[Len(m.th[t].ci)].fresh, NEW z, z = [m EXCEPT !.th[t] = Ended(m, t)]
  PROVE  Safe(z) /\ ReturnSeen(m, z, t)
<1> DEFINE s == m.th[t]
           k == Len(m.th[t].ci)
           a == SubSeq(s.ci, 1, k - 1)
           r == Ended(m, t)
           p == k - 1
<1>1. Tidy(m, q, v, t) /\ Runnable(m, q, v, t)
  BY CodeTidy DEF InCode
<1>2. /\ m \in Machine /\ t \in Threads /\ s \in StateType /\ s.ci \in Seq(FrameType)
      /\ k \in Nat \ {0} /\ Sound(t, s)
  BY <1>1, RunnableFacts
<1>3. s.status = "ok" /\ Framed(t, s.ci)
  BY <1>2 DEF Sound
<1>4. r = [s EXCEPT !.ci = a]
  BY DEF Ended, Popped
<1>5. p > 0 /\ p \in 1 .. k - 1 /\ s.ci[p].f \in Code /\ p \in 0 .. Len(s.ci)
  <2>1. ~s.ci[k].fresh /\ k \in 1 .. Len(s.ci)
    BY <1>2
  <2>2. k > 1 /\ s.ci[k - 1].f \in Code
    <3> HIDE DEF s, k
    <3> QED
      BY <1>3, <2>1 DEF Framed
  <2>3. k \in Nat /\ Len(s.ci) = k /\ p = k - 1
    BY <1>2
  <2> HIDE DEF s, k, p
  <2>4. p > 0 /\ p \in 1 .. k - 1 /\ p \in 0 .. Len(s.ci)
    BY ONLY <2>2, <2>3
  <2> QED
    BY ONLY <2>2, <2>3, <2>4
<1> HIDE DEF s, r, k, a
<1>6. a \in Seq(FrameType) /\ Len(a) = p /\ \A i \in 1 .. p : a[i] = s.ci[i]
  BY <1>2, <1>5, PrefixElements DEF a
<1>7. r \in StateType /\ r.ci = a /\ r.status = "ok"
  BY ONLY <1>2, <1>3, <1>4, <1>6, Zenon DEF StateType
<1>8. z.th[t] = r /\ z.cs = m.cs /\ \A u \in Threads \ {t} : z.th[u] = m.th[u]
  <2>1. z = [m EXCEPT !.th[t] = r]
    BY DEF r
  <2> QED
    BY ONLY <1>2, <1>7, <2>1, ThreadSet
<1>9. \A i \in p + 1 .. k - 1 : s.ci[i].f \notin Code
  BY <1>2
<1> HIDE DEF p
<1>10. /\ p \in 1 .. Len(m.th[t].ci) - 1 /\ m.th[t].ci[p].f \in Code
       /\ \A i \in p + 1 .. Len(m.th[t].ci) - 1 : m.th[t].ci[i].f \notin Code
  BY <1>5, <1>9 DEF s, k
<1>11. /\ z.th[t] \in StateType /\ z.th[t].status = "ok" /\ Len(z.th[t].ci) = p
       /\ \A i \in 1 .. p : /\ z.th[t].ci[i].f = m.th[t].ci[i].f
                            /\ z.th[t].ci[i].k = m.th[t].ci[i].k
  BY <1>6, <1>7, <1>8 DEF s
<1> QED
  BY ONLY <1>1, <1>8, <1>10, <1>11, CutSeen

\* One that a C function had called returns to that.
LEMMA LeavesEntrySeen ==
  ASSUME NEW m, NEW q, NEW v, NEW t, Safe(m), NEW p, NEW r, LeavesEntry(m, q, v, t, p, r),
         NEW z, z = [m EXCEPT !.th[t] = r, !.cs = SubSeq(@, 1, Len(@) - 1)]
  PROVE  Safe(z) /\ ReturnSeen(m, z, t)
<1> DEFINE s == m.th[t].ci
           k == Len(s)
           n == Len(m.cs)
           b == SubSeq(m.cs, 1, n - 1)
<1>1. /\ Ends(m, q, v, t) /\ n > 1 /\ m.cs[n - 1].t = t /\ m.cs[n].a # "handler"
      /\ p \in 1 .. k /\ s[p].f \in Code
      /\ \/ p = k - 1 /\ m.cs[n].a = "call"
         \/ p = k - 2 /\ s[k - 1].f \notin Code
      /\ r \in StateType /\ r.ci = SubSeq(s, 1, p) /\ r.status = "ok"
  BY DEF LeavesEntry
<1>2. /\ m \in Machine /\ t \in Threads /\ s \in Seq(FrameType) /\ k \in Nat \ {0}
      /\ m.cs \in Seq(EntryType) /\ n \in Nat \ {0} /\ n \in Own(m.cs, t)
      /\ Manned(m.cs, s, q, t) /\ q[n] = k
  BY <1>1, EndsFacts
<1>3. Tidy(m, q, v, t)
  BY <1>1, CodeTidy DEF Ends
<1>4. z = [m EXCEPT !.th[t] = r, !.cs = b]
  BY <1>2
<1> HIDE DEF s, k, b, n
<1>5. b \in Seq(EntryType)
  <2>1. n - 1 \in 0 .. Len(m.cs)
    BY <1>2 DEF n
  <2> QED
    BY <1>2, <2>1, PrefixElements DEF b
<1>6. z.th[t] = r /\ z.cs = b /\ \A u \in Threads \ {t} : z.th[u] = m.th[u]
  BY ONLY <1>1, <1>2, <1>4, <1>5, Zenon DEF Machine
<1>7. p \in 1 .. k - 1 /\ p \in 0 .. k /\ \A i \in p + 1 .. k - 1 : s[i].f \notin Code
  <2>1. CASE p = k - 1
    BY <1>1, <1>2, <2>1
  <2>2. CASE p = k - 2 /\ s[k - 1].f \notin Code
    <3>1. \A i \in p + 1 .. k - 1 : i = k - 1
      BY <1>2, <2>2
    <3>2. p \in 1 .. k - 1 /\ p \in 0 .. k
      BY <1>1, <1>2, <2>2
    <3> QED
      BY <2>2, <3>1, <3>2
  <2> QED
    BY <1>1, <2>1, <2>2
<1>8. r.ci \in Seq(FrameType) /\ Len(r.ci) = p /\ \A i \in 1 .. p : r.ci[i] = s[i]
  BY <1>1, <1>2, <1>7, PrefixElements DEF k
<1>9. m.cs[n].a = "pcall" => m.cs[n].d > p
  <2>1. ASSUME m.cs[n].a = "pcall" PROVE m.cs[n].d > p
    <3>1. Made(t, s, m.cs[n], n, k)
      BY <1>2 DEF Manned, Linked, AllMade
    <3>2. m.cs[n].d = k - 1
      BY <1>1, <2>1, <3>1 DEF Made
    <3>3. p = k - 2
      BY <1>1, <2>1
    <3> QED
      BY <1>2, <3>2, <3>3
  <2> QED
    BY <2>1
<1>10. /\ p \in 1 .. Len(m.th[t].ci) - 1 /\ m.th[t].ci[p].f \in Code
       /\ \A i \in p + 1 .. Len(m.th[t].ci) - 1 : m.th[t].ci[i].f \notin Code
  BY <1>1, <1>7 DEF s, k
<1>11. /\ z.th[t] \in StateType /\ z.th[t].status = "ok" /\ Len(z.th[t].ci) = p
       /\ \A i \in 1 .. p : /\ z.th[t].ci[i].f = m.th[t].ci[i].f
                            /\ z.th[t].ci[i].k = m.th[t].ci[i].k
  BY <1>1, <1>6, <1>8 DEF s
<1>12. /\ z.cs = SubSeq(m.cs, 1, Len(m.cs) - 1) /\ Len(m.cs) > 1
       /\ m.cs[Len(m.cs) - 1].t = t
       /\ m.cs[Len(m.cs)].a = "pcall" => m.cs[Len(m.cs)].d > p
  BY <1>1, <1>6, <1>9 DEF b, n
<1>13. z.cs = m.cs \/ (/\ z.cs = SubSeq(m.cs, 1, Len(m.cs) - 1) /\ Len(m.cs) > 1
                       /\ m.cs[Len(m.cs) - 1].t = t
                       /\ m.cs[Len(m.cs)].a = "pcall" => m.cs[Len(m.cs)].d > p)
  BY ONLY <1>12
<1>14. \A u \in Threads \ {t} : z.th[u] = m.th[u]
  BY <1>6
<1> QED
  BY ONLY <1>3, <1>10, <1>11, <1>13, <1>14, CutSeen

\* The host is returned to.
LEMMA HostSeen ==
  ASSUME NEW m, NEW q, NEW v, NEW t, Tidy(m, q, v, t), NEW z, HostIsBack(m, t, z)
  PROVE  Safe(z) /\ ReturnSeen(m, z, t)
<1> DEFINE s == m.th[t].ci
<1>1. /\ t = Main /\ Len(s) = 1
      /\ z \in Machine /\ z.cs = << >> /\ z.lost = m.lost
      /\ z.th[t].ci = << >> /\ z.th[t].status = "ok" /\ \A u \in Threads \ {t} : z.th[u] = m.th[u]
  BY DEF HostIsBack
<1>2. /\ m.cs \in Seq(EntryType) /\ Len(m.cs) \in Nat \ {0} /\ Len(m.cs) \in Own(m.cs, t)
      /\ t \in Threads /\ s \in Seq(FrameType) /\ Stacked(m.cs)
      /\ Running(m.cs) = t /\ Calls(m.th[t]) = Functions(s) /\ Clean(m)
  BY TidyFacts
<1>3. z.th[t] \in StateType
  BY <1>1, <1>2 DEF Machine
<1> HIDE DEF s
<1>4. Guarded(z)
  BY <1>1 DEF Guarded, Own
<1>5. Clean(z)
  BY <1>1, <1>2 DEF Clean, NoneFailed
<1>6. ReturnsIn(Functions(s)) = << >>
  <2>1. \A i \in 1 .. Len(s) - 1 : s[i].f \notin Code
    BY <1>1
  <2> QED
    BY <1>2, <2>1, ReturnsNone
<1>7. Calls(z.th[t]) = << >>
  <2>1. NoneFailed(z.th[t].ci)
    BY <1>2, <1>5 DEF Clean
  <2>2. Calls(z.th[t]) = Functions(z.th[t].ci)
    BY <1>1, <1>3, <2>1, CallsClean
  <2>3. Functions(z.th[t].ci) = << >>
    BY <1>1, <1>3, FunctionsOf DEF StateType
  <2> QED
    BY <2>2, <2>3
<1>8. ASSUME NEW u \in Threads PROVE Resumer(z.cs, u) = Resumer(m.cs, u)
  <2>1. \A i \in 1 .. Len(m.cs) : m.cs[i].a # "resume"
    <3>1. Len(m.cs) \in Own(m.cs, Main)
      BY <1>1, <1>2
    <3> QED
      BY <1>2, <3>1, MainBelow
  <2>2. Resumer(m.cs, u) = u
    BY <1>2, <2>1, ResumerNone
  <2>3. Resumer(z.cs, u) = u
    <3>1. z.cs \in Seq(EntryType) /\ \A i \in 1 .. Len(z.cs) : z.cs[i].a # "resume"
      BY <1>1
    <3> QED
      BY <3>1, ResumerNone
  <2> QED
    BY <2>2, <2>3
<1>9. Running(z.cs) = t
  BY <1>1 DEF Running
<1>10. KeepsCalls(m, z, t, << >>)
  <2>1. \A u \in Threads \ {t} : Seen(m, z, u)
    BY <1>1 DEF Seen
  <2> QED
    BY <1>2, <1>7, <1>8, <1>9, <2>1 DEF KeepsCalls
<1>11. ReturnSeen(m, z, t)
  BY <1>1, <1>2, <1>6, <1>10 DEF ReturnSeen
<1> QED
  BY <1>4, <1>5, <1>11, CleanSafe

\* The function of a coroutine returns to lua_resume.
LEMMA ReturnsResumeSeen ==
  ASSUME NEW m, NEW q, NEW v, NEW t, Ends(m, q, v, t), Safe(m), m.cs[Len(m.cs)].a = "resume",
         NEW w, UnrollsEnded(m, q, v, t, w), NEW z, z = Unroll(w, t)
  PROVE  Safe(z) /\ ReturnSeen(m, z, t)
<1> DEFINE a == m.th[t].ci
           k == Len(a)
           s == Ended(m, t)
<1>1. /\ m \in Machine /\ q \in Positions /\ v \in Positions /\ Base(m, q, v)
      /\ t \in Threads /\ a \in Seq(FrameType) /\ k \in Nat \ {0}
      /\ Framed(t, a) /\ Manned(m.cs, a, q, t) /\ m.cs # << >>
  BY EndsFacts
<1>2. Tidy(m, q, v, t)
  BY CodeTidy DEF Ends
<1>3. /\ w \in Machine /\ w.cs = m.cs /\ w.th[t] = s /\ t # Main /\ Own(m.cs, t) = {Len(m.cs)}
      /\ \A u \in Threads \ {t} : w.th[u] = m.th[u]
  BY DEF UnrollsEnded, Resumes
<1>4. /\ s \in StateType /\ s.ci = SubSeq(a, 1, k - 1) /\ Len(s.ci) = k - 1 /\ s.status = "ok"
      /\ k = 1 => s.ci = << >>
  BY EndedFacts
<1>5. Calls(m.th[t]) = Functions(a) /\ t = Going(m) /\ Guarded(m) /\ Clean(m)
  BY <1>2, TidyFacts
<1> HIDE DEF a, k, s
<1>6. CASE k = 1
  <2>1. /\ Safe(z) /\ \E r \in Threads : LeavesCalls(m, z, t, r, "dead", << >>)
    BY <1>1, <1>3, <1>4, <1>5, <1>6, UnrollEndsSeen, Zenon
  <2>2. \A i \in 1 .. Len(a) - 1 : a[i].f \notin Code
    BY <1>1, <1>6 DEF k
  <2>3. ReturnsIn(Calls(m.th[t])) = << >>
    BY <1>1, <1>5, <2>2, ReturnsNone
  <2> QED
    BY <1>3, <2>1, <2>3 DEF ReturnSeen
<1>7. CASE k > 1
  <2>1. PICK i \in Nat : GoesOn(t, s, i)
    BY <1>3, <1>7, EndedGoesOn DEF k, a, s
  <2>2. /\ z.cs = w.cs /\ \A u \in Threads \ {t} : z.th[u] = w.th[u]
        /\ z.th[t] \in StateType /\ z.th[t].status = "ok" /\ Len(z.th[t].ci) = i
        /\ i \in 1 .. Len(s.ci)
        /\ \A x \in 1 .. i : z.th[t].ci[x].f = s.ci[x].f /\ z.th[t].ci[x].k = s.ci[x].k
    <3>1. UnrolledTo(w, t, i, z)
      BY <1>1, <1>3, <1>4, <2>1 DEF UnrolledTo
    <3>2. /\ z.cs = w.cs /\ \A u \in Threads \ {t} : z.th[u] = w.th[u]
          /\ z.th[t] \in StateType /\ z.th[t].status = "ok" /\ Len(z.th[t].ci) = i
          /\ i \in 1 .. Len(w.th[t].ci)
          /\ \A x \in 1 .. i : /\ z.th[t].ci[x].f = w.th[t].ci[x].f
                               /\ z.th[t].ci[x].k = w.th[t].ci[x].k
      BY <3>1, UnrollKeeps DEF GoneOn
    <3> QED
      BY <1>3, <3>2
  <2>3. i \in 1 .. k - 1 /\ i >= k - 2 /\ s.ci[i].f = "lua" /\ (i < k - 1 => s.ci[k - 1].f # "lua")
    <3>1. /\ i >= Len(s.ci) - 1 /\ s.ci[i].f = "lua"
          /\ (i < Len(s.ci) => s.ci[Len(s.ci)].f # "lua")
      BY <2>1 DEF GoesOn
    <3> QED
      BY <1>1, <1>4, <2>2, <3>1
  <2>4. \A x \in 1 .. k - 1 : s.ci[x] = a[x]
    <3>1. k - 1 \in 0 .. Len(a)
      BY <1>1 DEF k
    <3> QED
      BY <1>1, <1>4, <3>1, PrefixElements
  <2>5. a[i].f \in Code
    BY <2>3, <2>4 DEF Code
  <2>6. ASSUME NEW x \in i + 1 .. k - 1 PROVE a[x].f \notin Code
    <3>1. x = k - 1 /\ i < k - 1 /\ x \in 1 .. k - 1 /\ x \in 1 .. Len(a) /\ x # Len(a)
      BY <1>1, <2>3 DEF k
    <3>2. a[x].f # "lua"
      BY <2>3, <2>4, <3>1
    <3>3. Leaves(a, x) \/ \E j \in Own(m.cs, t) : Covers(m.cs[j], q[j], x)
      BY <1>1, <1>3, <3>1 DEF Manned, Covered
    <3>4. \A j \in Own(m.cs, t) : ~Covers(m.cs[j], q[j], x)
      BY <1>3 DEF Covers, Blocking
    <3>5. a[x].k
      BY <3>1, <3>2, <3>3, <3>4 DEF Leaves
    <3>6. a[x].f \in Guarding \cup {"callk"}
      BY ONLY <1>1, <3>1, <3>5 DEF Framed
    <3> QED
      BY <3>6 DEF Guarding, Code
  <2>7. \A x \in 1 .. i : z.th[t].ci[x].f = a[x].f /\ z.th[t].ci[x].k = a[x].k
    <3>1. \A x \in 1 .. i : x \in 1 .. k - 1
      BY <1>1, <2>3
    <3> QED
      BY <2>2, <2>4, <3>1
  <2>8. /\ i \in 1 .. Len(m.th[t].ci) - 1 /\ m.th[t].ci[i].f \in Code
        /\ \A x \in i + 1 .. Len(m.th[t].ci) - 1 : m.th[t].ci[x].f \notin Code
        /\ \A x \in 1 .. i : /\ z.th[t].ci[x].f = m.th[t].ci[x].f
                             /\ z.th[t].ci[x].k = m.th[t].ci[x].k
    BY <2>3, <2>5, <2>6, <2>7 DEF a, k
  <2>9. \A u \in Threads \ {t} : z.th[u] = m.th[u]
    BY <1>3, <2>2
  <2>10. z.cs = m.cs \/ (/\ z.cs = SubSeq(m.cs, 1, Len(m.cs) - 1) /\ Len(m.cs) > 1
                         /\ m.cs[Len(m.cs) - 1].t = t
                         /\ m.cs[Len(m.cs)].a = "pcall" => m.cs[Len(m.cs)].d > i)
    BY <1>3, <2>2
  <2> QED
    BY ONLY <1>2, <2>2, <2>8, <2>9, <2>10, CutSeen
<1> QED
  BY <1>1, <1>6, <1>7

\* OP_RETURN; the message handler of an error that no pcall gets returns to luaD_throw.
LEMMA ReturnedSeen ==
  ASSUME NEW m, NEW q, NEW v, NEW t, InCode(m, q, v, t), Safe(m), NEW z, z = Returned(m, t)
  PROVE  Safe(z) /\ (ReturnSeen(m, z, t) \/ ErrorSeen(m, z, t))
<1>1. Tidy(m, q, v, t)
  BY CodeTidy
<1>2. ReturnsTo(m, q, v, t, z)
  BY ReturnedIs
<1>3. CASE ~m.th[t].ci[Len(m.th[t].ci)].fresh /\ z = [m EXCEPT !.th[t] = Ended(m, t)]
  BY <1>3, ReturnsToLuaSeen
<1>4. CASE \E p, r : /\ LeavesEntry(m, q, v, t, p, r)
                     /\ z = [m EXCEPT !.th[t] = r, !.cs = SubSeq(@, 1, Len(@) - 1)]
  <2>1. PICK p, r : /\ LeavesEntry(m, q, v, t, p, r)
                    /\ z = [m EXCEPT !.th[t] = r, !.cs = SubSeq(@, 1, Len(@) - 1)]
    BY <1>4
  <2> QED
    BY <2>1, LeavesEntrySeen
<1>5. CASE z = Throw(m, t)
  BY <1>1, <1>5, ThrowSeen
<1>6. CASE HostIsBack(m, t, z)
  BY <1>1, <1>6, HostSeen
<1>7. CASE /\ Ends(m, q, v, t) /\ m.cs[Len(m.cs)].a = "resume"
           /\ \E w : UnrollsEnded(m, q, v, t, w) /\ z = Unroll(w, t)
  <2>1. PICK w : UnrollsEnded(m, q, v, t, w) /\ z = Unroll(w, t)
    BY <1>7
  <2> QED
    BY <1>7, <2>1, ReturnsResumeSeen
<1> QED
  BY <1>2, <1>3, <1>4, <1>5, <1>6, <1>7 DEF ReturnsTo

-----------------------------------------------------------------------------
(* Coroutines, as a program sees them *)

\* t yields: no C function without a continuation is on its stack, and its calls stay.
YieldSeen(m, w, t) ==
  LET s == Calls(m.th[t])
  IN /\ t # Main /\ \A i \in DOMAIN s : s[i] \notin {"sort", "handler"}
     /\ \E r \in Threads : LeavesCalls(m, w, t, r, "suspended", Append(s, "yield"))

\* lua_yieldk.
LEMMA YieldIsSeen ==
  ASSUME NEW m, NEW q, NEW v, NEW t, InCode(m, q, v, t), Safe(m), ~(m.th[t].nny > 0),
         NEW j, j = ErrorJmp(m, t), NEW z,
         z = ResumeReturns(
              [m EXCEPT !.th[t] = [m.th[t] EXCEPT !.status = "yield", !.ci = Append(@, Frame("yield")),
                                                  !.nny = m.cs[j].nny, !.nC = m.cs[j].nC - 1],
                        !.cs = SubSeq(@, 1, j - 1)], TRUE)
  PROVE  Safe(z) /\ YieldSeen(m, z, t)
<1> DEFINE s == m.th[t]
           e == m.cs[j]
           k == Len(m.th[t].ci)
           g == Frame("yield")
           a == Append(s.ci, g)
           r == [s EXCEPT !.status = "yield", !.ci = a, !.nny = e.nny, !.nC = e.nC - 1]
           c == SubSeq(m.cs, 1, j - 1)
           w == [m EXCEPT !.th[t] = r, !.cs = c]
<1>1. Runnable(m, q, v, t) /\ Tidy(m, q, v, t)
  BY CodeTidy DEF InCode
<1>2. /\ m \in Machine /\ q \in Positions /\ v \in Positions /\ Base(m, q, v)
      /\ t \in Threads /\ s \in StateType /\ Stacked(m.cs)
      /\ m.cs \in Seq(EntryType) /\ s.ci \in Seq(FrameType) /\ k \in Nat \ {0}
      /\ Len(m.cs) \in Own(m.cs, t)
  BY <1>1, RunnableFacts
<1>3. s.nny = 0
  <2>1. s.nny \in Nat
    BY <1>1, RunnableFacts
  <2> HIDE DEF s
  <2> QED
    BY <2>1 DEF s
<1>4. /\ t # Main /\ \A i \in Own(m.cs, t) : m.cs[i].a \notin Blocking
      /\ \A i \in 1 .. k : s.ci[i].f = "lua" \/ s.ci[i].k
  BY <1>1, <1>3, Yieldable
<1>5. /\ m.cs # << >> /\ t = Going(m) /\ Guarded(m) /\ Clean(m) /\ NoneFailed(s.ci)
      /\ Calls(s) = Functions(s.ci) /\ s.status = "ok"
  BY <1>1, TidyFacts
<1>6. Framed(t, s.ci)
  BY <1>1, RunnableFacts DEF Sound
<1>7. j \in Own(m.cs, t) /\ e.a = "resume" /\ e \in EntryType /\ j \in 1 .. Len(m.cs)
  <2>1. j \in Own(m.cs, t) /\ e.a \in {"pcall", "resume"}
    BY <1>2, Jumps, Zenon
  <2> QED
    BY <1>2, <1>4, <2>1 DEF Blocking, Own
<1>8. /\ g \in FrameType /\ g.f = "yield"
  <2>1. "yield" \in Names
    BY DEF Names
  <2> QED
    BY <2>1, Frames
<1> HIDE DEF g
<1>9. /\ a \in Seq(FrameType) /\ Len(a) = k + 1 /\ a[k + 1] = g /\ \A i \in 1 .. k : a[i] = s.ci[i]
  BY <1>2, <1>8, AppendElements
<1>10. NoneFailed(a)
  <2>1. ASSUME NEW i \in 1 .. Len(a) PROVE a[i].f # "failed"
    <3>1. i \in 1 .. k + 1 /\ k \in Nat
      BY <1>2, <1>9
    <3> HIDE DEF k, a
    <3>2. i \in 1 .. k \/ i = k + 1
      BY <3>1
    <3> QED
      BY <1>5, <1>8, <1>9, <3>2 DEF NoneFailed, k
  <2> QED
    BY <2>1 DEF NoneFailed
<1>11. Functions(a) = Append(Functions(s.ci), "yield")
  <2>1. g.f # "wrap"
    BY <1>8
  <2> QED
    BY <1>2, <1>8, <2>1, FunctionsPush
<1>12. r \in StateType /\ r.ci = a /\ r.status = "yield"
  <2>1. e.nny \in Int /\ e.nC - 1 \in Int
    BY <1>7 DEF EntryType
  <2> HIDE DEF a, s, e
  <2> QED
    BY <1>2, <1>9, <2>1, Zenon DEF StateType
<1> HIDE DEF r, a
<1>13. c \in Seq(EntryType)
  <2>1. j - 1 \in 0 .. Len(m.cs)
    BY <1>2, <1>7
  <2> QED
    BY <1>2, <2>1, PrefixElements
<1>14. /\ w \in Machine /\ w.th[t] = r /\ w.cs = c /\ \A u \in Threads \ {t} : w.th[u] = m.th[u]
  <2> HIDE DEF c
  <2> QED
    BY <1>2, <1>12, <1>13, Zenon DEF Machine
<1>15. z = ResumeReturns(w, TRUE)
  BY Zenon DEF w, r, a, g, s, e, c
<1> HIDE DEF w
<1>16. ReturnsFrom(m, q, v, t, j, w)
  BY <1>2, <1>5, <1>7, <1>10, <1>12, <1>14 DEF ReturnsFrom
<1>17. Status(r) = "suspended" /\ Calls(r) = Append(Calls(s), "yield")
  <2>1. Status(r) = "suspended"
    BY <1>12 DEF Status
  <2>2. Calls(r) = Functions(a)
    BY <1>10, <1>12, CallsClean
  <2> QED
    BY <1>5, <1>11, <2>1, <2>2
<1>18. /\ Safe(z)
       /\ \E x \in Threads : LeavesCalls(m, z, t, x, Status(w.th[t]), Calls(w.th[t]))
  BY <1>15, <1>16, LeavesSeen, Zenon
<1>19. \E x \in Threads : LeavesCalls(m, z, t, x, "suspended", Append(Calls(s), "yield"))
  BY <1>14, <1>17, <1>18
<1>20. ASSUME NEW i \in DOMAIN Calls(s) PROVE Calls(s)[i] \notin {"sort", "handler"}
  <2>1. i \in 1 .. k /\ Calls(s)[i] = IF s.ci[i].f = "wrap" THEN "resume" ELSE s.ci[i].f
    BY <1>2, <1>5, FunctionsOf
  <2>2. s.ci[i].f = "lua" \/ s.ci[i].f \in Guarding \cup {"callk"}
    <3>1. CASE s.ci[i].k
      BY <1>6, <2>1, <3>1 DEF Framed
    <3> QED
      BY <1>4, <2>1, <3>1
  <2> QED
    BY <2>1, <2>2 DEF Guarding
<1> QED
  BY <1>4, <1>18, <1>19, <1>20 DEF YieldSeen

\* t resumes c.
ResumeSeen(m, w, t, c) ==
  LET s == Calls(m.th[c])
  IN /\ t \in Threads /\ c \in Threads /\ c # t
     /\ Running(m.cs) = t /\ Running(w.cs) = c
     /\ Status(m.th[c]) = "suspended" /\ Status(w.th[t]) = "normal"
     /\ Calls(w.th[t]) = Append(Calls(m.th[t]), "resume")
     /\ Calls(w.th[c]) = IF s = << >> THEN <<"lua">> ELSE SubSeq(s, 1, Len(s) - 1)
     /\ \A u \in Threads \ {t, c} : Seen(m, w, u)
     /\ Resumer(w.cs, c) = t
     /\ \A u \in Threads \ {c} : Resumer(w.cs, u) = Resumer(m.cs, u)

\* A resumed coroutine has the calls that it had but for the yield, or its function.
LEMMA RestSeen ==
  ASSUME NEW s \in StateType, NEW t, AtRest(t, s), t # Main, NoneFailed(s.ci),
         (s.status = "ok" /\ s.ci = << >> /\ s.fn) \/ s.status = "yield",
         NEW r, r.ci = IF s.status = "ok" THEN <<Frame("lua")>> ELSE s.ci,
         NEW i, GoesOn(t, r, i), NEW z \in StateType, z.status = "ok", Len(z.ci) = i,
         \A x \in 1 .. i : z.ci[x].f = r.ci[x].f /\ z.ci[x].k = r.ci[x].k
  PROVE  /\ Status(s) = "suspended" /\ NoneFailed(z.ci)
         /\ \A x \in 1 .. Len(z.ci) : ~Unmarked(z.ci, x)
         /\ Calls(z) = IF Calls(s) = << >> THEN <<"lua">>
                       ELSE SubSeq(Calls(s), 1, Len(Calls(s)) - 1)
<1> DEFINE a == z.ci
           b == r.ci
           n == Len(s.ci)
           g == Frame("lua")
<1>1. /\ a \in Seq(FrameType) /\ s.ci \in Seq(FrameType) /\ n \in Nat /\ Len(a) = i
      /\ \A x \in 1 .. i : a[x].f = b[x].f /\ a[x].k = b[x].k
  BY DEF StateType
<1>2. /\ i \in 1 .. Len(b) /\ b[i].f = "lua" /\ \A x \in 1 .. i : b[x].f = "lua" \/ b[x].k
      /\ i >= Len(b) - 1
  BY DEF GoesOn
<1>3. g \in FrameType /\ g.f = "lua" /\ <<g>> \in Seq(FrameType)
  <2>1. "lua" \in Names
    BY DEF Names, Code
  <2> QED
    BY <2>1, Frames
<1>4. Status(s) = "suspended"
  BY DEF Status
<1>5. Calls(s) = Functions(s.ci)
  BY CallsClean
<1> HIDE DEF a, b, g, n
<1>6. ASSUME NEW x \in 1 .. Len(a) PROVE ~Unmarked(a, x)
  BY <1>1, <1>2, <1>6 DEF Unmarked, Guarding
<1>7. NoneFailed(a) /\ Calls(z) = IF Calls(s) = << >> THEN <<"lua">>
                                  ELSE SubSeq(Calls(s), 1, Len(Calls(s)) - 1)
  <2>1. CASE s.status = "ok" /\ s.ci = << >>
    <3>1. b = <<g>>
      BY <2>1 DEF b, g
    <3>2. i = 1 /\ Len(a) = 1 /\ a[1].f = "lua"
      BY <1>1, <1>2, <1>3, <3>1
    <3>3. NoneFailed(a)
      BY <3>2 DEF NoneFailed
    <3>4. Calls(z) = Functions(a)
      BY <3>3, CallsClean DEF a
    <3>5. Len(Functions(a)) = 1 /\ Functions(a)[1] = "lua" /\ Functions(a) \in Seq(Names)
      BY <1>1, <3>2, FunctionsOf
    <3>6. Functions(a) = <<"lua">>
      BY <3>5
    <3>7. Calls(s) = << >>
      BY <1>1, <1>5, <2>1, FunctionsOf
    <3> QED
      BY <3>3, <3>4, <3>6, <3>7
  <2>2. CASE s.status = "yield"
    <3>1. b = s.ci /\ s.ci[n].f = "yield" /\ Framed(t, s.ci)
      BY <2>2 DEF AtRest, b, n
    <3>2. i \in 1 .. n /\ i >= n - 1
      BY <1>2, <3>1 DEF n
    <3>3. i = n - 1
      <4>1. i # n
        BY <1>2, <3>1
      <4> QED
        BY <1>1, <3>2, <4>1
    <3>4. i \in 0 .. n /\ n = Len(s.ci) /\ i \in Nat
      BY <1>1, <3>2 DEF n
    <3> DEFINE d == SubSeq(s.ci, 1, i)
    <3>5. d \in Seq(FrameType) /\ Len(d) = i /\ \A x \in 1 .. i : d[x] = s.ci[x]
      BY <1>1, <3>4, PrefixElements
    <3>6. Functions(d) = SubSeq(Functions(s.ci), 1, i)
      BY <1>1, <3>4, FunctionsPrefix
    <3> HIDE DEF d
    <3>7. Len(a) = Len(d) /\ \A x \in 1 .. Len(a) : a[x].f = d[x].f
      BY <1>1, <3>1, <3>5
    <3>8. Functions(a) = Functions(d)
      BY ONLY <3>7, FunctionsSame
    <3>9. NoneFailed(a)
      <4>1. \A x \in 1 .. i : x \in 1 .. n
        BY <3>4
      <4> QED
        BY <1>1, <3>1, <3>4, <4>1 DEF NoneFailed
    <3>10. Calls(z) = Functions(a)
      BY <3>9, CallsClean DEF a
    <3>11. Calls(s) # << >> /\ Len(Calls(s)) = n
      BY <1>1, <1>5, <3>2, <3>4, FunctionsOf
    <3> QED
      BY <1>5, <3>3, <3>6, <3>8, <3>9, <3>10, <3>11
  <2> QED
    BY <2>1, <2>2
<1> QED
  BY <1>4, <1>6, <1>7 DEF a

\* The last function of t resumes c, which goes on with calls that a yield may leave.
LEMMA ResumeGoesSeen ==
  ASSUME NEW m, NEW q, NEW v, NEW t, Tidy(m, q, v, t), NEW c \in Threads, c # t,
         NEW e \in EntryType, e.a = "resume", e.t = c, NEW g \in FrameType, g.f \in {"resume", "wrap"},
         NEW z, z.cs = Append(m.cs, e), z.th[t] \in StateType, z.th[t].status = "ok",
         z.th[t].ci = Append(m.th[t].ci, g), \A u \in Threads \ {t, c} : z.th[u] = m.th[u],
         Status(m.th[c]) = "suspended", NoneFailed(z.th[c].ci),
         \A i \in 1 .. Len(z.th[c].ci) : ~Unmarked(z.th[c].ci, i),
         NEW s, s = Calls(m.th[c]),
         Calls(z.th[c]) = IF s = << >> THEN <<"lua">> ELSE SubSeq(s, 1, Len(s) - 1)
  PROVE  Safe(z) /\ ResumeSeen(m, z, t, c)
<1> DEFINE a == m.th[t].ci
           b == z.th[t].ci
<1>1. /\ m.cs \in Seq(EntryType) /\ Len(m.cs) \in Nat \ {0} /\ Len(m.cs) \in Own(m.cs, t)
      /\ m.cs[Len(m.cs)].t = t /\ t \in Threads /\ m.th[t] \in StateType /\ a \in Seq(FrameType)
      /\ Len(a) \in Nat \ {0} /\ Running(m.cs) = t /\ m.cs[1].a # "resume" /\ NoneFailed(a)
      /\ Calls(m.th[t]) = Functions(a) /\ Guarded(m) /\ Clean(m)
  BY TidyFacts
<1>2. /\ z.cs \in Seq(EntryType) /\ Len(z.cs) = Len(m.cs) + 1
      /\ \A i \in 1 .. Len(m.cs) : z.cs[i] = m.cs[i]
      /\ z.cs[Len(m.cs) + 1] = e
  BY <1>1, AppendElements
<1>3. /\ b \in Seq(FrameType) /\ Len(b) = Len(a) + 1
      /\ \A i \in 1 .. Len(a) : b[i] = a[i]
      /\ b[Len(a) + 1] = g
  BY <1>1, AppendElements
<1>4. Running(z.cs) = c
  <2>1. z.cs # << >>
    BY <1>1, <1>2
  <2> QED
    BY <1>1, <1>2, <2>1 DEF Running, Last
<1>5. /\ Resumer(z.cs, c) = t
      /\ \A u \in Threads \ {c} : Resumer(z.cs, u) = Resumer(m.cs, u)
  <2>1. Len(m.cs) > 0
    BY <1>1
  <2> QED
    BY <1>1, <2>1, ResumerNew
<1> HIDE DEF a, b
<1>6. NoneFailed(b) /\ \A i \in 1 .. Len(b) : Unmarked(b, i) => i \in 1 .. Len(a) /\ Unmarked(a, i)
  <2>1. ASSUME NEW i \in 1 .. Len(b)
        PROVE  /\ b[i].f # "failed"
               /\ Unmarked(b, i) => i \in 1 .. Len(a) /\ Unmarked(a, i)
    <3>1. i \in 1 .. Len(a) \/ i = Len(a) + 1
      BY <1>1, <1>3
    <3>2. CASE i \in 1 .. Len(a)
      BY <1>1, <1>3, <3>2 DEF NoneFailed, Unmarked
    <3>3. CASE i = Len(a) + 1
      BY <1>3, <3>3 DEF Unmarked, Guarding
    <3> QED
      BY <3>1, <3>2, <3>3
  <2> QED
    BY <2>1 DEF NoneFailed
<1>7. Calls(z.th[t]) = Append(Calls(m.th[t]), "resume") /\ Status(z.th[t]) = "normal"
  <2>1. Calls(z.th[t]) = Functions(b)
    BY <1>6, CallsClean DEF b
  <2>2. Functions(Append(a, g)) = Append(Functions(a), "resume")
    BY <1>1, FunctionsPush
  <2>3. b = Append(a, g)
    BY DEF a, b
  <2>4. b # << >>
    BY <1>1, <1>3
  <2>5. Status(z.th[t]) = "normal"
    BY <2>4 DEF Status, b
  <2> QED
    BY <1>1, <2>1, <2>2, <2>3, <2>5
<1>8. Clean(z)
  <2>1. ASSUME NEW u \in Threads PROVE NoneFailed(z.th[u].ci)
    <3>1. CASE u = t
      BY <1>6, <3>1 DEF b
    <3>2. CASE u = c
      BY <3>2
    <3>3. CASE u \notin {t, c}
      BY <1>1, <3>3 DEF Clean
    <3> QED
      BY <3>1, <3>2, <3>3
  <2> QED
    BY <2>1 DEF Clean
<1>9. Guarded(z)
  <2>1. ASSUME NEW u \in Threads, Own(z.cs, u) # {}, NEW i \in 1 .. Len(z.th[u].ci),
               Unmarked(z.th[u].ci, i)
        PROVE  Own(m.cs, u) # {} /\ i \in 1 .. Len(m.th[u].ci) /\ Unmarked(m.th[u].ci, i)
    <3>1. u # c
      BY <2>1
    <3>2. Own(m.cs, u) # {}
      <4>1. Own(Append(m.cs, e), u) = IF e.t = u THEN Own(m.cs, u) \cup {Len(m.cs) + 1}
                                      ELSE Own(m.cs, u)
        <5>1. m.cs \in Seq(EntryType) /\ e \in EntryType
          BY <1>1
        <5> QED
          BY ONLY <5>1, OwnEntry
      <4> QED
        BY <2>1, <3>1, <4>1
    <3>3. CASE u = t
      BY <1>6, <2>1, <3>2, <3>3 DEF a, b
    <3>4. CASE u # t
      BY <2>1, <3>1, <3>2, <3>4
    <3> QED
      BY <3>3, <3>4
  <2>2. Len(m.cs) \in Nat /\ Len(z.cs) \in Nat /\ Extends(m.cs, z.cs)
    BY <1>1, <1>2 DEF Extends
  <2> QED
    BY <1>1, <2>1, <2>2, GuardedGrow
<1>10. \A u \in Threads \ {t, c} : Seen(m, z, u)
  BY DEF Seen
<1>11. ResumeSeen(m, z, t, c)
  BY <1>1, <1>4, <1>5, <1>7, <1>10 DEF ResumeSeen
<1> QED
  BY <1>8, <1>9, <1>11, CleanSafe

\* lua_resume, by coroutine.resume or by a function of coroutine.wrap.
LEMMA ResumedSeen ==
  ASSUME NEW m, NEW q, NEW v, NEW t, InCode(m, q, v, t), Safe(m), NEW c \in Threads, c # t,
         NEW f, (m.th[c].status = "ok" /\ m.th[c].ci = << >> /\ m.th[c].fn) \/ m.th[c].status = "yield",
         NEW z, ResumedBy(m, q, v, t, c, f, z)
  PROVE  Safe(z) /\ ResumeSeen(m, z, t, c)
<1> DEFINE s == m.th[c]
           g == Frame(f)
<1>1. Tidy(m, q, v, t)
  BY CodeTidy
<1>2. PICK e, w : /\ ResumesCo(m, q, v, t, c, f, e, w) /\ z = Unroll(w, c)
                  /\ w.th[c].ci = IF s.status = "ok" THEN <<Frame("lua")>> ELSE s.ci
  BY DEF ResumedBy
<1>3. AtRest(c, s) /\ s \in StateType
  BY DEF ResumedBy
<1>4. /\ f \in {"resume", "wrap"} /\ c # Main
      /\ e \in EntryType /\ e.a = "resume" /\ e.t = c
      /\ w \in Machine /\ w.cs = Append(m.cs, e)
      /\ w.th[t] = [m.th[t] EXCEPT !.ci = Append(@, g)]
      /\ \A u \in Threads \ {t, c} : w.th[u] = m.th[u]
      /\ w.th[c].status = "ok" /\ \E i \in Nat : GoesOn(c, w.th[c], i)
  BY <1>2 DEF ResumesCo
<1>5. PICK i \in Nat : GoesOn(c, w.th[c], i)
  BY <1>4
<1>6. /\ t \in Threads /\ m.th[t] \in StateType /\ m.th[t].status = "ok"
      /\ m.th[t].ci \in Seq(FrameType) /\ Clean(m)
  BY <1>1, TidyFacts
<1>7. g \in FrameType /\ g.f = f
  <2>1. f \in Names
    BY <1>4 DEF Names, Leaving
  <2> QED
    BY <2>1, Frames
<1> HIDE DEF g
<1>8. /\ w.th[t] \in StateType /\ w.th[t].status = "ok" /\ w.th[t].ci = Append(m.th[t].ci, g)
  <2>1. w.th[t] \in StateType
    BY <1>4, <1>6, Zenon DEF Machine
  <2>2. w.th[t].status = "ok" /\ w.th[t].ci = Append(m.th[t].ci, g)
    BY ONLY <1>4, <1>6, Zenon DEF StateType
  <2> QED
    BY <2>1, <2>2
<1>9. /\ z.cs = w.cs /\ \A u \in Threads \ {c} : z.th[u] = w.th[u]
      /\ z.th[c] \in StateType /\ z.th[c].status = "ok" /\ Len(z.th[c].ci) = i
      /\ \A x \in 1 .. i : /\ z.th[c].ci[x].f = w.th[c].ci[x].f
                           /\ z.th[c].ci[x].k = w.th[c].ci[x].k
  <2>1. UnrolledTo(w, c, i, z)
    BY <1>2, <1>4, <1>5 DEF UnrolledTo
  <2> QED
    BY <2>1, UnrollKeeps DEF GoneOn
<1>10. NoneFailed(s.ci)
  BY <1>6 DEF Clean
<1>11. (s.status = "ok" /\ s.ci = << >> /\ s.fn) \/ s.status = "yield"
  OBVIOUS
<1> HIDE DEF s
<1>12. /\ Status(s) = "suspended" /\ NoneFailed(z.th[c].ci)
       /\ \A x \in 1 .. Len(z.th[c].ci) : ~Unmarked(z.th[c].ci, x)
       /\ Calls(z.th[c]) = IF Calls(s) = << >> THEN <<"lua">>
                           ELSE SubSeq(Calls(s), 1, Len(Calls(s)) - 1)
  <2> DEFINE r == w.th[c]
             y == z.th[c]
  <2>1. /\ r.ci = (IF s.status = "ok" THEN <<Frame("lua")>> ELSE s.ci) /\ GoesOn(c, r, i)
        /\ y \in StateType /\ y.status = "ok" /\ Len(y.ci) = i
        /\ \A x \in 1 .. i : y.ci[x].f = r.ci[x].f /\ y.ci[x].k = r.ci[x].k
    BY <1>2, <1>5, <1>9
  <2> HIDE DEF r, y
  <2>2. /\ Status(s) = "suspended" /\ NoneFailed(y.ci)
        /\ \A x \in 1 .. Len(y.ci) : ~Unmarked(y.ci, x)
        /\ Calls(y) = IF Calls(s) = << >> THEN <<"lua">>
                      ELSE SubSeq(Calls(s), 1, Len(Calls(s)) - 1)
    BY ONLY <1>3, <1>4, <1>10, <1>11, <2>1, RestSeen
  <2> QED
    BY <2>2 DEF y
<1>13. /\ z.cs = Append(m.cs, e) /\ z.th[t] \in StateType /\ z.th[t].status = "ok"
       /\ z.th[t].ci = Append(m.th[t].ci, g) /\ \A u \in Threads \ {t, c} : z.th[u] = m.th[u]
  BY <1>4, <1>6, <1>8, <1>9
<1> DEFINE r == Calls(s)
<1>14. /\ Status(m.th[c]) = "suspended" /\ r = Calls(m.th[c])
       /\ Calls(z.th[c]) = IF r = << >> THEN <<"lua">> ELSE SubSeq(r, 1, Len(r) - 1)
  BY <1>12 DEF s
<1>15. g.f \in {"resume", "wrap"} /\ c \in Threads /\ c # t
  BY <1>4, <1>7
<1> HIDE DEF r
<1> QED
  <2>1. e \in EntryType /\ e.a = "resume" /\ e.t = c /\ g \in FrameType
    BY <1>4, <1>7
  <2>2. NoneFailed(z.th[c].ci) /\ \A x \in 1 .. Len(z.th[c].ci) : ~Unmarked(z.th[c].ci, x)
    BY <1>12
  <2> QED
    BY ONLY <1>1, <1>13, <1>14, <1>15, <2>1, <2>2, ResumeGoesSeen

\* c, which is dead, is replaced by a new coroutine.
CreateSeen(m, w, c) ==
  /\ c \in Cos /\ c \in Threads /\ Running(m.cs) # c /\ w.cs = m.cs
  /\ Status(m.th[c]) = "dead" /\ Status(w.th[c]) = "suspended" /\ Calls(w.th[c]) = << >>
  /\ \A u \in Threads \ {c} : Seen(m, w, u)

\* The state of a new one.
LEMMA NewSeen == Calls(NewThread) = << >> /\ Status(NewThread) = "suspended" /\ NewThread.ci = << >>
<1>1. /\ NewThread.status = "ok" /\ NewThread.ci = << >> /\ NewThread.fn /\ Len(<< >>) = 0
  BY DEF NewThread
<1>2. << >> \in Seq(FrameType)
  OBVIOUS
<1>3. Functions(<< >>) = << >>
  BY ONLY <1>2, FunctionsOf
<1>4. Calls(NewThread) = << >>
  BY <1>1, <1>3 DEF Calls
<1>5. Status(NewThread) = "suspended"
  BY <1>1 DEF Status
<1> QED
  BY <1>1, <1>4, <1>5

\* coroutine.create.
LEMMA CreatedSeen ==
  ASSUME NEW m, m \in Machine, Safe(m), m.cs # << >>, NEW c \in Cos, c # Going(m),
         m.th[c].status = "error" \/ (m.th[c].ci = << >> /\ ~m.th[c].fn),
         m.th[c].status # "yield" \/ m.th[c].ci # << >>,
         NEW z, z = [m EXCEPT !.th[c] = NewThread]
  PROVE  Safe(z) /\ CreateSeen(m, z, c)
<1>1. c \in Threads /\ NewThread.ci = << >> /\ Calls(NewThread) = << >> /\ Status(NewThread) = "suspended"
  BY NewSeen DEF Threads
<1>2. z.th[c] = NewThread /\ z.cs = m.cs /\ \A u \in Threads \ {c} : z.th[u] = m.th[u]
  <2> DEFINE r == NewThread
  <2>1. z = [m EXCEPT !.th[c] = r]
    OBVIOUS
  <2> HIDE DEF r
  <2>2. z.th[c] = r /\ z.cs = m.cs /\ \A u \in Threads \ {c} : z.th[u] = m.th[u]
    BY ONLY <1>1, <2>1, m \in Machine, Zenon DEF Machine
  <2> QED
    BY <2>2 DEF r
<1>3. Guarded(z)
  <2>1. ASSUME NEW u \in Threads, Own(z.cs, u) # {}, NEW i \in 1 .. Len(z.th[u].ci),
               Unmarked(z.th[u].ci, i)
        PROVE  \E j \in Own(z.cs, u) : j > 1 /\ z.cs[j].a = "pcall" /\ z.cs[j].d = i
    <3>1. u # c
      BY <1>1, <1>2, <2>1
    <3>2. z.th[u] = m.th[u] /\ z.cs = m.cs
      BY <1>2, <3>1
    <3> QED
      BY <2>1, <3>2 DEF Safe, Guarded
  <2> QED
    BY <2>1 DEF Guarded
<1>4. FailedLast(z)
  <2>1. ASSUME NEW u \in Threads, NEW i \in 1 .. Len(z.th[u].ci), z.th[u].ci[i].f = "failed"
        PROVE  z.cs # << >> /\ u = Going(z) /\ i = Len(z.th[u].ci)
    <3>1. u # c
      BY <1>1, <1>2, <2>1
    <3>2. z.th[u] = m.th[u] /\ Going(z) = Going(m) /\ z.cs = m.cs
      BY <1>2, <3>1 DEF Going
    <3> QED
      BY <2>1, <3>2 DEF Safe, FailedLast
  <2> QED
    BY <2>1 DEF FailedLast
<1>5. Running(m.cs) # c
  BY DEF Running, Last, Going
<1>6. Status(m.th[c]) = "dead"
  BY DEF Status
<1>7. \A u \in Threads \ {c} : Seen(m, z, u)
  BY <1>2 DEF Seen
<1> QED
  BY <1>1, <1>2, <1>3, <1>4, <1>5, <1>6, <1>7 DEF Safe, CreateSeen

-----------------------------------------------------------------------------
(* The host *)

\* The host calls a function, which runs.
HostCallsSeen(m, w) ==
  /\ Running(m.cs) = Main /\ Running(w.cs) = Main
  /\ Calls(m.th[Main]) = << >> /\ Calls(w.th[Main]) = <<"lua">>
  /\ \A u \in Threads \ {Main} : Seen(m, w, u)
  /\ \A u \in Threads : Resumer(w.cs, u) = Resumer(m.cs, u)

\* What it has called is safe.
LEMMA HostRunSafe ==
  ASSUME NEW m, Clean(m), NEW e, NEW z, z.cs = <<e>>, e.t = Main, e.a # "resume", e \in EntryType,
         z.th[Main].ci = <<Frame("lua")>>, z.th[Main].status = "ok", z.th[Main] \in StateType,
         \A u \in Threads \ {Main} : z.th[u] = m.th[u]
  PROVE  /\ Safe(z) /\ Running(z.cs) = Main /\ Calls(z.th[Main]) = <<"lua">>
         /\ \A u \in Threads : Resumer(z.cs, u) = u
<1> DEFINE a == z.th[Main].ci
<1>1. Len(a) = 1 /\ a[1].f = "lua" /\ a \in Seq(FrameType)
  <2> DEFINE g == Frame("lua")
  <2>1. g.f = "lua"
    BY DEF Frame
  <2>2. a = <<g>> /\ a \in Seq(FrameType)
    BY DEF StateType
  <2> HIDE DEF g, a
  <2> QED
    BY <2>1, <2>2
<1>2. Len(z.cs) = 1 /\ z.cs[1] = e /\ z.cs # << >> /\ z.cs \in Seq(EntryType)
  OBVIOUS
<1> HIDE DEF a
<1>3. NoneFailed(a)
  BY <1>1 DEF NoneFailed
<1>4. Clean(z)
  BY <1>3 DEF Clean, a
<1>5. Guarded(z)
  <2>1. \A u \in Threads : Own(z.cs, u) # {} => u = Main
    BY <1>2 DEF Own
  <2>2. \A i \in 1 .. Len(a) : ~Unmarked(a, i)
    BY <1>1 DEF Unmarked, Guarding
  <2> QED
    BY <2>1, <2>2 DEF Guarded, a
<1>6. Running(z.cs) = Main
  BY <1>2 DEF Running, Last
<1>7. Calls(z.th[Main]) = <<"lua">>
  <2>1. Calls(z.th[Main]) = Functions(a)
    BY <1>3, CallsClean DEF a
  <2>2. Functions(a) \in Seq(Names) /\ Len(Functions(a)) = 1 /\ Functions(a)[1] = "lua"
    BY <1>1, FunctionsOf
  <2>3. Functions(a) = <<"lua">>
    BY <2>2
  <2> QED
    BY <2>1, <2>3
<1>8. \A i \in 1 .. Len(z.cs) : z.cs[i].a # "resume"
  BY <1>2
<1>9. ASSUME NEW u \in Threads PROVE Resumer(z.cs, u) = u
  BY <1>2, <1>8, ResumerNone
<1> QED
  BY <1>4, <1>5, <1>6, <1>7, <1>9, CleanSafe

\* The main thread has calls, which a program sees, as long as the host waits.
LEMMA HostWaits ==
  ASSUME NEW m \in Machine, NEW q, NEW v, Base(m, q, v), m.cs # << >>
  PROVE  Calls(m.th[Main]) # << >>
<1> DEFINE s == m.th[Main].ci
           n == Len(s)
           b == SubSeq(s, 1, n - 1)
<1>1. Main \in Threads /\ m.cs \in Seq(EntryType) /\ m.th[Main] \in StateType
  BY DEF Threads, Machine
<1>2. 1 \in Own(m.cs, Main)
  <2>1. m.cs[1].t = Main /\ 1 \in 1 .. Len(m.cs)
    BY <1>1 DEF Base, Stacked, HostEntry
  <2> QED
    BY <2>1 DEF Own
<1>3. Sound(Main, m.th[Main])
  BY <1>1, <1>2 DEF Base, Fits, Busy
<1>4. s # << >> /\ s[1].f = "lua" /\ m.th[Main].status = "ok" /\ s \in Seq(FrameType) /\ n \in Nat
  BY <1>1, <1>3 DEF Sound, Framed, StateType
<1> HIDE DEF s
<1>5. CASE s[n].f # "failed"
  <2>1. Calls(m.th[Main]) = Functions(s)
    BY <1>1, <1>4, <1>5, CallsOf DEF s
  <2> QED
    BY <1>4, <2>1, FunctionsOf
<1>6. CASE s[n].f = "failed"
  <2>1. Calls(m.th[Main]) = Functions(b)
    BY <1>1, <1>4, <1>6, CallsOf DEF s
  <2>2. n > 1 /\ n - 1 \in 0 .. Len(s)
    BY <1>4, <1>6
  <2>3. b \in Seq(FrameType) /\ Len(b) = n - 1
    BY <1>4, <2>2, PrefixElements
  <2> HIDE DEF b, n
  <2>4. b # << >>
    BY <1>4, <2>2, <2>3
  <2> QED
    BY <2>1, <2>3, <2>4, FunctionsOf
<1> QED
  BY <1>5, <1>6

\* lua_pcall of the host.
LEMMA HostCalledSeen ==
  ASSUME NEW m, Good(m), Safe(m), m.cs = << >>, NEW z,
         z = [m EXCEPT !.th[Main] = HostRuns(@), !.cs = <<Entry("pcall", Main, m.th[Main])>>]
  PROVE  Safe(z) /\ HostCallsSeen(m, z)
<1> DEFINE s == m.th[Main]
<1>1. /\ HostBegins(z, s) /\ AtRest(Main, s) /\ \A u \in Threads \ {Main} : z.th[u] = m.th[u]
  BY HostCallBegins
<1>2. /\ z \in Machine /\ z.cs = <<HostEntry>> /\ s \in StateType /\ z.th[Main] = HostRuns(s)
      /\ Main \in Threads
  BY <1>1 DEF HostBegins, Threads
<1>3. s.ci = << >> /\ s.status = "ok"
  BY <1>1 DEF AtRest
<1> HIDE DEF s
<1>4. z.th[Main].ci = <<Frame("lua")>> /\ z.th[Main].status = "ok" /\ z.th[Main] \in StateType
  <2> DEFINE g == Frame("lua")
             d == <<g>>
             x == s.nny + 1
             y == s.nC + 1
             r == z.th[Main]
  <2>1. r.ci = <<Frame("lua")>> /\ r.status = "ok"
    <3>1. r = [s EXCEPT !.ci = d, !.nny = x, !.nC = y, !.errfunc = Host]
      BY <1>2 DEF HostRuns
    <3>2. s \in StateType /\ s.status = "ok"
      BY <1>2, <1>3
    <3> HIDE DEF d, x, y, r
    <3>3. r.ci = d /\ r.status = "ok"
      BY ONLY <3>1, <3>2, Zenon DEF StateType
    <3> QED
      BY <3>3 DEF d, g
  <2>2. z.th[Main] \in StateType
    BY ONLY <1>2 DEF Machine
  <2> QED
    BY <2>1, <2>2
<1>5. Clean(m)
  BY DEF Safe, FailedLast, Clean, NoneFailed
<1>6. HostEntry \in EntryType /\ HostEntry.t = Main /\ HostEntry.a # "resume"
  BY DEF HostEntry, EntryType, Threads
<1>7. /\ Safe(z) /\ Running(z.cs) = Main /\ Calls(z.th[Main]) = <<"lua">>
      /\ \A u \in Threads : Resumer(z.cs, u) = u
  <2> DEFINE e == HostEntry
  <2>1. e \in EntryType /\ e.t = Main /\ e.a # "resume" /\ z.cs = <<e>>
    BY <1>2, <1>6
  <2>2. \A u \in Threads \ {Main} : z.th[u] = m.th[u]
    BY <1>1
  <2> HIDE DEF e
  <2> QED
    BY ONLY <1>4, <1>5, <2>1, <2>2, HostRunSafe
<1>8. Running(m.cs) = Main /\ \A u \in Threads : Resumer(m.cs, u) = u
  <2>1. m.cs \in Seq(EntryType) /\ \A i \in 1 .. Len(m.cs) : m.cs[i].a # "resume"
    OBVIOUS
  <2> QED
    BY <2>1, ResumerNone DEF Running
<1>9. Calls(s) = << >>
  <2>1. NoneFailed(s.ci)
    BY <1>3 DEF NoneFailed
  <2>2. Calls(s) = Functions(s.ci)
    BY <1>2, <1>3, <2>1, CallsClean
  <2>3. Functions(s.ci) = << >>
    BY <1>2, <1>3, FunctionsOf DEF StateType
  <2> QED
    BY <2>2, <2>3
<1>10. \A u \in Threads \ {Main} : Seen(m, z, u)
  BY <1>1 DEF Seen
<1> QED
  BY <1>7, <1>8, <1>9, <1>10 DEF HostCallsSeen, s

\* The first call of the host.
LEMMA InitSeen ==
  ASSUME Init
  PROVE  /\ Safe(m0) /\ Running(cs) = Main /\ Calls(th[Main]) = <<"lua">>
         /\ \A u \in Threads : Resumer(cs, u) = u
         /\ \A u \in Threads \ {Main} : Calls(th[u]) = << >> /\ Status(th[u]) = "suspended"
<1> DEFINE m == [th |-> [u \in Threads |-> NewThread], cs |-> << >>, lost |-> {}]
<1>1. HostBegins(m0, NewThread) /\ m0.th = th /\ m0.cs = cs
  BY InitBegins, MachineIs
<1>2. /\ cs = <<HostEntry>> /\ th[Main] = HostRuns(NewThread) /\ m0 \in Machine
      /\ \A u \in Threads \ {Main} : th[u] = NewThread
  BY <1>1 DEF HostBegins, Init
<1>3. Clean(m)
  <2>1. NewThread.ci = << >>
    BY NewSeen
  <2> QED
    BY <2>1 DEF Clean, NoneFailed
<1>4. \A u \in Threads \ {Main} : m0.th[u] = m.th[u]
  BY <1>1, <1>2
<1> HIDE DEF m
<1>5. /\ m0.th[Main].ci = <<Frame("lua")>> /\ m0.th[Main].status = "ok"
      /\ m0.th[Main] \in StateType
  <2>1. m0.th[Main].ci = <<Frame("lua")>> /\ m0.th[Main].status = "ok"
    BY <1>1, <1>2 DEF HostRuns, NewThread
  <2>2. m0.th[Main] \in StateType
    BY <1>2 DEF Machine, Threads
  <2> QED
    BY <2>1, <2>2
<1>6. HostEntry \in EntryType /\ HostEntry.t = Main /\ HostEntry.a # "resume"
  BY DEF HostEntry, EntryType, Threads
<1>7. m0.cs = <<HostEntry>>
  BY <1>1, <1>2
<1> DEFINE z == m0
<1> HIDE DEF z
<1>8. /\ Safe(z) /\ Running(z.cs) = Main /\ Calls(z.th[Main]) = <<"lua">>
      /\ \A u \in Threads : Resumer(z.cs, u) = u
  BY <1>3, <1>4, <1>5, <1>6, <1>7, HostRunSafe DEF z
<1> QED
  BY <1>1, <1>2, <1>8, NewSeen DEF z

-----------------------------------------------------------------------------
(* The steps are those of Coroutines *)

\* What the promise speaks of, in a machine.
MCalls(m) == [t \in Threads |-> Calls(m.th[t])]
MState(m) == [t \in Threads |-> IF t = Running(m.cs) THEN "running" ELSE Status(m.th[t])]
MResumer(m) == [t \in Threads |-> Resumer(m.cs, t)]

\* Only the calls of the running thread change.
LEMMA KeepsMaps ==
  ASSUME NEW m, NEW w, NEW t, NEW s, KeepsCalls(m, w, t, s)
  PROVE  /\ t \in Threads /\ Running(m.cs) = t /\ Running(w.cs) = t
         /\ MCalls(w) = [MCalls(m) EXCEPT ![t] = s]
         /\ MState(w) = MState(m) /\ MResumer(w) = MResumer(m)
<1>1. /\ t \in Threads /\ Running(m.cs) = t /\ Running(w.cs) = t
      /\ Calls(w.th[t]) = s
      /\ \A u \in Threads \ {t} : /\ Calls(w.th[u]) = Calls(m.th[u])
                                  /\ Status(w.th[u]) = Status(m.th[u])
      /\ \A u \in Threads : Resumer(w.cs, u) = Resumer(m.cs, u)
  BY DEF KeepsCalls, Seen
<1>2. MCalls(w) = [MCalls(m) EXCEPT ![t] = s]
  BY <1>1 DEF MCalls
<1>3. MState(w) = MState(m)
  BY <1>1 DEF MState
<1>4. MResumer(w) = MResumer(m)
  BY <1>1 DEF MResumer
<1> QED
  BY <1>1, <1>2, <1>3, <1>4

\* The running thread leaves, and r goes on.
LEMMA LeavesMaps ==
  ASSUME NEW m, NEW w, NEW t, NEW r, NEW a, NEW s, LeavesCalls(m, w, t, r, a, s)
  PROVE  /\ t \in Threads /\ r \in Threads /\ Running(m.cs) = t /\ Running(w.cs) = r
         /\ MResumer(m)[t] = r /\ t # Main
         /\ MCalls(w) = [MCalls(m) EXCEPT ![t] = s, ![r] = SubSeq(@, 1, Len(@) - 1)]
         /\ MState(w) = [MState(m) EXCEPT ![t] = a, ![r] = "running"]
         /\ MResumer(w) = [MResumer(m) EXCEPT ![t] = t]
<1>1. /\ t \in Threads /\ r \in Threads /\ r # t /\ t # Main
      /\ Running(m.cs) = t /\ Running(w.cs) = r /\ Resumer(m.cs, t) = r
      /\ Calls(w.th[t]) = s /\ Status(w.th[t]) = a
      /\ Calls(w.th[r]) = SubSeq(Calls(m.th[r]), 1, Len(Calls(m.th[r])) - 1)
      /\ \A u \in Threads \ {t, r} : /\ Calls(w.th[u]) = Calls(m.th[u])
                                     /\ Status(w.th[u]) = Status(m.th[u])
      /\ Resumer(w.cs, t) = t
      /\ \A u \in Threads \ {t} : Resumer(w.cs, u) = Resumer(m.cs, u)
  BY DEF LeavesCalls, Seen
<1>2. MCalls(w) = [MCalls(m) EXCEPT ![t] = s, ![r] = SubSeq(@, 1, Len(@) - 1)]
  BY <1>1 DEF MCalls
<1>3. MState(w) = [MState(m) EXCEPT ![t] = a, ![r] = "running"]
  BY <1>1 DEF MState
<1>4. MResumer(w) = [MResumer(m) EXCEPT ![t] = t] /\ MResumer(m)[t] = r
  BY <1>1 DEF MResumer
<1> QED
  BY <1>1, <1>2, <1>3, <1>4

\* The state of the promise.
LEMMA MapsAre ==
  /\ MCalls(m0) = [t \in Threads |-> Calls(th[t])]
  /\ MState(m0) = [t \in Threads |-> IF t = Running(cs) THEN "running" ELSE Status(th[t])]
  /\ MResumer(m0) = [t \in Threads |-> Resumer(cs, t)]
BY MachineIs DEF MCalls, MState, MResumer

\* After it.
LEMMA MapsNext ==
  ASSUME NEW w, Becomes(w)
  PROVE  /\ MCalls(w) = [t \in Threads |-> Calls(th[t])]'
         /\ MState(w) = [t \in Threads |-> IF t = Running(cs) THEN "running" ELSE Status(th[t])]'
         /\ MResumer(w) = [t \in Threads |-> Resumer(cs, t)]'
         /\ Running(w.cs) = Running(cs)'
BY DEF Becomes, MCalls, MState, MResumer

\* Call.
LEMMA CallPromised ==
  ASSUME NEW w, Becomes(w), Calls(th[Main]) # << >>, NEW t, CallSeen(m0, w, t)
  PROVE  Promise!Next
<1>1. PICK via \in Vias : KeepsCalls(m0, w, t, Calls(m0.th[t]) \o via)
  BY DEF CallSeen
<1>2. /\ t \in Threads /\ Running(m0.cs) = t /\ Running(w.cs) = t
      /\ MCalls(w) = [MCalls(m0) EXCEPT ![t] = Calls(m0.th[t]) \o via]
      /\ MState(w) = MState(m0) /\ MResumer(w) = MResumer(m0)
  BY <1>1, KeepsMaps
<1>3. MCalls(m0)[t] = Calls(m0.th[t]) /\ MCalls(m0)[Main] = Calls(th[Main])
  BY <1>2, MachineIs DEF MCalls, Threads
<1>4. MCalls(w) = [MCalls(m0) EXCEPT ![t] = @ \o via]
  BY <1>2, <1>3
<1>5. Promise!Call(via)
  BY <1>2, <1>3, <1>4, MapsAre, MapsNext, MachineIs, Zenon DEF Promise!Call, Promise!InLua
<1> QED
  BY <1>1, <1>5 DEF Promise!Next, Vias

\* Nothing.
LEMMA StaysPromised ==
  ASSUME NEW w, Becomes(w), NEW t, Stays(m0, w, t)
  PROVE  UNCHANGED Promise!vars
<1>1. /\ t \in Threads /\ Running(m0.cs) = t /\ Running(w.cs) = t
      /\ MCalls(w) = [MCalls(m0) EXCEPT ![t] = Calls(m0.th[t])]
      /\ MState(w) = MState(m0) /\ MResumer(w) = MResumer(m0)
  BY KeepsMaps DEF Stays
<1>2. MCalls(w) = MCalls(m0)
  <2>1. MCalls(m0)[t] = Calls(m0.th[t])
    BY <1>1 DEF MCalls
  <2> QED
    BY <1>1, <2>1 DEF MCalls
<1> QED
  BY <1>1, <1>2, MapsAre, MapsNext, MachineIs, Zenon DEF Promise!vars

\* Keeps.
LEMMA KeepsPromised ==
  ASSUME NEW w, Becomes(w), NEW t, NEW s, KeepsCalls(m0, w, t, s)
  PROVE  Running(cs) = t /\ Promise!Keeps(s)
<1>1. /\ t \in Threads /\ Running(m0.cs) = t /\ Running(w.cs) = t
      /\ MCalls(w) = [MCalls(m0) EXCEPT ![t] = s]
      /\ MState(w) = MState(m0) /\ MResumer(w) = MResumer(m0)
  BY KeepsMaps
<1> QED
  BY <1>1, MapsAre, MapsNext, MachineIs, Zenon DEF Promise!Keeps

\* Leave.
LEMMA LeavesPromised ==
  ASSUME NEW w, Becomes(w), NEW t, NEW r, NEW a, NEW s, LeavesCalls(m0, w, t, r, a, s)
  PROVE  Running(cs) = t /\ t # Main /\ Promise!Leave(t, a, s)
<1>1. /\ t \in Threads /\ r \in Threads /\ Running(m0.cs) = t /\ Running(w.cs) = r
      /\ MResumer(m0)[t] = r /\ t # Main
      /\ MCalls(w) = [MCalls(m0) EXCEPT ![t] = s, ![r] = SubSeq(@, 1, Len(@) - 1)]
      /\ MState(w) = [MState(m0) EXCEPT ![t] = a, ![r] = "running"]
      /\ MResumer(w) = [MResumer(m0) EXCEPT ![t] = t]
  BY LeavesMaps
<1>2. Running(w.cs) = MResumer(m0)[t]
  BY <1>1
<1>3. MCalls(w) = [MCalls(m0) EXCEPT ![t] = s, ![MResumer(m0)[t]] = SubSeq(@, 1, Len(@) - 1)]
  BY <1>1
<1>4. MState(w) = [MState(m0) EXCEPT ![t] = a, ![MResumer(m0)[t]] = "running"]
  BY <1>1
<1> QED
  BY <1>1, <1>2, <1>3, <1>4, MapsAre, MapsNext, MachineIs, Zenon DEF Promise!Leave

\* What the promise says of the calls of the thread t, which runs.
LEMMA CallsPromised ==
  ASSUME NEW t \in Threads, NEW s, s = Calls(th[t])
  PROVE  /\ Promise!Protected(t) = ProtectedIn(s) /\ Promise!Caught(t) = CaughtIn(s)
         /\ Promise!Frames(t) = DOMAIN s /\ Promise!Returns(s) = ReturnsIn(s)
<1>1. [u \in Threads |-> Calls(th[u])][t] = s
  OBVIOUS
<1>2. Promise!Frames(t) = DOMAIN s
  BY <1>1 DEF Promise!Frames
<1>3. Promise!Protected(t) = ProtectedIn(s)
  BY <1>1, <1>2 DEF Promise!Protected, ProtectedIn
<1>4. Promise!Innermost(t) = CHOOSE i \in ProtectedIn(s) : \A j \in ProtectedIn(s) : j <= i
  BY <1>3, Zenon DEF Promise!Innermost
<1>5. Promise!Caught(t) = CaughtIn(s)
  BY <1>1, <1>3, <1>4, Zenon DEF Promise!Caught, CaughtIn
<1>6. Promise!Returns(s) = ReturnsIn(s)
  BY Zenon DEF Promise!Returns, ReturnsIn, CodeIn
<1> QED
  BY <1>2, <1>3, <1>5, <1>6

\* Error.
LEMMA ErrorPromised ==
  ASSUME NEW w, Becomes(w), Calls(th[Main]) # << >>, NEW t \in Threads, ErrorSeen(m0, w, t)
  PROVE  Promise!Next
<1> DEFINE s == Calls(m0.th[t])
<1>1. s = Calls(th[t])
  BY MachineIs
<1>2. Promise!Protected(t) = ProtectedIn(s) /\ Promise!Caught(t) = CaughtIn(s)
  BY <1>1, CallsPromised
<1>3. Promise!InLua
  <2>1. Main \in Threads
    BY DEF Threads
  <2> QED
    BY <2>1 DEF Promise!InLua
<1>4. CASE ProtectedIn(s) # {} \/ t = Main
  <2>1. KeepsCalls(m0, w, t, CaughtIn(s))
    BY <1>4 DEF ErrorSeen
  <2>2. Running(cs) = t /\ Promise!Keeps(CaughtIn(s))
    BY <2>1, KeepsPromised
  <2> HIDE DEF s
  <2>3. Promise!Error
    BY <1>2, <1>3, <1>4, <2>2, Zenon DEF Promise!Error
  <2> QED
    BY <2>3 DEF Promise!Next
<1>5. CASE ~(ProtectedIn(s) # {} \/ t = Main)
  <2>1. PICK r \in Threads : LeavesCalls(m0, w, t, r, "dead", << >>)
    BY <1>5 DEF ErrorSeen
  <2>2. Running(cs) = t /\ t # Main /\ Promise!Leave(t, "dead", << >>)
    BY <2>1, LeavesPromised
  <2> HIDE DEF s
  <2>3. Promise!Error
    BY <1>2, <1>3, <1>5, <2>2, Zenon DEF Promise!Error
  <2> QED
    BY <2>3 DEF Promise!Next
<1> QED
  BY <1>4, <1>5

\* Return.
LEMMA ReturnPromised ==
  ASSUME NEW w, Becomes(w), Calls(th[Main]) # << >>, NEW t \in Threads, ReturnSeen(m0, w, t)
  PROVE  Promise!Next
<1> DEFINE s == Calls(m0.th[t])
           rest == ReturnsIn(s)
<1>1. s = Calls(th[t])
  BY MachineIs
<1>2. Promise!Returns(s) = rest /\ [u \in Threads |-> Calls(th[u])][t] = s
  BY <1>1, CallsPromised
<1>3. Promise!InLua
  <2>1. Main \in Threads
    BY DEF Threads
  <2> QED
    BY <2>1 DEF Promise!InLua
<1>4. CASE rest # << >> \/ t = Main
  <2>1. KeepsCalls(m0, w, t, rest)
    BY <1>4 DEF ReturnSeen
  <2> HIDE DEF s, rest
  <2>2. Running(cs) = t /\ Promise!Keeps(rest)
    BY <2>1, KeepsPromised
  <2>3. Promise!Return
    BY <1>2, <1>3, <1>4, <2>2, Zenon DEF Promise!Return
  <2> QED
    BY <2>3 DEF Promise!Next
<1>5. CASE ~(rest # << >> \/ t = Main)
  <2>1. PICK r \in Threads : LeavesCalls(m0, w, t, r, "dead", << >>)
    BY <1>5 DEF ReturnSeen
  <2> HIDE DEF s, rest
  <2>2. Running(cs) = t /\ t # Main /\ Promise!Leave(t, "dead", << >>)
    BY <2>1, LeavesPromised
  <2>3. Promise!Return
    BY <1>2, <1>3, <1>5, <2>2, Zenon DEF Promise!Return
  <2> QED
    BY <2>3 DEF Promise!Next
<1> QED
  BY <1>4, <1>5

\* Yield.
LEMMA YieldPromised ==
  ASSUME NEW w, Becomes(w), Calls(th[Main]) # << >>, NEW p \in Threads, YieldSeen(m0, w, p)
  PROVE  Promise!Next
<1> DEFINE s == Calls(m0.th[p])
<1>1. s = Calls(th[p])
  BY MachineIs
<1>2. Promise!Frames(p) = DOMAIN s /\ [t \in Threads |-> Calls(th[t])][p] = s
  BY <1>1, CallsPromised
<1>3. Promise!InLua
  <2>1. Main \in Threads
    BY DEF Threads
  <2> QED
    BY <2>1 DEF Promise!InLua
<1>4. p # Main /\ \A i \in DOMAIN s : s[i] \notin {"sort", "handler"}
  BY DEF YieldSeen
<1>5. PICK r \in Threads : LeavesCalls(m0, w, p, r, "suspended", Append(s, "yield"))
  BY DEF YieldSeen
<1> DEFINE y == Append([t \in Threads |-> Calls(th[t])][Running(cs)], "yield")
<1>6. PICK x : x = y
  OBVIOUS
<1>7. Running(cs) = p
  BY <1>5, MachineIs DEF LeavesCalls
<1> HIDE DEF s
<1>8. LeavesCalls(m0, w, p, r, "suspended", x)
  BY <1>2, <1>5, <1>6, <1>7
<1> HIDE DEF y
<1>9. Running(cs) = p /\ p # Main /\ Promise!Leave(p, "suspended", x)
  BY <1>8, LeavesPromised
<1>10. Promise!Yieldable(p)
  <2> DEFINE c == [t \in Threads |-> Calls(th[t])]
  <2>1. \A i \in Promise!Frames(p) : c[p][i] \notin {"sort", "handler"}
    BY <1>2, <1>4
  <2> QED
    BY <1>4, <2>1, Zenon DEF Promise!Yieldable
<1>11. Promise!Yield
  <2>1. Promise!Yieldable(Running(cs))
    BY <1>9, <1>10, Zenon
  <2>2. Promise!Leave(Running(cs), "suspended", y)
    BY <1>6, <1>9 DEF Promise!Leave
  <2> QED
    BY <1>3, <2>1, <2>2, Zenon DEF Promise!Yield, Promise!Leave, y
<1> QED
  BY <1>11 DEF Promise!Next

\* Resume.
LEMMA ResumePromised ==
  ASSUME NEW w, Becomes(w), Calls(th[Main]) # << >>, NEW t, NEW c \in Cos, ResumeSeen(m0, w, t, c)
  PROVE  Promise!Next
<1> DEFINE s == Calls(m0.th[c])
           a == Calls(m0.th[t])
<1>1. /\ t \in Threads /\ c \in Threads /\ c # t
      /\ Running(m0.cs) = t /\ Running(w.cs) = c
      /\ Status(m0.th[c]) = "suspended" /\ Status(w.th[t]) = "normal"
      /\ Calls(w.th[t]) = Append(a, "resume")
      /\ Calls(w.th[c]) = IF s = << >> THEN <<"lua">> ELSE SubSeq(s, 1, Len(s) - 1)
      /\ \A u \in Threads \ {t, c} : /\ Calls(w.th[u]) = Calls(m0.th[u])
                                     /\ Status(w.th[u]) = Status(m0.th[u])
      /\ Resumer(w.cs, c) = t
      /\ \A u \in Threads \ {c} : Resumer(w.cs, u) = Resumer(m0.cs, u)
  BY DEF ResumeSeen, Seen
<1> HIDE DEF s, a
<1>2. MCalls(m0)[t] = a /\ MCalls(m0)[c] = s /\ MState(m0)[c] = "suspended"
  BY <1>1 DEF MCalls, MState, s, a
<1>3. MCalls(w) = [MCalls(m0) EXCEPT ![t] = Append(a, "resume"),
                      ![c] = IF s = << >> THEN <<"lua">> ELSE SubSeq(s, 1, Len(s) - 1)]
  BY <1>1 DEF MCalls
<1>4. MCalls(w) = [MCalls(m0) EXCEPT ![t] = Append(@, "resume"),
                      ![c] = IF @ = << >> THEN <<"lua">> ELSE SubSeq(@, 1, Len(@) - 1)]
  BY <1>1, <1>2, <1>3 DEF MCalls
<1>5. MState(w) = [MState(m0) EXCEPT ![t] = "normal", ![c] = "running"]
  BY <1>1 DEF MState
<1>6. MResumer(w) = [MResumer(m0) EXCEPT ![c] = t]
  BY <1>1 DEF MResumer
<1>7. Promise!InLua
  <2>1. Main \in Threads
    BY DEF Threads
  <2> QED
    BY <2>1 DEF Promise!InLua
<1>8. Running(cs) = t
  BY <1>1, MachineIs
<1>9. Promise!Resume(c)
  BY <1>1, <1>2, <1>4, <1>5, <1>6, <1>7, <1>8, MapsAre, MapsNext, Zenon DEF Promise!Resume
<1> QED
  BY <1>9 DEF Promise!Next

\* Create.
LEMMA CreatePromised ==
  ASSUME NEW w, Becomes(w), NEW c \in Cos, CreateSeen(m0, w, c)
  PROVE  Promise!Next
<1>1. /\ c \in Threads /\ Running(m0.cs) # c /\ w.cs = m0.cs
      /\ Status(m0.th[c]) = "dead" /\ Status(w.th[c]) = "suspended" /\ Calls(w.th[c]) = << >>
      /\ \A u \in Threads \ {c} : /\ Calls(w.th[u]) = Calls(m0.th[u])
                                  /\ Status(w.th[u]) = Status(m0.th[u])
  BY DEF CreateSeen, Seen
<1>2. MState(m0)[c] = "dead"
  BY <1>1 DEF MState
<1>3. MCalls(w) = [MCalls(m0) EXCEPT ![c] = << >>]
  BY <1>1 DEF MCalls
<1>4. MState(w) = [MState(m0) EXCEPT ![c] = "suspended"]
  BY <1>1 DEF MState
<1>5. MResumer(w) = MResumer(m0) /\ Running(w.cs) = Running(m0.cs) /\ m0.cs = cs
  BY <1>1, MachineIs DEF MResumer
<1>6. Promise!Create(c)
  BY <1>1, <1>2, <1>3, <1>4, <1>5, MapsAre, MapsNext, Zenon DEF Promise!Create
<1> QED
  BY <1>6 DEF Promise!Next

\* HostCalls.
LEMMA HostPromised ==
  ASSUME NEW w, Becomes(w), HostCallsSeen(m0, w)
  PROVE  Promise!Next
<1>1. /\ Running(m0.cs) = Main /\ Running(w.cs) = Main
      /\ Calls(m0.th[Main]) = << >> /\ Calls(w.th[Main]) = <<"lua">>
      /\ \A u \in Threads \ {Main} : /\ Calls(w.th[u]) = Calls(m0.th[u])
                                     /\ Status(w.th[u]) = Status(m0.th[u])
      /\ \A u \in Threads : Resumer(w.cs, u) = Resumer(m0.cs, u)
  BY DEF HostCallsSeen, Seen
<1>2. Main \in Threads
  BY DEF Threads
<1>3. MCalls(w) = [MCalls(m0) EXCEPT ![Main] = <<"lua">>] /\ MCalls(m0)[Main] = << >>
  BY <1>1, <1>2 DEF MCalls
<1>4. MState(w) = MState(m0)
  BY <1>1 DEF MState
<1>5. MResumer(w) = MResumer(m0)
  BY <1>1 DEF MResumer
<1>6. Promise!HostCalls
  BY <1>1, <1>3, <1>4, <1>5, MapsAre, MapsNext, MachineIs, Zenon
     DEF Promise!HostCalls, Promise!InLua
<1> QED
  BY <1>6 DEF Promise!Next

\* RaiseOnMain.
LEMMA MainPromised ==
  ASSUME NEW w, Becomes(w), NEW t \in Threads, t # Main, Running(cs) = t,
         Status(m0.th[t]) = "normal", MainRaised(m0, w)
  PROVE  Promise!Next
<1> DEFINE s == Calls(m0.th[Main])
<1>1. /\ Running(w.cs) = Main /\ Calls(w.th[Main]) = CaughtIn(s)
      /\ \A u \in Threads \ {Main} : /\ Calls(w.th[u]) = Calls(m0.th[u])
                                     /\ Status(w.th[u]) = Status(m0.th[u])
      /\ \A u \in Threads : Resumer(w.cs, u) = u
  BY DEF MainRaised, Seen
<1>2. Main \in Threads /\ s = Calls(th[Main]) /\ Running(m0.cs) = t
  BY MachineIs DEF Threads
<1>3. Promise!Caught(Main) = CaughtIn(s)
  BY <1>2, CallsPromised
<1> HIDE DEF s
<1>4. MCalls(w) = [MCalls(m0) EXCEPT ![Main] = CaughtIn(s)]
  BY <1>1, <1>2 DEF MCalls
<1>5. MState(w) = [MState(m0) EXCEPT ![t] = "normal", ![Main] = "running"]
  BY <1>1, <1>2 DEF MState
<1>6. MResumer(w) = [u \in Threads |-> u]
  BY <1>1 DEF MResumer
<1>7. Promise!RaiseOnMain
  BY <1>1, <1>2, <1>3, <1>4, <1>5, <1>6, MapsAre, MapsNext, Zenon
     DEF Promise!RaiseOnMain, Promise!Threads, Threads
<1> QED
  BY <1>7 DEF Promise!Next

\* Init.
LEMMA InitPromised == Init => Promise!Init
<1> SUFFICES ASSUME Init PROVE Promise!Init
  OBVIOUS
<1>1. /\ Running(cs) = Main /\ Calls(th[Main]) = <<"lua">>
      /\ \A u \in Threads : Resumer(cs, u) = u
      /\ \A u \in Threads \ {Main} : Calls(th[u]) = << >> /\ Status(th[u]) = "suspended"
  BY InitSeen
<1>2. Promise!Threads = Threads
  BY DEF Promise!Threads, Threads
<1>3. [t \in Threads |-> Calls(th[t])] = [t \in Threads |-> IF t = Main THEN <<"lua">> ELSE << >>]
  BY <1>1
<1>4. [t \in Threads |-> IF t = Running(cs) THEN "running" ELSE Status(th[t])]
        = [t \in Threads |-> IF t = Main THEN "running" ELSE "suspended"]
  BY <1>1
<1>5. [t \in Threads |-> Resumer(cs, t)] = [t \in Threads |-> t]
  BY <1>1
<1> QED
  BY <1>1, <1>2, <1>3, <1>4, <1>5 DEF Promise!Init

-----------------------------------------------------------------------------
(* Every step *)

\* An error of the main thread, raised while t runs.
MainSeen(m, w, t) ==
  t # Main /\ Running(m.cs) = t /\ Status(m.th[t]) = "normal" /\ MainRaised(m, w)

\* What the thread t, which runs, may do.
StepSeen(m, w, t) ==
  \/ CallSeen(m, w, t) \/ ErrorSeen(m, w, t) \/ Stays(m, w, t) \/ ReturnSeen(m, w, t)
  \/ YieldSeen(m, w, t) \/ MainSeen(m, w, t) \/ \E c \in Cos : ResumeSeen(m, w, t, c)
TakesStep(w, t) == t \in Threads /\ Becomes(w) /\ Safe(w) /\ StepSeen(m0, w, t)

\* It is promised.
LEMMA StepPromised ==
  ASSUME NEW w, NEW t, Calls(th[Main]) # << >>, TakesStep(w, t)
  PROVE  Promise!Next \/ UNCHANGED Promise!vars
<1>1. t \in Threads /\ Becomes(w) /\ StepSeen(m0, w, t)
  BY DEF TakesStep
<1>2. CASE CallSeen(m0, w, t)
  BY <1>1, <1>2, CallPromised
<1>3. CASE ErrorSeen(m0, w, t)
  BY <1>1, <1>3, ErrorPromised
<1>4. CASE Stays(m0, w, t)
  BY <1>1, <1>4, StaysPromised
<1>5. CASE ReturnSeen(m0, w, t)
  BY <1>1, <1>5, ReturnPromised
<1>6. CASE YieldSeen(m0, w, t)
  BY <1>1, <1>6, YieldPromised
<1>7. CASE MainSeen(m0, w, t)
  <2>1. t # Main /\ Running(cs) = t /\ Status(m0.th[t]) = "normal" /\ MainRaised(m0, w)
    BY <1>7, MachineIs DEF MainSeen
  <2> QED
    BY <1>1, <2>1, MainPromised
<1>8. CASE \E c \in Cos : ResumeSeen(m0, w, t, c)
  BY <1>1, <1>8, ResumePromised
<1> QED
  BY <1>1, <1>2, <1>3, <1>4, <1>5, <1>6, <1>7, <1>8 DEF StepSeen

\* A thread that runs Lua code is "normal" when another one runs.
LEMMA RunsNormal ==
  ASSUME NEW m, NEW q, NEW v, NEW t, Tidy(m, q, v, t)
  PROVE  t \in Threads /\ Running(m.cs) = t /\ Status(m.th[t]) = "normal"
<1>1. /\ m.cs \in Seq(EntryType) /\ m.cs # << >> /\ t = Going(m) /\ t \in Threads
      /\ Running(m.cs) = t /\ Len(m.cs) \in Own(m.cs, t) /\ Base(m, q, v)
  BY TidyFacts DEF Tidy
<1>2. Busy(m, q, v, t)
  BY <1>1 DEF Base, Fits
<1>3. m.th[t].status = "ok" /\ m.th[t].ci # << >>
  BY <1>2 DEF Busy, Sound, Framed
<1> QED
  BY <1>1, <1>3 DEF Status

\* Lua code is run by the thread of the last entry.
LEMMA CodeIs ==
  ASSUME Good(m0), InLua
  PROVE  /\ cs # << >> /\ Runs = Going(m0) /\ Runs \in Threads
         /\ \E q, v \in Positions : InCode(m0, q, v, Runs)
<1>1. m0.th = th /\ m0.cs = cs /\ m0.lost = lost
  BY MachineIs
<1>2. cs # << >> /\ Last(th[Runs].ci).f \in Code
  BY DEF InLua, Top, Code
<1>3. Runs = Going(m0)
  BY <1>2, MachineIs
<1>4. \E q, v \in Positions : InCode(m0, q, v, Runs)
  BY <1>1, <1>2, <1>3, CodeRuns
<1>5. Runs \in Threads
  BY <1>4, RunnableFacts, Zenon DEF InCode
<1> QED
  BY <1>2, <1>3, <1>4, <1>5

\* A step to the machine y.
LEMMA Takes ==
  ASSUME NEW t \in Threads, NEW z, Becomes(z), Safe(z), StepSeen(m0, z, t)
  PROVE  \E w, u : TakesStep(w, u)
<1>1. TakesStep(z, t)
  BY DEF TakesStep
<1> QED
  BY <1>1

\* OP_CALL of a Lua function.
LEMMA CallLuaSteps ==
  ASSUME Good(m0), Safe(m0), CallLua
  PROVE  \E w, u : TakesStep(w, u)
<1> DEFINE y == [m0 EXCEPT !.th[Runs].ci = Append(@, [Frame("lua") EXCEPT !.fresh = FALSE])]
<1>1. InLua /\ Becomes(y)
  BY DEF CallLua
<1>2. PICK q, v \in Positions : InCode(m0, q, v, Runs)
  BY <1>1, CodeIs
<1>3. Safe(y) /\ CallSeen(m0, y, Runs)
  BY <1>2, CallLuaSeen, Zenon
<1> HIDE DEF y
<1>4. PICK z, t : z = y /\ t = Runs
  OBVIOUS
<1>5. t \in Threads /\ Becomes(z) /\ Safe(z) /\ StepSeen(m0, z, t)
  BY <1>1, <1>3, <1>4, CodeIs DEF Becomes, StepSeen
<1> QED
  BY <1>5, Takes

\* luaT_callTM from Lua code.
LEMMA MetamethodSteps ==
  ASSUME Good(m0), Safe(m0), Metamethod
  PROVE  \E w, u : TakesStep(w, u)
<1> DEFINE y == LuaDCall(m0, Runs, Entry("call", Runs, NoSave), FALSE)
<1>1. InLua /\ Becomes(y)
  BY Zenon DEF Metamethod
<1>2. PICK q, v \in Positions : InCode(m0, q, v, Runs)
  BY <1>1, CodeIs
<1>3. Safe(y) /\ (CallSeen(m0, y, Runs) \/ ErrorSeen(m0, y, Runs))
  BY <1>2, MetamethodSeen, Zenon
<1> HIDE DEF y
<1>4. PICK z, t : z = y /\ t = Runs
  OBVIOUS
<1>5. t \in Threads /\ Becomes(z) /\ Safe(z) /\ StepSeen(m0, z, t)
  BY <1>1, <1>3, <1>4, CodeIs DEF Becomes, StepSeen
<1> QED
  BY <1>5, Takes

\* lua_call and lua_callk.
LEMMA CallKSteps ==
  ASSUME Good(m0), Safe(m0), NEW f \in Kinds, CallK(f)
  PROVE  \E w, u : TakesStep(w, u)
<1> DEFINE k == f = "callk" /\ th[Runs].nny = 0
           y == LuaDCall([m0 EXCEPT !.th[Runs].ci = Append(@, [Frame(f) EXCEPT !.k = k])], Runs,
                         Entry(IF k THEN "call" ELSE "noyield", Runs, NoSave), ~k)
<1>1. InLua /\ f \in {"sort", "callk"} /\ Becomes(y)
  BY DEF CallK
<1>2. PICK q, v \in Positions : InCode(m0, q, v, Runs)
  BY <1>1, CodeIs
<1>3. k \in BOOLEAN /\ (k <=> f = "callk" /\ m0.th[Runs].nny = 0)
  BY MachineIs
<1> HIDE DEF k
<1>4. CallsBy(m0, q, v, Runs, f, y)
  BY <1>1, <1>2, <1>3, CallKCalls
<1> HIDE DEF y
<1>5. Safe(y) /\ (CallSeen(m0, y, Runs) \/ ErrorSeen(m0, y, Runs) \/ Stays(m0, y, Runs))
  BY <1>2, <1>4, CallsBySeen
<1>6. PICK z, t : z = y /\ t = Runs
  OBVIOUS
<1>7. t \in Threads /\ Becomes(z) /\ Safe(z) /\ StepSeen(m0, z, t)
  BY <1>1, <1>5, <1>6, CodeIs DEF Becomes, StepSeen
<1> QED
  BY <1>7, Takes

\* lua_pcallk.
LEMMA PCallKSteps ==
  ASSUME Good(m0), Safe(m0), NEW f \in Kinds, PCallK(f)
  PROVE  \E w, u : TakesStep(w, u)
<1> DEFINE y == PCalled(m0, Runs, f, m0.th[Runs])
<1>1. InLua /\ f \in {"pcall", "xpcall"} /\ Becomes(PCalled(m0, Runs, f, th[Runs]))
  BY DEF PCallK, PCalled
<1>2. PICK q, v \in Positions : InCode(m0, q, v, Runs)
  BY <1>1, CodeIs
<1>3. CallsBy(m0, q, v, Runs, f, y)
  BY <1>1, <1>2, PCallKCalls
<1>4. Becomes(y)
  BY <1>1, MachineIs
<1> HIDE DEF y
<1>5. Safe(y) /\ (CallSeen(m0, y, Runs) \/ ErrorSeen(m0, y, Runs) \/ Stays(m0, y, Runs))
  BY <1>2, <1>3, CallsBySeen
<1>6. PICK z, t : z = y /\ t = Runs
  OBVIOUS
<1>7. t \in Threads /\ Becomes(z) /\ Safe(z) /\ StepSeen(m0, z, t)
  BY <1>1, <1>4, <1>5, <1>6, CodeIs DEF Becomes, StepSeen
<1> QED
  BY <1>7, Takes

\* coroutine.resume, and the functions of coroutine.wrap.
LEMMA ResumeSteps ==
  ASSUME Good(m0), Safe(m0), NEW c \in Cos, NEW f \in {"resume", "wrap"}, Resume(f, c)
  PROVE  \E w, u : TakesStep(w, u)
<1> DEFINE s == th[c]
           n == th[Runs].nC + 1
           suspended == (s.status = "ok" /\ s.ci = << >> /\ s.fn) \/ s.status = "yield"
           y == Resumed(m0, Runs, c, f, s, n)
           x == [m0 EXCEPT !.th[Runs].ci = Append(@, Frame("failed"))]
<1>1. InLua /\ c # Runs
  BY DEF Resume
<1>2. IF ~suspended \/ n >= MaxCCalls THEN f = "wrap" /\ Becomes(x) ELSE Becomes(y)
  BY Zenon DEF Resume, Resumed
<1>3. PICK q, v \in Positions : InCode(m0, q, v, Runs)
  BY <1>1, CodeIs
<1>4. CASE ~suspended \/ n >= MaxCCalls
  <2>1. Becomes(x)
    <3> HIDE DEF x, y, suspended, n
    <3> QED
      BY <1>2, <1>4
  <2>2. Safe(x) /\ Stays(m0, x, Runs)
    BY <1>3, WrapFailsSeen, Zenon
  <2> HIDE DEF x
  <2>3. PICK z, t : z = x /\ t = Runs
    OBVIOUS
  <2>4. t \in Threads /\ Becomes(z) /\ Safe(z) /\ StepSeen(m0, z, t)
    BY <1>1, <2>1, <2>2, <2>3, CodeIs DEF Becomes, StepSeen
  <2> QED
    BY <2>4, Takes
<1>5. CASE suspended /\ ~(n >= MaxCCalls)
  <2>1. Becomes(y)
    <3> HIDE DEF x, y, suspended, n
    <3> QED
      BY <1>2, <1>5
  <2>2. m0.th = th /\ c \in Threads
    BY MachineIs DEF Threads
  <2>3. ResumedBy(m0, q, v, Runs, c, f, y)
    BY <1>1, <1>3, <1>5, <2>2, ResumeCalls, Zenon
  <2> HIDE DEF y
  <2>4. Safe(y) /\ ResumeSeen(m0, y, Runs, c)
    BY <1>1, <1>3, <1>5, <2>2, <2>3, ResumedSeen, Zenon
  <2>5. PICK z, t : z = y /\ t = Runs
    OBVIOUS
  <2>6. t \in Threads /\ Becomes(z) /\ Safe(z) /\ StepSeen(m0, z, t)
    BY <1>1, <2>1, <2>4, <2>5, CodeIs DEF Becomes, StepSeen
  <2> QED
    BY <2>6, Takes
<1> QED
  BY <1>4, <1>5

\* coroutine.yield.
LEMMA YieldSteps ==
  ASSUME Good(m0), Safe(m0), Yield
  PROVE  \E w, u : TakesStep(w, u)
<1> DEFINE s == m0.th[Runs]
           j == ErrorJmp(m0, Runs)
           x == Raise(m0, Runs)
           y == ResumeReturns(
             [m0 EXCEPT !.th[Runs] = [s EXCEPT !.status = "yield", !.ci = Append(@, Frame("yield")),
                                               !.nny = m0.cs[j].nny, !.nC = m0.cs[j].nC - 1],
                        !.cs = SubSeq(@, 1, j - 1)], TRUE)
<1>1. InLua /\ m0.th = th /\ m0.cs = cs
  BY MachineIs DEF Yield
<1>2. PICK q, v \in Positions : InCode(m0, q, v, Runs)
  BY <1>1, CodeIs
<1>3. CASE s.nny > 0
  <2>1. Becomes(x)
    BY <1>1, <1>3, Zenon DEF Yield
  <2>2. Safe(x) /\ (ErrorSeen(m0, x, Runs) \/ CallSeen(m0, x, Runs))
    BY <1>2, RaisedSeen, Zenon
  <2> HIDE DEF x
  <2>3. PICK z, t : z = x /\ t = Runs
    OBVIOUS
  <2>4. t \in Threads /\ Becomes(z) /\ Safe(z) /\ StepSeen(m0, z, t)
    BY <1>1, <2>1, <2>2, <2>3, CodeIs DEF Becomes, StepSeen
  <2> QED
    BY <2>4, Takes
<1>4. CASE ~(s.nny > 0)
  <2>1. Becomes(y)
    BY <1>1, <1>4, Zenon DEF Yield
  <2>2. Safe(y) /\ YieldSeen(m0, y, Runs)
    BY <1>2, <1>4, YieldIsSeen, Zenon
  <2> HIDE DEF y
  <2>3. PICK z, t : z = y /\ t = Runs
    OBVIOUS
  <2>4. t \in Threads /\ Becomes(z) /\ Safe(z) /\ StepSeen(m0, z, t)
    BY <1>1, <2>1, <2>2, <2>3, CodeIs DEF Becomes, StepSeen
  <2> QED
    BY <2>4, Takes
<1> QED
  BY <1>3, <1>4

\* luaB_auxwrap propagates its error.
LEMMA WrapRaisesSteps ==
  ASSUME Good(m0), Safe(m0), WrapRaises
  PROVE  \E w, u : TakesStep(w, u)
<1> DEFINE y == Raise([m0 EXCEPT !.th[Runs] = Popped(@, 1)], Runs)
<1>1. cs # << >> /\ Last(th[Runs].ci).f = "failed" /\ Becomes(y)
  BY DEF WrapRaises, Top
<1>2. PICK q, v \in Positions : Base(m0, q, v) /\ Goes(m0, q)
  BY DEF Good
<1>3. /\ m0 \in Machine /\ m0.cs # << >> /\ Runs = Going(m0)
      /\ m0.th[Runs].ci[Len(m0.th[Runs].ci)].f = "failed"
  BY <1>1, MachineIs DEF Good, Last
<1>4. Runs \in Threads
  <2>1. m0.cs \in Seq(EntryType)
    BY <1>3 DEF Machine
  <2>2. m0.cs[Len(m0.cs)] \in EntryType
    BY <1>3, <2>1
  <2> QED
    BY <1>3, <2>2 DEF EntryType, Going
<1>5. Safe(y) /\ (ErrorSeen(m0, y, Runs) \/ CallSeen(m0, y, Runs))
  BY <1>2, <1>3, WrapRaisesSeen
<1> HIDE DEF y
<1>6. PICK z, t : z = y /\ t = Runs
  OBVIOUS
<1>7. t \in Threads /\ Becomes(z) /\ Safe(z) /\ StepSeen(m0, z, t)
  BY <1>1, <1>4, <1>5, <1>6 DEF Becomes, StepSeen
<1> QED
  BY <1>7, Takes

\* error(), a runtime error.
LEMMA ErrorSteps ==
  ASSUME Good(m0), Safe(m0), Error
  PROVE  \E w, u : TakesStep(w, u)
<1> DEFINE y == Raise(m0, Runs)
<1>1. InLua /\ Becomes(y)
  BY DEF Error
<1>2. PICK q, v \in Positions : InCode(m0, q, v, Runs)
  BY <1>1, CodeIs
<1>3. Safe(y) /\ (ErrorSeen(m0, y, Runs) \/ CallSeen(m0, y, Runs))
  BY <1>2, RaisedSeen, Zenon
<1> HIDE DEF y
<1>4. PICK z, t : z = y /\ t = Runs
  OBVIOUS
<1>5. t \in Threads /\ Becomes(z) /\ Safe(z) /\ StepSeen(m0, z, t)
  BY <1>1, <1>3, <1>4, CodeIs DEF Becomes, StepSeen
<1> QED
  BY <1>5, Takes

\* No memory.
LEMMA MemoryErrorSteps ==
  ASSUME Good(m0), Safe(m0), MemoryError
  PROVE  \E w, u : TakesStep(w, u)
<1> DEFINE y == Throw(m0, Runs)
<1>1. InLua /\ Becomes(y)
  BY DEF MemoryError
<1>2. PICK q, v \in Positions : InCode(m0, q, v, Runs)
  BY <1>1, CodeIs
<1>3. Tidy(m0, q, v, Runs)
  BY <1>2, CodeTidy
<1>4. Safe(y) /\ ErrorSeen(m0, y, Runs)
  BY <1>3, ThrowSeen, Zenon
<1> HIDE DEF y
<1>5. PICK z, t : z = y /\ t = Runs
  OBVIOUS
<1>6. t \in Threads /\ Becomes(z) /\ Safe(z) /\ StepSeen(m0, z, t)
  BY <1>1, <1>4, <1>5, CodeIs DEF Becomes, StepSeen
<1> QED
  BY <1>6, Takes

\* An error of the main thread, raised while a coroutine runs.
LEMMA RaiseOnMainSteps ==
  ASSUME Good(m0), Safe(m0), RaiseOnMain
  PROVE  \E w, u : TakesStep(w, u)
<1> DEFINE y == Throw(m0, Main)
<1>1. InLua /\ Runs # Main /\ Becomes(y)
  BY DEF RaiseOnMain
<1>2. PICK q, v \in Positions : InCode(m0, q, v, Runs)
  BY <1>1, CodeIs
<1>3. Tidy(m0, q, v, Runs)
  BY <1>2, CodeTidy
<1>4. Safe(y) /\ MainRaised(m0, y)
  BY <1>3, ThrowMainSeen, Zenon
<1> HIDE DEF y
<1>5. Running(m0.cs) = Runs /\ Status(m0.th[Runs]) = "normal"
  BY <1>3, RunsNormal
<1>6. PICK z, t : z = y /\ t = Runs
  OBVIOUS
<1>7. MainSeen(m0, z, t)
  BY <1>1, <1>4, <1>5, <1>6 DEF MainSeen
<1>8. t \in Threads /\ Becomes(z) /\ Safe(z) /\ StepSeen(m0, z, t)
  BY <1>1, <1>4, <1>6, <1>7, CodeIs DEF Becomes, StepSeen
<1> QED
  BY <1>8, Takes

\* OP_RETURN.
LEMMA ReturnSteps ==
  ASSUME Good(m0), Safe(m0), Return
  PROVE  \E w, u : TakesStep(w, u)
<1> DEFINE y == Returned(m0, Runs)
<1>1. InLua /\ Becomes(y)
  BY DEF Return
<1>2. PICK q, v \in Positions : InCode(m0, q, v, Runs)
  BY <1>1, CodeIs
<1>3. Safe(y) /\ (ReturnSeen(m0, y, Runs) \/ ErrorSeen(m0, y, Runs))
  BY <1>2, ReturnedSeen, Zenon
<1> HIDE DEF y
<1>4. PICK z, t : z = y /\ t = Runs
  OBVIOUS
<1>5. t \in Threads /\ Becomes(z) /\ Safe(z) /\ StepSeen(m0, z, t)
  BY <1>1, <1>3, <1>4, CodeIs DEF Becomes, StepSeen
<1> QED
  BY <1>5, Takes

\* coroutine.create.
LEMMA CreateSteps ==
  ASSUME Good(m0), Safe(m0), NEW c \in Cos, Create(c)
  PROVE  \E w : Becomes(w) /\ Safe(w) /\ CreateSeen(m0, w, c)
<1> DEFINE y == [m0 EXCEPT !.th[c] = NewThread]
<1>1. /\ InLua /\ c # Runs /\ Becomes(y)
      /\ m0.th[c].status = "error" \/ (m0.th[c].ci = << >> /\ ~m0.th[c].fn)
  BY MachineIs DEF Create
<1>2. cs # << >> /\ Runs = Going(m0) /\ m0.cs = cs /\ m0 \in Machine /\ c \in Threads
  BY <1>1, CodeIs, MachineIs DEF Good, Threads
<1>3. m0.th[c].status # "yield" \/ m0.th[c].ci # << >>
  <2>1. PICK q, v \in Positions : Base(m0, q, v)
    BY DEF Good
  <2>2. Fits(m0, q, v, c)
    BY <1>2, <2>1 DEF Base
  <2>3. CASE Own(m0.cs, c) # {}
    BY <2>2, <2>3 DEF Fits, Busy, Sound
  <2>4. CASE Own(m0.cs, c) = {}
    BY <2>2, <2>4 DEF Fits, Off, Cut, AtRest, Framed
  <2> QED
    BY <2>3, <2>4
<1>4. Safe(y) /\ CreateSeen(m0, y, c)
  BY <1>1, <1>2, <1>3, CreatedSeen, Zenon
<1> HIDE DEF y
<1>5. PICK z : z = y
  OBVIOUS
<1>6. Becomes(z) /\ Safe(z) /\ CreateSeen(m0, z, c)
  BY <1>1, <1>4, <1>5 DEF Becomes
<1> QED
  BY <1>6

\* lua_pcall of the host.
LEMMA HostSteps ==
  ASSUME Good(m0), Safe(m0), HostCalls
  PROVE  \E w : Becomes(w) /\ Safe(w) /\ HostCallsSeen(m0, w)
<1> DEFINE y == [m0 EXCEPT !.th[Main] = HostRuns(@), !.cs = <<Entry("pcall", Main, m0.th[Main])>>]
<1>1. m0.cs = << >> /\ Becomes(y)
  BY MachineIs DEF HostCalls
<1>2. Safe(y) /\ HostCallsSeen(m0, y)
  BY <1>1, HostCalledSeen, Zenon
<1> HIDE DEF y
<1>3. PICK z : z = y
  OBVIOUS
<1>4. Becomes(z) /\ Safe(z) /\ HostCallsSeen(m0, z)
  BY <1>1, <1>2, <1>3 DEF Becomes
<1> QED
  BY <1>4

\* The host waits for the calls of the main thread.
LEMMA StepsWait ==
  ASSUME Good(m0), cs # << >>
  PROVE  Calls(th[Main]) # << >>
<1>1. PICK q, v \in Positions : Base(m0, q, v)
  BY DEF Good
<1>2. m0 \in Machine /\ m0.cs = cs /\ m0.th = th
  BY MachineIs DEF Good
<1> QED
  BY <1>1, <1>2, HostWaits

\* A step to a machine that is safe.
LEMMA SafeNext ==
  ASSUME NEW w, Becomes(w), Safe(w)
  PROVE  Safe(m0)'
<1>1. ASSUME NEW z, NEW a, NEW b, NEW c, a = z.th, b = z.cs, Safe(z)
      PROVE  Safe([th |-> a, cs |-> b, lost |-> c])
  BY <1>1 DEF Safe, Guarded, FailedLast, Going
<1> QED
  BY <1>1, Zenon DEF Becomes, m0

\* Every step is promised: it is one of Coroutines, or does not show there.
LEMMA NextPromised ==
  ASSUME Good(m0), Safe(m0), [Next]_vars
  PROVE  Safe(m0)' /\ [Promise!Next]_(Promise!vars)
<1>1. CASE (\E w, u : TakesStep(w, u)) /\ cs # << >>
  <2>1. PICK w, u : TakesStep(w, u)
    BY <1>1
  <2>2. Calls(th[Main]) # << >>
    BY <1>1, StepsWait
  <2> QED
    BY <2>1, <2>2, StepPromised, SafeNext DEF TakesStep
<1>2. CASE \/ CallLua \/ Metamethod \/ Yield \/ WrapRaises
           \/ Error \/ MemoryError \/ RaiseOnMain \/ Return
  <2>1. \E w, u : TakesStep(w, u)
    BY <1>2, CallLuaSteps, MetamethodSteps, YieldSteps, WrapRaisesSteps, ErrorSteps,
       MemoryErrorSteps, RaiseOnMainSteps, ReturnSteps
  <2>2. cs # << >>
    BY <1>2 DEF CallLua, Metamethod, Yield, WrapRaises, Error, MemoryError, RaiseOnMain, Return,
                InLua
  <2> QED
    BY <1>1, <2>1, <2>2
<1>3. CASE \E f \in Kinds : CallK(f) \/ PCallK(f)
  <2>1. \E w, u : TakesStep(w, u)
    BY <1>3, CallKSteps, PCallKSteps
  <2>2. cs # << >>
    BY <1>3 DEF CallK, PCallK, InLua
  <2> QED
    BY <1>1, <2>1, <2>2
<1>4. CASE \E c \in Cos : \E f \in {"resume", "wrap"} : Resume(f, c)
  <2>1. \E w, u : TakesStep(w, u)
    BY <1>4, ResumeSteps
  <2>2. cs # << >>
    BY <1>4 DEF Resume, InLua
  <2> QED
    BY <1>1, <2>1, <2>2
<1>5. CASE \E c \in Cos : Create(c)
  <2>1. PICK c \in Cos : Create(c)
    BY <1>5
  <2>2. PICK w : Becomes(w) /\ Safe(w) /\ CreateSeen(m0, w, c)
    BY <2>1, CreateSteps
  <2> QED
    BY <2>2, CreatePromised, SafeNext
<1>6. CASE HostCalls
  <2>1. PICK w : Becomes(w) /\ Safe(w) /\ HostCallsSeen(m0, w)
    BY <1>6, HostSteps
  <2> QED
    BY <2>1, HostPromised, SafeNext
<1>7. CASE UNCHANGED vars
  <2>1. th' = th /\ cs' = cs /\ lost' = lost
    BY <1>7 DEF vars
  <2>2. Safe(m0)'
    BY <2>1 DEF m0
  <2>3. UNCHANGED Promise!vars
    BY <2>1 DEF Promise!vars
  <2> QED
    BY <2>2, <2>3
<1> QED
  BY <1>2, <1>3, <1>4, <1>5, <1>6, <1>7 DEF Next

\* Coroutines and protected calls do what Lua promises of them, however the C stack,
\* setjmp and the continuations of ldo.c make them: an error reaches the innermost
\* protected call of its thread, whether luaD_pcall has made it or a yield went
\* through it, a yield keeps every call, and coroutine.status tells the truth.
THEOREM ThePromiseIsKept == Spec => KeepsThePromise
<1>1. Init => Safe(m0) /\ Promise!Init
  BY InitSeen, InitPromised
<1>2. Good(m0) /\ Safe(m0) /\ [Next]_vars => Safe(m0)' /\ [Promise!Next]_(Promise!vars)
  BY NextPromised
<1> QED
  BY <1>1, <1>2, StackIsTrue, PTL DEF Spec, KeepsThePromise, Promise!Spec

=============================================================================
