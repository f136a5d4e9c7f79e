------------------------- MODULE CallerStackProofs -------------------------
(***************************************************************************)
(* Theorems about CallerStack, for every host profile and every value of   *)
(* the constants: the state is well typed, and the part of the stack under *)
(* a live object never changes.                                            *)
(***************************************************************************)
EXTENDS CallerStack, SequenceTheorems, TLAPS

\* The slots an object needs: a caller that has not called yet needs its
\* message handler, its function and its arguments.
Held == [x \in Item |-> IF x \in Callers /\ ~caller[x].called
                        THEN tb[x] + caller[x].numArgs + 1 ELSE tb[x]]

\* A window s with the live objects sc on it: T, H and B are tb, Held, below.
Laid(s, x, T, H, B) ==
  /\ T[x] \in Nat \ {0} /\ H[x] \in Nat
  /\ T[x] <= H[x] /\ H[x] <= Len(s)
  /\ SubSeq(s, 1, T[x] - 1) = B[x]
  /\ x \in Callers => s[T[x]] = Traceback

Layout(s, sc, T, H, B) ==
  /\ \A i \in 1 .. Len(sc) : Laid(s, sc[i], T, H, B)
  /\ \A i, j \in 1 .. Len(sc) : i < j => H[sc[i]] < T[sc[j]]

FrameOK(d) == Layout(stk[d], scope[d], tb, Held, below)

\* An object is alive in one place.
Distinct ==
  \A d, e \in Frame : \A i \in 1 .. Len(scope[d]), j \in 1 .. Len(scope[e]) :
    scope[d][i] = scope[e][j] => d = e /\ i = j

\* Frames that have not been entered are empty.
Nested == \A d \in Frame : d > depth => scope[d] = << >> /\ calling[d] = None

\* A frame is suspended by its innermost caller.
CallerRuns ==
  \A d \in Frame : calling[d] \in Callers
    => /\ scope[d] # << >> /\ scope[d][Len(scope[d])] = calling[d]
       /\ caller[calling[d]].called

Structure ==
  /\ Nested
  /\ Distinct
  /\ CallerRuns
  /\ \A d \in Frame : FrameOK(d)

IInv == TypeOK /\ Structure

-----------------------------------------------------------------------------
(* Layouts *)

\* Objects of which tb, Held and below did not change stay laid out.
LEMMA LayoutSame ==
  ASSUME NEW s, NEW sc, NEW T, NEW H, NEW B, NEW T2, NEW H2, NEW B2,
         Layout(s, sc, T, H, B),
         \A i \in 1 .. Len(sc) : /\ T2[sc[i]] = T[sc[i]]
                                 /\ H2[sc[i]] = H[sc[i]]
                                 /\ B2[sc[i]] = B[sc[i]]
  PROVE  Layout(s, sc, T2, H2, B2)
BY DEF Layout, Laid

\* A window that is cut and refilled above the slots its objects need, keeps
\* them laid out.
LEMMA LayoutResize ==
  ASSUME NEW s \in Seq(Value), NEW s2 \in Seq(Value), NEW n \in Nat,
         n <= Len(s), n <= Len(s2), \A k \in 1 .. n : s2[k] = s[k],
         NEW sc \in Seq(Item), NEW T, NEW H, NEW B, NEW H2,
         Layout(s, sc, T, H, B),
         \A i \in 1 .. Len(sc) : /\ T[sc[i]] <= n
                                 /\ H2[sc[i]] \in T[sc[i]] .. Len(s2),
         \A i, j \in 1 .. Len(sc) : i < j => H2[sc[i]] < T[sc[j]]
  PROVE  Layout(s2, sc, T, H2, B)
<1>1. ASSUME NEW i \in 1 .. Len(sc) PROVE Laid(s2, sc[i], T, H2, B)
  <2>1. Laid(s, sc[i], T, H, B)
    BY DEF Layout
  <2>2. T[sc[i]] \in 1 .. n /\ H2[sc[i]] \in T[sc[i]] .. Len(s2)
    BY <2>1 DEF Laid
  <2>3. SubSeq(s2, 1, T[sc[i]] - 1) = SubSeq(s, 1, T[sc[i]] - 1)
    BY <2>2
  <2> QED
    BY <2>1, <2>2, <2>3 DEF Laid
<1> QED
  BY <1>1 DEF Layout

\* A new object on top of the window is laid out above the others.
LEMMA LayoutEnter ==
  ASSUME NEW s \in Seq(Value), NEW p \in Seq(Value), p # << >>,
         NEW sc \in Seq(Item), NEW x \in Item, \A i \in 1 .. Len(sc) : sc[i] # x,
         NEW T, NEW H, NEW B, NEW T2, NEW H2, NEW B2,
         Layout(s, sc, T, H, B),
         \A i \in 1 .. Len(sc) : /\ T2[sc[i]] = T[sc[i]]
                                 /\ H2[sc[i]] = H[sc[i]]
                                 /\ B2[sc[i]] = B[sc[i]],
         T2[x] = Len(s) + 1, B2[x] = s, H2[x] \in Len(s) + 1 .. Len(s) + Len(p),
         x \in Callers => p[1] = Traceback
  PROVE  Layout(s \o p, Append(sc, x), T2, H2, B2)
<1> DEFINE s2 == s \o p
           sc2 == Append(sc, x)
<1>1. /\ s2 \in Seq(Value) /\ Len(s2) = Len(s) + Len(p)
      /\ \A k \in 1 .. Len(s) : s2[k] = s[k]
      /\ s2[Len(s) + 1] = p[1]
      /\ Len(p) >= 1
  OBVIOUS
<1>2. /\ Len(sc2) = Len(sc) + 1
      /\ \A i \in 1 .. Len(sc) : sc2[i] = sc[i]
      /\ sc2[Len(sc) + 1] = x
  OBVIOUS
<1> HIDE DEF s2, sc2
<1>3. ASSUME NEW i \in 1 .. Len(sc)
      PROVE  Laid(s2, sc[i], T2, H2, B2) /\ H2[sc[i]] < T2[x]
  <2>1. Laid(s, sc[i], T, H, B)
    BY DEF Layout
  <2>2. SubSeq(s2, 1, T[sc[i]] - 1) = SubSeq(s, 1, T[sc[i]] - 1)
    BY <1>1, <2>1 DEF Laid
  <2>3. T[sc[i]] \in 1 .. Len(s) /\ H[sc[i]] \in Nat /\ H[sc[i]] <= Len(s)
    BY <2>1 DEF Laid
  <2>6. s2[T[sc[i]]] = s[T[sc[i]]] /\ Len(s) <= Len(s2)
    BY <1>1, <2>3
  <2>4. T2[sc[i]] = T[sc[i]] /\ H2[sc[i]] = H[sc[i]] /\ B2[sc[i]] = B[sc[i]]
    OBVIOUS
  <2>5. H2[sc[i]] < T2[x]
    BY <2>3, <2>4
  <2>7. /\ T[sc[i]] <= H[sc[i]] /\ T[sc[i]] \in Nat \ {0}
        /\ SubSeq(s2, 1, T[sc[i]] - 1) = B[sc[i]]
        /\ sc[i] \in Callers => s2[T[sc[i]]] = Traceback
    BY <2>1, <2>2, <2>6 DEF Laid
  <2>8. H[sc[i]] <= Len(s2)
    BY <1>1, <2>3, <2>6
  <2>9. Laid(s2, sc[i], T2, H2, B2)
    BY <2>3, <2>4, <2>7, <2>8 DEF Laid
  <2> QED
    BY <2>5, <2>9
<1>4. Laid(s2, x, T2, H2, B2)
  <2>1. SubSeq(s2, 1, Len(s)) = s
    BY <1>1
  <2> QED
    BY <1>1, <2>1 DEF Laid
<1>5. \A i, j \in 1 .. Len(sc) : i < j => H2[sc[i]] < T2[sc[j]]
  BY DEF Layout
<1>6. \A i \in 1 .. Len(sc2) : Laid(s2, sc2[i], T2, H2, B2)
  BY <1>2, <1>3, <1>4
<1>7. ASSUME NEW i \in 1 .. Len(sc2), NEW j \in 1 .. Len(sc2), i < j
      PROVE  H2[sc2[i]] < T2[sc2[j]]
  <2>1. i \in 1 .. Len(sc) /\ sc2[i] = sc[i]
    BY <1>2, <1>7
  <2>2. CASE j = Len(sc) + 1
    BY <1>2, <1>3, <2>1, <2>2
  <2>3. CASE j \in 1 .. Len(sc)
    BY <1>2, <1>5, <1>7, <2>1, <2>3
  <2> QED
    BY <1>2, <2>2, <2>3
<1> QED
  BY <1>6, <1>7 DEF Layout, s2, sc2

\* Cutting the window at or above the slot under the last object leaves the
\* others laid out.
LEMMA LayoutLeave ==
  ASSUME NEW s \in Seq(Value), NEW sc \in Seq(Item), NEW n \in Nat, Len(sc) = n + 1,
         NEW m \in Nat,
         NEW T, NEW H, NEW B, NEW T2, NEW H2, NEW B2,
         Layout(s, sc, T, H, B),
         T[sc[n + 1]] - 1 <= m, m <= Len(s),
         \A i \in 1 .. n : /\ T2[sc[i]] = T[sc[i]]
                          /\ H2[sc[i]] = H[sc[i]]
                          /\ B2[sc[i]] = B[sc[i]]
  PROVE  Layout(SubSeq(s, 1, m), SubSeq(sc, 1, n), T2, H2, B2)
<1> DEFINE s2 == SubSeq(s, 1, m)
           sc2 == SubSeq(sc, 1, n)
<1>1. /\ s2 \in Seq(Value) /\ Len(s2) = m
      /\ \A k \in 1 .. m : s2[k] = s[k]
  OBVIOUS
<1>2. Len(sc2) = n /\ \A i \in 1 .. n : sc2[i] = sc[i]
  OBVIOUS
<1> HIDE DEF s2, sc2
<1>3. ASSUME NEW i \in 1 .. Len(sc2)
      PROVE  Laid(s2, sc2[i], T2, H2, B2)
  <2>1. /\ Laid(s, sc[i], T, H, B) /\ Laid(s, sc[n + 1], T, H, B)
        /\ H[sc[i]] < T[sc[n + 1]]
    BY <1>2 DEF Layout
  <2>2. T[sc[i]] \in Nat \ {0} /\ H[sc[i]] <= m /\ T[sc[i]] <= m
    <3>1. T[sc[i]] \in Nat \ {0} /\ H[sc[i]] \in Nat /\ T[sc[i]] <= H[sc[i]]
      BY <2>1 DEF Laid
    <3>2. T[sc[n + 1]] \in Nat
      BY <2>1 DEF Laid
    <3> QED
      BY <2>1, <3>1, <3>2
  <2>3. SubSeq(s2, 1, T[sc[i]] - 1) = SubSeq(s, 1, T[sc[i]] - 1)
    BY <1>1, <2>1, <2>2
  <2>4. s2[T[sc[i]]] = s[T[sc[i]]]
    BY <1>1, <2>2
  <2>5. /\ sc2[i] = sc[i] /\ T2[sc[i]] = T[sc[i]] /\ H2[sc[i]] = H[sc[i]]
        /\ B2[sc[i]] = B[sc[i]]
    BY <1>2
  <2> QED
    BY <1>1, <2>1, <2>2, <2>3, <2>4, <2>5 DEF Laid
<1>4. \A i, j \in 1 .. Len(sc2) : i < j => H2[sc2[i]] < T2[sc2[j]]
  BY <1>2 DEF Layout
<1> QED
  BY <1>3, <1>4 DEF Layout, s2, sc2

-----------------------------------------------------------------------------
(* The invariant holds initially, and how kinds of step preserve Structure *)

LEMMA InitIInv == Init => IInv
<1> SUFFICES ASSUME Init PROVE IInv
  OBVIOUS
<1>1. NewCaller \in CallerState
  BY ConstantsAssumption DEF NewCaller, CallerState
<1>2. NoHistory \in History
  BY DEF NoHistory, History, Value
<1>3. TypeOK
  BY <1>1, <1>2, ConstantsAssumption DEF Init, TypeOK, Frame
<1>4. \A d \in Frame : Len(scope[d]) = 0 /\ scope[d] = << >> /\ calling[d] = None
  BY DEF Init
<1>5. Structure
  BY <1>4, ConstantsAssumption
     DEF Structure, Nested, Distinct, CallerRuns, FrameOK, Layout
<1> QED
  BY <1>3, <1>5 DEF IInv

\* A frame whose window and objects a step leaves alone.
LEMMA FrameKept ==
  ASSUME NEW d \in Frame, FrameOK(d),
         stk'[d] = stk[d], scope'[d] = scope[d],
         \A i \in 1 .. Len(scope[d]) : /\ tb'[scope[d][i]] = tb[scope[d][i]]
                                       /\ Held'[scope[d][i]] = Held[scope[d][i]]
                                       /\ below'[scope[d][i]] = below[scope[d][i]]
  PROVE  FrameOK(d)'
BY LayoutSame DEF FrameOK

\* A step that at most pushes values, and suspends the running frame for
\* nobody or for its innermost caller.
LEMMA StructurePush ==
  ASSUME IInv, NEW p \in Seq(Value),
         stk' = [stk EXCEPT ![depth] = Window \o p],
         scope' = scope, tb' = tb, below' = below, depth' = depth,
         Held' = Held,
         \A c \in Callers : caller'[c].called = caller[c].called,
         \A d \in Frame : d # depth => calling'[d] = calling[d],
         calling'[depth] \notin Callers
  PROVE  Structure'
<1> USE DEF IInv, Structure
<1>1. depth \in Frame /\ Window \in Seq(Value) /\ Window \o p \in Seq(Value)
  BY DEF TypeOK, Window
<1>2. ASSUME NEW d \in Frame PROVE FrameOK(d)'
  <2>1. CASE d # depth
    BY <2>1, FrameKept DEF TypeOK
  <2>2. CASE d = depth
    <3>1. /\ Len(Window) <= Len(Window \o p) /\ Len(Window) \in Nat
          /\ Len(Window) <= Len(Window)
          /\ \A k \in 1 .. Len(Window) : (Window \o p)[k] = Window[k]
      BY <1>1
    <3>2. Layout(Window, scope[depth], tb, Held, below)
      BY <2>2, <1>1 DEF FrameOK, Window
    <3>3. ASSUME NEW i \in 1 .. Len(scope[depth])
          PROVE  /\ tb[scope[depth][i]] <= Len(Window)
                 /\ Held[scope[depth][i]] \in tb[scope[depth][i]] .. Len(Window \o p)
      <4>1. /\ tb[scope[depth][i]] \in Nat /\ Held[scope[depth][i]] \in Nat
            /\ tb[scope[depth][i]] <= Held[scope[depth][i]]
            /\ Held[scope[depth][i]] <= Len(Window)
        BY <3>2 DEF Layout, Laid
      <4> QED
        BY <1>1, <3>1, <4>1
    <3>4. \A i, j \in 1 .. Len(scope[depth]) :
            i < j => Held[scope[depth][i]] < tb[scope[depth][j]]
      BY <3>2 DEF Layout
    <3>5. scope[depth] \in Seq(Item)
      BY <1>1 DEF TypeOK
    <3>6. Layout(Window \o p, scope[depth], tb, Held, below)
      BY <1>1, <3>1, <3>2, <3>3, <3>4, <3>5, LayoutResize
    <3>7. stk'[depth] = Window \o p
      BY <1>1 DEF TypeOK
    <3> QED
      BY <2>2, <3>6, <3>7 DEF FrameOK
  <2> QED
    BY <2>1, <2>2
<1>3. Nested'
  BY <1>1 DEF Nested, TypeOK, Frame
<1>4. Distinct'
  BY DEF Distinct
<1>5. CallerRuns'
  BY <1>1 DEF CallerRuns, TypeOK
<1> QED
  BY <1>2, <1>3, <1>4, <1>5

\* A step of the innermost caller c that keeps the window up to a slot n at or
\* above m_tb, and changes what c holds.
LEMMA StructureInner ==
  ASSUME IInv, NEW c \in Callers, Innermost(c),
         NEW n \in Nat, tb[c] <= n, n <= Len(Window),
         NEW s2 \in Seq(Value), n <= Len(s2), \A k \in 1 .. n : s2[k] = Window[k],
         NEW h \in tb[c] .. Len(s2),
         stk' = [stk EXCEPT ![depth] = s2],
         scope' = scope, tb' = tb, below' = below, depth' = depth,
         Held' = [Held EXCEPT ![c] = h],
         \A x \in Callers : caller[x].called => caller'[x].called,
         \A d \in Frame : d # depth => calling'[d] = calling[d],
         calling'[depth] \in Callers => calling'[depth] = c /\ caller'[c].called
  PROVE  Structure'
<1> USE DEF IInv, Structure
<1> DEFINE sc == scope[depth]
           last == Len(sc)
<1>1. /\ depth \in Frame /\ Window \in Seq(Value) /\ sc \in Seq(Item)
      /\ last \in Nat \ {0} /\ sc[last] = c /\ c \in Item
  BY EmptySeq DEF TypeOK, Window, Innermost, TopOf, ValueAt, AbsIndex, Item
<1>2. ASSUME NEW d \in Frame, NEW i \in 1 .. Len(scope[d]), scope[d][i] = c
      PROVE  d = depth /\ i = last
  <2>1. last \in 1 .. Len(scope[depth]) /\ scope[d][i] = scope[depth][last]
    BY <1>1, <1>2
  <2>2. Distinct /\ depth \in Frame
    BY <1>1
  <2> QED
    BY ONLY <2>1, <2>2, d \in Frame, i \in 1 .. Len(scope[d]) DEF Distinct
<1>8. Held'[c] = h /\ \A x \in Item : x # c => Held'[x] = Held[x]
  <2>1. DOMAIN Held = Item
    BY DEF Held
  <2> QED
    BY <1>1, <2>1
<1>3. ASSUME NEW d \in Frame PROVE FrameOK(d)'
  <2>1. CASE d # depth
    <3>1. \A i \in 1 .. Len(scope[d]) : scope[d][i] # c
      BY <1>2, <2>1
    <3>2. \A i \in 1 .. Len(scope[d]) : Held'[scope[d][i]] = Held[scope[d][i]]
      <4>1. scope[d] \in Seq(Item)
        BY DEF TypeOK
      <4>2. \A i \in 1 .. Len(scope[d]) : scope[d][i] \in Item
        BY <4>1
      <4> QED
        BY <1>8, <3>1, <4>2
    <3> QED
      BY <2>1, <3>2, FrameKept DEF TypeOK
  <2>2. CASE d = depth
    <3>1. Layout(Window, sc, tb, Held, below)
      BY <2>2, <1>1 DEF FrameOK, Window
    <3>2. ASSUME NEW i \in 1 .. last, i # last
          PROVE  /\ Held[sc[i]] < tb[c] /\ Held[sc[i]] \in Nat /\ tb[sc[i]] \in Nat
                 /\ tb[sc[i]] <= Held[sc[i]] /\ tb[c] \in Nat
                 /\ Held'[sc[i]] = Held[sc[i]]
      <4>1. i < last
        BY <1>1, <3>2
      <4>2. Held[sc[i]] < tb[c]
        BY <1>1, <3>1, <4>1 DEF Layout
      <4>3. Laid(Window, sc[i], tb, Held, below) /\ Laid(Window, c, tb, Held, below)
        <5>1. last \in 1 .. last
          BY <1>1
        <5>2. Laid(Window, sc[last], tb, Held, below)
          BY <3>1, <5>1 DEF Layout
        <5> QED
          BY <1>1, <3>1, <5>2 DEF Layout
      <4>4. sc[i] # c /\ sc[i] \in Item
        BY <1>1, <1>2, <3>2
      <4> QED
        BY <1>8, <4>2, <4>3, <4>4 DEF Laid
    <3>4. ASSUME NEW i \in 1 .. last
          PROVE  tb[sc[i]] <= n /\ Held'[sc[i]] \in tb[sc[i]] .. Len(s2)
      <4>1. CASE i = last
        BY <1>1, <1>8, <4>1
      <4>2. CASE i # last
        BY <3>2, <4>2
      <4> QED
        BY <4>1, <4>2
    <3>5. ASSUME NEW i \in 1 .. last, NEW j \in 1 .. last, i < j
          PROVE  Held'[sc[i]] < tb[sc[j]]
      <4>1. i # last
        BY <3>5, <1>1
      <4>2. Held[sc[i]] < tb[sc[j]]
        BY <3>1, <3>5 DEF Layout
      <4> QED
        BY <3>2, <4>1, <4>2
    <3>6. Layout(s2, sc, tb, Held', below)
      BY <1>1, <3>1, <3>4, <3>5, LayoutResize
    <3>7. stk'[depth] = s2
      BY <1>1 DEF TypeOK
    <3> QED
      BY <2>2, <3>6, <3>7 DEF FrameOK
  <2> QED
    BY <2>1, <2>2
<1>4. Nested'
  BY <1>1 DEF Nested, TypeOK, Frame
<1>5. Distinct'
  BY DEF Distinct
<1>6. ASSUME NEW d \in Frame, calling'[d] \in Callers
      PROVE  /\ scope'[d] # << >> /\ scope'[d][Len(scope'[d])] = calling'[d]
             /\ caller'[calling'[d]].called
  <2>1. CASE d = depth
    BY <1>1, <1>6, <2>1, EmptySeq
  <2>2. CASE d # depth
    <3>1. calling'[d] = calling[d]
      BY <2>2
    <3>2. /\ scope[d] # << >> /\ scope[d][Len(scope[d])] = calling[d]
          /\ caller[calling[d]].called
      BY <1>6, <3>1 DEF CallerRuns
    <3> QED
      BY <1>6, <3>1, <3>2
  <2> QED
    BY <2>1, <2>2
<1>7. CallerRuns'
  BY <1>6 DEF CallerRuns
<1> QED
  BY <1>3, <1>4, <1>5, <1>7

\* The construction of an object x that is not alive.
LEMMA StructureEnter ==
  ASSUME IInv, HostRuns, NEW x \in Item, ~Alive(x),
         NEW p \in Seq(Value), p # << >>,
         stk' = [stk EXCEPT ![depth] = Window \o p],
         EnterScope(x), depth' = depth, calling' = calling,
         x \in Callers => /\ caller' = [caller EXCEPT ![x] = NewCaller]
                          /\ Len(p) >= 2 /\ p[1] = Traceback,
         x \notin Callers => caller' = caller
  PROVE  Structure'
<1> USE DEF IInv, Structure
<1> DEFINE sc == scope[depth]
<1>1. /\ depth \in Frame /\ Window \in Seq(Value) /\ sc \in Seq(Item)
      /\ Len(Window) \in Nat /\ Len(sc) \in Nat
  BY DEF TypeOK, Window
<1>2. \A d \in Frame : \A i \in 1 .. Len(scope[d]) : scope[d][i] # x /\ scope[d][i] \in Item
  <2> TAKE d \in Frame
  <2> TAKE i \in 1 .. Len(scope[d])
  <2>1. Laid(stk[d], scope[d][i], tb, Held, below)
    BY DEF FrameOK, Layout
  <2>2. tb[scope[d][i]] # 0
    BY <2>1 DEF Laid
  <2>3. scope[d] \in Seq(Item)
    BY DEF TypeOK
  <2> QED
    BY <2>2, <2>3 DEF Alive
<1>3. /\ scope' = [scope EXCEPT ![depth] = Append(sc, x)]
      /\ \A y \in Item : y # x => /\ tb'[y] = tb[y] /\ below'[y] = below[y]
                                  /\ Held'[y] = Held[y]
      /\ tb'[x] = Len(Window) + 1 /\ below'[x] = Window
  <2>1. /\ tb' = [tb EXCEPT ![x] = Len(Window) + 1]
        /\ below' = [below EXCEPT ![x] = Window]
        /\ scope' = [scope EXCEPT ![depth] = Append(@, x)]
    BY DEF EnterScope
  <2>2. \A y \in Callers : y # x => caller'[y] = caller[y]
    BY DEF TypeOK
  <2>3. \A y \in Item : y # x => tb'[y] = tb[y]
    BY <2>1 DEF TypeOK
  <2> QED
    BY <2>1, <2>2, <2>3 DEF TypeOK, Held
<1>4. Held'[x] \in Len(Window) + 1 .. Len(Window) + Len(p)
  <2>1. CASE x \in Callers
    <3>1. caller'[x] = NewCaller
      BY <2>1 DEF TypeOK
    <3>2. Held'[x] = Len(Window) + 2
      BY <1>1, <1>3, <2>1, <3>1 DEF Held, NewCaller
    <3> QED
      BY <1>1, <2>1, <3>2
  <2>2. CASE x \notin Callers
    <3>1. Len(p) \in Nat \ {0}
      BY EmptySeq
    <3>2. Held'[x] = Len(Window) + 1
      BY <1>3, <2>2 DEF Held
    <3> QED
      BY <1>1, <3>1, <3>2
  <2> QED
    BY <2>1, <2>2
<1>5. ASSUME NEW d \in Frame PROVE FrameOK(d)'
  <2>1. CASE d # depth
    BY <1>2, <1>3, <2>1, FrameKept DEF TypeOK
  <2>2. CASE d = depth
    <3>1. Layout(Window, sc, tb, Held, below)
      BY <2>2, <1>1 DEF FrameOK, Window
    <3>2. \A i \in 1 .. Len(sc) : sc[i] # x /\ sc[i] \in Item
      BY <1>1, <1>2
    <3>5. \A i \in 1 .. Len(sc) : /\ tb'[sc[i]] = tb[sc[i]]
                                  /\ Held'[sc[i]] = Held[sc[i]]
                                  /\ below'[sc[i]] = below[sc[i]]
      BY <1>3, <3>2
    <3>6. x \in Callers => p[1] = Traceback
      OBVIOUS
    <3>3. Layout(Window \o p, Append(sc, x), tb', Held', below')
      BY <1>1, <1>3, <1>4, <3>1, <3>2, <3>5, <3>6, LayoutEnter
    <3>4. stk'[depth] = Window \o p /\ scope'[depth] = Append(sc, x)
      BY <1>1, <1>3 DEF TypeOK
    <3> QED
      BY <2>2, <3>3, <3>4 DEF FrameOK
  <2> QED
    BY <2>1, <2>2
<1>6. Nested'
  BY <1>1, <1>3 DEF Nested, TypeOK, Frame
<1>7. Distinct'
  <2>1. ASSUME NEW d \in Frame, NEW i \in 1 .. Len(scope'[d])
        PROVE  \/ d = depth /\ i = Len(sc) + 1 /\ scope'[d][i] = x
               \/ i \in 1 .. Len(scope[d]) /\ scope'[d][i] = scope[d][i]
    <3>1. CASE d = depth
      <4>1. /\ scope'[d] = Append(sc, x) /\ Len(scope'[d]) = Len(sc) + 1
            /\ \A k \in 1 .. Len(sc) : scope'[d][k] = sc[k]
            /\ scope'[d][Len(sc) + 1] = x
        BY <1>1, <1>3, <3>1 DEF TypeOK
      <4> QED
        BY <1>1, <3>1, <4>1
    <3>2. CASE d # depth
      BY <1>3, <3>2 DEF TypeOK
    <3> QED
      BY <3>1, <3>2
  <2>2. ASSUME NEW d \in Frame, NEW e \in Frame,
               NEW i \in 1 .. Len(scope'[d]), NEW j \in 1 .. Len(scope'[e]),
               scope'[d][i] = scope'[e][j]
        PROVE  d = e /\ i = j
    <3>1. CASE i \in 1 .. Len(scope[d]) /\ scope'[d][i] = scope[d][i]
      <4>1. j \in 1 .. Len(scope[e]) /\ scope'[e][j] = scope[e][j]
        BY <1>2, <2>1, <2>2, <3>1
      <4>2. scope[d][i] = scope[e][j]
        BY <2>2, <3>1, <4>1
      <4> QED
        BY ONLY Distinct, d \in Frame, e \in Frame, <3>1, <4>1, <4>2 DEF Distinct
    <3>2. CASE d = depth /\ i = Len(sc) + 1 /\ scope'[d][i] = x
      <4>1. CASE e = depth /\ j = Len(sc) + 1
        BY <3>2, <4>1
      <4>2. CASE j \in 1 .. Len(scope[e]) /\ scope'[e][j] = scope[e][j]
        BY <1>2, <2>2, <3>2, <4>2
      <4> QED
        BY <2>1, <4>1, <4>2
    <3> QED
      BY <2>1, <3>1, <3>2
  <2> QED
    BY <2>2 DEF Distinct
<1>8. CallerRuns'
  <2>1. ASSUME NEW d \in Frame, calling'[d] \in Callers
        PROVE  /\ scope'[d] # << >> /\ scope'[d][Len(scope'[d])] = calling'[d]
               /\ caller'[calling'[d]].called
    <3>1. d # depth
      BY <2>1, ConstantsAssumption DEF HostRuns
    <3>2. /\ scope[d] # << >> /\ scope[d][Len(scope[d])] = calling[d]
          /\ caller[calling[d]].called
      BY <2>1 DEF CallerRuns
    <3>3. Len(scope[d]) \in 1 .. Len(scope[d])
      BY <3>2, EmptySeq DEF TypeOK
    <3>4. calling[d] # x
      BY <1>2, <3>2, <3>3
    <3>5. caller'[calling[d]] = caller[calling[d]]
      BY <2>1, <3>4 DEF TypeOK
    <3>6. scope'[d] = scope[d]
      BY <1>3, <3>1 DEF TypeOK
    <3> QED
      BY <3>2, <3>5, <3>6
  <2> QED
    BY <2>1 DEF CallerRuns
<1> QED
  BY <1>5, <1>6, <1>7, <1>8

\* The destruction of the innermost object x, which cuts the window at or above
\* the slot under it.
LEMMA StructureLeave ==
  ASSUME IInv, HostRuns, NEW x \in Item, Innermost(x),
         NEW m \in Nat, tb[x] - 1 <= m, m <= Len(Window),
         stk' = [stk EXCEPT ![depth] = SubSeq(Window, 1, m)],
         LeaveScope(x), depth' = depth, calling' = calling
  PROVE  Structure'
<1> USE DEF IInv, Structure
<1> DEFINE sc == scope[depth]
           n  == Len(sc) - 1
<1>1. /\ depth \in Frame /\ Window \in Seq(Value) /\ sc \in Seq(Item)
      /\ n \in Nat /\ Len(sc) = n + 1 /\ sc[n + 1] = x
  BY EmptySeq DEF TypeOK, Window, Innermost, TopOf, ValueAt, AbsIndex
<1> HIDE DEF n
<1>2. ASSUME NEW d \in Frame, NEW i \in 1 .. Len(scope[d]), scope[d][i] = x
      PROVE  d = depth /\ i = n + 1
  <2>1. n + 1 \in 1 .. Len(scope[depth]) /\ scope[d][i] = scope[depth][n + 1]
    BY <1>1, <1>2
  <2>2. Distinct /\ depth \in Frame
    BY <1>1
  <2> QED
    BY ONLY <2>1, <2>2, d \in Frame, i \in 1 .. Len(scope[d]) DEF Distinct
<1>3. /\ scope' = [scope EXCEPT ![depth] = SubSeq(sc, 1, n)]
      /\ \A y \in Item : y # x => /\ tb'[y] = tb[y] /\ below'[y] = below[y]
                                  /\ Held'[y] = Held[y]
  <2>1. /\ tb' = [y \in Item |-> IF y \in {x} THEN 0 ELSE tb[y]]
        /\ below' = [y \in Item |-> IF y \in {x} THEN << >> ELSE below[y]]
        /\ caller' = [c \in Callers |-> IF c \in {x} THEN NewCaller ELSE caller[c]]
    BY DEF LeaveScope, Bury
  <2>2. scope' = [scope EXCEPT ![depth] = SubSeq(sc, 1, n)]
    BY <1>1 DEF LeaveScope, Pop, SetTop, n, TypeOK
  <2>3. \A y \in Callers : y # x => caller'[y] = caller[y]
    BY <2>1
  <2>4. \A y \in Item : y # x => tb'[y] = tb[y] /\ below'[y] = below[y]
    BY <2>1
  <2> QED
    BY <2>2, <2>3, <2>4 DEF Held
<1>4. /\ Len(SubSeq(sc, 1, n)) = n /\ SubSeq(sc, 1, n) \in Seq(Item)
      /\ \A i \in 1 .. n : SubSeq(sc, 1, n)[i] = sc[i]
  BY <1>1
<1>5. scope'[depth] = SubSeq(sc, 1, n) /\ \A d \in Frame : d # depth => scope'[d] = scope[d]
  BY <1>1, <1>3 DEF TypeOK
<1>6. ASSUME NEW d \in Frame, NEW i \in 1 .. Len(scope'[d])
      PROVE  /\ i \in 1 .. Len(scope[d]) /\ scope'[d][i] = scope[d][i]
             /\ scope[d][i] # x /\ scope[d][i] \in Item
  <2>1. /\ i \in 1 .. Len(scope[d]) /\ scope'[d][i] = scope[d][i]
        /\ d = depth => i # n + 1
    <3>1. CASE d = depth
      BY <1>1, <1>4, <1>5, <3>1
    <3>2. CASE d # depth
      BY <1>5, <3>2
    <3> QED
      BY <3>1, <3>2
  <2>2. scope[d] \in Seq(Item)
    BY DEF TypeOK
  <2> QED
    BY <1>2, <2>1, <2>2
<1>7. ASSUME NEW d \in Frame PROVE FrameOK(d)'
  <2>1. CASE d # depth
    <3>1. \A i \in 1 .. Len(scope[d]) : scope[d][i] # x /\ scope[d][i] \in Item
      BY <1>5, <1>6, <2>1
    <3>2. stk'[d] = stk[d] /\ scope'[d] = scope[d]
      BY <1>5, <2>1 DEF TypeOK
    <3> QED
      BY <1>3, <3>1, <3>2, FrameKept
  <2>2. CASE d = depth
    <3>1. Layout(Window, sc, tb, Held, below)
      BY <2>2, <1>1 DEF FrameOK, Window
    <3>2. \A i \in 1 .. n : sc[i] # x /\ sc[i] \in Item
      BY <1>1, <1>4, <1>5, <1>6
    <3>3. \A i \in 1 .. n : /\ tb'[sc[i]] = tb[sc[i]]
                            /\ Held'[sc[i]] = Held[sc[i]]
                            /\ below'[sc[i]] = below[sc[i]]
      BY <1>3, <3>2
    <3>4. tb[sc[n + 1]] - 1 <= m
      BY <1>1
    <3>7. /\ Window \in Seq(Value) /\ sc \in Seq(Item) /\ n \in Nat
          /\ Len(sc) = n + 1 /\ m \in Nat /\ m <= Len(Window)
      BY <1>1
    <3> HIDE DEF sc
    <3>5. Layout(SubSeq(Window, 1, m), SubSeq(sc, 1, n), tb', Held', below')
      BY ONLY <3>1, <3>3, <3>4, <3>7, LayoutLeave
    <3> USE DEF sc
    <3>6. stk'[depth] = SubSeq(Window, 1, m)
      BY <1>1 DEF TypeOK
    <3> QED
      BY <1>5, <2>2, <3>5, <3>6 DEF FrameOK
  <2> QED
    BY <2>1, <2>2
<1>8. Nested'
  BY <1>1, <1>5 DEF Nested, TypeOK, Frame
<1>9. Distinct'
  <2>1. ASSUME NEW d \in Frame, NEW e \in Frame,
               NEW i \in 1 .. Len(scope'[d]), NEW j \in 1 .. Len(scope'[e]),
               scope'[d][i] = scope'[e][j]
        PROVE  d = e /\ i = j
    <3>1. /\ i \in 1 .. Len(scope[d]) /\ j \in 1 .. Len(scope[e])
          /\ scope[d][i] = scope[e][j]
      BY <1>6, <2>1
    <3> QED
      BY ONLY Distinct, d \in Frame, e \in Frame, <3>1 DEF Distinct
  <2> QED
    BY <2>1 DEF Distinct
<1>10. CallerRuns'
  <2>1. ASSUME NEW d \in Frame, calling'[d] \in Callers
        PROVE  /\ scope'[d] # << >> /\ scope'[d][Len(scope'[d])] = calling'[d]
               /\ caller'[calling'[d]].called
    <3>1. d # depth
      BY <2>1, ConstantsAssumption DEF HostRuns
    <3>2. /\ scope[d] # << >> /\ scope[d][Len(scope[d])] = calling[d]
          /\ caller[calling[d]].called
      BY <2>1 DEF CallerRuns
    <3>3. Len(scope[d]) \in 1 .. Len(scope[d])
      BY <3>2, EmptySeq DEF TypeOK
    <3>4. calling[d] # x
      BY <1>2, <3>1, <3>2, <3>3
    <3>5. caller'[calling[d]] = caller[calling[d]]
      BY <2>1, <3>4 DEF LeaveScope, Bury
    <3> QED
      BY <1>5, <3>1, <3>2, <3>5
  <2> QED
    BY <2>1 DEF CallerRuns
<1> QED
  BY <1>7, <1>8, <1>9, <1>10

\* An error raised by the running C activation.
LEMMA StructureRaise ==
  ASSUME IInv, HostRuns, RaiseError
  PROVE  Structure'
<1> USE DEF IInv, Structure
<1>1. CASE depth = 1
  <2>1. /\ depth' = depth /\ stk' = stk /\ scope' = scope /\ calling' = calling
        /\ tb' = tb /\ caller' = caller /\ below' = below
    BY <1>1 DEF RaiseError
  <2>2. Held' = Held
    BY <2>1 DEF Held
  <2>3. \A d \in Frame : FrameOK(d)'
    BY <2>1, <2>2 DEF FrameOK
  <2> QED
    BY <2>1, <2>3 DEF Nested, Distinct, CallerRuns
<1>2. CASE depth # 1
  <2> DEFINE L == LiveIn(depth)
             up == depth - 1
  <2>1. depth \in Frame /\ up \in Frame /\ up # depth /\ calling[depth] = None
    BY <1>2, ConstantsAssumption DEF TypeOK, Frame, HostRuns
  <2>2. /\ depth' = up /\ scope' = [scope EXCEPT ![depth] = << >>]
        /\ tb' = [x \in Item |-> IF x \in L THEN 0 ELSE tb[x]]
        /\ below' = [x \in Item |-> IF x \in L THEN << >> ELSE below[x]]
        /\ caller' = [c \in Callers |-> IF c \in L THEN NewCaller ELSE caller[c]]
    BY <1>2 DEF RaiseError, Bury
  <2>3. \/ stk' = [stk EXCEPT ![depth] = << >>] /\ calling' = calling
        \/ \E v \in Value : /\ stk' = [stk EXCEPT ![depth] = << >>, ![up] = Append(@, v)]
                            /\ calling' = [calling EXCEPT ![up] = None]
    BY <1>2 DEF RaiseError, SetWindow, ErrorValues, Value
  <2> HIDE DEF L, up
  <2>4. \A x \in Item : x \notin L => /\ tb'[x] = tb[x] /\ below'[x] = below[x]
                                      /\ Held'[x] = Held[x]
    <3>1. \A c \in Callers : c \notin L => caller'[c] = caller[c]
      BY <2>2
    <3>2. \A x \in Item : x \notin L => tb'[x] = tb[x] /\ below'[x] = below[x]
      BY <2>2
    <3> QED
      BY <3>1, <3>2 DEF Held
  <2>5. ASSUME NEW d \in Frame, d # depth, NEW i \in 1 .. Len(scope[d])
        PROVE  scope[d][i] \notin L /\ scope[d][i] \in Item
    <3>1. ASSUME scope[d][i] \in L PROVE FALSE
      <4>1. PICK j \in 1 .. Len(scope[depth]) : scope[d][i] = scope[depth][j]
        BY <3>1 DEF L, LiveIn
      <4>2. Distinct /\ depth \in Frame
        BY <2>1
      <4> QED
        BY ONLY <2>5, <4>1, <4>2, d \in Frame, i \in 1 .. Len(scope[d]) DEF Distinct
    <3>2. scope[d] \in Seq(Item)
      BY DEF TypeOK
    <3> QED
      BY <3>1, <3>2
  <2>6. scope'[depth] = << >> /\ \A d \in Frame : d # depth => scope'[d] = scope[d]
    BY <2>1, <2>2 DEF TypeOK
  <2>7. \A d \in Frame : d # depth =>
          \/ stk'[d] = stk[d]
          \/ \E v \in Value : stk'[d] = Append(stk[d], v)
    BY <2>1, <2>3 DEF TypeOK
  <2>8. \A d \in Frame : calling'[d] \in {calling[d], None}
    BY <2>1, <2>3 DEF TypeOK
  <2>9. ASSUME NEW d \in Frame PROVE FrameOK(d)'
    <3>1. CASE d = depth
      <4>1. Len(scope'[d]) = 0
        BY <2>6, <3>1
      <4> QED
        BY <4>1 DEF FrameOK, Layout
    <3>2. CASE d # depth
      <4> DEFINE sc == scope[d]
      <4>1. \A i \in 1 .. Len(sc) : /\ tb'[sc[i]] = tb[sc[i]]
                                    /\ Held'[sc[i]] = Held[sc[i]]
                                    /\ below'[sc[i]] = below[sc[i]]
        BY <2>4, <2>5, <3>2
      <4>2. Layout(stk[d], sc, tb', Held', below')
        BY <4>1, LayoutSame DEF FrameOK
      <4>3. ASSUME NEW v \in Value PROVE Layout(Append(stk[d], v), sc, tb', Held', below')
        <5>1. /\ stk[d] \in Seq(Value) /\ Append(stk[d], v) \in Seq(Value) /\ sc \in Seq(Item)
              /\ Len(stk[d]) \in Nat /\ Len(stk[d]) <= Len(Append(stk[d], v))
              /\ Len(stk[d]) <= Len(stk[d])
              /\ \A k \in 1 .. Len(stk[d]) : Append(stk[d], v)[k] = stk[d][k]
          BY DEF TypeOK
        <5>2. ASSUME NEW i \in 1 .. Len(sc)
              PROVE  /\ tb'[sc[i]] <= Len(stk[d])
                     /\ Held'[sc[i]] \in tb'[sc[i]] .. Len(Append(stk[d], v))
          <6>1. /\ tb'[sc[i]] \in Nat /\ Held'[sc[i]] \in Nat
                /\ tb'[sc[i]] <= Held'[sc[i]] /\ Held'[sc[i]] <= Len(stk[d])
            BY <4>2 DEF Layout, Laid
          <6> QED
            BY <5>1, <6>1
        <5>3. \A i, j \in 1 .. Len(sc) : i < j => Held'[sc[i]] < tb'[sc[j]]
          BY <4>2 DEF Layout
        <5> HIDE DEF sc
        <5> QED
          BY ONLY <4>2, <5>1, <5>2, <5>3, LayoutResize
      <4> QED
        BY <2>6, <2>7, <3>2, <4>2, <4>3 DEF FrameOK
    <3> QED
      BY <3>1, <3>2
  <2>10. Nested'
    <3>1. ASSUME NEW d \in Frame, d > depth'
          PROVE  scope'[d] = << >> /\ calling'[d] = None
      <4>1. d = depth \/ d > depth
        BY <2>1, <2>2, <3>1, ConstantsAssumption DEF up, Frame
      <4>2. calling[d] = None /\ (d # depth => scope[d] = << >>)
        BY <2>1, <4>1 DEF Nested
      <4> QED
        BY <2>6, <2>8, <4>2
    <3> QED
      BY <3>1 DEF Nested
  <2>11. Distinct'
    <3>1. ASSUME NEW d \in Frame, NEW e \in Frame,
                 NEW i \in 1 .. Len(scope'[d]), NEW j \in 1 .. Len(scope'[e]),
                 scope'[d][i] = scope'[e][j]
          PROVE  d = e /\ i = j
      <4>1. d # depth /\ e # depth
        BY <2>6, <3>1
      <4>2. /\ i \in 1 .. Len(scope[d]) /\ j \in 1 .. Len(scope[e])
            /\ scope[d][i] = scope[e][j]
        BY <2>6, <3>1, <4>1
      <4> QED
        BY ONLY Distinct, d \in Frame, e \in Frame, <4>2 DEF Distinct
    <3> QED
      BY <3>1 DEF Distinct
  <2>12. CallerRuns'
    <3>1. ASSUME NEW d \in Frame, calling'[d] \in Callers
          PROVE  /\ scope'[d] # << >> /\ scope'[d][Len(scope'[d])] = calling'[d]
                 /\ caller'[calling'[d]].called
      <4>1. calling'[d] = calling[d] /\ d # depth
        BY <2>1, <2>8, <3>1, ConstantsAssumption
      <4>2. /\ scope[d] # << >> /\ scope[d][Len(scope[d])] = calling[d]
            /\ caller[calling[d]].called
        BY <3>1, <4>1 DEF CallerRuns
      <4>3. Len(scope[d]) \in 1 .. Len(scope[d])
        BY <4>2, EmptySeq DEF TypeOK
      <4>4. calling[d] \notin L
        BY <2>5, <4>1, <4>2, <4>3
      <4>5. caller'[calling[d]] = caller[calling[d]]
        BY <2>2, <3>1, <4>1, <4>4
      <4> QED
        BY <2>6, <4>1, <4>2, <4>5
    <3> QED
      BY <3>1 DEF CallerRuns
  <2> QED
    BY <2>9, <2>10, <2>11, <2>12
<1> QED
  BY <1>1, <1>2

\* A step that leaves the stack alone.
LEMMA StructureSame ==
  ASSUME IInv,
         stk' = stk, scope' = scope, tb' = tb, below' = below, depth' = depth,
         calling' = calling, Held' = Held,
         \A c \in Callers : caller'[c].called = caller[c].called
  PROVE  Structure'
<1> USE DEF IInv, Structure
<1>1. \A d \in Frame : FrameOK(d)'
  BY DEF FrameOK
<1>2. CallerRuns'
  BY DEF CallerRuns
<1> QED
  BY <1>1, <1>2 DEF Nested, Distinct

\* Lua enters a C function, or leaves one that has no object left.
LEMMA StructureFrame ==
  ASSUME IInv, NEW e \in Frame, scope[e] = << >>, calling[e] = None,
         NEW w, stk' = [stk EXCEPT ![e] = w],
         depth' \in {e, e - 1}, depth' = e - 1 => depth = e, depth' = e => depth = e - 1,
         scope' = scope, tb' = tb, below' = below, caller' = caller, calling' = calling
  PROVE  Structure'
<1> USE DEF IInv, Structure
<1>1. Held' = Held
  BY DEF Held
<1>2. ASSUME NEW d \in Frame PROVE FrameOK(d)'
  <2>1. CASE d = e
    <3>1. Len(scope'[d]) = 0
      BY <2>1
    <3> QED
      BY <3>1 DEF FrameOK, Layout
  <2>2. CASE d # e
    BY <1>1, <2>2 DEF FrameOK, TypeOK
  <2> QED
    BY <2>1, <2>2
<1>3. ASSUME NEW d \in Frame, d > depth'
      PROVE  scope[d] = << >> /\ calling[d] = None
  <2>1. depth \in Nat /\ e \in Nat /\ d \in Nat
    BY ConstantsAssumption DEF TypeOK, Frame
  <2>2. d = e \/ d > depth
    BY <1>3, <2>1
  <2> QED
    BY <2>2 DEF Nested
<1>4. Nested'
  BY <1>3 DEF Nested
<1> QED
  BY <1>2, <1>4 DEF Distinct, CallerRuns

-----------------------------------------------------------------------------
(* What the constructors push *)

LEMMA LookupType ==
  ASSUME NEW look \in Lookups
  PROVE  /\ look \in Seq(Value) /\ look # << >>
         /\ TopOf(look) \in Value
<1>1. Globals \subseteq Value /\ Functions \cup {Nil} \subseteq Value /\ FunTable \in Value
  BY ConstantsAssumption DEF Value
<1>2. \/ \E v \in Value : look = ByGlobal(v)
      \/ \E t, v \in Value : look = ByField(t, v)
      \/ \E v \in Value : look = ByHandler(v)
  BY <1>1 DEF Lookups
<1>3. ASSUME NEW v \in Value, look = <<v>>
      PROVE  /\ look \in Seq(Value) /\ look # << >>
             /\ TopOf(look) \in Value
  BY <1>3 DEF TopOf, ValueAt, AbsIndex
<1>4. CASE \E v \in Value : look = ByGlobal(v)
  BY <1>3, <1>4 DEF ByGlobal
<1>5. CASE \E t, v \in Value : look = ByField(t, v)
  <2>1. PICK t, v \in Value : look = ByField(t, v)
    BY <1>5
  <2>2. \/ look = <<v>>
        \/ look = <<t>>
    BY <2>1 DEF ByField
  <2> QED
    BY <1>1, <1>3, <2>2
<1>6. CASE \E v \in Value : look = ByHandler(v)
  <2>1. PICK v \in Value : look = ByHandler(v)
    BY <1>6
  <2>2. look = <<FunTable, v>>
    BY <2>1 DEF ByHandler
  <2> QED
    BY <1>1, <2>2 DEF TopOf, ValueAt, AbsIndex
<1> QED
  BY <1>2, <1>4, <1>5, <1>6

LEMMA PushedType ==
  ASSUME NEW v \in Value, NEW q \in Seq(Value), q # << >>
  PROVE  /\ <<v>> \o q \in Seq(Value) /\ <<v>> \o q # << >>
         /\ Len(<<v>> \o q) >= 2 /\ (<<v>> \o q)[1] = v
<1>1. Len(<<v>> \o q) = 1 + Len(q) /\ Len(q) >= 1
  OBVIOUS
<1>2. /\ <<v>> \o q \in Seq(Value) /\ <<v>> \o q # << >>
      /\ (<<v>> \o q)[1] = v
  OBVIOUS
<1> QED
  BY <1>1, <1>2

-----------------------------------------------------------------------------
(* Every action preserves Structure *)

LEMMA InnermostLaid ==
  ASSUME IInv, NEW x \in Item, Innermost(x)
  PROVE  /\ tb[x] \in Nat \ {0} /\ Held[x] \in Nat
         /\ tb[x] <= Held[x] /\ Held[x] <= Len(Window)
         /\ SubSeq(Window, 1, tb[x] - 1) = below[x]
<1>1. depth \in Frame /\ scope[depth] \in Seq(Item) /\ Window = stk[depth]
  BY DEF IInv, TypeOK, Window
<1>2. /\ Len(scope[depth]) \in 1 .. Len(scope[depth])
      /\ scope[depth][Len(scope[depth])] = x
  BY <1>1, EmptySeq DEF Innermost, TopOf, ValueAt, AbsIndex
<1>3. Laid(Window, x, tb, Held, below)
  BY <1>1, <1>2 DEF IInv, Structure, FrameOK, Layout
<1> QED
  BY <1>3 DEF Laid

LEMMA HeldUpdate ==
  ASSUME TypeOK, NEW c \in Callers, NEW r, NEW h, tb' = tb,
         caller' = [caller EXCEPT ![c] = r],
         h = (IF r.called THEN tb[c] ELSE tb[c] + r.numArgs + 1)
  PROVE  Held' = [Held EXCEPT ![c] = h]
<1>1. c \in Item /\ caller \in [Callers -> CallerState]
  BY DEF Item, TypeOK
<1>2. caller'[c] = r /\ \A d \in Callers : d # c => caller'[d] = caller[d]
  BY <1>1
<1>3. Held' = [x \in Item |-> IF x \in Callers /\ ~caller'[x].called
                              THEN tb[x] + caller'[x].numArgs + 1 ELSE tb[x]]
  BY DEF Held
<1>4. [Held EXCEPT ![c] = h] = [x \in Item |-> IF x = c THEN h ELSE Held[x]]
  BY <1>1 DEF Held
<1>5. ASSUME NEW x \in Item PROVE Held'[x] = (IF x = c THEN h ELSE Held[x])
  <2>1. CASE x = c
    BY <1>1, <1>2, <1>3, <2>1
  <2>2. CASE x # c
    BY <1>2, <1>3, <2>2 DEF Held
  <2> QED
    BY <2>1, <2>2
<1> QED
  BY <1>3, <1>4, <1>5

LEMMA ConstructStructure ==
  ASSUME IInv, NEW c \in Callers, NEW look \in Lookups, Construct(c, look)
  PROVE  Structure'
<1> DEFINE p == <<Traceback>> \o look
<1>1. look \in Seq(Value) /\ look # << >> /\ Traceback \in Value
  BY LookupType DEF Value
<1>2. p \in Seq(Value) /\ Len(p) >= 2 /\ p[1] = Traceback /\ p # << >>
  BY <1>1, PushedType
<1>3. /\ HostRuns /\ ~Alive(c) /\ EnterScope(c)
      /\ stk' = [stk EXCEPT ![depth] = Window \o p]
      /\ depth' = depth /\ calling' = calling
      /\ caller' = [caller EXCEPT ![c] = NewCaller]
  BY DEF Construct, SetWindow
<1> HIDE DEF p
<1> QED
  BY <1>2, <1>3, StructureEnter DEF Item

LEMMA ArgStructure ==
  ASSUME IInv, NEW c \in Callers, NEW v \in Ints, Arg(c, v)
  PROVE  Structure'
<1> DEFINE r == [caller[c] EXCEPT !.numArgs = @ + 1]
           s2 == Append(Window, v)
           h == tb[c] + r.numArgs + 1
<1>1. /\ Window \in Seq(Value) /\ v \in Value /\ c \in Item
      /\ caller[c] \in CallerState /\ tb[c] \in Nat /\ depth \in Frame
  BY DEF IInv, TypeOK, Window, Value, Item
<1>2. /\ Innermost(c) /\ HostRuns /\ ~caller[c].called
      /\ stk' = [stk EXCEPT ![depth] = s2] /\ caller' = [caller EXCEPT ![c] = r]
      /\ scope' = scope /\ tb' = tb /\ below' = below /\ depth' = depth
      /\ calling' = calling
  BY DEF Arg, SetWindow
<1>3. /\ r.called = caller[c].called /\ r.numArgs = caller[c].numArgs + 1
      /\ caller[c].numArgs \in Nat
  BY <1>1, ConstantsAssumption DEF CallerState
<1>4. /\ tb[c] \in Nat \ {0} /\ Held[c] <= Len(Window) /\ tb[c] <= Len(Window)
      /\ Held[c] = tb[c] + caller[c].numArgs + 1
  BY <1>1, <1>2, <1>3, InnermostLaid DEF Held
<1>5. /\ s2 \in Seq(Value) /\ Len(s2) = Len(Window) + 1 /\ Len(Window) \in Nat
      /\ \A k \in 1 .. Len(Window) : s2[k] = Window[k]
  BY <1>1
<1>6. h \in tb[c] .. Len(s2) /\ Len(Window) <= Len(s2) /\ Len(Window) <= Len(Window)
  <2>1. h = Held[c] + 1 /\ Held[c] \in Nat
    BY <1>1, <1>3, <1>4
  <2> HIDE DEF h, s2
  <2> QED
    BY <1>1, <1>3, <1>4, <1>5, <2>1
<1>7. Held' = [Held EXCEPT ![c] = h]
  <2>1. h = (IF r.called THEN tb[c] ELSE tb[c] + r.numArgs + 1)
    BY <1>2, <1>3
  <2> HIDE DEF r, h
  <2> QED
    BY <1>2, <2>1, HeldUpdate DEF IInv
<1>8. \A x \in Callers : caller'[x].called = caller[x].called
  BY <1>2, <1>3 DEF IInv, TypeOK
<1>9. /\ \A d \in Frame : d # depth => calling'[d] = calling[d]
      /\ calling'[depth] \notin Callers
  BY <1>2, ConstantsAssumption DEF HostRuns
<1> HIDE DEF r, s2, h
<1> QED
  BY <1>2, <1>4, <1>5, <1>6, <1>7, <1>8, <1>9, StructureInner

LEMMA CallStructure ==
  ASSUME IInv, NEW c \in Callers, Call(c)
  PROVE  Structure'
<1>1. /\ Window \in Seq(Value) /\ c \in Item /\ caller[c] \in CallerState
      /\ depth \in Frame /\ Nil \in Value /\ caller[c].numArgs \in Nat
  BY ConstantsAssumption DEF IInv, TypeOK, Window, Value, Item, CallerState
<1>2. /\ Innermost(c) /\ HostRuns
      /\ scope' = scope /\ tb' = tb /\ below' = below /\ depth' = depth
  BY DEF Call
<1>3. CASE caller[c].called
  <2>1. stk' = stk /\ calling' = calling /\ caller' = caller
    BY <1>3 DEF Call
  <2>2. Held' = Held
    BY <1>2, <2>1 DEF Held
  <2> QED
    BY <1>2, <2>1, <2>2, StructureSame
<1>4. CASE ~caller[c].called
  <2> DEFINE n == FunctionSlot(c) - 1
             kept == SubSeq(Window, 1, n)
             r == [caller[c] EXCEPT !.called = TRUE]
  <2>1. /\ caller' = [caller EXCEPT ![c].called = TRUE]
        /\ \/ stk' = [stk EXCEPT ![depth] = kept] /\ calling' = [calling EXCEPT ![depth] = c]
           \/ stk' = [stk EXCEPT ![depth] = Append(kept, Nil)] /\ calling' = calling
    BY <1>4 DEF Call, SetTop, SetWindow
  <2>2. caller' = [caller EXCEPT ![c] = r] /\ r.called = TRUE
    BY <1>1, <2>1 DEF IInv, TypeOK, CallerState
  <2>3. /\ n \in Nat /\ tb[c] <= n /\ n <= Len(Window) /\ tb[c] \in Nat
    <3>1. /\ tb[c] \in Nat \ {0} /\ Held[c] <= Len(Window)
          /\ Held[c] = tb[c] + caller[c].numArgs + 1
      BY <1>1, <1>2, <1>4, InnermostLaid DEF Held
    <3>2. Len(Window) \in Nat
      BY <1>1
    <3> QED
      BY <1>1, <3>1, <3>2 DEF FunctionSlot
  <2> HIDE DEF n
  <2>4. /\ kept \in Seq(Value) /\ Len(kept) = n /\ \A k \in 1 .. n : kept[k] = Window[k]
    BY <1>1, <2>3
  <2> HIDE DEF kept
  <2>5. /\ Append(kept, Nil) \in Seq(Value) /\ Len(Append(kept, Nil)) = n + 1
        /\ \A k \in 1 .. n : Append(kept, Nil)[k] = Window[k]
    BY <1>1, <2>4
  <2>6. Held' = [Held EXCEPT ![c] = tb[c]]
    <3> HIDE DEF r
    <3> QED
      BY <1>2, <2>2, HeldUpdate DEF IInv
  <2>7. caller'[c].called /\ \A x \in Callers : caller[x].called => caller'[x].called
    BY <2>2 DEF IInv, TypeOK
  <2>8. /\ \A d \in Frame : d # depth => calling'[d] = calling[d]
        /\ calling'[depth] \in Callers => calling'[depth] = c /\ caller'[c].called
    BY <1>1, <1>2, <2>1, <2>7, ConstantsAssumption DEF HostRuns, IInv, TypeOK
  <2>9. /\ n <= Len(kept) /\ n <= Len(Append(kept, Nil))
        /\ tb[c] \in tb[c] .. Len(kept) /\ tb[c] \in tb[c] .. Len(Append(kept, Nil))
    BY <2>3, <2>4, <2>5
  <2>10. CASE stk' = [stk EXCEPT ![depth] = kept]
    BY <1>2, <2>3, <2>4, <2>6, <2>7, <2>8, <2>9, <2>10, StructureInner
  <2>11. CASE stk' = [stk EXCEPT ![depth] = Append(kept, Nil)]
    BY <1>2, <2>3, <2>5, <2>6, <2>7, <2>8, <2>9, <2>11, StructureInner
  <2> QED
    BY <2>1, <2>10, <2>11
<1> QED
  BY <1>3, <1>4

\* Pushing values while Lua or the host runs, without touching an object.
LEMMA PushStructure ==
  ASSUME IInv, NEW p \in Seq(Value),
         stk' = [stk EXCEPT ![depth] = Window \o p],
         scope' = scope, tb' = tb, below' = below, depth' = depth, caller' = caller,
         \/ calling' = calling /\ HostRuns
         \/ calling' = [calling EXCEPT ![depth] = None]
         \/ calling' = [calling EXCEPT ![depth] = Chunk]
  PROVE  Structure'
<1>1. Held' = Held
  BY DEF Held
<1>2. /\ \A d \in Frame : d # depth => calling'[d] = calling[d]
      /\ calling'[depth] \notin Callers
  BY ConstantsAssumption DEF HostRuns, IInv, TypeOK
<1> QED
  BY <1>1, <1>2, StructurePush


LEMMA SeqOfType ==
  ASSUME NEW S \in SUBSET Value, NEW m \in Nat
  PROVE  SeqOf(S, m) \subseteq Seq(Value)
<1>1. ASSUME NEW rs \in SeqOf(S, m) PROVE rs \in Seq(Value)
  <2>1. PICK k \in 0 .. m : rs \in [1 .. k -> S]
    BY DEF SeqOf
  <2>2. k \in Nat /\ rs \in [1 .. k -> Value]
    BY <2>1
  <2> QED
    BY <2>2
<1> QED
  BY <1>1

LEMMA ResultsType == Results \subseteq Seq(Value)
<1>1. Ints \cup Strings \in SUBSET Value
  BY DEF Value
<1> QED
  BY <1>1, SeqOfType, ConstantsAssumption DEF Results

LEMMA CallReturnsStructure ==
  ASSUME IInv, NEW c \in Callers, NEW rs \in Results, CallReturns(c, rs)
  PROVE  Structure'
<1> DEFINE r == Ready(c, Len(Window) + Len(rs))
<1>1. /\ c \in Item /\ depth \in Frame /\ rs \in Seq(Value)
      /\ caller[c] \in CallerState
  BY ResultsType DEF IInv, TypeOK, Item
<1>2. /\ stk' = [stk EXCEPT ![depth] = Window \o rs]
      /\ calling' = [calling EXCEPT ![depth] = None]
      /\ caller' = [caller EXCEPT ![c] = r]
      /\ scope' = scope /\ tb' = tb /\ below' = below /\ depth' = depth
  BY DEF CallReturns, SetWindow
<1>3. r.called = caller[c].called /\ r.numArgs = caller[c].numArgs
  BY <1>1 DEF Ready, CallerState
<1> HIDE DEF r
<1>4. \A x \in Callers : /\ caller'[x].called = caller[x].called
                         /\ caller'[x].numArgs = caller[x].numArgs
  BY <1>2, <1>3 DEF IInv, TypeOK
<1>5. Held' = Held
  BY <1>2, <1>4 DEF Held
<1>6. /\ \A d \in Frame : d # depth => calling'[d] = calling[d]
      /\ calling'[depth] \notin Callers
  BY <1>1, <1>2, ConstantsAssumption DEF IInv, TypeOK
<1> QED
  BY <1>1, <1>2, <1>4, <1>5, <1>6, StructurePush

LEMMA GetResultStructure ==
  ASSUME IInv, NEW c \in Callers, NEW checked \in BOOLEAN, GetResult(c, checked)
  PROVE  Structure'
<1>1. CASE RaiseError
  BY <1>1, StructureRaise DEF GetResult
<1>2. CASE ~RaiseError
  <2> DEFINE r == [caller[c] EXCEPT !.resultCount = @ - 1]
  <2>1. /\ caller' = caller \/ caller' = [caller EXCEPT ![c] = r]
        /\ depth' = depth /\ stk' = stk /\ scope' = scope /\ calling' = calling
        /\ tb' = tb /\ below' = below
    BY <1>2 DEF GetResult
  <2>2. /\ r.called = caller[c].called /\ r.numArgs = caller[c].numArgs
    BY DEF IInv, TypeOK, CallerState
  <2> HIDE DEF r
  <2>3. \A x \in Callers : /\ caller'[x].called = caller[x].called
                           /\ caller'[x].numArgs = caller[x].numArgs
    BY <2>1, <2>2 DEF IInv, TypeOK
  <2>4. Held' = Held
    BY <2>1, <2>3 DEF Held
  <2> QED
    BY <2>1, <2>3, <2>4, StructureSame
<1> QED
  BY <1>1, <1>2

LEMMA DestroyStructure ==
  ASSUME IInv, NEW c \in Callers, Destroy(c)
  PROVE  Structure'
<1>1. /\ HostRuns /\ Innermost(c) /\ LeaveScope(c) /\ depth' = depth /\ calling' = calling
      /\ stk' = [stk EXCEPT ![depth] = SubSeq(Window, 1, tb[c] - 1)]
  BY DEF Destroy, SetWindow, SetTop
<1>2. /\ c \in Item /\ tb[c] - 1 \in Nat /\ tb[c] - 1 <= tb[c] - 1
      /\ tb[c] - 1 <= Len(Window)
  <2>1. c \in Item /\ Window \in Seq(Value)
    BY DEF Item, IInv, TypeOK, Window
  <2>2. /\ tb[c] \in Nat \ {0} /\ Held[c] \in Nat
        /\ tb[c] <= Held[c] /\ Held[c] <= Len(Window)
    BY <1>1, <2>1, InnermostLaid
  <2> QED
    BY <2>1, <2>2
<1> QED
  BY <1>1, <1>2, StructureLeave

LEMMA EndGetTableStructure ==
  ASSUME IInv, NEW b \in Brackets, EndGetTable(b)
  PROVE  Structure'
<1>1. /\ HostRuns /\ Innermost(b) /\ LeaveScope(b) /\ depth' = depth /\ calling' = calling
      /\ stk' = [stk EXCEPT ![depth] = SubSeq(Window, 1, Len(Window) - 1)]
  BY DEF EndGetTable, SetWindow, Pop, SetTop
<1>2. /\ b \in Item /\ Len(Window) - 1 \in Nat /\ tb[b] - 1 <= Len(Window) - 1
      /\ Len(Window) - 1 <= Len(Window)
  <2>1. b \in Item /\ Window \in Seq(Value)
    BY DEF Item, IInv, TypeOK, Window
  <2>2. /\ tb[b] \in Nat \ {0} /\ Held[b] \in Nat
        /\ tb[b] <= Held[b] /\ Held[b] <= Len(Window)
    BY <1>1, <2>1, InnermostLaid
  <2> QED
    BY <2>1, <2>2
<1> QED
  BY <1>1, <1>2, StructureLeave

LEMMA PushOneStructure ==
  ASSUME IInv, NEW v \in Value,
         stk' = [stk EXCEPT ![depth] = Append(Window, v)],
         scope' = scope, tb' = tb, below' = below, depth' = depth, caller' = caller,
         \/ calling' = calling /\ HostRuns
         \/ calling' = [calling EXCEPT ![depth] = None]
  PROVE  Structure'
<1>1. /\ <<v>> \in Seq(Value) /\ Append(Window, v) = Window \o <<v>>
  BY AppendIsConcat DEF IInv, TypeOK, Window
<1> QED
  BY <1>1, PushStructure

LEMMA GetVaribleStructure ==
  ASSUME IInv, NEW v \in Globals, NEW checked \in BOOLEAN,
         GetGlobalVarible(v, checked) \/ GetTableVarible(v, checked)
  PROVE  Structure'
<1>1. v \in Value
  BY ConstantsAssumption DEF Value
<1>2. HostRuns
  BY DEF GetGlobalVarible, GetTableVarible
<1>3. CASE RaiseError
  BY <1>2, <1>3, StructureRaise
<1>4. CASE GetGlobalVarible(v, checked) /\ ~RaiseError
  <2>1. /\ stk' = [stk EXCEPT ![depth] = Append(Window, v)]
        /\ scope' = scope /\ tb' = tb /\ below' = below /\ depth' = depth
        /\ caller' = caller /\ calling' = calling
    BY <1>4 DEF GetGlobalVarible, SetWindow
  <2> QED
    BY <1>1, <1>2, <2>1, PushOneStructure
<1>5. CASE GetTableVarible(v, checked) /\ ~RaiseError
  <2>1. vars' = vars
    BY <1>5 DEF GetTableVarible
  <2> QED
    BY <2>1, StructureSame DEF vars, Held
<1> QED
  BY <1>3, <1>4, <1>5

LEMMA BeginGetTableStructure ==
  ASSUME IInv, NEW b \in Brackets, NEW v \in Globals,
         BeginGetTable(b, v) \/ BeginGetTableTable(b, v)
  PROVE  Structure'
<1>1. v \in Value /\ b \in Item /\ b \notin Callers
  BY ConstantsAssumption DEF Value, Item
<1>2. HostRuns /\ ~Alive(b)
  BY DEF BeginGetTable, BeginGetTableTable
<1>3. CASE RaiseError
  BY <1>2, <1>3, StructureRaise
<1>4. CASE ~RaiseError
  <2>1. /\ stk' = [stk EXCEPT ![depth] = Append(Window, v)]
        /\ EnterScope(b) /\ depth' = depth /\ calling' = calling /\ caller' = caller
    BY <1>4 DEF BeginGetTable, BeginGetTableTable, SetWindow
  <2>2. /\ <<v>> \in Seq(Value) /\ <<v>> # << >>
        /\ Append(Window, v) = Window \o <<v>>
    BY <1>1, AppendIsConcat DEF IInv, TypeOK, Window
  <2> QED
    BY <1>1, <1>2, <2>1, <2>2, StructureEnter
<1> QED
  BY <1>3, <1>4

LEMMA ChunkStructure ==
  ASSUME IInv,
         \/ RunChunk
         \/ \E rs \in Results : ChunkReturns(rs)
         \/ LuaRaises
  PROVE  Structure'
<1>1. /\ depth \in Frame /\ Window \in Seq(Value) /\ stk \in [Frame -> Seq(Value)]
      /\ Strings \subseteq Value /\ Nil \in Value /\ Window = stk[depth]
  BY DEF IInv, TypeOK, Window, Value
<1>2. CASE RunChunk
  <2>1. /\ scope' = scope /\ tb' = tb /\ below' = below /\ depth' = depth
        /\ caller' = caller /\ HostRuns
    BY <1>2 DEF RunChunk
  <2>2. CASE calling' = [calling EXCEPT ![depth] = Chunk] /\ stk' = stk
    <3>1. stk' = [stk EXCEPT ![depth] = Window \o << >>] /\ << >> \in Seq(Value)
      BY <1>1, <2>2
    <3> QED
      BY <2>1, <2>2, <3>1, PushStructure
  <2>3. CASE (\E msg \in Strings : SetWindow(Append(Window, msg))) /\ calling' = calling
    <3>1. PICK msg \in Value : stk' = [stk EXCEPT ![depth] = Append(Window, msg)]
      BY <1>1, <2>3 DEF SetWindow
    <3> QED
      BY <2>1, <2>3, <3>1, PushOneStructure
  <2> QED
    BY <1>2, <2>2, <2>3 DEF RunChunk
<1>3. CASE \E rs \in Results : ChunkReturns(rs)
  <2>1. PICK rs \in Results : ChunkReturns(rs)
    BY <1>3
  <2>2. rs \in Seq(Value)
    BY ResultsType
  <2>3. /\ scope' = scope /\ tb' = tb /\ below' = below /\ depth' = depth
        /\ caller' = caller /\ stk' = [stk EXCEPT ![depth] = Window \o rs]
        /\ calling' = [calling EXCEPT ![depth] = None]
    BY <2>1 DEF ChunkReturns, SetWindow
  <2> QED
    BY <2>2, <2>3, PushStructure
<1>4. CASE LuaRaises
  <2>1. PICK v \in Value : stk' = [stk EXCEPT ![depth] = Append(Window, v)]
    BY <1>1, <1>4 DEF LuaRaises, ErrorValues, SetWindow
  <2>2. /\ scope' = scope /\ tb' = tb /\ below' = below /\ depth' = depth
        /\ caller' = caller /\ calling' = [calling EXCEPT ![depth] = None]
    BY <1>4 DEF LuaRaises
  <2> QED
    BY <2>1, <2>2, PushOneStructure
<1> QED
  BY <1>2, <1>3, <1>4

LEMMA FrameStructure ==
  ASSUME IInv, (\E as \in SeqOf(Ints, 1) : LuaCallsC(as)) \/ CReturns
  PROVE  Structure'
<1>1. depth \in Frame /\ Frame \subseteq Nat
  BY ConstantsAssumption DEF IInv, TypeOK, Frame
<1>2. CASE \E as \in SeqOf(Ints, 1) : LuaCallsC(as)
  <2>1. PICK as \in SeqOf(Ints, 1) : LuaCallsC(as)
    BY <1>2
  <2> DEFINE e == depth + 1
  <2>2. /\ stk' = [stk EXCEPT ![e] = as] /\ depth' = e
        /\ scope' = scope /\ tb' = tb /\ below' = below /\ caller' = caller
        /\ calling' = calling
    BY <2>1 DEF LuaCallsC
  <2>3. e \in Frame /\ e > depth /\ depth' = e /\ depth = e - 1 /\ e # e - 1
    BY <1>1, <2>1, <2>2, ConstantsAssumption DEF LuaCallsC, Frame
  <2>4. scope[e] = << >> /\ calling[e] = None
    BY <2>3 DEF IInv, Structure, Nested
  <2> HIDE DEF e
  <2> QED
    BY <2>2, <2>3, <2>4, StructureFrame
<1>3. CASE CReturns
  <2>1. /\ stk' = [stk EXCEPT ![depth] = << >>] /\ depth' = depth - 1
        /\ scope' = scope /\ tb' = tb /\ below' = below /\ caller' = caller
        /\ calling' = calling /\ scope[depth] = << >> /\ calling[depth] = None
    BY <1>3 DEF CReturns, SetWindow, HostRuns
  <2>2. depth # depth - 1
    BY <1>1
  <2> QED
    BY <1>1, <2>1, <2>2, StructureFrame
<1> QED
  BY <1>2, <1>3

LEMMA StructureStep ==
  ASSUME IInv, [Next]_vars
  PROVE  Structure'
<1>1. ASSUME NEW c \in Callers, NEW look \in Lookups, Construct(c, look) PROVE Structure'
  BY <1>1, ConstructStructure
<1>2. ASSUME NEW c \in Callers, NEW v \in Ints, Arg(c, v) PROVE Structure'
  BY <1>2, ArgStructure
<1>3. ASSUME NEW c \in Callers, Call(c) PROVE Structure'
  BY <1>3, CallStructure
<1>4. ASSUME NEW c \in Callers, NEW rs \in Results, CallReturns(c, rs) PROVE Structure'
  BY <1>4, CallReturnsStructure
<1>5. ASSUME NEW c \in Callers, NEW checked \in BOOLEAN, GetResult(c, checked)
      PROVE  Structure'
  BY <1>5, GetResultStructure
<1>6. ASSUME NEW c \in Callers, Destroy(c) PROVE Structure'
  BY <1>6, DestroyStructure
<1>7. ASSUME NEW v \in Globals, NEW checked \in BOOLEAN,
             GetGlobalVarible(v, checked) \/ GetTableVarible(v, checked)
      PROVE  Structure'
  BY <1>7, GetVaribleStructure
<1>8. ASSUME NEW b \in Brackets, NEW v \in Globals,
             BeginGetTable(b, v) \/ BeginGetTableTable(b, v)
      PROVE  Structure'
  BY <1>8, BeginGetTableStructure
<1>9. ASSUME NEW b \in Brackets, EndGetTable(b) PROVE Structure'
  BY <1>9, EndGetTableStructure
<1>10. CASE RunChunk \/ (\E rs \in Results : ChunkReturns(rs)) \/ LuaRaises
  BY <1>10, ChunkStructure
<1>11. CASE (\E as \in SeqOf(Ints, 1) : LuaCallsC(as)) \/ CReturns
  BY <1>11, FrameStructure
<1>12. CASE GenerateLuaError
  BY <1>12, StructureRaise DEF GenerateLuaError
<1>13. CASE UNCHANGED vars
  BY <1>13, StructureSame DEF vars, Held
<1> QED
  BY <1>1, <1>2, <1>3, <1>4, <1>5, <1>6, <1>7, <1>8, <1>9, <1>10, <1>11, <1>12, <1>13
     DEF Next

-----------------------------------------------------------------------------
(* Every action preserves the types *)

LEMMA ValueTypes ==
  /\ Functions \cup Ints \cup Strings \cup Tables \cup Globals \subseteq Value
  /\ Nil \in Value /\ Traceback \in Value /\ FunTable \in Value
  /\ NewCaller \in CallerState /\ NoHistory \in History
  /\ << >> \in Seq(Value)
<1>1. NewCaller \in CallerState
  BY ConstantsAssumption DEF NewCaller, CallerState
<1>2. NoHistory \in History
  BY DEF NoHistory, History, Value
<1> QED
  BY <1>1, <1>2, ConstantsAssumption DEF Value

LEMMA BuryType ==
  ASSUME TypeOK, NEW X, Bury(X)
  PROVE  /\ tb' \in [Item -> Nat] /\ below' \in [Item -> Seq(Value)]
         /\ caller' \in [Callers -> CallerState] /\ hist' \in [Callers -> History]
BY ValueTypes DEF Bury, TypeOK

LEMMA RaiseType ==
  ASSUME IInv, RaiseError
  PROVE  TypeOK'
<1>1. TypeOK
  BY DEF IInv
<1>2. CASE depth = 1
  BY <1>1, <1>2 DEF RaiseError, TypeOK
<1>3. CASE depth # 1
  <2>1. depth \in Frame /\ depth - 1 \in Frame
    BY <1>1, <1>3, ConstantsAssumption DEF TypeOK, Frame
  <2>2. /\ depth' = depth - 1 /\ entry' = [entry EXCEPT ![depth] = << >>]
        /\ scope' = [scope EXCEPT ![depth] = << >>]
        /\ Bury(LiveIn(depth)) /\ status' = status
    BY <1>3 DEF RaiseError
  <2>3. stk' \in [Frame -> Seq(Value)] /\ calling' \in [Frame -> Callers \cup {Chunk, None}]
    <3>1. CASE SetWindow(<< >>) /\ UNCHANGED calling
      BY <1>1, <3>1, ValueTypes DEF SetWindow, TypeOK
    <3>2. ASSUME NEW v \in ErrorValues(calling[depth - 1]),
                 stk' = [stk EXCEPT ![depth] = << >>, ![depth - 1] = Append(@, v)],
                 calling' = [calling EXCEPT ![depth - 1] = None]
          PROVE  /\ stk' \in [Frame -> Seq(Value)]
                 /\ calling' \in [Frame -> Callers \cup {Chunk, None}]
      <4>1. v \in Value
        BY ValueTypes DEF ErrorValues
      <4>2. \A q \in Seq(Value) : Append(q, v) \in Seq(Value)
        BY <4>1
      <4> QED
        BY <1>1, <2>1, <3>2, <4>2, ValueTypes DEF TypeOK
    <3> QED
      BY <1>3, <3>1, <3>2 DEF RaiseError
  <2>4. scope' \in [Frame -> Seq(Item)] /\ entry' \in [Frame -> Seq(Value)]
    BY <1>1, <2>2, ValueTypes DEF TypeOK
  <2> QED
    BY <1>1, <2>1, <2>2, <2>3, <2>4, BuryType DEF TypeOK
<1> QED
  BY <1>2, <1>3

LEMMA EnterType ==
  ASSUME TypeOK, NEW x \in Item, EnterScope(x)
  PROVE  /\ scope' \in [Frame -> Seq(Item)] /\ tb' \in [Item -> Nat]
         /\ below' \in [Item -> Seq(Value)]
<1>1. Window \in Seq(Value) /\ Len(Window) \in Nat /\ scope[depth] \in Seq(Item)
  BY DEF TypeOK, Window
<1> QED
  BY <1>1 DEF EnterScope, TypeOK

LEMMA WindowType ==
  ASSUME TypeOK, NEW s \in Seq(Value), SetWindow(s)
  PROVE  stk' \in [Frame -> Seq(Value)]
BY DEF SetWindow, TypeOK

LEMMA CallerType ==
  ASSUME TypeOK
  PROVE  /\ depth \in Frame /\ Window \in Seq(Value) /\ Len(Window) \in Nat
         /\ \A c \in Callers : c \in Item /\ caller[c] \in CallerState /\ hist[c] \in History
         /\ \A b \in Brackets : b \in Item
BY DEF TypeOK, Window, Item

LEMMA ConstructType ==
  ASSUME IInv, NEW c \in Callers, NEW look \in Lookups, Construct(c, look)
  PROVE  TypeOK'
<1> DEFINE p == <<Traceback>> \o look
           h == [NoHistory EXCEPT !.found = TopOf(look)]
<1>1. TypeOK
  BY DEF IInv
<1>2. p \in Seq(Value)
  BY LookupType, ValueTypes, PushedType
<1>3. h \in History
  BY LookupType, ValueTypes DEF History
<1>4. /\ SetWindow(Window \o p) /\ EnterScope(c)
      /\ caller' = [caller EXCEPT ![c] = NewCaller] /\ hist' = [hist EXCEPT ![c] = h]
      /\ UNCHANGED <<status, depth, calling, entry>>
  BY DEF Construct
<1> HIDE DEF p, h
<1>5. Window \o p \in Seq(Value)
  BY <1>1, <1>2, CallerType
<1>6. stk' \in [Frame -> Seq(Value)]
  BY <1>1, <1>4, <1>5, WindowType
<1>7. caller' \in [Callers -> CallerState] /\ hist' \in [Callers -> History]
  BY <1>1, <1>3, <1>4, ValueTypes DEF TypeOK
<1> QED
  BY <1>1, <1>4, <1>6, <1>7, CallerType, EnterType DEF TypeOK

LEMMA ArgType ==
  ASSUME IInv, NEW c \in Callers, NEW v \in Ints, Arg(c, v)
  PROVE  TypeOK'
<1>1. TypeOK /\ v \in Value
  BY ValueTypes DEF IInv
<1>2. /\ SetWindow(Append(Window, v)) /\ caller[c].numArgs < MaxArgs
      /\ caller' = [caller EXCEPT ![c].numArgs = @ + 1]
      /\ hist' = [hist EXCEPT ![c].args = Append(@, v)]
      /\ UNCHANGED <<status, depth, scope, calling, tb, entry, below>>
  BY DEF Arg
<1>3. Append(Window, v) \in Seq(Value)
  BY <1>1, CallerType
<1>4. stk' \in [Frame -> Seq(Value)]
  BY <1>1, <1>2, <1>3, WindowType
<1>5. caller' \in [Callers -> CallerState]
  <2>1. caller[c].numArgs + 1 \in 0 .. MaxArgs
    BY <1>1, <1>2, CallerType, ConstantsAssumption DEF CallerState
  <2> QED
    BY <1>1, <1>2, <2>1 DEF TypeOK, CallerState
<1>6. hist' \in [Callers -> History]
  <2>1. Append(hist[c].args, v) \in Seq(Ints)
    BY <1>1, CallerType DEF History
  <2> QED
    BY <1>1, <1>2, <2>1 DEF TypeOK, History
<1> QED
  BY <1>1, <1>2, <1>4, <1>5, <1>6 DEF TypeOK

LEMMA CallType ==
  ASSUME IInv, NEW c \in Callers, Call(c)
  PROVE  TypeOK'
<1> DEFINE slot == FunctionSlot(c)
           passed == SubSeq(Window, slot, Len(Window))
           kept == SetTop(Window, slot - 1)
<1>1. TypeOK
  BY DEF IInv
<1>2. CASE caller[c].called
  BY <1>1, <1>2 DEF Call, TypeOK
<1>3. CASE ~caller[c].called
  <2>1. slot \in 1 .. Len(Window)
    <3>1. c \in Item /\ caller[c].numArgs \in Nat /\ Innermost(c)
      BY <1>1, CallerType, ConstantsAssumption DEF CallerState, Call
    <3>2. Held[c] = tb[c] + caller[c].numArgs + 1
      BY <1>3, <3>1 DEF Held
    <3>3. tb[c] \in Nat \ {0} /\ Held[c] <= Len(Window)
      BY <3>1, InnermostLaid
    <3> QED
      BY <1>1, <3>1, <3>2, <3>3, CallerType DEF FunctionSlot
  <2>2. passed \in Seq(Value) /\ kept \in Seq(Value)
    BY <1>1, <2>1, CallerType DEF SetTop
  <2>3. Append(kept, Nil) \in Seq(Value)
    BY <2>2, ValueTypes
  <2>4. /\ caller' = [caller EXCEPT ![c].called = TRUE]
        /\ hist' = [hist EXCEPT ![c].passed = passed]
        /\ \/ SetWindow(kept) /\ calling' = [calling EXCEPT ![depth] = c]
           \/ SetWindow(Append(kept, Nil)) /\ calling' = calling
        /\ UNCHANGED <<status, depth, scope, tb, entry, below>>
    BY <1>3 DEF Call
  <2> HIDE DEF slot, passed, kept
  <2>5. stk' \in [Frame -> Seq(Value)]
    BY <1>1, <2>2, <2>3, <2>4, WindowType
  <2>6. caller' \in [Callers -> CallerState]
    BY <1>1, <2>4 DEF TypeOK, CallerState
  <2>7. hist' \in [Callers -> History]
    BY <1>1, <2>2, <2>4 DEF TypeOK, History
  <2>8. calling' \in [Frame -> Callers \cup {Chunk, None}]
    BY <1>1, <2>4 DEF TypeOK
  <2> QED
    BY <1>1, <2>4, <2>5, <2>6, <2>7, <2>8 DEF TypeOK
<1> QED
  BY <1>2, <1>3

LEMMA CallReturnsType ==
  ASSUME IInv, NEW c \in Callers, NEW rs \in Results, CallReturns(c, rs)
  PROVE  TypeOK'
<1> DEFINE top == Len(Window) + Len(rs)
           r == Ready(c, top)
<1>1. TypeOK /\ rs \in Seq(Value)
  BY ResultsType DEF IInv
<1>2. /\ SetWindow(Window \o rs) /\ calling[depth] = c /\ Room(Len(rs))
      /\ calling' = [calling EXCEPT ![depth] = None]
      /\ caller' = [caller EXCEPT ![c] = r]
      /\ hist' = [hist EXCEPT ![c].ret = rs]
      /\ UNCHANGED <<status, depth, scope, tb, entry, below>>
  BY DEF CallReturns
<1>3. Innermost(c)
  <2>1. /\ scope[depth] # << >> /\ scope[depth][Len(scope[depth])] = c
        /\ scope[depth] \in Seq(Item)
    BY <1>1, <1>2, CallerType DEF IInv, Structure, CallerRuns, TypeOK
  <2> QED
    BY <2>1 DEF Innermost, TopOf, ValueAt, AbsIndex
<1>4. top - tb[c] \in 0 .. MaxStack
  <2>1. c \in Item /\ tb[c] \in Nat \ {0} /\ tb[c] <= Len(Window)
    <3>1. /\ c \in Item /\ tb[c] \in Nat \ {0} /\ Held[c] \in Nat
          /\ tb[c] <= Held[c] /\ Held[c] <= Len(Window) /\ Len(Window) \in Nat
      BY <1>1, <1>3, CallerType, InnermostLaid
    <3> QED
      BY <3>1
  <2>2. Len(Window) \in Nat /\ Len(rs) \in Nat /\ Len(Window) + Len(rs) <= MaxStack
    BY <1>1, <1>2, CallerType DEF Room
  <2> QED
    BY <2>1, <2>2, ConstantsAssumption
<1> HIDE DEF top
<1>5. r \in CallerState
  <2>1. caller[c] \in CallerState
    BY <1>1, CallerType
  <2> DEFINE k == top - tb[c]
  <2>2. k \in -1 .. MaxStack
    BY <1>4, ConstantsAssumption
  <2> HIDE DEF k
  <2>3. [caller[c] EXCEPT !.resultSet = TRUE, !.resultCount = k] \in CallerState
    BY <2>1, <2>2 DEF CallerState
  <2>4. r = [caller[c] EXCEPT !.resultSet = TRUE, !.resultCount = k]
    BY Zenon DEF Ready, k
  <2> QED
    BY <2>3, <2>4
<1> HIDE DEF r
<1>6. Window \o rs \in Seq(Value)
  BY <1>1, CallerType
<1>7. stk' \in [Frame -> Seq(Value)]
  BY <1>1, <1>2, <1>6, WindowType
<1>8. caller' \in [Callers -> CallerState]
  BY <1>1, <1>2, <1>5 DEF TypeOK
<1>9. hist' \in [Callers -> History]
  BY <1>1, <1>2 DEF TypeOK, History
<1>10. calling' \in [Frame -> Callers \cup {Chunk, None}]
  BY <1>1, <1>2 DEF TypeOK
<1> QED
  BY <1>1, <1>2, <1>7, <1>8, <1>9, <1>10 DEF TypeOK

LEMMA GetResultType ==
  ASSUME IInv, NEW c \in Callers, NEW checked \in BOOLEAN, GetResult(c, checked)
  PROVE  TypeOK'
<1>1. TypeOK
  BY DEF IInv
<1>2. CASE ~caller[c].resultSet
  BY <1>1, <1>2 DEF GetResult, TypeOK
<1>3. CASE RaiseError
  BY <1>3, RaiseType
<1>4. CASE caller[c].resultSet /\ ~RaiseError
  <2>1. PICK v \in Readable(ResultIndex(c)) :
          /\ caller' = [caller EXCEPT ![c].resultCount = @ - 1]
          /\ hist' = [hist EXCEPT ![c].got = Append(@, v)]
          /\ UNCHANGED <<status, depth, stk, scope, calling, tb, entry, below>>
    BY <1>4 DEF GetResult
  <2>2. v \in Value
    <3>1. IsSlot(Window, ResultIndex(c)) => ValueAt(Window, ResultIndex(c)) \in Value
      BY <1>1, CallerType DEF IsSlot, ValueAt
    <3> QED
      BY <2>1, <3>1, ValueTypes DEF Readable
  <2>3. caller[c].resultCount >= 0
    BY <1>1, CallerType DEF GetResult, CallerState
  <2>4. caller' \in [Callers -> CallerState]
    <3>1. caller[c].resultCount - 1 \in -1 .. MaxStack
      BY <1>1, <2>3, CallerType, ConstantsAssumption DEF CallerState
    <3> QED
      BY <1>1, <2>1, <3>1 DEF TypeOK, CallerState
  <2>5. hist' \in [Callers -> History]
    <3>1. Append(hist[c].got, v) \in Seq(Value)
      BY <1>1, <2>2, CallerType DEF History
    <3> QED
      BY <1>1, <2>1, <3>1 DEF TypeOK, History
  <2> QED
    BY <1>1, <2>1, <2>4, <2>5 DEF TypeOK
<1> QED
  BY <1>2, <1>3, <1>4

LEMMA LeaveType ==
  ASSUME TypeOK, NEW x \in Item, Innermost(x), LeaveScope(x)
  PROVE  /\ scope' \in [Frame -> Seq(Item)]
         /\ tb' \in [Item -> Nat] /\ below' \in [Item -> Seq(Value)]
         /\ caller' \in [Callers -> CallerState] /\ hist' \in [Callers -> History]
<1>1. scope[depth] \in Seq(Item) /\ Len(scope[depth]) - 1 \in Nat
  BY EmptySeq DEF TypeOK, Innermost
<1>2. Pop(scope[depth], 1) \in Seq(Item)
  BY <1>1 DEF Pop, SetTop
<1>3. scope' \in [Frame -> Seq(Item)]
  BY <1>2 DEF LeaveScope, TypeOK
<1> QED
  BY <1>3, BuryType DEF LeaveScope

LEMMA DestroyType ==
  ASSUME IInv, (\E c \in Callers : Destroy(c)) \/ (\E b \in Brackets : EndGetTable(b))
  PROVE  TypeOK'
<1>1. TypeOK
  BY DEF IInv
<1>2. PICK x \in Item :
        /\ Innermost(x) /\ LeaveScope(x) /\ UNCHANGED <<status, depth, calling, entry>>
        /\ \/ SetWindow(SubSeq(Window, 1, tb[x] - 1))
           \/ SetWindow(SubSeq(Window, 1, Len(Window) - 1))
  BY DEF Destroy, EndGetTable, SetTop, Pop, Item
<1>3. /\ tb[x] - 1 \in 0 .. Len(Window) /\ Len(Window) - 1 \in 0 .. Len(Window)
      /\ Window \in Seq(Value)
  <2>1. /\ tb[x] \in Nat \ {0} /\ Held[x] \in Nat /\ Len(Window) \in Nat
        /\ tb[x] <= Held[x] /\ Held[x] <= Len(Window)
    BY <1>1, <1>2, InnermostLaid, CallerType
  <2> QED
    BY <1>1, <2>1, CallerType
<1>4. /\ SubSeq(Window, 1, tb[x] - 1) \in Seq(Value)
      /\ SubSeq(Window, 1, Len(Window) - 1) \in Seq(Value)
  BY <1>3
<1>5. stk' \in [Frame -> Seq(Value)]
  BY <1>1, <1>2, <1>4, WindowType
<1> QED
  BY <1>1, <1>2, <1>5, LeaveType DEF TypeOK

LEMMA PushType ==
  ASSUME TypeOK, NEW p \in Seq(Value), SetWindow(Window \o p),
         calling' \in [Frame -> Callers \cup {Chunk, None}],
         UNCHANGED <<status, depth, scope, tb, caller, entry, below, hist>>
  PROVE  TypeOK'
<1>1. Window \o p \in Seq(Value)
  BY CallerType
<1> QED
  BY <1>1, WindowType DEF TypeOK

LEMMA PushOneType ==
  ASSUME TypeOK, NEW v \in Value, SetWindow(Append(Window, v)),
         calling' \in [Frame -> Callers \cup {Chunk, None}],
         UNCHANGED <<status, depth, scope, tb, caller, entry, below, hist>>
  PROVE  TypeOK'
<1>1. Append(Window, v) \in Seq(Value)
  BY CallerType
<1> QED
  BY <1>1, WindowType DEF TypeOK

LEMMA VaribleType ==
  ASSUME IInv, NEW v \in Globals,
         \/ \E checked \in BOOLEAN :
              GetGlobalVarible(v, checked) \/ GetTableVarible(v, checked)
         \/ \E b \in Brackets : BeginGetTable(b, v) \/ BeginGetTableTable(b, v)
  PROVE  TypeOK'
<1>1. TypeOK /\ v \in Value
  BY ValueTypes DEF IInv
<1>2. CASE RaiseError
  BY <1>2, RaiseType
<1>3. CASE UNCHANGED vars
  BY <1>1, <1>3 DEF vars, TypeOK
<1>4. CASE /\ SetWindow(Append(Window, v))
           /\ UNCHANGED <<status, depth, scope, calling, tb, caller, entry, below, hist>>
  BY <1>1, <1>4, PushOneType DEF TypeOK
<1>5. CASE \E b \in Brackets :
             /\ SetWindow(Append(Window, v)) /\ EnterScope(b)
             /\ UNCHANGED <<status, depth, calling, caller, entry, hist>>
  <2>1. PICK b \in Brackets : /\ SetWindow(Append(Window, v)) /\ EnterScope(b)
                              /\ UNCHANGED <<status, depth, calling, caller, entry, hist>>
    BY <1>5
  <2>2. Append(Window, v) \in Seq(Value) /\ b \in Item
    BY <1>1, CallerType
  <2>3. stk' \in [Frame -> Seq(Value)]
    BY <1>1, <2>1, <2>2, WindowType
  <2> QED
    BY <1>1, <2>1, <2>2, <2>3, EnterType DEF TypeOK
<1> QED
  BY <1>2, <1>3, <1>4, <1>5
     DEF GetGlobalVarible, GetTableVarible, BeginGetTable, BeginGetTableTable

LEMMA LuaType ==
  ASSUME IInv, RunChunk \/ LuaRaises \/ (\E rs \in Results : ChunkReturns(rs))
  PROVE  TypeOK'
<1>1. TypeOK /\ Strings \subseteq Value /\ Nil \in Value /\ Results \subseteq Seq(Value)
  BY ValueTypes, ResultsType DEF IInv
<1>2. \A who \in {None, Chunk} :
        [calling EXCEPT ![depth] = who] \in [Frame -> Callers \cup {Chunk, None}]
  BY <1>1 DEF TypeOK
<1>3. CASE RunChunk
  <2>1. CASE UNCHANGED stk
    BY <1>1, <1>2, <1>3, <2>1 DEF RunChunk, TypeOK
  <2>2. CASE \E msg \in Strings : SetWindow(Append(Window, msg)) /\ UNCHANGED calling
    BY <1>1, <1>3, <2>2, PushOneType DEF RunChunk, TypeOK
  <2> QED
    BY <1>3, <2>1, <2>2 DEF RunChunk
<1>4. CASE LuaRaises
  <2>1. PICK v \in Value : SetWindow(Append(Window, v))
    BY <1>1, <1>4 DEF LuaRaises, ErrorValues
  <2>2. calling' \in [Frame -> Callers \cup {Chunk, None}]
    BY <1>2, <1>4 DEF LuaRaises
  <2> QED
    BY <1>1, <1>4, <2>1, <2>2, PushOneType DEF LuaRaises
<1>5. CASE \E rs \in Results : ChunkReturns(rs)
  <2>1. PICK rs \in Results : ChunkReturns(rs)
    BY <1>5
  <2>2. calling' \in [Frame -> Callers \cup {Chunk, None}] /\ rs \in Seq(Value)
    BY <1>1, <1>2, <2>1 DEF ChunkReturns
  <2> QED
    BY <1>1, <2>1, <2>2, PushType DEF ChunkReturns
<1> QED
  BY <1>3, <1>4, <1>5

LEMMA FrameType ==
  ASSUME IInv, (\E as \in SeqOf(Ints, 1) : LuaCallsC(as)) \/ CReturns
  PROVE  TypeOK'
<1>1. TypeOK /\ Ints \subseteq Value
  BY ValueTypes DEF IInv
<1>2. CASE \E as \in SeqOf(Ints, 1) : LuaCallsC(as)
  <2>1. PICK as \in SeqOf(Ints, 1) : LuaCallsC(as)
    BY <1>2
  <2>2. as \in Seq(Value)
    <3>1. Ints \in SUBSET Value /\ 1 \in Nat
      BY <1>1
    <3>2. SeqOf(Ints, 1) \subseteq Seq(Value)
      BY <3>1, SeqOfType
    <3> QED
      BY <2>1, <3>2
  <2>3. depth + 1 \in Frame
    BY <1>1, <2>1, ConstantsAssumption DEF LuaCallsC, TypeOK, Frame
  <2> QED
    BY <1>1, <2>1, <2>2, <2>3 DEF LuaCallsC, TypeOK
<1>3. CASE CReturns
  <2>1. depth - 1 \in Frame
    BY <1>1, <1>3, ConstantsAssumption DEF CReturns, TypeOK, Frame
  <2> QED
    BY <1>1, <1>3, <2>1, ValueTypes DEF CReturns, SetWindow, TypeOK
<1> QED
  BY <1>2, <1>3

LEMMA TypeStep ==
  ASSUME IInv, [Next]_vars
  PROVE  TypeOK'
<1>1. ASSUME NEW c \in Callers, NEW look \in Lookups, Construct(c, look) PROVE TypeOK'
  BY <1>1, ConstructType
<1>2. ASSUME NEW c \in Callers, NEW v \in Ints, Arg(c, v) PROVE TypeOK'
  BY <1>2, ArgType
<1>3. ASSUME NEW c \in Callers, Call(c) PROVE TypeOK'
  BY <1>3, CallType
<1>4. ASSUME NEW c \in Callers, NEW rs \in Results, CallReturns(c, rs) PROVE TypeOK'
  BY <1>4, CallReturnsType
<1>5. ASSUME NEW c \in Callers, NEW checked \in BOOLEAN, GetResult(c, checked)
      PROVE  TypeOK'
  BY <1>5, GetResultType
<1>6. CASE (\E c \in Callers : Destroy(c)) \/ (\E b \in Brackets : EndGetTable(b))
  BY <1>6, DestroyType
<1>7. ASSUME NEW v \in Globals, NEW checked \in BOOLEAN,
             GetGlobalVarible(v, checked) \/ GetTableVarible(v, checked)
      PROVE  TypeOK'
  BY <1>7, VaribleType
<1>8. ASSUME NEW b \in Brackets, NEW v \in Globals,
             BeginGetTable(b, v) \/ BeginGetTableTable(b, v)
      PROVE  TypeOK'
  BY <1>8, VaribleType
<1>9. CASE RunChunk \/ LuaRaises \/ (\E rs \in Results : ChunkReturns(rs))
  BY <1>9, LuaType
<1>10. CASE (\E as \in SeqOf(Ints, 1) : LuaCallsC(as)) \/ CReturns
  BY <1>10, FrameType
<1>11. CASE GenerateLuaError
  BY <1>11, RaiseType DEF GenerateLuaError
<1>12. CASE UNCHANGED vars
  BY <1>12 DEF IInv, TypeOK, vars
<1> QED
  BY <1>1, <1>2, <1>3, <1>4, <1>5, <1>6, <1>7, <1>8, <1>9, <1>10, <1>11, <1>12
     DEF Next

-----------------------------------------------------------------------------
(* The theorems *)

LEMMA Invariance == Spec => []IInv
<1>1. IInv /\ [Next]_vars => IInv'
  BY StructureStep, TypeStep DEF IInv
<1> QED
  BY <1>1, InitIInv, PTL DEF Spec

\* Whatever the host and the Lua code do, every C activation's window holds
\* Lua values only, m_tb and the counts of a caller and its result stay in
\* range, and the lifetimes and pending calls are those of existing objects.
THEOREM TypeCorrect == Spec => []TypeOK
<1>1. IInv => TypeOK
  BY DEF IInv
<1> QED
  BY <1>1, Invariance, PTL

LEMMA ScopesFromIInv == IInv => ScopesIntact
<1> SUFFICES ASSUME IInv, NEW d \in 1 .. depth, NEW x \in LiveIn(d)
             PROVE  /\ tb[x] \in 1 .. Len(stk[d])
                    /\ SetTop(stk[d], tb[x] - 1) = below[x]
                    /\ x \in Callers => stk[d][tb[x]] = Traceback
  BY DEF ScopesIntact
<1>1. d \in Frame
  BY ConstantsAssumption DEF IInv, TypeOK, Frame
<1>2. PICK i \in 1 .. Len(scope[d]) : scope[d][i] = x
  BY DEF LiveIn
<1>3. Laid(stk[d], x, tb, Held, below)
  BY <1>1, <1>2 DEF IInv, Structure, FrameOK, Layout
<1>4. stk[d] \in Seq(Value)
  BY <1>1 DEF IInv, TypeOK
<1> QED
  BY <1>3, <1>4 DEF Laid, SetTop

\* Whatever nested calls, Lua errors, leaked values and raised C errors do,
\* the stack under a live LuaCaller or table bracket is the one it was
\* constructed on, and the caller's message handler is still at m_tb.
THEOREM Scopes == Spec => []ScopesIntact
<1> QED
  BY Invariance, ScopesFromIInv, PTL

LEMMA RestoreStep ==
  ASSUME IInv, [Next]_vars, NEW c \in Callers, Alive(c), ~Alive(c)', depth' = depth
  PROVE  stk'[depth] = below[c]
<1>1. TypeOK /\ c \in Item /\ depth \in Frame /\ depth # depth - 1 /\ depth # depth + 1
  BY CallerType, ConstantsAssumption DEF IInv, TypeOK, Frame
<1>2. tb'[c] = 0 /\ tb[c] # 0 /\ tb' # tb
  BY DEF Alive
<1>3. ~RaiseError
  BY <1>1, <1>2 DEF RaiseError
<1>4. \A x \in Item : ~EnterScope(x)
  <2>1. ASSUME NEW x \in Item, EnterScope(x) PROVE FALSE
    <3>1. tb' = [tb EXCEPT ![x] = Len(Window) + 1] /\ Len(Window) \in Nat
      BY <1>1, <2>1, CallerType DEF EnterScope
    <3> QED
      BY <1>1, <1>2, <3>1 DEF TypeOK
  <2> QED
    BY <2>1
<1>5. ASSUME NEW b \in Brackets, EndGetTable(b) PROVE FALSE
  <2>1. tb' = [x \in Item |-> IF x \in {b} THEN 0 ELSE tb[x]] /\ c # b
    BY <1>5, ConstantsAssumption DEF EndGetTable, LeaveScope, Bury
  <2> QED
    BY <1>1, <1>2, <2>1
<1>6. ASSUME NEW x \in Callers, Destroy(x) PROVE stk'[depth] = below[c]
  <2>1. tb' = [y \in Item |-> IF y \in {x} THEN 0 ELSE tb[y]]
    BY <1>6 DEF Destroy, LeaveScope, Bury
  <2>2. x = c
    BY <1>1, <1>2, <2>1
  <2>3. stk' = [stk EXCEPT ![depth] = SubSeq(Window, 1, tb[c] - 1)] /\ Innermost(c)
    BY <1>6, <2>2 DEF Destroy, SetWindow, SetTop
  <2>4. SubSeq(Window, 1, tb[c] - 1) = below[c]
    BY <1>1, <2>3, InnermostLaid
  <2> QED
    BY <1>1, <2>3, <2>4 DEF TypeOK
<1>7. \E x \in Callers : Destroy(x)
  BY <1>2, <1>3, <1>4, <1>5
     DEF Next, Construct, Arg, Call, CallReturns, GetResult, GetGlobalVarible,
         GetTableVarible, BeginGetTable, BeginGetTableTable, RunChunk, ChunkReturns,
         LuaRaises, LuaCallsC, CReturns, GenerateLuaError, vars, Item
<1> QED
  BY <1>6, <1>7

\* ~LuaCaller cuts the stack back to exactly the values its constructor found,
\* whatever was called, read, leaked or raised in between.
THEOREM DestructorRestores == Spec => CallerRestoresStack
<1>1. IInv /\ [Next]_vars
      => [\A c \in Callers : Alive(c) /\ ~Alive(c)' /\ depth' = depth
            => stk'[depth] = below[c]]_vars
  BY RestoreStep
<1> QED
  BY <1>1, Invariance, PTL DEF Spec, CallerRestoresStack
=============================================================================
