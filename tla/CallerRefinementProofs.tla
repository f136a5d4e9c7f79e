----------------------- MODULE CallerRefinementProofs -----------------------
(***************************************************************************)
(* CallerStack implements ScriptCall: for hosts that call by name, leave   *)
(* nothing on the stack and read while results are left, the slots above   *)
(* m_tb are a call that gathers its arguments, and later a queue of its    *)
(* results, whatever is constructed, called or raised above them.          *)
(***************************************************************************)
EXTENDS CallerCallProofs

\* A live caller is in the scope of a frame that has been entered.
Placed == \A c \in Callers : Alive(c) => \E d \in 1 .. depth : c \in LiveIn(d)

\* What the slots of a caller are, by its history: the function and the
\* arguments, and the results nobody has read.
Meant(c) == IF Alive(c) THEN <<hist[c].found>> \o hist[c].args ELSE << >>
Left(c)  == IF Phase(c) = "done"
            THEN SubSeq(hist[c].ret, Len(hist[c].got) + 1, Len(hist[c].ret))
            ELSE << >>

\* The windows w and s agree up to the height of w; w ends with r above t.
PrefixOf(w, s) == Len(w) <= Len(s) /\ w = SubSeq(s, 1, Len(w))
EndsWith(w, t, r) == Len(w) = t + Len(r) /\ SubSeq(w, t + 1, Len(w)) = r

Mirrors == \A c \in Callers : Given(c) = Meant(c) /\ Queue(c) = Left(c)

-----------------------------------------------------------------------------
(* The stack mirrors the history *)

LEMMA BottomPart ==
  ASSUME NEW s \in Seq(Value), NEW t \in Nat, t <= Len(s)
  PROVE  Len(SubSeq(s, 1, t)) = t /\ SubSeq(s, 1, t) \in Seq(Value)
OBVIOUS

\* What an object finds on top of its window is a prefix of the whole window.
LEMMA UptoPrefix ==
  ASSUME IInv, NEW d \in Frame, NEW i \in 1 .. Len(scope[d])
  PROVE  /\ stk[d] \in Seq(Value) /\ Upto(d, i) \in Seq(Value)
         /\ Len(Upto(d, i)) <= Len(stk[d])
         /\ Upto(d, i) = SubSeq(stk[d], 1, Len(Upto(d, i)))
<1>1. stk[d] \in Seq(Value) /\ scope[d] \in Seq(Item)
  BY DEF IInv, TypeOK
<1>2. CASE i = Len(scope[d])
  BY <1>1, <1>2, SubSeqFull DEF Upto
<1>3. CASE i # Len(scope[d])
  <2> DEFINE x == scope[d][i + 1]
             t == tb[x] - 1
  <2>1. i + 1 \in 1 .. Len(scope[d])
    BY <1>1, <1>3
  <2>2. Laid(stk[d], x, tb, Held, below)
    BY <2>1 DEF IInv, Structure, FrameOK, Layout
  <2>3. Upto(d, i) = below[x]
    BY <1>3 DEF Upto
  <2>6. /\ tb[x] \in Nat \ {0} /\ Held[x] \in Nat /\ Len(stk[d]) \in Nat
        /\ tb[x] <= Held[x] /\ Held[x] <= Len(stk[d])
        /\ SubSeq(stk[d], 1, tb[x] - 1) = below[x]
    BY <1>1, <2>2 DEF Laid
  <2> HIDE DEF x
  <2>4. t \in Nat /\ t <= Len(stk[d]) /\ SubSeq(stk[d], 1, t) = below[x]
    <3>1. tb[x] - 1 \in Nat /\ tb[x] - 1 <= Len(stk[d])
      BY ONLY <2>6
    <3> QED
      BY ONLY <2>6, <3>1
  <2> HIDE DEF t
  <2>5. Len(below[x]) = t /\ below[x] \in Seq(Value)
    <3>1. stk[d] \in Seq(Value)
      BY <1>1
    <3> QED
      BY ONLY <2>4, <3>1, BottomPart
  <2> QED
    BY <1>1, <2>3, <2>4, <2>5
<1> QED
  BY <1>2, <1>3

\* A part of a sequence, which may be empty.
LEMMA PartElements ==
  ASSUME NEW s \in Seq(Value), NEW lo \in Nat \ {0}, NEW hi \in Nat,
         lo <= hi + 1, hi <= Len(s)
  PROVE  /\ SubSeq(s, lo, hi) \in Seq(Value)
         /\ Len(SubSeq(s, lo, hi)) = hi - lo + 1
         /\ \A k \in 1 .. hi - lo + 1 : SubSeq(s, lo, hi)[k] = s[lo + k - 1]
<1>1. lo \in Int /\ hi \in Int /\ Len(s) \in Nat
  OBVIOUS
<1>2. \A k \in lo .. hi : s[k] \in Value
  <2>1. \A k \in lo .. hi : k \in 1 .. Len(s)
    BY <1>1
  <2> QED
    BY <2>1
<1>3. /\ SubSeq(s, lo, hi) \in Seq(Value)
      /\ Len(SubSeq(s, lo, hi)) = IF lo <= hi THEN hi - lo + 1 ELSE 0
      /\ \A k \in 1 .. hi - lo + 1 : SubSeq(s, lo, hi)[k] = s[lo + k - 1]
  BY ONLY <1>1, <1>2, SubSeqProperties
<1>4. (IF lo <= hi THEN hi - lo + 1 ELSE 0) = hi - lo + 1
  BY <1>1
<1> QED
  BY <1>3, <1>4

\* A part of a part of the window.
LEMMA WindowPart ==
  ASSUME NEW s \in Seq(Value), NEW w \in Seq(Value), NEW r \in Seq(Value),
         NEW t \in Nat, PrefixOf(w, s), EndsWith(w, t, r),
         NEW m \in Nat \ {0}, m <= Len(r) + 1
  PROVE  SubSeq(s, t + m, t + Len(r)) = SubSeq(r, m, Len(r))
<1> DEFINE lo == t + m
           hi == t + Len(r)
           a == SubSeq(s, lo, hi)
           b == SubSeq(r, m, Len(r))
           n == Len(r) - m + 1
           from == t + 1
<1>0. /\ Len(w) <= Len(s) /\ w = SubSeq(s, 1, Len(w))
      /\ Len(w) = t + Len(r) /\ from = t + 1 /\ SubSeq(w, from, Len(w)) = r
  BY DEF PrefixOf, EndsWith
<1> HIDE DEF from, a, b
<1>1. /\ Len(r) \in Nat /\ Len(s) \in Nat /\ Len(w) \in Nat
      /\ lo \in Nat \ {0} /\ hi \in Nat /\ hi <= Len(s) /\ lo <= hi + 1
      /\ n \in Nat /\ hi - lo + 1 = n /\ lo = t + m /\ hi = t + Len(r)
  <2>1. Len(r) \in Nat /\ Len(s) \in Nat /\ Len(w) \in Nat
    OBVIOUS
  <2> QED
    BY <1>0, <2>1
<1> HIDE DEF lo, hi
<1>2. /\ a \in Seq(Value) /\ Len(a) = n
      /\ \A k \in 1 .. n : a[k] = s[lo + k - 1]
  <2>1. /\ SubSeq(s, lo, hi) \in Seq(Value)
        /\ Len(SubSeq(s, lo, hi)) = hi - lo + 1
        /\ \A k \in 1 .. hi - lo + 1 : SubSeq(s, lo, hi)[k] = s[lo + k - 1]
    BY ONLY <1>1, s \in Seq(Value), PartElements
  <2> QED
    BY ONLY <1>1, <2>1 DEF a
<1>3. /\ b \in Seq(Value) /\ Len(b) = n
      /\ \A k \in 1 .. n : b[k] = r[m + k - 1]
  <2>1. /\ m \in Nat \ {0} /\ m <= Len(r) + 1 /\ Len(r) - m + 1 = n
        /\ Len(r) <= Len(r)
    BY <1>1
  <2>2. /\ SubSeq(r, m, Len(r)) \in Seq(Value)
        /\ Len(SubSeq(r, m, Len(r))) = Len(r) - m + 1
        /\ \A k \in 1 .. Len(r) - m + 1 : SubSeq(r, m, Len(r))[k] = r[m + k - 1]
    BY ONLY <1>1, <2>1, r \in Seq(Value), PartElements
  <2> QED
    BY ONLY <2>1, <2>2 DEF b
<1>4. /\ \A k \in 1 .. Len(r) : r[k] = w[t + 1 + k - 1]
      /\ \A k \in 1 .. Len(w) : w[k] = s[1 + k - 1]
  <2>1. /\ from \in Nat \ {0} /\ from <= Len(w) + 1 /\ Len(w) - from + 1 = Len(r)
        /\ 1 \in Nat \ {0} /\ 1 <= Len(w) + 1 /\ Len(w) - 1 + 1 = Len(w)
    BY <1>0, <1>1
  <2>2. \A k \in 1 .. Len(w) - from + 1 : SubSeq(w, from, Len(w))[k] = w[from + k - 1]
    BY ONLY <1>1, <2>1, w \in Seq(Value), PartElements
  <2>3. \A k \in 1 .. Len(w) - 1 + 1 : SubSeq(s, 1, Len(w))[k] = s[1 + k - 1]
    BY ONLY <1>1, <2>1, <1>0, s \in Seq(Value), PartElements
  <2> QED
    BY <1>0, <2>1, <2>2, <2>3
<1>5. ASSUME NEW k \in 1 .. n PROVE a[k] = b[k]
  <2>1. m + k - 1 \in 1 .. Len(r)
    BY <1>1
  <2>2. t + 1 + (m + k - 1) - 1 \in 1 .. Len(w)
    BY <1>0, <1>1, <2>1
  <2>3. 1 + (t + 1 + (m + k - 1) - 1) - 1 = lo + k - 1
    BY <1>1
  <2>4. r[m + k - 1] = w[t + 1 + (m + k - 1) - 1]
    BY <1>4, <2>1
  <2>5. w[t + 1 + (m + k - 1) - 1] = s[lo + k - 1]
    BY <1>4, <2>2, <2>3
  <2> QED
    BY <1>2, <1>3, <2>4, <2>5
<1> HIDE DEF n
<1>6. a = b
  BY <1>2, <1>3, <1>5, SeqEqual
<1> QED
  BY <1>6 DEF a, b, lo, hi

\* The function and the arguments, and the results nobody has read.
LEMMA GatheredPart ==
  ASSUME NEW s \in Seq(Value), NEW w \in Seq(Value), NEW t \in Nat,
         NEW r \in CallerState, NEW h \in History, Len(h.args) = r.numArgs,
         PrefixOf(w, s), ByName, Gathered(w, t, r, h)
  PROVE  SubSeq(s, t + 1, t + 1 + r.numArgs) = <<h.found>> \o h.args
<1> DEFINE f == <<h.found>> \o h.args
           n == r.numArgs
           hi == t + 1 + n
<1>1. SubSeq(w, Len(w) - n, Len(w)) = f /\ Len(w) = t + 1 + n
  BY DEF Gathered
<1>2. n \in Nat /\ f \in Seq(Value) /\ Len(f) = 1 + n
  <2>1. h.found \in Value /\ h.args \in Seq(Value) /\ n \in Nat /\ Len(h.args) = n
    BY ValueTypes DEF History, CallerState, Value
  <2> QED
    BY <2>1
<1> HIDE DEF f, n
<1>3. /\ Len(w) = t + Len(f) /\ Len(w) - n = t + 1
      /\ 1 \in Nat \ {0} /\ 1 <= Len(f) + 1 /\ hi = t + Len(f)
  BY <1>1, <1>2
<1> HIDE DEF hi
<1>6. EndsWith(w, t, f)
  BY <1>1, <1>3 DEF EndsWith
<1> DEFINE m == 1
<1>7. m \in Nat \ {0} /\ m <= Len(f) + 1
  BY <1>3
<1> HIDE DEF m
<1>9. f \in Seq(Value)
  BY <1>2
<1>8. SubSeq(s, t + m, t + Len(f)) = SubSeq(f, m, Len(f))
  BY ONLY <1>9, <1>6, <1>7, s \in Seq(Value), w \in Seq(Value), t \in Nat,
          PrefixOf(w, s), WindowPart
<1>4. SubSeq(s, t + 1, t + Len(f)) = SubSeq(f, 1, Len(f))
  BY <1>8 DEF m
<1>5. SubSeq(s, t + 1, hi) = f
  BY <1>2, <1>3, <1>4, SubSeqFull
<1> QED
  BY <1>5 DEF f, n, hi

LEMMA LastResult ==
  ASSUME NEW t \in Nat, NEW n \in Nat, NEW m \in Nat, NEW k, k = m - n
  PROVE  (t + m) - k + 1 = t + (n + 1)
OBVIOUS

LEMMA AnsweredPart ==
  ASSUME NEW s \in Seq(Value), NEW w \in Seq(Value), NEW t \in Nat, NEW h \in History,
         PrefixOf(w, s), Answered(w, t, h), Len(h.got) <= Len(h.ret)
  PROVE  SubSeq(s, t + (Len(h.got) + 1), t + Len(h.ret))
           = SubSeq(h.ret, Len(h.got) + 1, Len(h.ret))
<1> DEFINE r == h.ret
           n == Len(h.got)
           m == n + 1
<1>1. EndsWith(w, t, r)
  BY DEF Answered, EndsWith
<1>2. r \in Seq(Value) /\ Len(r) \in Nat /\ n \in Nat /\ n <= Len(r)
  BY DEF History
<1> HIDE DEF r, n
<1>3. m \in Nat \ {0} /\ m <= Len(r) + 1
  BY ONLY <1>2
<1> HIDE DEF m
<1>4. SubSeq(s, t + m, t + Len(r)) = SubSeq(r, m, Len(r))
  BY <1>1, <1>2, <1>3, WindowPart
<1> QED
  BY <1>4 DEF r, n, m

\* The slots of a live caller.
LEMMA CallerSlots ==
  ASSUME IInv, CInv, Placed, NEW c \in Callers, Alive(c)
  PROVE  \E w \in Seq(Value) :
           /\ stk[FrameOf(c)] \in Seq(Value) /\ PrefixOf(w, stk[FrameOf(c)])
           /\ ~caller[c].called => Gathered(w, tb[c], caller[c], hist[c])
           /\ ByName /\ caller[c].called /\ caller[c].resultSet
                => Answered(w, tb[c], hist[c])
<1> DEFINE d == FrameOf(c)
<1>1. d \in 1 .. depth /\ c \in LiveIn(d)
  BY DEF Placed, FrameOf
<1> HIDE DEF d
<1>2. d \in Frame
  BY <1>1, ConstantsAssumption DEF IInv, TypeOK, Frame
<1>3. PICK i \in 1 .. Len(scope[d]) : scope[d][i] = c
  BY <1>1 DEF LiveIn
<1>4. Slots(d, i) /\ i # 0
  BY <1>2, <1>3 DEF CInv, AllSlots
<1>5. Content(Upto(d, i), c, tb[c], caller[c], hist[c], calling[d] = c)
  BY <1>3, <1>4 DEF Slots
<1>6. /\ ~caller[c].called => Gathered(Upto(d, i), tb[c], caller[c], hist[c])
      /\ ByName /\ caller[c].called /\ caller[c].resultSet
           => Answered(Upto(d, i), tb[c], hist[c])
  BY <1>5 DEF Content
<1> QED
  BY <1>2, <1>6, UptoPrefix DEF d, PrefixOf

LEMMA MirrorsHere == IInv /\ RInv /\ CInv /\ Placed /\ ByName => Mirrors
<1> SUFFICES ASSUME IInv, RInv, CInv, Placed, ByName, NEW c \in Callers
             PROVE  Given(c) = Meant(c) /\ Queue(c) = Left(c)
  BY DEF Mirrors
<1>1. Remembers(c) /\ Passed(c) /\ Counted(c)
  BY DEF RInv, CInv, Told
<1>2. /\ caller[c] \in CallerState /\ hist[c] \in History /\ tb[c] \in Nat
      /\ c \in Item
  BY CallerType DEF IInv, TypeOK, Item
<1>3. CASE ~Alive(c)
  <2>1. Phase(c) = "none" /\ hist[c].passed = << >>
    BY <1>1, <1>3 DEF Phase, Remembers, NoHistory
  <2> QED
    BY <1>3, <2>1 DEF Given, Queue, Meant, Left
<1>4. CASE Alive(c)
  <2> DEFINE s == stk[FrameOf(c)]
             f == <<hist[c].found>> \o hist[c].args
  <2>1. PICK w \in Seq(Value) :
          /\ s \in Seq(Value) /\ PrefixOf(w, s)
          /\ ~caller[c].called => Gathered(w, tb[c], caller[c], hist[c])
          /\ ByName /\ caller[c].called /\ caller[c].resultSet
               => Answered(w, tb[c], hist[c])
    BY <1>4, CallerSlots
  <2>2. Phase(c) = "open" <=> ~caller[c].called
    BY <1>4 DEF Phase
  <2>3. Phase(c) = "done" => caller[c].called /\ caller[c].resultSet
    BY <1>4 DEF Phase
  <2>4. Given(c) = Meant(c)
    <3>1. CASE caller[c].called
      BY <1>1, <1>4, <2>2, <3>1 DEF Given, Meant, Passed
    <3>2. CASE ~caller[c].called
      <4>1. Gathered(w, tb[c], caller[c], hist[c]) /\ Len(hist[c].args) = caller[c].numArgs
        BY <1>1, <2>1, <3>2 DEF Remembers
      <4>2. SubSeq(s, tb[c] + 1, tb[c] + 1 + caller[c].numArgs) = f
        BY <1>2, <2>1, <4>1, GatheredPart
      <4> QED
        BY <1>4, <2>2, <3>2, <4>2 DEF Given, Meant
    <3> QED
      BY <3>1, <3>2
  <2>5. Queue(c) = Left(c)
    <3>1. CASE Phase(c) # "done"
      BY <3>1 DEF Queue, Left
    <3>2. CASE Phase(c) = "done"
      <4> DEFINE last == tb[c] + Len(hist[c].ret)
      <4>1. Answered(w, tb[c], hist[c])
        BY <2>1, <2>3, <3>2
      <4>2. /\ Len(hist[c].got) <= Len(hist[c].ret)
            /\ caller[c].resultCount = Len(hist[c].ret) - Len(hist[c].got)
        BY <1>1, <2>3, <3>2 DEF Counted
      <4>3. SubSeq(s, tb[c] + (Len(hist[c].got) + 1), last)
              = SubSeq(hist[c].ret, Len(hist[c].got) + 1, Len(hist[c].ret))
        BY <1>2, <2>1, <4>1, <4>2, AnsweredPart
      <4> DEFINE t == tb[c]
                 n == Len(hist[c].got)
                 m == Len(hist[c].ret)
                 k == caller[c].resultCount
      <4>6. t \in Nat /\ n \in Nat /\ m \in Nat /\ k = m - n
        BY <1>2, <4>2 DEF History
      <4> HIDE DEF t, n, m, k
      <4>7. (t + m) - k + 1 = t + (n + 1)
        BY ONLY <4>6, LastResult
      <4>4. (tb[c] + Len(hist[c].ret)) - caller[c].resultCount + 1
              = tb[c] + (Len(hist[c].got) + 1)
        BY ONLY <4>7 DEF t, n, m, k
      <4>5. Queue(c) = SubSeq(s, (tb[c] + Len(hist[c].ret)) - caller[c].resultCount + 1, last)
        BY ONLY <3>2 DEF Queue, last, s
      <4> QED
        BY ONLY <3>2, <4>3, <4>4, <4>5 DEF Left, last, s
    <3> QED
      BY <3>1, <3>2
  <2> QED
    BY <2>4, <2>5
<1> QED
  BY <1>3, <1>4

-----------------------------------------------------------------------------
(* Live callers are in scope *)

LEMMA PlacedKept ==
  ASSUME Placed, scope' = scope, depth' = depth, \A c \in Callers : tb'[c] = tb[c]
  PROVE  Placed'
BY DEF Placed, Alive, LiveIn

LEMMA PlacedEnter ==
  ASSUME TypeOK, Placed, NEW x \in Item, EnterScope(x), depth' = depth
  PROVE  Placed'
<1>1. /\ depth \in Frame /\ depth \in 1 .. depth /\ scope[depth] \in Seq(Item)
      /\ scope' = [scope EXCEPT ![depth] = Append(scope[depth], x)]
      /\ tb' = [tb EXCEPT ![x] = Len(Window) + 1]
  <2>1. depth \in Frame /\ scope[depth] \in Seq(Item)
    BY DEF TypeOK
  <2>2. depth \in 1 .. depth
    BY <2>1 DEF Frame
  <2> QED
    BY <2>1, <2>2 DEF EnterScope
<1>2. ASSUME NEW c \in Callers, Alive(c)' PROVE \E d \in 1 .. depth : c \in LiveIn(d)'
  <2>1. CASE c = x
    <3> DEFINE n == Len(scope[depth]) + 1
    <3>1. n \in 1 .. Len(scope'[depth]) /\ scope'[depth][n] = x
      BY <1>1 DEF TypeOK
    <3>2. x \in LiveIn(depth)'
      BY <3>1, <1>2 DEF LiveIn
    <3> QED
      BY <1>1, <2>1, <3>2
  <2>2. CASE c # x
    <3>1. tb'[c] = tb[c]
      BY <1>1, <2>2, CallerType DEF TypeOK
    <3>2. PICK d \in 1 .. depth : c \in LiveIn(d)
      BY <1>2, <3>1 DEF Placed, Alive
    <3>3. PICK i \in 1 .. Len(scope[d]) : scope[d][i] = c
      BY <3>2 DEF LiveIn
    <3>4. i \in 1 .. Len(scope'[d]) /\ scope'[d][i] = c
      <4>1. CASE d = depth
        <5>1. scope'[d] = Append(scope[d], x) /\ scope[d] \in Seq(Item)
          BY <1>1, <4>1 DEF TypeOK
        <5> QED
          BY <3>3, <5>1
      <4>2. CASE d # depth
        BY <1>1, <3>3, <4>2 DEF TypeOK
      <4> QED
        BY <4>1, <4>2
    <3>5. c \in LiveIn(d)'
      BY <3>4 DEF LiveIn
    <3> QED
      BY <3>5
  <2> QED
    BY <2>1, <2>2
<1> QED
  BY <1>2 DEF Placed

\* The objects that are not buried stay where they are.
LEMMA PlacedBury ==
  ASSUME IInv, Placed, NEW X, Bury(X),
         \A d \in 1 .. depth : \A i \in 1 .. Len(scope[d]) : scope[d][i] \notin X
           => d <= depth' /\ i \in 1 .. Len(scope'[d]) /\ scope'[d][i] = scope[d][i]
  PROVE  Placed'
<1>1. ASSUME NEW c \in Callers, Alive(c)' PROVE \E d \in 1 .. depth' : c \in LiveIn(d)'
  <2>1. c \in Item /\ tb' = [x \in Item |-> IF x \in X THEN 0 ELSE tb[x]]
    BY DEF Bury, Item
  <2>2. c \notin X /\ tb'[c] = tb[c]
    BY <1>1, <2>1 DEF Alive
  <2>3. PICK d \in 1 .. depth : c \in LiveIn(d)
    BY <1>1, <2>2 DEF Placed, Alive
  <2>4. PICK i \in 1 .. Len(scope[d]) : scope[d][i] = c
    BY <2>3 DEF LiveIn
  <2>5. d <= depth' /\ i \in 1 .. Len(scope'[d]) /\ scope'[d][i] = c
    BY <2>2, <2>4
  <2>6. c \in LiveIn(d)'
    BY <2>5 DEF LiveIn
  <2>7. d \in 1 .. depth'
    <3>1. d \in Int /\ 1 <= d
      BY DEF IInv, TypeOK, Frame
    <3> QED
      BY <2>5, <3>1
  <2> QED
    BY <2>6, <2>7
<1> QED
  BY <1>1 DEF Placed

LEMMA PlacedLeave ==
  ASSUME IInv, Placed, NEW x \in Item, Innermost(x), LeaveScope(x), depth' = depth
  PROVE  Placed'
<1> DEFINE n == Len(scope[depth])
<1>1. n \in Nat \ {0} /\ scope[depth][n] = x /\ depth \in Frame /\ TypeOK
  BY InnermostPlace DEF IInv, TypeOK
<1>2. scope' = [scope EXCEPT ![depth] = SubSeq(scope[depth], 1, n - 1)] /\ Bury({x})
  BY DEF LeaveScope, Pop, SetTop
<1>3. ASSUME NEW d \in 1 .. depth, NEW i \in 1 .. Len(scope[d]), scope[d][i] \notin {x}
      PROVE  d <= depth' /\ i \in 1 .. Len(scope'[d]) /\ scope'[d][i] = scope[d][i]
  <2>1. d <= depth'
    BY <1>1 DEF Frame
  <2>2. CASE d # depth
    BY <1>1, <1>2, <2>1, <2>2 DEF TypeOK
  <2>3. CASE d = depth
    <3>1. i # n /\ scope[depth] \in Seq(Item)
      BY <1>1, <1>3, <2>3 DEF TypeOK
    <3>2. i \in 1 .. n - 1 /\ n - 1 \in 0 .. n
      BY <1>1, <2>3, <3>1
    <3>3. scope'[d] = SubSeq(scope[depth], 1, n - 1)
      BY <1>1, <1>2, <2>3 DEF TypeOK
    <3>4. /\ Len(SubSeq(scope[depth], 1, n - 1)) = n - 1
          /\ SubSeq(scope[depth], 1, n - 1)[i] = scope[depth][i]
      BY <3>1, <3>2
    <3> QED
      BY <2>1, <2>3, <3>2, <3>3, <3>4
  <2> QED
    BY <2>2, <2>3
<1> QED
  BY <1>2, <1>3, PlacedBury

LEMMA PlacedRaise ==
  ASSUME IInv, Placed, RaiseError
  PROVE  Placed'
<1>1. CASE depth = 1
  BY <1>1, PlacedKept DEF RaiseError
<1>2. CASE depth # 1
  <2>1. /\ depth' = depth - 1 /\ scope' = [scope EXCEPT ![depth] = << >>]
        /\ Bury(LiveIn(depth)) /\ depth \in Frame /\ scope \in [Frame -> Seq(Item)]
    BY <1>2 DEF RaiseError, IInv, TypeOK
  <2>2. ASSUME NEW d \in 1 .. depth, NEW i \in 1 .. Len(scope[d]),
               scope[d][i] \notin LiveIn(depth)
        PROVE  d <= depth' /\ i \in 1 .. Len(scope'[d]) /\ scope'[d][i] = scope[d][i]
    <3>1. d # depth
      BY <2>2 DEF LiveIn
    <3>2. d <= depth' /\ scope'[d] = scope[d]
      BY <2>1, <3>1 DEF Frame
    <3> QED
      BY <3>2
  <2> QED
    BY <2>1, <2>2, PlacedBury
<1> QED
  BY <1>1, <1>2

LEMMA PlacedFrame ==
  ASSUME IInv, Placed, CReturns \/ \E as : LuaCallsC(as)
  PROVE  Placed'
<1>1. scope' = scope /\ tb' = tb /\ depth \in Nat
  BY DEF CReturns, LuaCallsC, IInv, TypeOK, Frame
<1>2. ASSUME NEW d \in 1 .. depth, scope[d] # << >> PROVE d \in 1 .. depth'
  <2>1. \/ depth' = depth - 1 /\ scope[depth] = << >>
        \/ depth' = depth + 1
    BY DEF CReturns, LuaCallsC
  <2> QED
    BY <1>1, <1>2, <2>1
<1>3. \A d \in 1 .. depth : \A x \in LiveIn(d) : scope[d] # << >>
  BY DEF LiveIn
<1> QED
  BY <1>1, <1>2, <1>3 DEF Placed, Alive, LiveIn

LEMMA PlacedStep ==
  ASSUME IInv, Placed, [Next]_vars
  PROVE  Placed'
<1>1. ASSUME NEW c \in Callers, NEW look \in Lookups, Construct(c, look) PROVE Placed'
  BY <1>1, PlacedEnter DEF Construct, IInv, Item
<1>2. ASSUME NEW c \in Callers, Destroy(c) PROVE Placed'
  BY <1>2, PlacedLeave DEF Destroy, Item
<1>3. ASSUME NEW b \in Brackets, EndGetTable(b) PROVE Placed'
  BY <1>3, PlacedLeave DEF EndGetTable, Item
<1>4. CASE RaiseError
  BY <1>4, PlacedRaise
<1>5. CASE scope' = scope /\ depth' = depth /\ tb' = tb
  BY <1>5, PlacedKept
<1>6. ASSUME NEW b \in Brackets, NEW v \in Globals,
             BeginGetTable(b, v) \/ BeginGetTableTable(b, v)
      PROVE  Placed'
  BY <1>4, <1>6, PlacedEnter DEF BeginGetTable, BeginGetTableTable, IInv, Item
<1>7. CASE CReturns \/ \E as \in SeqOf(Ints, 1) : LuaCallsC(as)
  BY <1>7, PlacedFrame
<1>8. ASSUME NEW c \in Callers,
             \/ \E v \in Ints : Arg(c, v)
             \/ Call(c)
             \/ \E rs \in Results : CallReturns(c, rs)
             \/ \E checked \in BOOLEAN : GetResult(c, checked)
      PROVE  Placed'
  BY <1>4, <1>5, <1>8 DEF Arg, Call, CallReturns, GetResult
<1>9. ASSUME NEW v \in Globals, NEW checked \in BOOLEAN,
             GetGlobalVarible(v, checked) \/ GetTableVarible(v, checked)
      PROVE  Placed'
  BY <1>4, <1>5, <1>9 DEF GetGlobalVarible, GetTableVarible, vars
<1>10. CASE \/ RunChunk \/ LuaRaises \/ GenerateLuaError \/ UNCHANGED vars
            \/ \E rs \in Results : ChunkReturns(rs)
  BY <1>4, <1>5, <1>10 DEF RunChunk, LuaRaises, GenerateLuaError, ChunkReturns, vars
<1> QED
  BY <1>1, <1>2, <1>3, <1>6, <1>7, <1>8, <1>9, <1>10 DEF Next

LEMMA InitPlaced == Init => Placed
BY DEF Init, Placed, Alive, Item

-----------------------------------------------------------------------------
(* Steps of ScriptCall *)

\* Nothing changes for c.
Still(c) ==
  /\ Phase(c)' = Phase(c) /\ Meant(c)' = Meant(c)
  /\ Left(c)' = Left(c) /\ hist'[c].got = hist[c].got

Running(c) == \E d \in Frame : calling[d] = c

LEMMA StillSame ==
  ASSUME NEW c \in Callers, tb'[c] = tb[c], caller'[c] = caller[c], hist'[c] = hist[c],
         Running(c)' <=> Running(c)
  PROVE  Still(c)
<1>1. Phase(c)' = Phase(c)
  BY DEF Phase, Running, Alive
<1> QED
  BY <1>1 DEF Still, Meant, Left, Alive

LEMMA Stutter ==
  ASSUME Mirrors, Mirrors', \A c \in Callers : Still(c)
  PROVE  [SC!Next]_(SC!vars)
<1>1. /\ [c \in Callers |-> Phase(c)]' = [c \in Callers |-> Phase(c)]
      /\ [c \in Callers |-> Given(c)]' = [c \in Callers |-> Given(c)]
      /\ [c \in Callers |-> Queue(c)]' = [c \in Callers |-> Queue(c)]
      /\ [c \in Callers |-> hist[c].got]' = [c \in Callers |-> hist[c].got]
  BY DEF Mirrors, Still
<1> QED
  BY <1>1 DEF SC!vars

LEMMA OpenStep ==
  ASSUME Mirrors, Mirrors', NEW c \in Callers, NEW f \in Value,
         Phase(c) = "none", Phase(c)' = "open", Meant(c)' = <<f>>, Left(c)' = Left(c),
         hist'[c].got = hist[c].got, \A x \in Callers : x # c => Still(x)
  PROVE  SC!Next
<1>1. SC!Open(c, f)
  BY DEF SC!Open, Mirrors, Still
<1> QED
  BY <1>1 DEF SC!Next

LEMMA GiveStep ==
  ASSUME Mirrors, Mirrors', NEW c \in Callers, NEW v \in Value,
         Phase(c) = "open", Phase(c)' = Phase(c), Meant(c)' = Append(Meant(c), v),
         Left(c)' = Left(c), hist'[c].got = hist[c].got,
         \A x \in Callers : x # c => Still(x)
  PROVE  SC!Next
<1>1. SC!Give(c, v)
  BY DEF SC!Give, Mirrors, Still
<1> QED
  BY <1>1 DEF SC!Next

LEMMA StartStep ==
  ASSUME Mirrors, Mirrors', NEW c \in Callers,
         Phase(c) = "open", Phase(c)' = "running", Meant(c)' = Meant(c),
         Left(c)' = Left(c), hist'[c].got = hist[c].got,
         \A x \in Callers : x # c => Still(x)
  PROVE  SC!Next
<1>1. SC!Start(c)
  BY DEF SC!Start, Mirrors, Still
<1> QED
  BY <1>1 DEF SC!Next

LEMMA ReturnStep ==
  ASSUME Mirrors, Mirrors', NEW c \in Callers,
         Phase(c) = "running", Phase(c)' = "done", Meant(c)' = Meant(c),
         Left(c)' \in Seq(Value), hist'[c].got = hist[c].got,
         \A x \in Callers : x # c => Still(x)
  PROVE  SC!Next
<1>1. SC!Return(c)
  BY DEF SC!Return, Mirrors, Still
<1> QED
  BY <1>1 DEF SC!Next

LEMMA TakeStep ==
  ASSUME Mirrors, Mirrors', NEW c \in Callers,
         Phase(c) = "done", Phase(c)' = Phase(c), Meant(c)' = Meant(c),
         Left(c) # << >>, Left(c)' = Tail(Left(c)),
         hist'[c].got = Append(hist[c].got, Head(Left(c))),
         \A x \in Callers : x # c => Still(x)
  PROVE  SC!Next
<1>1. SC!Take(c)
  BY DEF SC!Take, Mirrors, Still
<1> QED
  BY <1>1 DEF SC!Next

LEMMA EndStep ==
  ASSUME Mirrors, Mirrors', NEW gone \in SUBSET Callers, NEW failed \in SUBSET Callers,
         \A c \in gone : /\ Phase(c) # "none" /\ Phase(c)' = "none"
                         /\ Meant(c)' = << >> /\ Left(c)' = << >> /\ hist'[c].got = << >>,
         \A c \in failed : /\ Phase(c) \in {"open", "running"}
                           /\ c \notin gone => /\ Phase(c)' = "failed" /\ Left(c)' = Left(c)
                                               /\ Meant(c)' = Meant(c)
                                               /\ hist'[c].got = hist[c].got,
         \A c \in Callers : c \notin gone /\ c \notin failed => Still(c)
  PROVE  SC!Next
<1>1. /\ \A c \in gone : Phase(c) # "none"
      /\ \A c \in failed : Phase(c) \in {"open", "running"}
  OBVIOUS
<1>2. ASSUME NEW c \in Callers
      PROVE  /\ Phase(c)' = (IF c \in gone THEN "none"
                             ELSE IF c \in failed THEN "failed" ELSE Phase(c))
             /\ Given(c)' = (IF c \in gone THEN << >> ELSE Given(c))
             /\ Queue(c)' = (IF c \in gone THEN << >> ELSE Queue(c))
             /\ hist'[c].got = (IF c \in gone THEN << >> ELSE hist[c].got)
  BY DEF Mirrors, Still
<1>3. SC!End(gone, failed)
  BY <1>1, <1>2 DEF SC!End
<1> QED
  BY <1>3 DEF SC!Next

-----------------------------------------------------------------------------
(* Every step of the stack is a step of ScriptCall or leaves it unchanged *)

RefInv == IInv /\ RInv /\ CInv /\ Placed /\ Mirrors

\* A caller runs in one frame.
LEMMA RunsOnce ==
  ASSUME IInv, NEW d \in Frame, NEW e \in Frame,
         calling[d] \in Callers, calling[e] = calling[d]
  PROVE  d = e
<1>1. /\ Len(scope[d]) \in 1 .. Len(scope[d]) /\ Len(scope[e]) \in 1 .. Len(scope[e])
      /\ scope[d][Len(scope[d])] = scope[e][Len(scope[e])]
  BY RunningInnermost
<1>2. Distinct
  BY DEF IInv, Structure
<1> QED
  BY ONLY <1>1, <1>2, d \in Frame, e \in Frame DEF Distinct

\* A running caller has called and has no results.
LEMMA RunningPhase ==
  ASSUME IInv, CInv, NEW c \in Callers
  PROVE  /\ Running(c) => /\ Phase(c) = "running" /\ Alive(c)
                          /\ caller[c].called /\ ~caller[c].resultSet
         /\ ~Running(c) /\ Alive(c) /\ caller[c].called /\ caller[c].resultSet
              => Phase(c) = "done"
         /\ Alive(c) /\ ~caller[c].called => Phase(c) = "open" /\ ~Running(c)
         /\ ~Alive(c) <=> Phase(c) = "none"
<1>1. ASSUME Running(c)
      PROVE  Alive(c) /\ caller[c].called /\ ~caller[c].resultSet
  <2>1. PICK d \in Frame : calling[d] = c
    BY <1>1 DEF Running
  <2>2. caller[c].called /\ tb[c] \in 1 .. Len(stk[d]) /\ stk[d] \in Seq(Value)
    BY <2>1, RunningInnermost DEF IInv, TypeOK
  <2>3. Alive(c)
    BY <2>2 DEF Alive
  <2> QED
    BY <2>1, <2>2, <2>3 DEF CInv, Suspended
<1> QED
  BY <1>1 DEF Phase, Running

\* A step in which no other frame or caller takes part.
LEMMA StillOthers ==
  ASSUME IInv, NEW c \in Callers, tb' = tb,
         \A x \in Callers : x # c => caller'[x] = caller[x] /\ hist'[x] = hist[x],
         \A d \in Frame : d # depth => calling'[d] = calling[d],
         calling[depth] \in Callers => calling[depth] = c,
         calling'[depth] \in Callers => calling'[depth] = c
  PROVE  \A x \in Callers : x # c => Still(x)
<1>1. ASSUME NEW x \in Callers, x # c PROVE Running(x)' <=> Running(x)
  <2>1. \A d \in Frame : calling'[d] = x <=> calling[d] = x
    BY <1>1
  <2> QED
    BY <2>1 DEF Running
<1> QED
  BY <1>1, StillSame

LEMMA ConstructRefines ==
  ASSUME RefInv, Mirrors', NEW c \in Callers, NEW look \in Lookups, Construct(c, look)
  PROVE  SC!Next
<1>1. /\ IInv /\ RInv /\ CInv /\ Mirrors /\ TypeOK /\ depth \in Frame
      /\ Remembers(c) /\ Len(Window) \in Nat
  BY CallerType DEF RefInv, RInv, IInv
<1>2. /\ ~Alive(c) /\ calling' = calling /\ TopOf(look) \in Value
      /\ tb' = [tb EXCEPT ![c] = Len(Window) + 1]
      /\ caller' = [caller EXCEPT ![c] = NewCaller]
      /\ hist' = [hist EXCEPT ![c] = [NoHistory EXCEPT !.found = TopOf(look)]]
  BY LookupType DEF Construct, EnterScope
<1>3. /\ tb'[c] = Len(Window) + 1 /\ caller'[c] = NewCaller
      /\ hist'[c] = [NoHistory EXCEPT !.found = TopOf(look)]
      /\ \A x \in Callers : x # c => /\ tb'[x] = tb[x] /\ caller'[x] = caller[x]
                                     /\ hist'[x] = hist[x]
  BY <1>1, <1>2 DEF TypeOK, Item
<1>4. /\ hist'[c].found = TopOf(look) /\ hist'[c].args = << >> /\ hist'[c].got = << >>
      /\ hist[c].got = << >> /\ ~caller'[c].called
  BY <1>1, <1>2, <1>3 DEF Remembers, NoHistory, NewCaller
<1>5. Phase(c) = "none" /\ Alive(c)' /\ Phase(c)' = "open"
  BY <1>1, <1>2, <1>3, <1>4 DEF Phase, Alive
<1>6. <<TopOf(look)>> \o << >> = <<TopOf(look)>>
  BY <1>2
<1>7. Meant(c)' = <<TopOf(look)>> /\ Left(c)' = Left(c)
  BY <1>4, <1>5, <1>6 DEF Meant, Left
<1>8. \A x \in Callers : x # c => Still(x)
  BY <1>2, <1>3, StillSame DEF Running
<1> QED
  BY <1>1, <1>2, <1>4, <1>5, <1>7, <1>8, OpenStep

LEMMA InnermostAlive ==
  ASSUME IInv, NEW x \in Item, Innermost(x)
  PROVE  Alive(x)
BY InnermostLaid DEF Alive

LEMMA ArgRefines ==
  ASSUME RefInv, Mirrors', NEW c \in Callers, NEW v \in Ints, Arg(c, v)
  PROVE  SC!Next
<1> DEFINE r == [caller[c] EXCEPT !.numArgs = @ + 1]
           h == [hist[c] EXCEPT !.args = Append(@, v)]
<1>1. /\ IInv /\ RInv /\ CInv /\ Mirrors /\ TypeOK /\ depth \in Frame /\ c \in Item
      /\ caller[c] \in CallerState /\ hist[c] \in History /\ v \in Value
  BY CallerType, ValueTypes DEF RefInv, IInv
<1>2. /\ Innermost(c) /\ ~caller[c].called /\ tb' = tb /\ calling' = calling
      /\ calling[depth] = None /\ None \notin Callers
      /\ caller' = [caller EXCEPT ![c] = r] /\ hist' = [hist EXCEPT ![c] = h]
  BY ConstantsAssumption DEF Arg, HostRuns
<1>3. /\ r.called = caller[c].called /\ h.found = hist[c].found
      /\ h.args = Append(hist[c].args, v) /\ h.got = hist[c].got
  BY <1>1 DEF CallerState, History
<1> HIDE DEF r, h
<1>4. /\ caller'[c] = r /\ hist'[c] = h
      /\ \A x \in Callers : x # c => caller'[x] = caller[x] /\ hist'[x] = hist[x]
  BY <1>1, <1>2 DEF TypeOK
<1>5. Alive(c) /\ Alive(c)'
  BY <1>1, <1>2, InnermostAlive DEF Alive
<1>6. Phase(c) = "open" /\ Phase(c)' = "open"
  BY <1>2, <1>3, <1>4, <1>5 DEF Phase
<1>7. Append(<<hist[c].found>> \o hist[c].args, v)
        = <<hist[c].found>> \o Append(hist[c].args, v)
  <2>1. hist[c].found \in Value /\ hist[c].args \in Seq(Value)
    BY <1>1, ValueTypes DEF History, Value
  <2> QED
    BY <1>1, <2>1, AppendBehind
<1>8. Meant(c)' = Append(Meant(c), v) /\ Left(c)' = Left(c)
  BY <1>3, <1>4, <1>5, <1>6, <1>7 DEF Meant, Left
<1>9. \A x \in Callers : x # c => Still(x)
  BY <1>1, <1>2, <1>4, StillOthers
<1> QED
  BY <1>1, <1>3, <1>4, <1>6, <1>8, <1>9, GiveStep

LEMMA CallRefines ==
  ASSUME RefInv, Mirrors', NEW c \in Callers, Call(c)
  PROVE  [SC!Next]_(SC!vars)
<1>1. /\ IInv /\ RInv /\ CInv /\ Mirrors /\ TypeOK /\ depth \in Frame /\ c \in Item
      /\ caller[c] \in CallerState /\ hist[c] \in History /\ Remembers(c)
  BY CallerType DEF RefInv, IInv, RInv
<1>2. /\ Innermost(c) /\ tb' = tb /\ calling[depth] = None /\ None \notin Callers
      /\ Alive(c)
  BY <1>1, ConstantsAssumption, InnermostAlive DEF Call, HostRuns
<1>3. CASE caller[c].called
  <2>1. calling' = calling /\ caller' = caller /\ hist' = hist
    BY <1>3 DEF Call
  <2>2. \A x \in Callers : Still(x)
    BY <1>2, <2>1, StillSame DEF Running
  <2> QED
    BY <1>1, <2>2, Stutter
<1>4. CASE ~caller[c].called
  <2> DEFINE r == [caller[c] EXCEPT !.called = TRUE]
             h == [hist[c] EXCEPT !.passed
                                = SubSeq(Window, FunctionSlot(c), Len(Window))]
  <2>1. /\ caller' = [caller EXCEPT ![c] = r] /\ hist' = [hist EXCEPT ![c] = h]
        /\ calling' = calling \/ calling' = [calling EXCEPT ![depth] = c]
    BY <1>4 DEF Call
  <2>2. /\ r.called = TRUE /\ r.resultSet = caller[c].resultSet
        /\ h.found = hist[c].found /\ h.args = hist[c].args /\ h.got = hist[c].got
    BY <1>1 DEF CallerState, History
  <2> HIDE DEF r, h
  <2>3. /\ caller'[c] = r /\ hist'[c] = h
        /\ \A x \in Callers : x # c => caller'[x] = caller[x] /\ hist'[x] = hist[x]
        /\ \A d \in Frame : d # depth => calling'[d] = calling[d]
        /\ calling'[depth] \in Callers => calling'[depth] = c
    BY <1>1, <1>2, <2>1 DEF TypeOK
  <2>4. \A x \in Callers : x # c => Still(x)
    BY <1>1, <1>2, <2>3, StillOthers
  <2>5. Phase(c) = "open" /\ ~Running(c) /\ ~caller[c].resultSet
    BY <1>1, <1>2, <1>4, RunningPhase DEF Remembers
  <2>6. Meant(c)' = Meant(c) /\ hist'[c].got = hist[c].got
    BY <1>2, <2>2, <2>3 DEF Meant, Alive
  <2>7. CASE calling' = [calling EXCEPT ![depth] = c]
    <3>1. calling'[depth] = c
      BY <1>1, <2>7 DEF TypeOK
    <3>2. Phase(c)' = "running"
      BY <1>1, <1>2, <2>2, <2>3, <3>1 DEF Phase, Alive
    <3>3. Left(c)' = Left(c)
      BY <2>5, <3>2 DEF Left
    <3> QED
      BY <1>1, <2>4, <2>5, <2>6, <3>2, <3>3, StartStep
  <2>8. CASE calling' = calling
    <3>1. Phase(c)' = "failed"
      BY <1>2, <2>2, <2>3, <2>5, <2>8 DEF Phase, Alive, Running
    <3>2. Left(c)' = Left(c)
      BY <2>5, <3>1 DEF Left
    <3> QED
      BY <1>1, <2>4, <2>5, <2>6, <3>1, <3>2, {} \in SUBSET Callers,
         {c} \in SUBSET Callers, EndStep
  <2> QED
    BY <2>1, <2>7, <2>8
<1> QED
  BY <1>3, <1>4

LEMMA ReturnsRefines ==
  ASSUME RefInv, Mirrors', NEW c \in Callers, NEW rs \in Results, CallReturns(c, rs)
  PROVE  SC!Next
<1> DEFINE r == Ready(c, Len(Window) + Len(rs))
           h == [hist[c] EXCEPT !.ret = rs]
<1>1. /\ IInv /\ RInv /\ CInv /\ Mirrors /\ TypeOK /\ depth \in Frame /\ c \in Item
      /\ caller[c] \in CallerState /\ hist[c] \in History /\ Remembers(c)
      /\ rs \in Seq(Value)
  BY CallerType, ResultsType DEF RefInv, IInv, RInv
<1>2. /\ calling[depth] = c /\ tb' = tb /\ calling' = [calling EXCEPT ![depth] = None]
      /\ None \notin Callers
      /\ caller' = [caller EXCEPT ![c] = r] /\ hist' = [hist EXCEPT ![c] = h]
  BY ConstantsAssumption DEF CallReturns
<1>3. /\ r.called = caller[c].called /\ r.resultSet = TRUE
      /\ h.found = hist[c].found /\ h.args = hist[c].args /\ h.got = hist[c].got
      /\ h.ret = rs
  BY <1>1 DEF CallerState, History, Ready
<1> HIDE DEF r, h
<1>4. /\ caller'[c] = r /\ hist'[c] = h
      /\ \A x \in Callers : x # c => caller'[x] = caller[x] /\ hist'[x] = hist[x]
      /\ \A d \in Frame : d # depth => calling'[d] = calling[d]
      /\ calling'[depth] = None
  BY <1>1, <1>2 DEF TypeOK
<1>5. \A x \in Callers : x # c => Still(x)
  BY <1>1, <1>2, <1>4, StillOthers
<1>6. Running(c)
  BY <1>1, <1>2 DEF Running
<1>7. Phase(c) = "running" /\ Alive(c) /\ caller[c].called /\ ~caller[c].resultSet
  BY <1>1, <1>6, RunningPhase
<1>8. \A d \in Frame : calling'[d] # c
  <2>1. \A d \in Frame : d # depth => calling[d] # c
    BY <1>1, <1>2, RunsOnce
  <2> QED
    BY <1>2, <1>4, <2>1
<1>9. Phase(c)' = "done"
  BY <1>2, <1>3, <1>4, <1>7, <1>8 DEF Phase, Alive
<1>10. Meant(c)' = Meant(c) /\ hist'[c].got = hist[c].got
  BY <1>2, <1>3, <1>4 DEF Meant, Alive
<1>11. Left(c)' \in Seq(Value)
  <2>1. hist'[c].got = << >> /\ hist'[c].ret = rs
    BY <1>1, <1>3, <1>4, <1>7 DEF Remembers
  <2>2. Left(c)' = SubSeq(rs, Len(<< >>) + 1, Len(rs))
    BY <1>9, <2>1 DEF Left
  <2>3. Len(<< >>) + 1 = 1 /\ SubSeq(rs, 1, Len(rs)) = rs
    BY <1>1, SubSeqFull
  <2> QED
    BY <1>1, <2>2, <2>3
<1> QED
  BY <1>1, <1>5, <1>7, <1>9, <1>10, <1>11, ReturnStep

\* The callers X end, and the caller who, if it runs, fails.
LEMMA BuryRefines ==
  ASSUME RefInv, Mirrors', NEW X, Bury(X),
         \A x \in X : x \in Callers => Alive(x),
         NEW who, \A c \in Callers : c # who => (Running(c)' <=> Running(c)),
         who \in Callers => Running(who) /\ ~Running(who)' /\ who \notin X
  PROVE  SC!Next
<1> DEFINE gone == X \cap Callers
           failed == {who} \cap Callers
<1>1. IInv /\ RInv /\ CInv /\ Mirrors /\ gone \in SUBSET Callers /\ failed \in SUBSET Callers
  BY DEF RefInv
<1>2. /\ \A c \in gone : tb'[c] = 0 /\ caller'[c] = NewCaller /\ hist'[c] = NoHistory
      /\ \A c \in Callers : c \notin X => /\ tb'[c] = tb[c] /\ caller'[c] = caller[c]
                                          /\ hist'[c] = hist[c]
  BY DEF Bury, Item
<1>3. ASSUME NEW c \in gone
      PROVE  /\ Phase(c) # "none" /\ Phase(c)' = "none"
             /\ Meant(c)' = << >> /\ Left(c)' = << >> /\ hist'[c].got = << >>
  <2>1. Alive(c) /\ ~Alive(c)' /\ hist'[c].got = << >> /\ c \in Callers
    BY <1>2, <1>3 DEF Alive, NoHistory
  <2>2. Phase(c) # "none" /\ Phase(c)' = "none"
    BY <1>1, <2>1, RunningPhase DEF Phase
  <2> QED
    BY <2>1, <2>2 DEF Meant, Left
<1>4. ASSUME NEW c \in failed
      PROVE  /\ Phase(c) \in {"open", "running"}
             /\ c \notin gone => /\ Phase(c)' = "failed" /\ Left(c)' = Left(c)
                                 /\ Meant(c)' = Meant(c) /\ hist'[c].got = hist[c].got
  <2>1. /\ c = who /\ c \in Callers /\ Running(c) /\ ~Running(c)' /\ c \notin X
        /\ tb'[c] = tb[c] /\ caller'[c] = caller[c] /\ hist'[c] = hist[c]
    BY <1>2, <1>4
  <2>2. Phase(c) = "running" /\ Alive(c) /\ caller[c].called /\ ~caller[c].resultSet
    BY <1>1, <2>1, RunningPhase
  <2>3. Phase(c)' = "failed"
    BY <2>1, <2>2 DEF Phase, Running, Alive
  <2>4. Left(c)' = Left(c) /\ Meant(c)' = Meant(c)
    BY <2>1, <2>2, <2>3 DEF Left, Meant, Alive
  <2> QED
    BY <2>1, <2>2, <2>3, <2>4
<1>5. ASSUME NEW c \in Callers, c \notin gone, c \notin failed PROVE Still(c)
  BY <1>2, <1>5, StillSame
<1> HIDE DEF gone, failed
<1> QED
  BY <1>1, <1>3, <1>4, <1>5, EndStep

LEMMA DestroyRefines ==
  ASSUME RefInv, Mirrors', NEW c \in Callers, Destroy(c)
  PROVE  SC!Next
<1>1. Bury({c}) /\ calling' = calling /\ None \notin Callers
  BY ConstantsAssumption DEF Destroy, LeaveScope
<1>2. Alive(c)
  BY InnermostAlive DEF RefInv, Destroy, Item
<1> QED
  BY <1>1, <1>2, BuryRefines DEF Running

LEMMA RaiseRefines ==
  ASSUME RefInv, Mirrors', RaiseError
  PROVE  [SC!Next]_(SC!vars)
<1>1. /\ IInv /\ CInv /\ Mirrors /\ TypeOK /\ depth \in Frame
      /\ None \notin Callers
  BY ConstantsAssumption DEF RefInv, IInv, TypeOK
<1>2. CASE depth = 1
  <2>1. \A x \in Callers : Still(x)
    BY <1>2, StillSame DEF RaiseError, Running
  <2> QED
    BY <1>1, <2>1, Stutter
<1>3. CASE depth # 1
  <2> DEFINE up == depth - 1
  <2>1. Bury(LiveIn(depth)) /\ up \in Frame /\ up < depth /\ up # depth
    <3>1. up \in Frame /\ up < depth /\ up # depth
      BY <1>1, <1>3, ConstantsAssumption DEF Frame
    <3> QED
      BY <1>3, <3>1 DEF RaiseError
  <2>2. calling' = calling \/ calling' = [calling EXCEPT ![up] = None]
    BY <1>3 DEF RaiseError
  <2> HIDE DEF up
  <2>3. \A x \in LiveIn(depth) : x \in Callers => Alive(x)
    <3>1. ASSUME NEW x \in LiveIn(depth) PROVE Alive(x)
      <4>1. PICK i \in 1 .. Len(scope[depth]) : scope[depth][i] = x
        BY DEF LiveIn
      <4>2. Laid(stk[depth], x, tb, Held, below)
        BY <1>1, <4>1 DEF IInv, Structure, FrameOK, Layout
      <4> QED
        BY <4>2 DEF Laid, Alive
    <3> QED
      BY <3>1
  <2>4. CASE calling' = calling
    BY <1>1, <2>1, <2>3, <2>4, BuryRefines DEF Running
  <2>5. CASE calling' = [calling EXCEPT ![up] = None]
    <3>1. PICK who \in Callers : who = calling[up]
      BY <1>1, <2>1 DEF CInv, Suspended, TypeOK
    <3>2. /\ calling'[up] = None
          /\ \A d \in Frame : d # up => calling'[d] = calling[d]
      BY <1>1, <2>1, <2>5 DEF TypeOK
    <3>3. \A c \in Callers : c # who => (Running(c)' <=> Running(c))
      BY <1>1, <3>1, <3>2 DEF Running
    <3>4. Running(who)
      BY <2>1, <3>1 DEF Running
    <3>5. \A d \in Frame : calling'[d] # who
      <4>1. \A d \in Frame : d # up => calling[d] # who
        BY <1>1, <2>1, <3>1, RunsOnce
      <4> QED
        BY <1>1, <3>1, <3>2, <4>1
    <3>6. who \notin LiveIn(depth)
      <4>1. SUFFICES ASSUME NEW i \in 1 .. Len(scope[depth]), scope[depth][i] = who
                     PROVE  FALSE
        BY DEF LiveIn
      <4>2. /\ Len(scope[up]) \in 1 .. Len(scope[up])
            /\ scope[up][Len(scope[up])] = who
        BY <1>1, <2>1, <3>1, RunningInnermost
      <4>3. Distinct
        BY <1>1 DEF IInv, Structure
      <4> QED
        BY ONLY <1>1, <2>1, <4>1, <4>2, <4>3, i \in 1 .. Len(scope[depth]) DEF Distinct
    <3>7. ~Running(who)'
      BY <3>5 DEF Running
    <3> QED
      BY <2>1, <2>3, <3>1, <3>3, <3>4, <3>6, <3>7, BuryRefines
  <2> QED
    BY <2>2, <2>4, <2>5
<1> QED
  BY <1>2, <1>3

\* The rest of a part.
LEMMA PartTail ==
  ASSUME NEW s \in Seq(Value), NEW n \in Nat, n < Len(s)
  PROVE  /\ SubSeq(s, n + 1, Len(s)) # << >>
         /\ Head(SubSeq(s, n + 1, Len(s))) = s[n + 1]
         /\ Tail(SubSeq(s, n + 1, Len(s))) = SubSeq(s, n + 2, Len(s))
<1> DEFINE m == n + 1
           e == Len(s)
<1>1. e \in Nat /\ m \in 1 .. Len(s) /\ e \in m .. Len(s) /\ m + 1 = n + 2
  OBVIOUS
<1>2. Len(SubSeq(s, m, e)) = e - m + 1 /\ e - m + 1 # 0
  BY <1>1
<1>3. SubSeq(s, m, e) # << >>
  BY <1>2
<1> HIDE DEF m, e
<1>4. Head(SubSeq(s, m, e)) = s[m] /\ Tail(SubSeq(s, m, e)) = SubSeq(s, m + 1, e)
  BY ONLY <1>1, s \in Seq(Value), HeadTailOfSubSeq
<1> QED
  BY <1>1, <1>3, <1>4 DEF m, e

LEMMA GetResultRefines ==
  ASSUME RefInv, Mirrors', ByName,
         NEW c \in Callers, NEW checked \in BOOLEAN, GetResult(c, checked)
  PROVE  [SC!Next]_(SC!vars)
<1>1. /\ IInv /\ RInv /\ CInv /\ Mirrors /\ TypeOK /\ depth \in Frame /\ c \in Item
      /\ caller[c] \in CallerState /\ hist[c] \in History /\ Remembers(c)
  BY CallerType DEF RefInv, IInv, RInv
<1>2. "unchecked" \notin Uses /\ "outer" \notin Uses
  BY DEF ByName
<1>3. /\ Innermost(c) /\ caller[c].resultCount > 0 /\ caller[c].called
      /\ calling[depth] = None /\ None \notin Callers
  BY <1>2, ConstantsAssumption DEF GetResult, HostRuns
<1>4. caller[c].resultSet /\ Alive(c)
  BY <1>1, <1>2, <1>3, InnermostAlive DEF Remembers
<1>5. CASE RaiseError
  BY <1>5, RaiseRefines
<1>6. CASE ~RaiseError
  <2>1. PICK v \in Readable(ResultIndex(c)) :
          /\ caller' = [caller EXCEPT ![c].resultCount = @ - 1]
          /\ hist' = [hist EXCEPT ![c].got = Append(@, v)]
          /\ tb' = tb /\ calling' = calling
    BY <1>4, <1>6 DEF GetResult
  <2> DEFINE r == [caller[c] EXCEPT !.resultCount = @ - 1]
             h == [hist[c] EXCEPT !.got = Append(@, v)]
             n == Len(hist[c].got)
             ret == hist[c].ret
  <2>2. /\ r.called = caller[c].called /\ r.resultSet = caller[c].resultSet
        /\ h.found = hist[c].found /\ h.args = hist[c].args
        /\ h.ret = ret /\ h.got = Append(hist[c].got, v)
    BY <1>1 DEF CallerState, History
  <2>3. caller' = [caller EXCEPT ![c] = r] /\ hist' = [hist EXCEPT ![c] = h]
    BY <2>1
  <2>4. n < Len(ret) /\ v = ret[n + 1]
    BY <1>1, <1>4, ReadsNext
  <2>5. ret \in Seq(Value) /\ n \in Nat /\ hist[c].got \in Seq(Value)
    BY <1>1 DEF History
  <2>6. v \in Value
    <3>1. n + 1 \in 1 .. Len(ret)
      BY <2>4, <2>5
    <3> QED
      BY <2>4, <2>5, <3>1
  <2>7. Len(Append(hist[c].got, v)) + 1 = n + 2
    BY <2>5, <2>6
  <2> HIDE DEF r, h
  <2>8. /\ caller'[c] = r /\ hist'[c] = h
        /\ \A x \in Callers : x # c => caller'[x] = caller[x] /\ hist'[x] = hist[x]
    BY <1>1, <2>3 DEF TypeOK
  <2>9. \A x \in Callers : x # c => Still(x)
    BY <1>1, <1>3, <2>1, <2>8, StillOthers
  <2>10. ~Running(c) /\ Phase(c) = "done"
    BY <1>1, <1>3, <1>4, RunningPhase
  <2>11. Phase(c)' = Phase(c)
    BY <2>1, <2>2, <2>8 DEF Phase, Alive
  <2>12. Meant(c)' = Meant(c)
    BY <2>1, <2>2, <2>8 DEF Meant, Alive
  <2>13. Left(c) = SubSeq(ret, n + 1, Len(ret))
    BY <2>10 DEF Left
  <2>14. Left(c)' = SubSeq(ret, n + 2, Len(ret))
    <3>1. Left(c)' = SubSeq(hist'[c].ret, Len(hist'[c].got) + 1, Len(hist'[c].ret))
      BY <2>10, <2>11 DEF Left
    <3> QED
      BY <2>2, <2>7, <2>8, <3>1
  <2> HIDE DEF n, ret
  <2>15. Left(c) # << >> /\ Head(Left(c)) = v /\ Left(c)' = Tail(Left(c))
    BY <2>4, <2>5, <2>13, <2>14, PartTail
  <2>16. hist'[c].got = Append(hist[c].got, Head(Left(c)))
    BY <2>2, <2>8, <2>15
  <2> QED
    BY <1>1, <2>9, <2>10, <2>11, <2>12, <2>15, <2>16, TakeStep
<1> QED
  BY <1>5, <1>6

\* A table bracket is no concern of the callers.
LEMMA BracketRefines ==
  ASSUME RefInv, Mirrors', NEW b \in Brackets,
         \/ \E v \in Globals : BeginGetTable(b, v) \/ BeginGetTableTable(b, v)
         \/ EndGetTable(b)
  PROVE  [SC!Next]_(SC!vars)
<1>1. /\ IInv /\ Mirrors /\ TypeOK /\ Callers \cap Brackets = {}
  BY ConstantsAssumption DEF RefInv, IInv
<1>2. CASE RaiseError
  BY <1>2, RaiseRefines
<1>3. CASE EnterScope(b) /\ caller' = caller /\ hist' = hist /\ calling' = calling
  <2>1. \A x \in Callers : tb'[x] = tb[x]
    BY <1>1, <1>3 DEF EnterScope, TypeOK, Item
  <2>2. \A x \in Callers : Still(x)
    BY <1>3, <2>1, StillSame DEF Running
  <2> QED
    BY <1>1, <2>2, Stutter
<1>4. CASE EndGetTable(b)
  <2>1. /\ \A x \in Callers : tb'[x] = tb[x] /\ caller'[x] = caller[x] /\ hist'[x] = hist[x]
        /\ calling' = calling
    BY <1>1, <1>4 DEF EndGetTable, LeaveScope, Bury, Item
  <2>2. \A x \in Callers : Still(x)
    BY <2>1, StillSame DEF Running
  <2> QED
    BY <1>1, <2>2, Stutter
<1> QED
  BY <1>2, <1>3, <1>4 DEF BeginGetTable, BeginGetTableTable

LEMMA LuaRaisesRefines ==
  ASSUME RefInv, Mirrors', LuaRaises
  PROVE  SC!Next
<1>1. /\ IInv /\ CInv /\ Mirrors /\ TypeOK /\ depth \in Frame /\ None \notin Callers
      /\ calling[depth] # None /\ calling' = [calling EXCEPT ![depth] = None]
      /\ tb' = tb /\ caller' = caller /\ hist' = hist
  BY ConstantsAssumption DEF RefInv, IInv, TypeOK, LuaRaises, LuaRuns
<1>2. PICK who \in Callers : who = calling[depth]
  BY <1>1 DEF CInv, Suspended, TypeOK
<1>3. /\ calling'[depth] = None
      /\ \A d \in Frame : d # depth => calling'[d] = calling[d]
  BY <1>1 DEF TypeOK
<1>4. \A c \in Callers : c # who => (Running(c)' <=> Running(c))
  BY <1>1, <1>2, <1>3 DEF Running
<1>5. Running(who)
  BY <1>1, <1>2 DEF Running
<1>6. \A d \in Frame : calling'[d] # who
  <2>1. \A d \in Frame : d # depth => calling[d] # who
    BY <1>1, <1>2, RunsOnce
  <2> QED
    BY <1>1, <1>2, <1>3, <2>1
<1>7. ~Running(who)'
  BY <1>6 DEF Running
<1>8. Phase(who) = "running" /\ Alive(who) /\ caller[who].called /\ ~caller[who].resultSet
  BY <1>1, <1>5, RunningPhase
<1>9. Phase(who)' = "failed"
  BY <1>1, <1>6, <1>8 DEF Phase, Alive
<1>10. Left(who)' = Left(who) /\ Meant(who)' = Meant(who) /\ hist'[who].got = hist[who].got
  BY <1>1, <1>8, <1>9 DEF Left, Meant, Alive
<1>11. \A c \in Callers : c # who => Still(c)
  BY <1>1, <1>4, StillSame
<1> QED
  BY <1>1, <1>8, <1>9, <1>10, <1>11, {} \in SUBSET Callers, {who} \in SUBSET Callers, EndStep

LEMMA RefineStep ==
  ASSUME RefInv, Mirrors', ByName, [Next]_vars
  PROVE  [SC!Next]_(SC!vars)
<1>1. Mirrors /\ CInv /\ IInv
  BY DEF RefInv
<1>2. ASSUME tb' = tb, caller' = caller, hist' = hist, calling' = calling
      PROVE  [SC!Next]_(SC!vars)
  <2>1. \A x \in Callers : Still(x)
    BY <1>2, StillSame DEF Running
  <2> QED
    BY <1>1, <2>1, Stutter
<1>3. ASSUME NEW c \in Callers, NEW look \in Lookups, Construct(c, look) PROVE SC!Next
  BY <1>3, ConstructRefines
<1>4. ASSUME NEW c \in Callers, NEW v \in Ints, Arg(c, v) PROVE SC!Next
  BY <1>4, ArgRefines
<1>5. ASSUME NEW c \in Callers, Call(c) PROVE [SC!Next]_(SC!vars)
  BY <1>5, CallRefines
<1>6. ASSUME NEW c \in Callers, NEW rs \in Results, CallReturns(c, rs) PROVE SC!Next
  BY <1>6, ReturnsRefines
<1>7. ASSUME NEW c \in Callers, NEW checked \in BOOLEAN, GetResult(c, checked)
      PROVE  [SC!Next]_(SC!vars)
  BY <1>7, GetResultRefines
<1>8. ASSUME NEW c \in Callers, Destroy(c) PROVE SC!Next
  BY <1>8, DestroyRefines
<1>9. ASSUME NEW v \in Globals, NEW checked \in BOOLEAN,
             GetGlobalVarible(v, checked) \/ GetTableVarible(v, checked)
      PROVE  [SC!Next]_(SC!vars)
  <2>1. CASE RaiseError
    BY <2>1, RaiseRefines
  <2> QED
    BY <1>2, <1>9, <2>1 DEF GetGlobalVarible, GetTableVarible, vars
<1>10. ASSUME NEW b \in Brackets, NEW v \in Globals,
              BeginGetTable(b, v) \/ BeginGetTableTable(b, v)
       PROVE  [SC!Next]_(SC!vars)
  BY <1>10, BracketRefines
<1>11. ASSUME NEW b \in Brackets, EndGetTable(b) PROVE [SC!Next]_(SC!vars)
  BY <1>11, BracketRefines
<1>12. CASE RunChunk \/ \E rs \in Results : ChunkReturns(rs)
  <2>1. "chunk" \notin Uses /\ calling[depth] # Chunk
    BY <1>1 DEF ByName, CInv, Suspended, IInv, TypeOK
  <2> QED
    BY <1>12, <2>1 DEF RunChunk, ChunkReturns
<1>13. CASE LuaRaises
  BY <1>13, LuaRaisesRefines
<1>14. CASE (\E as \in SeqOf(Ints, 1) : LuaCallsC(as)) \/ CReturns \/ UNCHANGED vars
  BY <1>2, <1>14 DEF LuaCallsC, CReturns, vars
<1>15. CASE GenerateLuaError
  BY <1>15, RaiseRefines DEF GenerateLuaError
<1> QED
  BY <1>3, <1>4, <1>5, <1>6, <1>7, <1>8, <1>9, <1>10, <1>11, <1>12, <1>13, <1>14, <1>15
     DEF Next

LEMMA InitRefines == Init /\ Mirrors => SC!Init
<1> SUFFICES ASSUME Init, Mirrors PROVE SC!Init
  OBVIOUS
<1>1. ASSUME NEW c \in Callers
      PROVE  /\ Phase(c) = "none" /\ Given(c) = << >> /\ Queue(c) = << >>
             /\ hist[c].got = << >>
  <2>1. ~Alive(c) /\ hist[c].got = << >>
    BY DEF Init, Alive, Item, NoHistory
  <2>2. Phase(c) = "none"
    BY <2>1 DEF Phase
  <2> QED
    BY <2>1, <2>2 DEF Mirrors, Meant, Left
<1> QED
  BY <1>1 DEF SC!Init

\* For hosts that call by name, leave nothing on the stack and read while
\* results are left, LuaCaller and LuaResult are the abstract call: whatever
\* is constructed, called or raised above a caller, its slots are what it was
\* given and then the results nobody has read (lua_caller.cpp, lua_result.cpp).
THEOREM StackImplementsScriptCall ==
  ASSUME ByName
  PROVE  Spec => ImplementsScriptCall
<1>1. NoLeaks
  BY DEF ByName, NoLeaks
<1>2. IInv /\ Placed /\ [Next]_vars => Placed'
  BY PlacedStep
<1>3. IInv /\ RInv /\ CInv /\ Placed => Mirrors
  BY MirrorsHere
<1>4. IInv /\ RInv /\ CInv /\ Placed /\ Mirrors /\ Mirrors' /\ [Next]_vars
        => [SC!Next]_(SC!vars)
  BY RefineStep DEF RefInv
<1>5. Spec => [](IInv /\ RInv /\ CInv)
  BY <1>1, CallInvariance
<1>6. Spec => []Placed
  BY <1>2, <1>5, InitPlaced, PTL DEF Spec
<1>7. Spec => []Mirrors
  BY <1>3, <1>5, <1>6, PTL
<1> QED
  BY <1>4, <1>5, <1>6, <1>7, InitRefines, PTL DEF Spec, ImplementsScriptCall, SC!Spec
=============================================================================
