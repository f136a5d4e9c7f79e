-------------------------- MODULE CallerCallProofs --------------------------
(***************************************************************************)
(* Theorems about the calls of CallerStack.  A host that asks how many     *)
(* results are left never reads through a result that was not set.  A host *)
(* that leaves nothing on the stack (it reads no global variable with      *)
(* DoGetGlobalVarible and runs no chunk) finds above an object what that   *)
(* object pushed: its brackets balance and its calls take what they were   *)
(* given.  When it moreover calls by name and reads only what is left, the *)
(* results come out in order, and the stack implements ScriptCall.         *)
(***************************************************************************)
EXTENDS CallerStackProofs

\* Hosts that leave no value on the stack.
NoLeaks == Uses \cap {"global", "chunk"} = {}

\* Hosts that moreover call by name or by a.b only, read while results are
\* left, and read the results of the caller constructed last.
ByName == Uses \subseteq {"field", "table", "raise"}

-----------------------------------------------------------------------------
(* The invariants *)

\* What a caller and its result remember: a dead caller nothing, and a caller
\* without results that there is nothing to read.
Remembers(c) ==
  /\ ~Alive(c) => caller[c] = NewCaller /\ hist[c] = NoHistory
  /\ Len(hist[c].args) = caller[c].numArgs
  /\ ~caller[c].called => ~caller[c].resultSet
  /\ ~caller[c].resultSet => hist[c].got = << >>
  /\ "unchecked" \notin Uses /\ ~caller[c].resultSet => caller[c].resultCount = 0

RInv == \A c \in Callers : Remembers(c)

\* The call took the function and the arguments, and by name what was read is
\* what was returned, in order.
Passed(c) ==
  caller[c].called => hist[c].passed = <<hist[c].found>> \o hist[c].args
Counted(c) ==
  ByName /\ caller[c].resultSet
    => /\ Len(hist[c].got) <= Len(hist[c].ret)
       /\ hist[c].got = SubSeq(hist[c].ret, 1, Len(hist[c].got))
       /\ caller[c].resultCount = Len(hist[c].ret) - Len(hist[c].got)

\* The window of frame d without what the objects after its i-th one pushed.
Upto(d, i) == IF i = Len(scope[d]) THEN stk[d] ELSE below[scope[d][i + 1]]

\* A window w in which an object x has its table or message handler at t, r and
\* h are what its caller and the history say, and runs tells whether it runs.
\* A caller that gathers has its function and arguments on top, one that called
\* by name nothing above its message handler until it has its results there.
Gathered(w, t, r, h) ==
  /\ SubSeq(w, Len(w) - r.numArgs, Len(w)) = <<h.found>> \o h.args
  /\ ByName => Len(w) = t + 1 + r.numArgs
Answered(w, t, h) ==
  /\ Len(w) = t + Len(h.ret)
  /\ SubSeq(w, t + 1, Len(w)) = h.ret
Content(w, x, t, r, h, runs) ==
  /\ x \in Brackets => Len(w) = t
  /\ x \in Callers => /\ ~r.called => Gathered(w, t, r, h)
                      /\ ByName /\ r.called => /\ runs => Len(w) = t
                                               /\ r.resultSet => Answered(w, t, h)

\* What the i-th object of frame d finds on top of its window; i = 0 stands for
\* the frame itself, which finds what it was entered with.
Slots(d, i) ==
  LET x == scope[d][i]
  IN IF i = 0 THEN Upto(d, 0) = entry[d]
     ELSE Content(Upto(d, i), x, tb[x], caller[x], hist[x], calling[d] = x)

AllSlots == \A d \in Frame : \A i \in 0 .. Len(scope[d]) : Slots(d, i)

\* Every frame under the running one is suspended, by a caller that has no
\* results yet.
Suspended ==
  /\ \A d \in Frame : d < depth => calling[d] # None
  /\ \A d \in Frame : calling[d] # Chunk
  /\ \A d \in Frame : calling[d] \in Callers => ~caller[calling[d]].resultSet

Told == \A c \in Callers : Passed(c) /\ Counted(c)

CInv == Suspended /\ AllSlots /\ Told

-----------------------------------------------------------------------------
(* What callers remember: for every host *)

LEMMA RememberKept ==
  ASSUME NEW c \in Callers, Remembers(c),
         caller'[c] = caller[c], hist'[c] = hist[c], Alive(c) => Alive(c)'
  PROVE  Remembers(c)'
BY DEF Remembers

LEMMA RememberSame ==
  ASSUME RInv, caller' = caller, hist' = hist, \A c \in Callers : Alive(c) => Alive(c)'
  PROVE  RInv'
BY RememberKept DEF RInv

LEMMA RememberNothing ==
  ASSUME NEW c \in Callers
  PROVE  /\ caller[c] = NewCaller /\ hist[c] = NoHistory => Remembers(c)
         /\ caller'[c] = NewCaller /\ hist'[c] = NoHistory => Remembers(c)'
<1>1. /\ NewCaller.numArgs = 0 /\ NewCaller.called = FALSE
      /\ NewCaller.resultSet = FALSE /\ NewCaller.resultCount = 0
      /\ NoHistory.args = << >> /\ NoHistory.got = << >>
  BY DEF NewCaller, NoHistory
<1> QED
  BY <1>1 DEF Remembers

LEMMA RememberBury ==
  ASSUME RInv, NEW X, Bury(X)
  PROVE  RInv'
<1>1. ASSUME NEW c \in Callers PROVE Remembers(c)'
  <2>1. CASE c \in X
    <3>1. caller'[c] = NewCaller /\ hist'[c] = NoHistory
      BY <2>1 DEF Bury
    <3> QED
      BY <3>1, RememberNothing
  <2>2. CASE c \notin X
    <3>1. caller'[c] = caller[c] /\ hist'[c] = hist[c] /\ tb'[c] = tb[c]
      BY <2>2 DEF Bury, Item
    <3> QED
      BY <3>1, RememberKept DEF RInv, Alive
  <2> QED
    BY <2>1, <2>2
<1> QED
  BY <1>1 DEF RInv

LEMMA RememberRaise ==
  ASSUME RInv, RaiseError
  PROVE  RInv'
<1>1. CASE depth = 1
  BY <1>1, RememberSame DEF RaiseError, Alive
<1>2. CASE depth # 1
  BY <1>2, RememberBury DEF RaiseError
<1> QED
  BY <1>1, <1>2

\* A step of c alone.
LEMMA RememberOne ==
  ASSUME TypeOK, RInv, NEW c \in Callers, NEW r, NEW h, tb' = tb,
         caller' = [caller EXCEPT ![c] = r], hist' = [hist EXCEPT ![c] = h],
         Remembers(c)'
  PROVE  RInv'
<1>1. \A x \in Callers : x # c => caller'[x] = caller[x] /\ hist'[x] = hist[x]
  BY DEF TypeOK
<1> QED
  BY <1>1, RememberKept DEF RInv, Alive

LEMMA RememberConstruct ==
  ASSUME TypeOK, RInv, NEW c \in Callers, NEW look \in Lookups, Construct(c, look)
  PROVE  RInv'
<1> DEFINE h == [NoHistory EXCEPT !.found = TopOf(look)]
<1>1. /\ caller' = [caller EXCEPT ![c] = NewCaller] /\ hist' = [hist EXCEPT ![c] = h]
      /\ tb' = [tb EXCEPT ![c] = Len(Window) + 1]
  BY DEF Construct, EnterScope
<1>2. /\ caller'[c] = NewCaller /\ hist'[c] = h /\ Alive(c)'
      /\ \A x \in Callers : x # c => /\ caller'[x] = caller[x] /\ hist'[x] = hist[x]
                                     /\ tb'[x] = tb[x]
  BY <1>1, CallerType DEF TypeOK, Alive
<1>3. h.args = << >> /\ h.got = << >>
  BY DEF NoHistory
<1>4. Remembers(c)'
  BY <1>2, <1>3 DEF Remembers, NewCaller
<1> QED
  BY <1>2, <1>4, RememberKept DEF RInv, Alive

LEMMA RememberArg ==
  ASSUME IInv, RInv, NEW c \in Callers, NEW v \in Ints, Arg(c, v)
  PROVE  RInv'
<1> DEFINE r == [caller[c] EXCEPT !.numArgs = @ + 1]
           h == [hist[c] EXCEPT !.args = Append(@, v)]
<1>1. /\ caller' = [caller EXCEPT ![c] = r] /\ hist' = [hist EXCEPT ![c] = h]
      /\ tb' = tb /\ scope' = scope
  BY DEF Arg
<1>2. /\ TypeOK /\ c \in Item /\ caller[c] \in CallerState /\ hist[c] \in History
      /\ Remembers(c)
  BY CallerType DEF RInv, IInv
<1>3. /\ r.numArgs = caller[c].numArgs + 1 /\ r.called = caller[c].called
      /\ r.resultSet = caller[c].resultSet /\ r.resultCount = caller[c].resultCount
      /\ h.args = Append(hist[c].args, v) /\ h.got = hist[c].got
  BY <1>2 DEF CallerState, History
<1>4. Len(h.args) = r.numArgs
  BY <1>2, <1>3 DEF Remembers, History
<1>5. caller'[c] = r /\ hist'[c] = h
  BY <1>1, <1>2 DEF TypeOK
<1>6. Alive(c)
  BY <1>2, InnermostLaid DEF Arg, Alive
<1> HIDE DEF r, h
<1>7. Remembers(c)'
  BY <1>1, <1>2, <1>3, <1>4, <1>5, <1>6 DEF Remembers, Alive
<1> QED
  BY <1>1, <1>2, <1>7, RememberOne

LEMMA RememberCall ==
  ASSUME IInv, RInv, NEW c \in Callers, Call(c)
  PROVE  RInv'
<1>1. CASE caller[c].called
  BY <1>1, RememberSame DEF Call, Alive
<1>2. CASE ~caller[c].called
  <2> DEFINE p == SubSeq(Window, FunctionSlot(c), Len(Window))
             r == [caller[c] EXCEPT !.called = TRUE]
             h == [hist[c] EXCEPT !.passed = p]
  <2>1. /\ caller' = [caller EXCEPT ![c] = r] /\ hist' = [hist EXCEPT ![c] = h]
        /\ tb' = tb
    BY <1>2 DEF Call
  <2>2. /\ TypeOK /\ c \in Item /\ caller[c] \in CallerState /\ hist[c] \in History
        /\ Remembers(c) /\ Alive(c)
    BY CallerType, InnermostLaid DEF RInv, IInv, Call, Alive
  <2>3. /\ r.numArgs = caller[c].numArgs /\ r.called = TRUE
        /\ r.resultSet = caller[c].resultSet /\ r.resultCount = caller[c].resultCount
        /\ h.args = hist[c].args /\ h.got = hist[c].got
    BY <2>2 DEF CallerState, History
  <2>4. caller'[c] = r /\ hist'[c] = h
    BY <2>1, <2>2 DEF TypeOK
  <2> HIDE DEF r, h
  <2>5. Remembers(c)'
    BY <2>1, <2>2, <2>3, <2>4 DEF Remembers, Alive
  <2> QED
    BY <2>1, <2>2, <2>5, RememberOne
<1> QED
  BY <1>1, <1>2

LEMMA RunningInnermost ==
  ASSUME IInv, NEW d \in Frame, calling[d] \in Callers
  PROVE  /\ Len(scope[d]) \in Nat \ {0} /\ scope[d][Len(scope[d])] = calling[d]
         /\ caller[calling[d]].called
         /\ tb[calling[d]] \in 1 .. Len(stk[d])
<1>1. /\ scope[d] \in Seq(Item) /\ scope[d] # << >>
      /\ scope[d][Len(scope[d])] = calling[d] /\ caller[calling[d]].called
  BY DEF IInv, TypeOK, Structure, CallerRuns
<1>2. Len(scope[d]) \in 1 .. Len(scope[d])
  BY <1>1, EmptySeq
<1>3. Laid(stk[d], calling[d], tb, Held, below) /\ stk[d] \in Seq(Value)
  BY <1>1, <1>2 DEF IInv, TypeOK, Structure, FrameOK, Layout
<1>4. tb[calling[d]] \in 1 .. Len(stk[d])
  BY <1>3 DEF Laid
<1> QED
  BY <1>1, <1>2, <1>4

LEMMA RememberReturns ==
  ASSUME IInv, RInv, NEW c \in Callers, NEW rs \in Results, CallReturns(c, rs)
  PROVE  RInv'
<1> DEFINE r == Ready(c, Len(Window) + Len(rs))
           h == [hist[c] EXCEPT !.ret = rs]
<1>1. /\ caller' = [caller EXCEPT ![c] = r] /\ hist' = [hist EXCEPT ![c] = h]
      /\ tb' = tb /\ calling[depth] = c
  BY DEF CallReturns
<1>2. /\ TypeOK /\ depth \in Frame /\ caller[c] \in CallerState /\ hist[c] \in History
      /\ Remembers(c)
  BY CallerType DEF RInv, IInv
<1>3. Alive(c) /\ caller[c].called
  BY <1>1, <1>2, RunningInnermost DEF Alive
<1>4. /\ r.numArgs = caller[c].numArgs /\ r.called = caller[c].called
      /\ r.resultSet = TRUE
      /\ h.args = hist[c].args /\ h.got = hist[c].got
  BY <1>2 DEF CallerState, History, Ready
<1>5. caller'[c] = r /\ hist'[c] = h
  BY <1>1, <1>2 DEF TypeOK
<1> HIDE DEF r, h
<1>6. Remembers(c)'
  BY <1>1, <1>2, <1>3, <1>4, <1>5 DEF Remembers, Alive
<1> QED
  BY <1>1, <1>2, <1>6, RememberOne

LEMMA RememberGetResult ==
  ASSUME IInv, RInv, NEW c \in Callers, NEW checked \in BOOLEAN, GetResult(c, checked)
  PROVE  RInv'
<1>1. CASE RaiseError
  BY <1>1, RememberRaise
<1>2. CASE ~caller[c].resultSet
  BY <1>2, RememberSame DEF GetResult, Alive
<1>3. CASE caller[c].resultSet /\ ~RaiseError
  <2>1. PICK v \in Readable(ResultIndex(c)) :
          /\ caller' = [caller EXCEPT ![c].resultCount = @ - 1]
          /\ hist' = [hist EXCEPT ![c].got = Append(@, v)]
          /\ tb' = tb
    BY <1>3 DEF GetResult
  <2> DEFINE r == [caller[c] EXCEPT !.resultCount = @ - 1]
             h == [hist[c] EXCEPT !.got = Append(@, v)]
  <2>2. /\ TypeOK /\ caller[c] \in CallerState /\ hist[c] \in History /\ Remembers(c)
        /\ caller[c].called
    BY CallerType DEF RInv, IInv, GetResult
  <2>3. Alive(c)
    BY <2>2 DEF Remembers, NewCaller
  <2>4. /\ r.numArgs = caller[c].numArgs /\ r.called = caller[c].called
        /\ r.resultSet = TRUE /\ h.args = hist[c].args
    BY <1>3, <2>2 DEF CallerState, History
  <2>5. caller' = [caller EXCEPT ![c] = r] /\ hist' = [hist EXCEPT ![c] = h]
    BY <2>1
  <2>6. caller'[c] = r /\ hist'[c] = h
    BY <2>2, <2>5 DEF TypeOK
  <2> HIDE DEF r, h
  <2>7. Remembers(c)'
    BY <2>1, <2>2, <2>3, <2>4, <2>6 DEF Remembers, Alive
  <2> QED
    BY <2>1, <2>2, <2>5, <2>7, RememberOne
<1> QED
  BY <1>1, <1>2, <1>3

LEMMA RememberStep ==
  ASSUME IInv, RInv, [Next]_vars
  PROVE  RInv'
<1>1. TypeOK
  BY DEF IInv
<1>2. ASSUME NEW c \in Callers, NEW look \in Lookups, Construct(c, look) PROVE RInv'
  BY <1>1, <1>2, RememberConstruct
<1>3. ASSUME NEW c \in Callers, NEW v \in Ints, Arg(c, v) PROVE RInv'
  BY <1>3, RememberArg
<1>4. ASSUME NEW c \in Callers, Call(c) PROVE RInv'
  BY <1>4, RememberCall
<1>5. ASSUME NEW c \in Callers, NEW rs \in Results, CallReturns(c, rs) PROVE RInv'
  BY <1>5, RememberReturns
<1>6. ASSUME NEW c \in Callers, NEW checked \in BOOLEAN, GetResult(c, checked)
      PROVE  RInv'
  BY <1>6, RememberGetResult
<1>7. CASE (\E c \in Callers : Destroy(c)) \/ (\E b \in Brackets : EndGetTable(b))
  BY <1>7, RememberBury DEF Destroy, EndGetTable, LeaveScope
<1>8. CASE RaiseError
  BY <1>8, RememberRaise
<1>9. CASE caller' = caller /\ hist' = hist /\ \A c \in Callers : Alive(c) => Alive(c)'
  BY <1>9, RememberSame
<1>10. ASSUME NEW b \in Brackets, EnterScope(b), caller' = caller, hist' = hist
       PROVE  RInv'
  <2>1. \A c \in Callers : tb'[c] = tb[c]
    BY <1>1, <1>10, ConstantsAssumption DEF EnterScope, TypeOK, Item
  <2> QED
    BY <1>10, <2>1, RememberSame DEF Alive
<1>11. ASSUME NEW v \in Globals, NEW checked \in BOOLEAN,
              GetGlobalVarible(v, checked) \/ GetTableVarible(v, checked)
       PROVE  RInv'
  BY <1>8, <1>9, <1>11 DEF GetGlobalVarible, GetTableVarible, vars, Alive
<1>12. ASSUME NEW b \in Brackets, NEW v \in Globals,
              BeginGetTable(b, v) \/ BeginGetTableTable(b, v)
       PROVE  RInv'
  BY <1>8, <1>10, <1>12 DEF BeginGetTable, BeginGetTableTable
<1>13. CASE \/ RunChunk \/ LuaRaises \/ (\E rs \in Results : ChunkReturns(rs))
            \/ (\E as \in SeqOf(Ints, 1) : LuaCallsC(as)) \/ CReturns \/ UNCHANGED vars
  BY <1>9, <1>13 DEF RunChunk, LuaRaises, ChunkReturns, LuaCallsC, CReturns, vars, Alive
<1>14. CASE GenerateLuaError
  BY <1>8, <1>14 DEF GenerateLuaError
<1> QED
  BY <1>2, <1>3, <1>4, <1>5, <1>6, <1>7, <1>11, <1>12, <1>13, <1>14 DEF Next

LEMMA InitRInv == Init => RInv
BY RememberNothing DEF Init, RInv

LEMMA CrashStep ==
  ASSUME IInv, RInv, NoCrash, "unchecked" \notin Uses, [Next]_vars
  PROVE  NoCrash'
<1>1. ASSUME NEW c \in Callers, NEW checked \in BOOLEAN, GetResult(c, checked)
      PROVE  NoCrash'
  <2>1. caller[c].resultCount > 0 /\ Remembers(c)
    BY <1>1 DEF GetResult, RInv
  <2>2. caller[c].resultSet
    BY <2>1 DEF Remembers
  <2>3. status = "running"
    BY <1>1 DEF GetResult, HostRuns
  <2> QED
    BY <1>1, <2>2, <2>3 DEF GetResult, RaiseError, NoCrash
<1> QED
  BY <1>1 DEF NoCrash, Next, Construct, Arg, Call, CallReturns, Destroy, GetGlobalVarible,
       GetTableVarible, BeginGetTable, BeginGetTableTable, EndGetTable, RunChunk,
       ChunkReturns, LuaRaises, LuaCallsC, CReturns, GenerateLuaError, RaiseError, vars

\* A host that reads while GetResultCount() says that results are left never
\* reads through a null lua_State, whatever was called, leaked or raised: a
\* call that failed leaves the count at 0, and so does a caller built anew.
THEOREM CheckedReadsAreSafe ==
  ASSUME "unchecked" \notin Uses
  PROVE  Spec => []NoCrash
<1>1. Init => NoCrash
  BY DEF Init, NoCrash
<1> QED
  BY <1>1, InitRInv, RememberStep, CrashStep, Invariance, PTL DEF Spec

-----------------------------------------------------------------------------
(* What lies above the objects: for hosts that leave nothing behind *)

\* A step that changes nothing of caller c that its slots depend on.
Alike(c) ==
  /\ caller'[c].called = caller[c].called /\ caller'[c].numArgs = caller[c].numArgs
  /\ caller'[c].resultSet = caller[c].resultSet
  /\ hist'[c].found = hist[c].found /\ hist'[c].args = hist[c].args
  /\ hist'[c].ret = hist[c].ret

LEMMA SlotsKept ==
  ASSUME NEW d \in Frame, NEW i \in Nat, Slots(d, i),
         Upto(d, i)' = Upto(d, i), entry'[d] = entry[d],
         i # 0 => /\ scope'[d][i] = scope[d][i]
                  /\ tb'[scope[d][i]] = tb[scope[d][i]]
                  /\ scope[d][i] \in Callers
                       => /\ Alike(scope[d][i])
                          /\ calling'[d] = scope[d][i] => calling[d] = scope[d][i]
  PROVE  Slots(d, i)'
<1>1. CASE i = 0
  BY <1>1 DEF Slots
<1>2. CASE i # 0
  <2> DEFINE x == scope[d][i]
             w == Upto(d, i)
  <2>1. Content(w, x, tb[x], caller[x], hist[x], calling[d] = x)
    BY <1>2 DEF Slots
  <2>2. /\ tb'[x] = tb[x]
        /\ x \in Callers => Alike(x) /\ (calling'[d] = x => calling[d] = x)
    BY <1>2
  <2> HIDE DEF x, w
  <2>3. Content(w, x, tb'[x], caller'[x], hist'[x], calling'[d] = x)
    BY <2>1, <2>2 DEF Content, Gathered, Answered, Alike
  <2>4. Upto(d, i)' = w /\ scope'[d][i] = x
    BY <1>2 DEF w, x
  <2> QED
    BY <1>2, <2>3, <2>4 DEF Slots
<1> QED
  BY <1>1, <1>2

LEMMA InnermostPlace ==
  ASSUME IInv, NEW x, Innermost(x)
  PROVE  /\ Len(scope[depth]) \in Nat \ {0} /\ scope[depth][Len(scope[depth])] = x
         /\ \A d \in Frame : \A i \in 1 .. Len(scope[d]) :
              scope[d][i] = x => d = depth /\ i = Len(scope[depth])
<1>1. depth \in Frame /\ scope[depth] \in Seq(Item) /\ scope[depth] # << >>
  BY DEF IInv, TypeOK, Innermost
<1>2. Len(scope[depth]) \in Nat \ {0}
  BY <1>1, EmptySeq
<1>3. scope[depth][Len(scope[depth])] = x
  BY <1>2 DEF Innermost, TopOf, ValueAt, AbsIndex
<1>4. Len(scope[depth]) \in 1 .. Len(scope[depth]) /\ Distinct
  BY <1>2 DEF IInv, Structure
<1> QED
  BY ONLY <1>1, <1>2, <1>3, <1>4 DEF Distinct

\* The objects of a frame are items.
LEMMA ScopeItems ==
  ASSUME TypeOK, NEW d \in Frame
  PROVE  /\ Len(scope[d]) \in Nat
         /\ \A i \in 1 .. Len(scope[d]) : scope[d][i] \in Item
BY DEF TypeOK

\* A step of the innermost object x, which leaves the window w.
LEMMA SlotsTop ==
  ASSUME IInv, AllSlots, NEW x \in Item, Innermost(x), NEW w,
         stk' = [stk EXCEPT ![depth] = w],
         scope' = scope, tb' = tb, below' = below, entry' = entry,
         \A c \in Callers : c # x => Alike(c),
         \A d \in Frame : d # depth => calling'[d] = calling[d],
         calling'[depth] \in Callers => calling'[depth] = x,
         Content(w, x, tb[x], caller'[x], hist'[x], calling'[depth] = x)
  PROVE  AllSlots'
<1> DEFINE n == Len(scope[depth])
<1>1. /\ n \in Nat \ {0} /\ scope[depth][n] = x
      /\ \A d \in Frame : \A i \in 1 .. Len(scope[d]) :
           scope[d][i] = x => d = depth /\ i = n
  BY InnermostPlace
<1>2. TypeOK /\ depth \in Frame
  BY DEF IInv, TypeOK
<1>3. stk'[depth] = w /\ \A d \in Frame : d # depth => stk'[d] = stk[d]
  BY <1>2 DEF TypeOK
<1>4. ASSUME NEW d \in Frame, NEW i \in 0 .. Len(scope[d]) PROVE Slots(d, i)'
  <2>1. CASE d = depth /\ i = n
    <3>1. Upto(d, i)' = w /\ scope'[d][i] = x /\ i # 0
      BY <1>1, <1>3, <2>1 DEF Upto
    <3> QED
      BY <2>1, <3>1 DEF Slots
  <2>2. CASE d # depth \/ i # n
    <3>1. Slots(d, i) /\ i \in Nat
      BY <1>4 DEF AllSlots
    <3>2. Upto(d, i)' = Upto(d, i)
      BY <1>3, <2>2 DEF Upto
    <3>3. i # 0 => scope[d][i] # x
      BY <1>1, <1>2, <1>4, <2>2, ScopeItems
    <3>4. scope[d][i] \in Callers /\ calling'[d] = scope[d][i] /\ i # 0
            => calling[d] = scope[d][i]
      BY <3>3
    <3>5. i # 0 /\ scope[d][i] \in Callers => Alike(scope[d][i])
      BY <3>3
    <3> QED
      BY <3>1, <3>2, <3>4, <3>5, SlotsKept
  <2> QED
    BY <2>1, <2>2
<1> QED
  BY <1>4 DEF AllSlots

\* A step that leaves the stack and its objects alone.
LEMMA SlotsStay ==
  ASSUME AllSlots, \A c \in Callers : Alike(c),
         UNCHANGED <<stk, scope, calling, tb, below, entry>>
  PROVE  AllSlots'
<1>1. ASSUME NEW d \in Frame, NEW i \in 0 .. Len(scope[d]) PROVE Slots(d, i)'
  <2>1. Slots(d, i) /\ i \in Nat
    BY DEF AllSlots
  <2>2. Upto(d, i)' = Upto(d, i)
    BY DEF Upto
  <2> QED
    BY <2>1, <2>2, SlotsKept
<1> QED
  BY <1>1 DEF AllSlots

\* The construction of x, which leaves the window w.
LEMMA SlotsEnter ==
  ASSUME IInv, AllSlots, NEW x \in Item, ~Alive(x), EnterScope(x), NEW w,
         stk' = [stk EXCEPT ![depth] = w], calling' = calling, entry' = entry,
         \A c \in Callers : c # x => Alike(c),
         Content(w, x, Len(Window) + 1, caller'[x], hist'[x], calling[depth] = x)
  PROVE  AllSlots'
<1> DEFINE n == Len(scope[depth])
<1>1. TypeOK /\ depth \in Frame /\ n \in Nat /\ scope[depth] \in Seq(Item)
  BY DEF IInv, TypeOK
<1>2. \A d \in Frame : \A i \in 1 .. Len(scope[d]) : scope[d][i] # x /\ scope[d][i] \in Item
  <2> TAKE d \in Frame
  <2> TAKE i \in 1 .. Len(scope[d])
  <2>1. Laid(stk[d], scope[d][i], tb, Held, below)
    BY DEF IInv, Structure, FrameOK, Layout
  <2>2. tb[scope[d][i]] # 0
    BY <2>1 DEF Laid
  <2> QED
    BY <1>1, <2>2, ScopeItems DEF Alive
<1>3. /\ \A d \in Frame : d # depth => scope'[d] = scope[d] /\ stk'[d] = stk[d]
      /\ stk'[depth] = w /\ scope'[depth] = Append(scope[depth], x)
      /\ \A y \in Item : y # x => tb'[y] = tb[y] /\ below'[y] = below[y]
      /\ tb'[x] = Len(Window) + 1 /\ below'[x] = Window
  BY <1>1 DEF EnterScope, TypeOK
<1>4. /\ Len(scope'[depth]) = n + 1 /\ scope'[depth][n + 1] = x
      /\ \A i \in 1 .. n : scope'[depth][i] = scope[depth][i]
  BY <1>1, <1>3
<1>5. ASSUME NEW d \in Frame, NEW i \in 0 .. Len(scope[d]) PROVE Slots(d, i)'
  <2>1. Slots(d, i) /\ i \in Nat /\ Len(scope[d]) \in Nat
    BY <1>1, ScopeItems DEF AllSlots
  <2>2. i # 0 => i \in 1 .. Len(scope[d])
    BY <2>1
  <2>3. i # Len(scope[d]) => i + 1 \in 1 .. Len(scope[d])
    BY <2>1
  <2>4. Upto(d, i)' = Upto(d, i)
    <3>1. CASE d # depth
      BY <1>2, <1>3, <2>3, <3>1 DEF Upto
    <3>2. CASE d = depth /\ i # n
      <4>1. i + 1 \in 1 .. n /\ i # n + 1
        BY <1>1, <1>5, <2>3, <3>2
      <4>2. scope'[d][i + 1] = scope[d][i + 1] /\ below'[scope[d][i + 1]] = below[scope[d][i + 1]]
        BY <1>1, <1>2, <1>3, <1>4, <3>2, <4>1
      <4> QED
        BY <1>4, <3>2, <4>1, <4>2 DEF Upto
    <3>3. CASE d = depth /\ i = n
      <4>1. n # n + 1
        BY <1>1
      <4> QED
        BY <1>3, <1>4, <3>3, <4>1 DEF Upto, Window
    <3> QED
      BY <3>1, <3>2, <3>3
  <2>5. i # 0 => /\ scope'[d][i] = scope[d][i] /\ tb'[scope[d][i]] = tb[scope[d][i]]
                 /\ scope[d][i] \in Callers => Alike(scope[d][i])
    BY <1>2, <1>3, <1>4, <2>2
  <2> QED
    BY <2>1, <2>4, <2>5, SlotsKept
<1>6. ASSUME NEW d \in Frame, NEW i \in Nat, d = depth, i = n + 1 PROVE Slots(d, i)'
  <2>1. Upto(d, i)' = w /\ i # 0
    BY <1>1, <1>3, <1>4, <1>6 DEF Upto
  <2> QED
    BY <1>3, <1>4, <1>6, <2>1 DEF Slots
<1>7. ASSUME NEW d \in Frame, NEW i \in 0 .. Len(scope'[d])
      PROVE  i \in 0 .. Len(scope[d]) \/ (d = depth /\ i = n + 1 /\ i \in Nat)
  BY <1>1, <1>3, <1>4, <1>7
<1> QED
  BY <1>5, <1>6, <1>7 DEF AllSlots

\* The destruction of the innermost object x, which leaves the window under it.
LEMMA SlotsLeave ==
  ASSUME IInv, AllSlots, NEW x \in Item, Innermost(x), LeaveScope(x),
         stk' = [stk EXCEPT ![depth] = below[x]], calling' = calling, entry' = entry
  PROVE  AllSlots'
<1> DEFINE n == Len(scope[depth]) - 1
<1>1. /\ n \in Nat /\ Len(scope[depth]) = n + 1 /\ scope[depth][n + 1] = x
      /\ \A d \in Frame : \A i \in 1 .. Len(scope[d]) :
           scope[d][i] = x => d = depth /\ i = n + 1
  BY InnermostPlace
<1>2. TypeOK /\ depth \in Frame /\ scope[depth] \in Seq(Item)
  BY DEF IInv, TypeOK
<1> HIDE DEF n
<1>3. /\ scope'[depth] = SubSeq(scope[depth], 1, n)
      /\ stk'[depth] = below[x]
      /\ \A d \in Frame : d # depth => scope'[d] = scope[d] /\ stk'[d] = stk[d]
  BY <1>1, <1>2 DEF LeaveScope, Pop, SetTop, TypeOK
<1>4. /\ \A y \in Item : y # x => tb'[y] = tb[y] /\ below'[y] = below[y]
      /\ \A c \in Callers : c # x => Alike(c)
  BY DEF LeaveScope, Bury, Alike
<1>5. Len(scope'[depth]) = n /\ \A i \in 1 .. n : scope'[depth][i] = scope[depth][i]
  BY <1>1, <1>2, <1>3
<1>6. ASSUME NEW d \in Frame, NEW i \in 0 .. Len(scope'[d]) PROVE Slots(d, i)'
  <2>1. i \in 0 .. Len(scope[d]) /\ i \in Nat /\ (d = depth => i <= n)
    BY <1>1, <1>2, <1>3, <1>5, <1>6, ScopeItems
  <2>2. Slots(d, i)
    BY <2>1 DEF AllSlots
  <2>3. i # 0 => /\ i \in 1 .. Len(scope[d]) /\ scope[d][i] # x /\ scope[d][i] \in Item
                 /\ scope'[d][i] = scope[d][i]
    <3>1. i # 0 => i \in 1 .. Len(scope[d]) /\ (d = depth => i # n + 1 /\ i \in 1 .. n)
      BY <1>1, <1>2, <2>1, ScopeItems
    <3> QED
      BY <1>1, <1>2, <1>3, <1>5, <3>1, ScopeItems
  <2>4. Upto(d, i)' = Upto(d, i)
    <3>1. CASE i = Len(scope'[d])
      <4>1. CASE d = depth
        <5>1. Upto(d, i)' = below[x] /\ i = n /\ n # n + 1
          BY <1>1, <1>3, <1>5, <3>1, <4>1 DEF Upto
        <5> QED
          BY <1>1, <4>1, <5>1 DEF Upto
      <4>2. CASE d # depth
        BY <1>3, <3>1, <4>2 DEF Upto
      <4> QED
        BY <4>1, <4>2
    <3>2. CASE i # Len(scope'[d])
      <4>1. /\ i # Len(scope[d]) /\ i + 1 \in 1 .. Len(scope[d])
            /\ d = depth => i + 1 \in 1 .. n
        BY <1>1, <1>2, <1>3, <1>5, <2>1, <3>2, ScopeItems
      <4>2. scope[d][i + 1] # x /\ scope[d][i + 1] \in Item
        <5>1. d = depth => i + 1 # n + 1
          BY <1>1, <4>1
        <5> QED
          BY <1>1, <1>2, <4>1, <5>1, ScopeItems
      <4>3. scope'[d][i + 1] = scope[d][i + 1]
        BY <1>3, <1>5, <4>1
      <4> QED
        BY <1>4, <3>2, <4>1, <4>2, <4>3 DEF Upto
    <3> QED
      BY <3>1, <3>2
  <2> QED
    BY <1>4, <2>1, <2>2, <2>3, <2>4, SlotsKept
<1> QED
  BY <1>6 DEF AllSlots

\* Lua enters a C function, or leaves one that has no object left.
LEMMA SlotsFrame ==
  ASSUME AllSlots, TypeOK, NEW e \in Frame, scope[e] = << >>, NEW w,
         stk' = [stk EXCEPT ![e] = w], entry' = [entry EXCEPT ![e] = w],
         UNCHANGED <<scope, calling, tb, caller, below, hist>>
  PROVE  AllSlots'
<1>1. /\ stk'[e] = w /\ entry'[e] = w
      /\ \A d \in Frame : d # e => stk'[d] = stk[d] /\ entry'[d] = entry[d]
  BY DEF TypeOK
<1>2. ASSUME NEW d \in Frame, NEW i \in 0 .. Len(scope[d]) PROVE Slots(d, i)'
  <2>1. CASE d = e
    <3>1. Len(scope[e]) = 0 /\ i = 0
      BY <2>1
    <3> QED
      BY <1>1, <2>1, <3>1 DEF Slots, Upto
  <2>2. CASE d # e
    <3>1. Slots(d, i) /\ Upto(d, i)' = Upto(d, i) /\ entry'[d] = entry[d] /\ i \in Nat
      BY <1>1, <2>2 DEF AllSlots, Upto
    <3> QED
      BY <3>1, SlotsKept DEF Alike
  <2> QED
    BY <2>1, <2>2
<1> QED
  BY <1>2 DEF AllSlots

\* An error raised by the running C activation: the frame under it, which a
\* caller suspends, at most gets an error value instead of results.
LEMMA SlotsRaise ==
  ASSUME IInv, AllSlots, Suspended, HostRuns, RaiseError
  PROVE  AllSlots'
<1>1. CASE depth = 1
  BY <1>1, SlotsStay DEF RaiseError, Alike
<1>2. CASE depth # 1
  <2> DEFINE L == LiveIn(depth)
             up == depth - 1
             n == Len(scope[up])
             c == calling[up]
  <2>1. /\ TypeOK /\ depth \in Frame /\ up \in Frame /\ up # depth /\ up < depth
        /\ calling[depth] = None
    BY <1>2, ConstantsAssumption DEF IInv, TypeOK, Frame, HostRuns
  <2>2. c \in Callers /\ ~caller[c].resultSet
    <3>1. calling[up] # None /\ calling[up] # Chunk /\ calling[up] \in Callers \cup {Chunk, None}
      BY <2>1 DEF Suspended, TypeOK
    <3> QED
      BY <2>1, <3>1 DEF Suspended
  <2>3. n \in Nat \ {0} /\ scope[up][n] = c /\ caller[c].called
    BY <2>1, <2>2, RunningInnermost
  <2>4. /\ scope' = [scope EXCEPT ![depth] = << >>] /\ entry' = [entry EXCEPT ![depth] = << >>]
        /\ tb' = [x \in Item |-> IF x \in L THEN 0 ELSE tb[x]]
        /\ below' = [x \in Item |-> IF x \in L THEN << >> ELSE below[x]]
        /\ caller' = [x \in Callers |-> IF x \in L THEN NewCaller ELSE caller[x]]
        /\ hist' = [x \in Callers |-> IF x \in L THEN NoHistory ELSE hist[x]]
    BY <1>2 DEF RaiseError, Bury
  <2>5. \/ stk' = [stk EXCEPT ![depth] = << >>] /\ calling' = calling
        \/ \E v : /\ stk' = [stk EXCEPT ![depth] = << >>, ![up] = Append(@, v)]
                  /\ calling' = [calling EXCEPT ![up] = None]
    BY <1>2 DEF RaiseError, SetWindow
  <2> HIDE DEF L, up, n, c
  <2>6. /\ \A x \in Item : x \notin L => tb'[x] = tb[x] /\ below'[x] = below[x]
        /\ \A x \in Callers : x \notin L => Alike(x)
    BY <2>4 DEF Alike
  <2>7. ASSUME NEW d \in Frame, d # depth, NEW i \in 1 .. Len(scope[d])
        PROVE  scope[d][i] \notin L /\ scope[d][i] \in Item
    <3>1. ASSUME scope[d][i] \in L PROVE FALSE
      <4>1. PICK j \in 1 .. Len(scope[depth]) : scope[d][i] = scope[depth][j]
        BY <3>1 DEF L, LiveIn
      <4>2. Distinct
        BY DEF IInv, Structure
      <4> QED
        BY ONLY <2>1, <2>7, <4>1, <4>2, d \in Frame, i \in 1 .. Len(scope[d]) DEF Distinct
    <3> QED
      BY <2>1, <3>1, ScopeItems
  <2>8. /\ scope'[depth] = << >> /\ entry'[depth] = << >> /\ stk'[depth] = << >>
        /\ \A d \in Frame : d # depth => scope'[d] = scope[d] /\ entry'[d] = entry[d]
        /\ \A d \in Frame : d # depth /\ d # up => stk'[d] = stk[d] /\ calling'[d] = calling[d]
        /\ \/ stk'[up] = stk[up] /\ calling'[up] = calling[up]
           \/ calling'[up] = None
    BY <2>1, <2>4, <2>5 DEF TypeOK
  <2>9. ASSUME NEW d \in Frame, d = depth, NEW i \in 0 .. Len(scope'[d]) PROVE Slots(d, i)'
    <3>1. i = 0 /\ Len(scope'[d]) = 0
      BY <2>8, <2>9
    <3> QED
      BY <2>8, <2>9, <3>1 DEF Slots, Upto
  <2>10. ASSUME NEW d \in Frame, d # depth, NEW i \in 0 .. Len(scope[d])
         PROVE  Slots(d, i)'
    <3>1. /\ Slots(d, i) /\ i \in Nat /\ Len(scope[d]) \in Nat
          /\ i # 0 => i \in 1 .. Len(scope[d])
          /\ i # Len(scope[d]) => i + 1 \in 1 .. Len(scope[d])
      BY <2>1, ScopeItems DEF AllSlots
    <3>2. i # 0 => /\ scope'[d][i] = scope[d][i] /\ tb'[scope[d][i]] = tb[scope[d][i]]
                   /\ scope[d][i] \in Callers => Alike(scope[d][i])
      BY <2>6, <2>7, <2>8, <2>10, <3>1
    <3>3. CASE stk'[d] = stk[d] /\ calling'[d] = calling[d]
      <4>1. Upto(d, i)' = Upto(d, i)
        BY <2>6, <2>7, <2>8, <2>10, <3>1, <3>3 DEF Upto
      <4> QED
        BY <2>8, <2>10, <3>1, <3>2, <3>3, <4>1, SlotsKept
    <3>4. CASE d = up /\ calling'[d] = None /\ i # n
      <4>1. Upto(d, i)' = Upto(d, i)
        BY <2>6, <2>7, <2>8, <2>10, <3>1, <3>4 DEF Upto, n
      <4>2. None \notin Callers
        BY ConstantsAssumption
      <4> QED
        BY <2>8, <2>10, <3>1, <3>2, <3>4, <4>1, <4>2, SlotsKept
    <3>5. CASE d = up /\ calling'[d] = None /\ i = n
      <4>1. /\ i # 0 /\ scope'[d][i] = c /\ Alike(c)
        BY <2>2, <2>3, <2>8, <2>10, <3>2, <3>5
      <4>2. /\ caller'[c].called /\ ~caller'[c].resultSet /\ c \notin Brackets
            /\ calling'[d] # c
        BY <2>2, <2>3, <3>5, <4>1, ConstantsAssumption DEF Alike
      <4>3. ASSUME NEW w PROVE Content(w, c, tb'[c], caller'[c], hist'[c], calling'[d] = c)
        BY <4>2 DEF Content
      <4> QED
        BY <4>1, <4>3 DEF Slots
    <3> QED
      BY <2>8, <2>10, <3>3, <3>4, <3>5
  <2> QED
    BY <2>8, <2>9, <2>10 DEF AllSlots
<1> QED
  BY <1>1, <1>2

-----------------------------------------------------------------------------
(* What was passed and counted *)

LEMMA ToldSame ==
  ASSUME Told, caller' = caller, hist' = hist
  PROVE  Told'
BY DEF Told, Passed, Counted

LEMMA ToldBury ==
  ASSUME Told, NEW X, Bury(X)
  PROVE  Told'
<1>1. ASSUME NEW c \in Callers PROVE Passed(c)' /\ Counted(c)'
  <2>1. CASE c \in X
    <3>1. ~caller'[c].called /\ ~caller'[c].resultSet
      BY <2>1 DEF Bury, NewCaller
    <3> QED
      BY <3>1 DEF Passed, Counted
  <2>2. CASE c \notin X
    <3>1. caller'[c] = caller[c] /\ hist'[c] = hist[c]
      BY <2>2 DEF Bury
    <3> QED
      BY <3>1 DEF Told, Passed, Counted
  <2> QED
    BY <2>1, <2>2
<1> QED
  BY <1>1 DEF Told

LEMMA ToldOne ==
  ASSUME TypeOK, Told, NEW c \in Callers, NEW r, NEW h,
         caller' = [caller EXCEPT ![c] = r], hist' = [hist EXCEPT ![c] = h],
         Passed(c)', Counted(c)'
  PROVE  Told'
<1>1. \A x \in Callers : x # c => caller'[x] = caller[x] /\ hist'[x] = hist[x]
  BY DEF TypeOK
<1> QED
  BY <1>1 DEF Told, Passed, Counted

LEMMA AlikeOthers ==
  ASSUME TypeOK, NEW c \in Callers, NEW r, NEW h,
         caller' = [caller EXCEPT ![c] = r], hist' = [hist EXCEPT ![c] = h]
  PROVE  /\ \A x \in Callers : x # c => Alike(x)
         /\ caller'[c] = r /\ hist'[c] = h
         /\ \A x \in Callers : x # c => caller'[x] = caller[x]
BY DEF TypeOK, Alike

-----------------------------------------------------------------------------
(* Every action preserves CInv, for hosts that leave nothing behind *)

LEMMA SuspendedKept ==
  ASSUME Suspended, depth' = depth, calling' = calling,
         \A c \in Callers : caller'[c].resultSet => caller[c].resultSet
  PROVE  Suspended'
BY DEF Suspended

\* The running frame is the last one that has not been left.
LEMMA SuspendedEnds ==
  ASSUME IInv, Suspended, depth' = depth,
         calling' = [calling EXCEPT ![depth] = None],
         \A c \in Callers : caller'[c].resultSet => caller[c].resultSet \/ c = calling[depth]
  PROVE  Suspended'
<1>1. TypeOK /\ depth \in Frame /\ Frame \subseteq Nat
  BY DEF IInv, TypeOK, Frame
<1>2. /\ calling'[depth] = None
      /\ \A d \in Frame : d # depth => calling'[d] = calling[d]
  BY <1>1 DEF TypeOK
<1>3. None # Chunk /\ None \notin Callers
  BY ConstantsAssumption
<1>4. \A d \in Frame : d < depth => d # depth
  BY <1>1
<1>5. ASSUME NEW d \in Frame, calling'[d] \in Callers
      PROVE  ~caller'[calling'[d]].resultSet
  <2>1. d # depth /\ calling'[d] = calling[d]
    BY <1>2, <1>3, <1>5
  <2>2. calling[d] # calling[depth]
    <3>1. ASSUME calling[d] = calling[depth] PROVE FALSE
      <4>1. /\ Len(scope[d]) \in 1 .. Len(scope[d])
            /\ Len(scope[depth]) \in 1 .. Len(scope[depth])
            /\ scope[d][Len(scope[d])] = scope[depth][Len(scope[depth])]
        BY <1>1, <1>5, <2>1, <3>1, RunningInnermost
      <4>2. Distinct
        BY DEF IInv, Structure
      <4> QED
        BY ONLY <1>1, <2>1, <4>1, <4>2, d \in Frame DEF Distinct
    <3> QED
      BY <3>1
  <2> QED
    BY <1>5, <2>1, <2>2 DEF Suspended
<1> QED
  BY <1>2, <1>3, <1>4, <1>5 DEF Suspended

LEMMA InnermostContent ==
  ASSUME IInv, AllSlots, NEW x \in Item, Innermost(x)
  PROVE  Content(Window, x, tb[x], caller[x], hist[x], calling[depth] = x)
<1>1. /\ Len(scope[depth]) \in Nat \ {0} /\ scope[depth][Len(scope[depth])] = x
      /\ depth \in Frame
  BY InnermostPlace DEF IInv, TypeOK
<1>2. Slots(depth, Len(scope[depth]))
  BY <1>1 DEF AllSlots
<1> QED
  BY <1>1, <1>2 DEF Slots, Upto, Window

LEMMA LookupTop ==
  ASSUME NEW look \in Lookups
  PROVE  /\ Len(look) \in Nat \ {0} /\ look[Len(look)] = TopOf(look)
         /\ ByName => Len(look) = 1
<1>1. look \in Seq(Value) /\ look # << >>
  BY LookupType
<1>2. Len(look) \in Nat \ {0}
  BY <1>1, EmptySeq
<1>3. look[Len(look)] = TopOf(look)
  BY <1>2 DEF TopOf, ValueAt, AbsIndex
<1>4. ASSUME ByName PROVE Len(look) = 1
  <2>1. "handler" \notin Uses
    BY <1>4 DEF ByName
  <2>2. \/ \E v : look = ByGlobal(v)
        \/ \E t, v : look = ByField(t, v)
    BY <2>1 DEF Lookups
  <2>3. ASSUME NEW t, NEW v, look = ByField(t, v) PROVE look = <<v>> \/ look = <<t>>
    BY <2>3 DEF ByField
  <2> QED
    BY <2>2, <2>3 DEF ByGlobal
<1> QED
  BY <1>2, <1>3, <1>4

LEMMA OneSlot ==
  ASSUME NEW s \in Seq(Value), NEW k \in Nat \ {0}, k = Len(s)
  PROVE  SubSeq(s, k, k) = <<s[k]>>
<1>1. s[k] \in Value /\ k \in 1 .. Len(s)
  BY ElementOfSeq
<1> DEFINE a == SubSeq(s, k, k)
           b == <<s[k]>>
<1>2. a \in Seq(Value) /\ Len(a) = 1 /\ a[1] = s[k]
  BY <1>1
<1>3. b \in Seq(Value) /\ Len(b) = 1 /\ b[1] = s[k]
  BY <1>1
<1> HIDE DEF a, b
<1>4. \A i \in 1 .. Len(a) : a[i] = b[i]
  BY <1>2, <1>3
<1>5. a = b
  BY <1>2, <1>3, <1>4, SeqEqual
<1> QED
  BY <1>5 DEF a, b

LEMMA AppendBehind ==
  ASSUME NEW f \in Value, NEW s \in Seq(Value), NEW v \in Value
  PROVE  Append(<<f>> \o s, v) = <<f>> \o Append(s, v)
<1>1. <<f>> \in Seq(Value) /\ <<v>> \in Seq(Value) /\ <<f>> \o s \in Seq(Value)
  OBVIOUS
<1>2. /\ Append(<<f>> \o s, v) = (<<f>> \o s) \o <<v>>
      /\ Append(s, v) = s \o <<v>>
  BY <1>1, AppendIsConcat
<1> QED
  BY <1>1, <1>2, ConcatAssociative

LEMMA ConstructCalls ==
  ASSUME IInv, CInv, NEW c \in Callers, NEW look \in Lookups, Construct(c, look)
  PROVE  CInv'
<1> DEFINE p == <<Traceback>> \o look
           w == Window \o p
           h == [NoHistory EXCEPT !.found = TopOf(look)]
           k == Len(w)
<1>1. /\ TypeOK /\ c \in Item /\ depth \in Frame /\ c \notin Brackets
      /\ Window \in Seq(Value) /\ Len(Window) \in Nat
      /\ Suspended /\ AllSlots /\ Told
  BY CallerType, ConstantsAssumption DEF IInv, CInv
<1>2. /\ ~Alive(c) /\ EnterScope(c) /\ HostRuns
      /\ stk' = [stk EXCEPT ![depth] = w]
      /\ caller' = [caller EXCEPT ![c] = NewCaller] /\ hist' = [hist EXCEPT ![c] = h]
      /\ UNCHANGED <<depth, calling, entry>>
  BY DEF Construct, SetWindow
<1>3. /\ look \in Seq(Value) /\ Len(look) \in Nat \ {0} /\ look[Len(look)] = TopOf(look)
      /\ TopOf(look) \in Value /\ ByName => Len(look) = 1
  BY LookupType, LookupTop
<1>4. h.found = TopOf(look) /\ h.args = << >>
  BY DEF NoHistory
<1>5. NewCaller.numArgs = 0 /\ NewCaller.called = FALSE /\ NewCaller.resultSet = FALSE
  BY DEF NewCaller
<1>6. p \in Seq(Value) /\ Len(p) = 1 + Len(look) /\ p[Len(p)] = TopOf(look)
  BY <1>3, ValueTypes
<1> HIDE DEF p, h
<1>7. w \in Seq(Value) /\ k = Len(Window) + Len(p) /\ k \in Nat \ {0} /\ w[k] = TopOf(look)
  BY <1>1, <1>3, <1>6
<1> HIDE DEF w, k
<1>8. SubSeq(w, k, k) = <<TopOf(look)>>
  BY <1>7, OneSlot DEF k
<1>9. Len(w) = k
  BY DEF k
<1>10. <<h.found>> \o h.args = <<TopOf(look)>>
  BY <1>3, <1>4
<1>11. Gathered(w, Len(Window) + 1, NewCaller, h)
  <2>1. k - 0 = k /\ (ByName => k = Len(Window) + 1 + 1 + 0)
    BY <1>1, <1>3, <1>6, <1>7
  <2> QED
    BY <1>5, <1>8, <1>9, <1>10, <2>1 DEF Gathered
<1>12. /\ \A x \in Callers : x # c => Alike(x)
       /\ caller'[c] = NewCaller /\ hist'[c] = h
       /\ \A x \in Callers : x # c => caller'[x] = caller[x]
  BY <1>1, <1>2, AlikeOthers
<1>13. Content(w, c, Len(Window) + 1, caller'[c], hist'[c], calling[depth] = c)
  BY <1>1, <1>5, <1>11, <1>12 DEF Content
<1>14. AllSlots'
  BY <1>1, <1>2, <1>12, <1>13, SlotsEnter
<1>15. Told'
  BY <1>1, <1>2, <1>5, <1>12, ToldOne DEF Passed, Counted
<1>16. Suspended'
  BY <1>1, <1>2, <1>5, <1>12, SuspendedKept
<1> QED
  BY <1>14, <1>15, <1>16 DEF CInv

\* A value appended to a sequence ends its last part.
LEMMA AppendSubSeq ==
  ASSUME NEW s \in Seq(Value), NEW v \in Value, NEW m \in 1 .. Len(s)
  PROVE  SubSeq(Append(s, v), m, Len(s) + 1) = Append(SubSeq(s, m, Len(s)), v)
<1>1. /\ Append(s, v) \in Seq(Value) /\ Len(Append(s, v)) = Len(s) + 1
      /\ \A i \in 1 .. Len(s) : Append(s, v)[i] = s[i]
      /\ Append(s, v)[Len(s) + 1] = v
  BY AppendProperties
<1> DEFINE n == Len(s) + 1 - m
           a == SubSeq(Append(s, v), m, Len(s) + 1)
           q == SubSeq(s, m, Len(s))
           b == Append(q, v)
<1>2. n \in Nat /\ Len(s) \in Nat
  OBVIOUS
<1>3. q \in Seq(Value) /\ Len(q) = n /\ \A i \in 1 .. n : q[i] = s[m + i - 1]
  BY <1>2
<1>4. /\ b \in Seq(Value) /\ Len(b) = n + 1 /\ b[n + 1] = v
      /\ \A i \in 1 .. n : b[i] = s[m + i - 1]
  <2> HIDE DEF q
  <2> QED
    BY <1>2, <1>3, AppendProperties
<1>5. /\ a \in Seq(Value) /\ Len(a) = n + 1
      /\ \A i \in 1 .. n + 1 : a[i] = Append(s, v)[m + i - 1]
  BY <1>1, <1>2
<1>6. \A i \in 1 .. n + 1 : a[i] = b[i]
  <2> TAKE i \in 1 .. n + 1
  <2>1. CASE i = n + 1
    BY <1>1, <1>2, <1>4, <1>5, <2>1
  <2>2. CASE i # n + 1
    <3>1. i \in 1 .. n /\ m + i - 1 \in 1 .. Len(s)
      BY <1>2, <2>2
    <3> HIDE DEF a, b
    <3> QED
      BY <1>1, <1>4, <1>5, <3>1
  <2> QED
    BY <2>1, <2>2
<1> HIDE DEF a, b
<1>7. a = b
  BY <1>4, <1>5, <1>6, SeqEqual
<1> QED
  BY <1>7 DEF a, b

LEMMA ArgCalls ==
  ASSUME IInv, RInv, CInv, NEW c \in Callers, NEW v \in Ints, Arg(c, v)
  PROVE  CInv'
<1> DEFINE r == [caller[c] EXCEPT !.numArgs = @ + 1]
           h == [hist[c] EXCEPT !.args = Append(@, v)]
           w == Append(Window, v)
           m == Len(Window) - caller[c].numArgs
<1>1. /\ TypeOK /\ c \in Item /\ depth \in Frame /\ c \notin Brackets
      /\ Window \in Seq(Value) /\ Len(Window) \in Nat /\ v \in Value
      /\ caller[c] \in CallerState /\ hist[c] \in History /\ caller[c].numArgs \in Nat
      /\ Suspended /\ AllSlots /\ Told
  BY CallerType, ValueTypes, ConstantsAssumption DEF IInv, CInv, CallerState
<1>2. /\ HostRuns /\ Innermost(c) /\ ~caller[c].called
      /\ stk' = [stk EXCEPT ![depth] = w]
      /\ caller' = [caller EXCEPT ![c] = r] /\ hist' = [hist EXCEPT ![c] = h]
      /\ UNCHANGED <<depth, scope, calling, tb, entry, below>>
  BY DEF Arg, SetWindow
<1>3. /\ r.numArgs = caller[c].numArgs + 1 /\ r.called = caller[c].called
      /\ r.resultSet = caller[c].resultSet
      /\ h.args = Append(hist[c].args, v) /\ h.found = hist[c].found
  BY <1>1 DEF CallerState, History
<1> HIDE DEF r, h
<1>4. Gathered(Window, tb[c], caller[c], hist[c])
  BY <1>1, <1>2, InnermostContent DEF Content
<1>5. m \in 1 .. Len(Window)
  <2>1. Held[c] = tb[c] + caller[c].numArgs + 1 /\ tb[c] \in Nat \ {0}
    BY <1>1, <1>2, InnermostLaid DEF Held
  <2>2. Held[c] <= Len(Window)
    BY <1>1, <1>2, InnermostLaid
  <2> QED
    BY <1>1, <2>1, <2>2
<1>6. Gathered(w, tb[c], r, h)
  <2>1. SubSeq(w, m, Len(Window) + 1) = Append(SubSeq(Window, m, Len(Window)), v)
    BY <1>1, <1>5, AppendSubSeq
  <2>2. SubSeq(Window, m, Len(Window)) = <<hist[c].found>> \o hist[c].args
    BY <1>4 DEF Gathered
  <2>3. Append(<<hist[c].found>> \o hist[c].args, v) = <<h.found>> \o h.args
    <3>1. hist[c].args \in Seq(Value) /\ hist[c].found \in Value
      <4>1. Ints \subseteq Value /\ hist[c].args \in Seq(Ints) /\ hist[c].found \in Value
        BY <1>1, ValueTypes DEF History
      <4> QED
        BY <4>1, SeqMonotonic
    <3>2. Append(<<hist[c].found>> \o hist[c].args, v)
            = <<hist[c].found>> \o Append(hist[c].args, v)
      BY <1>1, <3>1, AppendBehind
    <3> QED
      BY <1>3, <3>2
  <2>4. Len(w) = Len(Window) + 1 /\ Len(w) - r.numArgs = m
    <3>1. Len(w) = Len(Window) + 1
      BY <1>1
    <3>2. /\ Len(Window) \in Nat /\ caller[c].numArgs \in Nat
          /\ r.numArgs = caller[c].numArgs + 1
      BY <1>1, <1>3
    <3> HIDE DEF w
    <3> QED
      BY ONLY <3>1, <3>2
  <2>5. ByName => Len(w) = tb[c] + 1 + r.numArgs
    BY <1>1, <1>3, <1>4, <2>4 DEF Gathered, TypeOK
  <2> QED
    BY <2>1, <2>2, <2>3, <2>4, <2>5 DEF Gathered
<1>7. /\ \A x \in Callers : x # c => Alike(x)
      /\ caller'[c] = r /\ hist'[c] = h
      /\ \A x \in Callers : x # c => caller'[x] = caller[x]
  BY <1>1, <1>2, AlikeOthers
<1> HIDE DEF w, m
<1>8. Content(w, c, tb[c], caller'[c], hist'[c], calling'[depth] = c)
  BY <1>1, <1>2, <1>3, <1>6, <1>7 DEF Content
<1>9. calling'[depth] \notin Callers
  BY <1>2, ConstantsAssumption DEF HostRuns
<1>10. AllSlots'
  BY <1>1, <1>2, <1>7, <1>8, <1>9, SlotsTop
<1>11. ~r.called /\ ~r.resultSet
  BY <1>2, <1>3 DEF RInv, Remembers
<1>12. Told'
  BY <1>1, <1>2, <1>7, <1>11, ToldOne DEF Passed, Counted
<1>13. Suspended'
  BY <1>1, <1>2, <1>7, <1>11, SuspendedKept
<1> QED
  BY <1>10, <1>12, <1>13 DEF CInv

LEMMA CallCalls ==
  ASSUME IInv, RInv, CInv, NEW c \in Callers, Call(c)
  PROVE  CInv'
<1>1. /\ TypeOK /\ c \in Item /\ depth \in Frame /\ c \notin Brackets
      /\ Window \in Seq(Value) /\ Len(Window) \in Nat /\ Nil \in Value
      /\ caller[c] \in CallerState /\ hist[c] \in History /\ caller[c].numArgs \in Nat
      /\ tb[c] \in Nat /\ Suspended /\ AllSlots /\ Told /\ Remembers(c)
  <2>1. TypeOK /\ Suspended /\ AllSlots /\ Told /\ Remembers(c)
    BY DEF IInv, RInv, CInv
  <2>2. caller[c] \in CallerState /\ c \in Item
    BY <2>1, CallerType
  <2>3. caller[c].numArgs \in Nat /\ tb[c] \in Nat
    BY <2>1, <2>2, ConstantsAssumption DEF CallerState, TypeOK
  <2> QED
    BY <2>1, <2>2, <2>3, CallerType, ValueTypes, ConstantsAssumption
<1>2. /\ HostRuns /\ Innermost(c)
      /\ UNCHANGED <<depth, scope, tb, entry, below>>
  BY DEF Call
<1>3. CASE caller[c].called
  <2>1. UNCHANGED <<stk, calling, caller, hist>>
    BY <1>3 DEF Call
  <2> QED
    BY <1>1, <1>2, <2>1, SlotsStay, SuspendedKept, ToldSame DEF CInv, Alike
<1>4. CASE ~caller[c].called
  <2> DEFINE n == FunctionSlot(c) - 1
             kept == SubSeq(Window, 1, n)
             p == SubSeq(Window, FunctionSlot(c), Len(Window))
             r == [caller[c] EXCEPT !.called = TRUE]
             h == [hist[c] EXCEPT !.passed = p]
  <2>1. /\ caller' = [caller EXCEPT ![c] = r] /\ hist' = [hist EXCEPT ![c] = h]
        /\ \/ stk' = [stk EXCEPT ![depth] = kept] /\ calling' = [calling EXCEPT ![depth] = c]
           \/ stk' = [stk EXCEPT ![depth] = Append(kept, Nil)] /\ calling' = calling
    BY <1>4 DEF Call, SetTop, SetWindow
  <2>2. /\ r.called = TRUE /\ r.resultSet = FALSE
        /\ h.passed = p /\ h.found = hist[c].found /\ h.args = hist[c].args
    BY <1>1, <1>4 DEF CallerState, History, Remembers
  <2>3. Gathered(Window, tb[c], caller[c], hist[c])
    BY <1>1, <1>2, <1>4, InnermostContent DEF Content
  <2>4. p = <<hist[c].found>> \o hist[c].args
    BY <2>3 DEF Gathered, FunctionSlot
  <2>5. n \in Nat /\ n <= Len(Window) /\ (ByName => n = tb[c])
    <3>1. Held[c] = tb[c] + caller[c].numArgs + 1 /\ tb[c] \in Nat \ {0}
      BY <1>1, <1>2, <1>4, InnermostLaid DEF Held
    <3>2. Held[c] <= Len(Window)
      BY <1>1, <1>2, InnermostLaid
    <3>3. ByName => Len(Window) = tb[c] + 1 + caller[c].numArgs
      BY <2>3 DEF Gathered
    <3>4. n = Len(Window) - caller[c].numArgs - 1
      BY DEF FunctionSlot
    <3>5. Len(Window) \in Nat /\ caller[c].numArgs \in Nat
      BY <1>1
    <3> HIDE DEF n
    <3>6. n \in Nat /\ n <= Len(Window)
      BY ONLY <3>1, <3>2, <3>4, <3>5
    <3>7. ASSUME ByName PROVE n = tb[c]
      <4>1. Len(Window) = tb[c] + 1 + caller[c].numArgs
        BY <3>3, <3>7
      <4> QED
        BY ONLY <3>1, <3>4, <3>5, <4>1
    <3> QED
      BY <3>6, <3>7
  <2> HIDE DEF n, p, r, h
  <2>6. Len(kept) = n
    BY <1>1, <2>5
  <2> HIDE DEF kept
  <2>7. /\ \A x \in Callers : x # c => Alike(x)
        /\ caller'[c] = r /\ hist'[c] = h
        /\ \A x \in Callers : x # c => caller'[x] = caller[x]
    BY <1>1, <2>1, AlikeOthers
  <2>8. Told'
    <3>1. Passed(c)'
      BY <2>2, <2>4, <2>7 DEF Passed
    <3>2. Counted(c)'
      BY <2>2, <2>7 DEF Counted
    <3> QED
      BY <1>1, <2>1, <3>1, <3>2, ToldOne
  <2>9. /\ \A d \in Frame : d # depth => calling'[d] = calling[d]
        /\ calling'[depth] \in Callers => calling'[depth] = c
    BY <1>1, <1>2, <2>1, ConstantsAssumption DEF HostRuns, TypeOK
  <2>10. CASE /\ stk' = [stk EXCEPT ![depth] = kept]
              /\ calling' = [calling EXCEPT ![depth] = c]
    <3>1. Content(kept, c, tb[c], caller'[c], hist'[c], calling'[depth] = c)
      BY <1>1, <2>2, <2>5, <2>6, <2>7 DEF Content
    <3>2. AllSlots'
      BY <1>1, <1>2, <2>7, <2>9, <2>10, <3>1, SlotsTop
    <3>3. Suspended'
      <4>1. calling'[depth] = c /\ c # Chunk /\ c # None /\ ~caller'[c].resultSet
        BY <1>1, <2>2, <2>7, <2>10, ConstantsAssumption DEF TypeOK
      <4>2. \A x \in Callers : caller'[x].resultSet => caller[x].resultSet
        BY <2>2, <2>7
      <4> QED
        BY <1>1, <1>2, <2>9, <4>1, <4>2 DEF Suspended
    <3> QED
      BY <2>8, <3>2, <3>3 DEF CInv
  <2>11. CASE stk' = [stk EXCEPT ![depth] = Append(kept, Nil)] /\ calling' = calling
    <3> DEFINE w == Append(kept, Nil)
    <3>1. calling'[depth] # c
      BY <1>2, <2>11, ConstantsAssumption DEF HostRuns
    <3> HIDE DEF w
    <3>2. Content(w, c, tb[c], caller'[c], hist'[c], calling'[depth] = c)
      BY <1>1, <2>2, <2>7, <3>1 DEF Content
    <3>3. stk' = [stk EXCEPT ![depth] = w]
      BY <2>11 DEF w
    <3>4. AllSlots'
      BY <1>1, <1>2, <2>7, <2>9, <3>2, <3>3, SlotsTop
    <3>5. Suspended'
      BY <1>1, <1>2, <2>2, <2>7, <2>11, SuspendedKept
    <3> QED
      BY <2>8, <3>4, <3>5 DEF CInv
  <2> QED
    BY <2>1, <2>10, <2>11
<1> QED
  BY <1>3, <1>4

LEMMA ReturnsCalls ==
  ASSUME IInv, RInv, CInv, NEW c \in Callers, NEW rs \in Results, CallReturns(c, rs)
  PROVE  CInv'
<1> DEFINE w == Window \o rs
           r == Ready(c, Len(Window) + Len(rs))
           h == [hist[c] EXCEPT !.ret = rs]
<1>1. /\ TypeOK /\ c \in Item /\ depth \in Frame /\ c \notin Brackets
      /\ Window \in Seq(Value) /\ Len(Window) \in Nat
      /\ rs \in Seq(Value) /\ Len(rs) \in Nat
      /\ caller[c] \in CallerState /\ hist[c] \in History /\ tb[c] \in Nat
      /\ Suspended /\ AllSlots /\ Told /\ Remembers(c)
  BY CallerType, ResultsType, ConstantsAssumption DEF IInv, RInv, CInv, TypeOK
<1>2. /\ calling[depth] = c
      /\ stk' = [stk EXCEPT ![depth] = w] /\ calling' = [calling EXCEPT ![depth] = None]
      /\ caller' = [caller EXCEPT ![c] = r] /\ hist' = [hist EXCEPT ![c] = h]
      /\ UNCHANGED <<depth, scope, tb, entry, below>>
  BY DEF CallReturns, SetWindow
<1>3. caller[c].called /\ ~caller[c].resultSet /\ hist[c].got = << >>
  BY <1>1, <1>2, RunningInnermost DEF Suspended, Remembers
<1>4. Innermost(c)
  <2>1. Len(scope[depth]) \in Nat \ {0} /\ scope[depth][Len(scope[depth])] = c
    BY <1>1, <1>2, RunningInnermost
  <2> QED
    BY <2>1 DEF Innermost, TopOf, ValueAt, AbsIndex
<1>5. ByName => Len(Window) = tb[c]
  BY <1>1, <1>2, <1>3, <1>4, InnermostContent DEF Content
<1>6. /\ r.called = caller[c].called /\ r.resultSet = TRUE
      /\ r.resultCount = Len(Window) + Len(rs) - tb[c]
  BY <1>1 DEF Ready, CallerState
<1>7. /\ h.ret = rs /\ h.got = hist[c].got /\ h.passed = hist[c].passed
      /\ h.found = hist[c].found /\ h.args = hist[c].args
  BY <1>1 DEF History
<1> HIDE DEF r, h
<1>8. ASSUME ByName PROVE Answered(w, tb[c], h)
  <2>1. Len(w) = tb[c] + Len(rs)
    BY <1>1, <1>5, <1>8
  <2>2. SubSeq(w, tb[c] + 1, Len(w)) = rs
    <3>1. SubSeq(w, Len(Window) + 1, Len(Window) + Len(rs)) = SubSeq(rs, 1, Len(rs))
      BY <1>1
    <3>2. SubSeq(rs, 1, Len(rs)) = rs
      BY <1>1, SubSeqFull
    <3> QED
      BY <1>5, <1>8, <2>1, <3>1, <3>2
  <2> QED
    BY <1>7, <2>1, <2>2 DEF Answered
<1> HIDE DEF w
<1>9. /\ \A x \in Callers : x # c => Alike(x)
      /\ caller'[c] = r /\ hist'[c] = h
      /\ \A x \in Callers : x # c => caller'[x] = caller[x]
  BY <1>1, <1>2, AlikeOthers
<1>10. /\ calling'[depth] = None /\ None \notin Callers
       /\ \A d \in Frame : d # depth => calling'[d] = calling[d]
  BY <1>1, <1>2, ConstantsAssumption DEF TypeOK
<1>11. Content(w, c, tb[c], caller'[c], hist'[c], calling'[depth] = c)
  BY <1>1, <1>3, <1>6, <1>8, <1>9, <1>10 DEF Content
<1>12. AllSlots'
  BY <1>1, <1>2, <1>4, <1>9, <1>10, <1>11, SlotsTop
<1>13. Passed(c)'
  BY <1>1, <1>3, <1>7, <1>9 DEF Told, Passed
<1>14. Counted(c)'
  <2>1. /\ Len(h.got) = 0 /\ h.got = SubSeq(h.ret, 1, Len(h.got)) /\ h.ret = rs
        /\ Len(h.got) <= Len(h.ret)
    BY <1>1, <1>3, <1>7
  <2>2. ByName => r.resultCount = Len(h.ret) - Len(h.got)
    BY <1>1, <1>5, <1>6, <2>1
  <2> QED
    BY <1>9, <2>1, <2>2 DEF Counted
<1>15. Told'
  BY <1>1, <1>2, <1>13, <1>14, ToldOne
<1>16. Suspended'
  BY <1>1, <1>2, <1>9, SuspendedEnds
<1> QED
  BY <1>12, <1>15, <1>16 DEF CInv

LEMMA RaiseCalls ==
  ASSUME IInv, CInv, HostRuns, RaiseError
  PROVE  CInv'
<1>1. TypeOK /\ Suspended /\ AllSlots /\ Told /\ depth \in Frame /\ Frame \subseteq Nat
  BY DEF IInv, CInv, TypeOK, Frame
<1>2. AllSlots'
  BY <1>1, SlotsRaise
<1>3. CASE depth = 1
  <2>1. UNCHANGED <<depth, calling, caller, hist>>
    BY <1>3 DEF RaiseError
  <2> QED
    BY <1>1, <1>2, <2>1, ToldSame, SuspendedKept DEF CInv
<1>4. CASE depth # 1
  <2>1. /\ Bury(LiveIn(depth)) /\ depth' = depth - 1
        /\ \/ calling' = calling
           \/ calling' = [calling EXCEPT ![depth - 1] = None]
    BY <1>4 DEF RaiseError
  <2>2. \A x \in Callers : caller'[x].resultSet => caller[x].resultSet
    BY <2>1 DEF Bury, NewCaller
  <2>3. \A d \in Frame : /\ calling'[d] \in {calling[d], None}
                         /\ d < depth - 1 => calling'[d] = calling[d]
    BY <1>1, <2>1 DEF TypeOK
  <2>4. None # Chunk /\ None \notin Callers
    BY ConstantsAssumption
  <2>5. Suspended'
    <3>1. \A d \in Frame : d < depth' => d < depth /\ calling'[d] = calling[d]
      BY <1>1, <2>1, <2>3
    <3> QED
      BY <1>1, <2>2, <2>3, <2>4, <3>1 DEF Suspended
  <2>6. Told'
    BY <1>1, <2>1, ToldBury
  <2> QED
    BY <1>2, <2>5, <2>6 DEF CInv
<1> QED
  BY <1>3, <1>4

\* The next result is the one that GetResult finds under the top.
LEMMA NextResult ==
  ASSUME NEW s \in Seq(Value), NEW ret \in Seq(Value), NEW t \in Nat, NEW n \in Nat,
         n < Len(ret), Len(s) = t + Len(ret), SubSeq(s, t + 1, Len(s)) = ret
  PROVE  /\ IsSlot(s, -(Len(ret) - n)) /\ ValueAt(s, -(Len(ret) - n)) = ret[n + 1]
         /\ Append(SubSeq(ret, 1, n), ret[n + 1]) = SubSeq(ret, 1, n + 1)
<1> DEFINE k == -(Len(ret) - n)
<1>1. Len(ret) \in Nat /\ k \in Int /\ ~(k > 0) /\ Len(s) + k + 1 = t + n + 1
  OBVIOUS
<1>2. AbsIndex(s, k) = t + n + 1
  BY <1>1 DEF AbsIndex
<1>3. t + n + 1 \in 1 .. Len(s) /\ n + 1 \in 1 .. Len(ret)
  BY <1>1
<1>4. s[t + n + 1] = ret[n + 1]
  BY <1>3
<1>5. SubSeq(ret, 1, n + 1) = SubSeq(ret, 1, n) \o <<ret[n + 1]>>
  <2>1. 1 \in 1 .. Len(ret) /\ n + 1 \in 1 .. Len(ret) /\ n + 1 - 1 = n
    BY <1>3
  <2> QED
    BY <2>1, SubSeqRecursiveSecond
<1>6. SubSeq(ret, 1, n) \in Seq(Value) /\ ret[n + 1] \in Value
  BY <1>3
<1>7. Append(SubSeq(ret, 1, n), ret[n + 1]) = SubSeq(ret, 1, n) \o <<ret[n + 1]>>
  BY <1>6, AppendIsConcat
<1> HIDE DEF k
<1>8. IsSlot(s, k) /\ ValueAt(s, k) = ret[n + 1]
  BY <1>2, <1>3, <1>4 DEF IsSlot, ValueAt
<1> QED
  BY <1>5, <1>7, <1>8 DEF k

\* Reading by name, with no object above: the next result, once.
LEMMA ReadsNext ==
  ASSUME IInv, CInv, ByName, NEW c \in Callers, NEW checked \in BOOLEAN,
         GetResult(c, checked), caller[c].resultSet, NEW v \in Readable(ResultIndex(c))
  PROVE  /\ Len(hist[c].got) < Len(hist[c].ret)
         /\ v = hist[c].ret[Len(hist[c].got) + 1]
         /\ hist[c].got = SubSeq(hist[c].ret, 1, Len(hist[c].got))
         /\ caller[c].resultCount = Len(hist[c].ret) - Len(hist[c].got)
<1> DEFINE ret == hist[c].ret
           n == Len(hist[c].got)
<1>1. /\ TypeOK /\ AllSlots /\ Told /\ c \in Item /\ Window \in Seq(Value)
      /\ hist[c] \in History
  BY CallerType DEF IInv, CInv
<1>2. /\ n <= Len(ret) /\ hist[c].got = SubSeq(ret, 1, n)
      /\ caller[c].resultCount = Len(ret) - n
  BY <1>1 DEF Told, Counted
<1>3. "unchecked" \notin Uses /\ "outer" \notin Uses
  BY DEF ByName
<1>4. Innermost(c) /\ caller[c].resultCount > 0 /\ caller[c].called
  BY <1>3 DEF GetResult
<1>5. Answered(Window, tb[c], hist[c])
  BY <1>1, <1>4, InnermostContent DEF Content
<1>6. ret \in Seq(Value) /\ n \in Nat /\ tb[c] \in Nat /\ Len(ret) \in Nat
  BY <1>1 DEF History, TypeOK
<1> HIDE DEF ret, n
<1>7. n < Len(ret)
  BY <1>2, <1>4, <1>6
<1>8. Len(Window) = tb[c] + Len(ret) /\ SubSeq(Window, tb[c] + 1, Len(Window)) = ret
  BY <1>5 DEF Answered, ret
<1>9. IsSlot(Window, -(Len(ret) - n)) /\ ValueAt(Window, -(Len(ret) - n)) = ret[n + 1]
  BY <1>1, <1>6, <1>7, <1>8, NextResult
<1>10. ResultIndex(c) = -(Len(ret) - n) /\ ResultIndex(c) # 0
  BY <1>2, <1>6, <1>7 DEF ResultIndex
<1>11. v = ret[n + 1]
  BY <1>9, <1>10 DEF Readable
<1> QED
  BY <1>2, <1>7, <1>11 DEF ret, n

LEMMA GetResultCalls ==
  ASSUME IInv, CInv, NEW c \in Callers, NEW checked \in BOOLEAN, GetResult(c, checked)
  PROVE  CInv'
<1>1. /\ TypeOK /\ Suspended /\ AllSlots /\ Told /\ HostRuns
      /\ caller[c] \in CallerState /\ hist[c] \in History
  BY CallerType DEF IInv, CInv, GetResult
<1>2. CASE RaiseError
  BY <1>1, <1>2, RaiseCalls
<1>3. CASE ~caller[c].resultSet
  <2>1. UNCHANGED <<depth, stk, scope, calling, tb, caller, entry, below, hist>>
    BY <1>3 DEF GetResult
  <2> QED
    BY <1>1, <2>1, SlotsStay, SuspendedKept, ToldSame DEF CInv, Alike
<1>4. CASE caller[c].resultSet /\ ~RaiseError
  <2>1. PICK v \in Readable(ResultIndex(c)) :
          /\ caller' = [caller EXCEPT ![c].resultCount = @ - 1]
          /\ hist' = [hist EXCEPT ![c].got = Append(@, v)]
          /\ UNCHANGED <<depth, stk, scope, calling, tb, entry, below>>
    BY <1>4 DEF GetResult
  <2> DEFINE r == [caller[c] EXCEPT !.resultCount = @ - 1]
             h == [hist[c] EXCEPT !.got = Append(@, v)]
  <2>2. /\ r.called = caller[c].called /\ r.numArgs = caller[c].numArgs
        /\ r.resultSet = caller[c].resultSet /\ r.resultCount = caller[c].resultCount - 1
        /\ h.got = Append(hist[c].got, v) /\ h.passed = hist[c].passed
        /\ h.found = hist[c].found /\ h.args = hist[c].args /\ h.ret = hist[c].ret
    BY <1>1 DEF CallerState, History
  <2>3. caller' = [caller EXCEPT ![c] = r] /\ hist' = [hist EXCEPT ![c] = h]
    BY <2>1
  <2> HIDE DEF r, h
  <2>4. /\ \A x \in Callers : x # c => Alike(x)
        /\ caller'[c] = r /\ hist'[c] = h
        /\ \A x \in Callers : x # c => caller'[x] = caller[x]
    BY <1>1, <2>3, AlikeOthers
  <2>5. \A x \in Callers : Alike(x)
    <3>1. Alike(c)
      BY <2>2, <2>4 DEF Alike
    <3> QED
      BY <2>4, <3>1
  <2>6. AllSlots'
    BY <1>1, <2>1, <2>5, SlotsStay
  <2>7. Suspended'
    BY <1>1, <2>1, <2>5, SuspendedKept DEF Alike
  <2>8. Passed(c)'
    BY <1>1, <2>2, <2>4 DEF Told, Passed
  <2>9. Counted(c)'
    <3>1. SUFFICES ASSUME ByName
                   PROVE  /\ Len(h.got) <= Len(h.ret)
                          /\ h.got = SubSeq(h.ret, 1, Len(h.got))
                          /\ r.resultCount = Len(h.ret) - Len(h.got)
      BY <2>4 DEF Counted
    <3> DEFINE ret == hist[c].ret
               n == Len(hist[c].got)
    <3>2. /\ n < Len(ret) /\ v = ret[n + 1] /\ hist[c].got = SubSeq(ret, 1, n)
          /\ caller[c].resultCount = Len(ret) - n
      BY <1>4, <3>1, ReadsNext
    <3>3. ret \in Seq(Value) /\ n \in Nat /\ hist[c].got \in Seq(Value) /\ Len(ret) \in Nat
      BY <1>1 DEF History
    <3>4. v \in Value
      <4>1. n + 1 \in 1 .. Len(ret)
        BY <3>2, <3>3
      <4> QED
        BY <3>2, <3>3, <4>1
    <3>5. Len(h.got) = n + 1
      BY <2>2, <3>3, <3>4
    <3> HIDE DEF ret, n
    <3>6. Append(SubSeq(ret, 1, n), ret[n + 1]) = SubSeq(ret, 1, n + 1)
      <4>1. /\ 0 + Len(ret) = Len(ret) /\ SubSeq(ret, 0 + 1, Len(ret)) = ret /\ 0 \in Nat
        BY <3>3, SubSeqFull
      <4>2. Len(ret) = 0 + Len(ret)
        BY <4>1
      <4> QED
        BY <3>2, <3>3, <4>1, <4>2, NextResult
    <3>7. h.got = SubSeq(ret, 1, n + 1) /\ h.ret = ret
      BY <2>2, <3>2, <3>6 DEF ret
    <3>8. n + 1 <= Len(ret) /\ caller[c].resultCount - 1 = Len(ret) - (n + 1)
      BY <3>2, <3>3
    <3> QED
      BY <2>2, <3>5, <3>7, <3>8
  <2>10. Told'
    BY <1>1, <2>3, <2>8, <2>9, ToldOne
  <2> QED
    BY <2>6, <2>7, <2>10 DEF CInv
<1> QED
  BY <1>2, <1>3, <1>4

\* ~LuaCaller, EndGetTable and EndGetTableTable leave the window under the
\* object: for a bracket, because nothing lies above its table.
LEMMA LeaveCalls ==
  ASSUME IInv, CInv, (\E c \in Callers : Destroy(c)) \/ (\E b \in Brackets : EndGetTable(b))
  PROVE  CInv'
<1>1. TypeOK /\ Suspended /\ AllSlots /\ Told
  BY DEF IInv, CInv
<1>2. PICK x \in Item :
        /\ Innermost(x) /\ LeaveScope(x) /\ UNCHANGED <<depth, calling, entry>>
        /\ \/ SetWindow(SubSeq(Window, 1, tb[x] - 1))
           \/ x \in Brackets /\ SetWindow(SubSeq(Window, 1, Len(Window) - 1))
  BY DEF Destroy, EndGetTable, SetTop, Pop, Item
<1>3. x \in Brackets => Len(Window) = tb[x]
  BY <1>1, <1>2, InnermostContent DEF Content
<1>4. SubSeq(Window, 1, tb[x] - 1) = below[x]
  BY <1>2, InnermostLaid
<1>5. stk' = [stk EXCEPT ![depth] = below[x]]
  BY <1>2, <1>3, <1>4 DEF SetWindow
<1>6. AllSlots'
  BY <1>1, <1>2, <1>5, SlotsLeave
<1>7. Told'
  BY <1>1, <1>2, ToldBury DEF LeaveScope
<1>8. \A c \in Callers : caller'[c].resultSet => caller[c].resultSet
  BY <1>2 DEF LeaveScope, Bury, NewCaller
<1>9. Suspended'
  BY <1>1, <1>2, <1>8, SuspendedKept
<1> QED
  BY <1>6, <1>7, <1>9 DEF CInv

LEMMA VaribleCalls ==
  ASSUME IInv, CInv, NoLeaks, NEW v \in Globals,
         \/ \E checked \in BOOLEAN :
              GetGlobalVarible(v, checked) \/ GetTableVarible(v, checked)
         \/ \E b \in Brackets : BeginGetTable(b, v) \/ BeginGetTableTable(b, v)
  PROVE  CInv'
<1>1. /\ TypeOK /\ Suspended /\ AllSlots /\ Told /\ HostRuns
      /\ Window \in Seq(Value) /\ v \in Value
  BY CallerType, ValueTypes
     DEF IInv, CInv, GetGlobalVarible, GetTableVarible, BeginGetTable, BeginGetTableTable
<1>2. \A checked : ~GetGlobalVarible(v, checked)
  BY DEF GetGlobalVarible, NoLeaks
<1>3. CASE RaiseError
  BY <1>1, <1>3, RaiseCalls
<1>4. CASE UNCHANGED vars
  BY <1>1, <1>4, SlotsStay, SuspendedKept, ToldSame DEF CInv, Alike, vars
<1>5. CASE \E b \in Brackets :
             /\ ~Alive(b) /\ SetWindow(Append(Window, v)) /\ EnterScope(b)
             /\ UNCHANGED <<status, depth, calling, caller, entry, hist>>
  <2>1. PICK b \in Brackets : /\ ~Alive(b) /\ SetWindow(Append(Window, v)) /\ EnterScope(b)
                              /\ UNCHANGED <<status, depth, calling, caller, entry, hist>>
    BY <1>5
  <2> DEFINE w == Append(Window, v)
  <2>2. Len(w) = Len(Window) + 1 /\ b \in Item /\ b \notin Callers
    BY <1>1, ConstantsAssumption DEF Item
  <2> HIDE DEF w
  <2>3. Content(w, b, Len(Window) + 1, caller'[b], hist'[b], calling[depth] = b)
    BY <2>2 DEF Content
  <2>4. stk' = [stk EXCEPT ![depth] = w]
    BY <2>1 DEF SetWindow, w
  <2>5. AllSlots'
    BY <1>1, <2>1, <2>2, <2>3, <2>4, SlotsEnter DEF Alike
  <2> QED
    BY <1>1, <2>1, <2>5, SuspendedKept, ToldSame DEF CInv
<1> QED
  BY <1>2, <1>3, <1>4, <1>5 DEF GetTableVarible, BeginGetTable, BeginGetTableTable

LEMMA LuaCalls ==
  ASSUME IInv, CInv, NoLeaks, RunChunk \/ LuaRaises \/ (\E rs \in Results : ChunkReturns(rs))
  PROVE  CInv'
<1>1. TypeOK /\ depth \in Frame /\ Suspended /\ AllSlots /\ Told
  BY DEF IInv, CInv, TypeOK
<1>2. ~RunChunk /\ \A rs : ~ChunkReturns(rs)
  BY <1>1 DEF RunChunk, ChunkReturns, NoLeaks, Suspended
<1>3. PICK v : SetWindow(Append(Window, v))
  BY <1>2 DEF LuaRaises
<1>4. /\ calling[depth] # None /\ calling' = [calling EXCEPT ![depth] = None]
      /\ UNCHANGED <<depth, scope, tb, caller, entry, below, hist>>
  BY <1>2 DEF LuaRaises, LuaRuns
<1> DEFINE c == calling[depth]
           w == Append(Window, v)
<1>5. c \in Callers /\ ~caller[c].resultSet
  BY <1>1, <1>4 DEF Suspended, TypeOK
<1>6. /\ Len(scope[depth]) \in Nat \ {0} /\ scope[depth][Len(scope[depth])] = c
      /\ caller[c].called
  BY <1>1, <1>5, RunningInnermost
<1>7. Innermost(c) /\ c \in Item /\ c \notin Brackets
  BY <1>5, <1>6, ConstantsAssumption DEF Innermost, TopOf, ValueAt, AbsIndex, Item
<1>8. /\ calling'[depth] = None /\ None \notin Callers
      /\ \A d \in Frame : d # depth => calling'[d] = calling[d]
  BY <1>1, <1>4, ConstantsAssumption DEF TypeOK
<1>9. stk' = [stk EXCEPT ![depth] = w]
  BY <1>3 DEF SetWindow
<1> HIDE DEF w, c
<1>10. Content(w, c, tb[c], caller'[c], hist'[c], calling'[depth] = c)
  BY <1>4, <1>5, <1>6, <1>7, <1>8 DEF Content
<1>11. AllSlots'
  BY <1>1, <1>4, <1>7, <1>8, <1>9, <1>10, SlotsTop DEF Alike
<1> QED
  BY <1>1, <1>4, <1>11, SuspendedEnds, ToldSame DEF CInv

LEMMA FrameCalls ==
  ASSUME IInv, CInv, (\E as \in SeqOf(Ints, 1) : LuaCallsC(as)) \/ CReturns
  PROVE  CInv'
<1>1. /\ TypeOK /\ depth \in Frame /\ Frame \subseteq Nat /\ Suspended /\ AllSlots /\ Told
  BY DEF IInv, CInv, TypeOK, Frame
<1>2. CASE \E as \in SeqOf(Ints, 1) : LuaCallsC(as)
  <2>1. PICK as \in SeqOf(Ints, 1) : LuaCallsC(as)
    BY <1>2
  <2> DEFINE e == depth + 1
  <2>2. /\ stk' = [stk EXCEPT ![e] = as] /\ entry' = [entry EXCEPT ![e] = as]
        /\ depth' = e /\ calling[depth] # None
        /\ UNCHANGED <<scope, calling, tb, caller, below, hist>>
    BY <2>1 DEF LuaCallsC, LuaRuns
  <2>3. e \in Frame /\ e > depth
    BY <1>1, <2>1, ConstantsAssumption DEF LuaCallsC, Frame
  <2>4. scope[e] = << >>
    BY <2>3 DEF IInv, Structure, Nested
  <2>5. \A d \in Frame : d < e => d < depth \/ d = depth
    BY <1>1
  <2> HIDE DEF e
  <2>6. AllSlots'
    BY <1>1, <2>2, <2>3, <2>4, SlotsFrame
  <2>7. Suspended'
    BY <1>1, <2>2, <2>5 DEF Suspended
  <2> QED
    BY <1>1, <2>2, <2>6, <2>7, ToldSame DEF CInv
<1>3. CASE CReturns
  <2>1. /\ stk' = [stk EXCEPT ![depth] = << >>] /\ entry' = [entry EXCEPT ![depth] = << >>]
        /\ depth' = depth - 1 /\ scope[depth] = << >>
        /\ UNCHANGED <<scope, calling, tb, caller, below, hist>>
    BY <1>3 DEF CReturns, SetWindow
  <2>2. AllSlots'
    BY <1>1, <2>1, SlotsFrame
  <2>3. \A d \in Frame : d < depth - 1 => d < depth
    BY <1>1
  <2>4. Suspended'
    BY <1>1, <2>1, <2>3 DEF Suspended
  <2> QED
    BY <1>1, <2>1, <2>2, <2>4, ToldSame DEF CInv
<1> QED
  BY <1>2, <1>3

LEMMA InitCInv == Init => CInv
<1> SUFFICES ASSUME Init PROVE CInv
  OBVIOUS
<1>1. /\ \A d \in Frame : /\ calling[d] = None /\ scope[d] = << >>
                          /\ stk[d] = << >> /\ entry[d] = << >>
      /\ \A c \in Callers : ~caller[c].called /\ ~caller[c].resultSet
      /\ depth = 1
  BY DEF Init, NewCaller
<1>2. \A d \in Frame : ~(d < depth)
  BY <1>1, ConstantsAssumption DEF Frame
<1>3. Suspended
  BY <1>1, <1>2, ConstantsAssumption DEF Suspended
<1>4. ASSUME NEW d \in Frame, NEW i \in 0 .. Len(scope[d]) PROVE Slots(d, i)
  <2>1. Len(scope[d]) = 0 /\ i = 0
    BY <1>1
  <2> QED
    BY <1>1, <2>1 DEF Slots, Upto
<1> QED
  BY <1>1, <1>3, <1>4 DEF CInv, AllSlots, Told, Passed, Counted

LEMMA CallsStep ==
  ASSUME IInv, RInv, CInv, NoLeaks, [Next]_vars
  PROVE  CInv'
<1>1. ASSUME NEW c \in Callers, NEW look \in Lookups, Construct(c, look) PROVE CInv'
  BY <1>1, ConstructCalls
<1>2. ASSUME NEW c \in Callers, NEW v \in Ints, Arg(c, v) PROVE CInv'
  BY <1>2, ArgCalls
<1>3. ASSUME NEW c \in Callers, Call(c) PROVE CInv'
  BY <1>3, CallCalls
<1>4. ASSUME NEW c \in Callers, NEW rs \in Results, CallReturns(c, rs) PROVE CInv'
  BY <1>4, ReturnsCalls
<1>5. ASSUME NEW c \in Callers, NEW checked \in BOOLEAN, GetResult(c, checked) PROVE CInv'
  BY <1>5, GetResultCalls
<1>6. CASE (\E c \in Callers : Destroy(c)) \/ (\E b \in Brackets : EndGetTable(b))
  BY <1>6, LeaveCalls
<1>7. ASSUME NEW v \in Globals, NEW checked \in BOOLEAN,
             GetGlobalVarible(v, checked) \/ GetTableVarible(v, checked)
      PROVE  CInv'
  BY <1>7, VaribleCalls
<1>8. ASSUME NEW b \in Brackets, NEW v \in Globals,
             BeginGetTable(b, v) \/ BeginGetTableTable(b, v)
      PROVE  CInv'
  BY <1>8, VaribleCalls
<1>9. CASE RunChunk \/ LuaRaises \/ (\E rs \in Results : ChunkReturns(rs))
  BY <1>9, LuaCalls
<1>10. CASE (\E as \in SeqOf(Ints, 1) : LuaCallsC(as)) \/ CReturns
  BY <1>10, FrameCalls
<1>11. CASE GenerateLuaError
  BY <1>11, RaiseCalls DEF GenerateLuaError
<1>12. CASE UNCHANGED vars
  BY <1>12, SlotsStay, SuspendedKept, ToldSame DEF CInv, Alike, vars
<1> QED
  BY <1>1, <1>2, <1>3, <1>4, <1>5, <1>6, <1>7, <1>8, <1>9, <1>10, <1>11, <1>12 DEF Next

LEMMA CallInvariance ==
  ASSUME NoLeaks
  PROVE  Spec => [](IInv /\ RInv /\ CInv)
<1>1. Init => RInv /\ CInv
  BY InitRInv, InitCInv
<1>2. IInv /\ RInv /\ CInv /\ [Next]_vars => RInv' /\ CInv'
  <2>1. IInv /\ RInv /\ [Next]_vars => RInv'
    BY RememberStep DEF IInv
  <2>2. IInv /\ RInv /\ CInv /\ [Next]_vars => CInv'
    BY CallsStep
  <2> QED
    BY <2>1, <2>2
<1> QED
  BY <1>1, <1>2, Invariance, PTL DEF Spec

\* lua_pcall gets what the constructor found and the arguments, in order, for
\* every host that leaves nothing on the stack between them (lua_caller.cpp,
\* LuaCaller::Call: the function is looked for under m_numArgs values).
THEOREM CallsGetTheirArguments ==
  ASSUME NoLeaks
  PROVE  Spec => []CallPassesArguments
<1>1. CInv => CallPassesArguments
  BY DEF CInv, Told, Passed, CallPassesArguments
<1> QED
  BY <1>1, CallInvariance, PTL

\* The results of a call come out once each and in order, and GetResultCount
\* says how many are left, for hosts that call by name, leave nothing on the
\* stack and read from the caller constructed last while there are results
\* (lua_result.cpp addresses them from the top of the stack).
THEOREM ResultsComeInOrder ==
  ASSUME ByName
  PROVE  Spec => []ResultsInOrder
<1>1. NoLeaks
  BY DEF ByName, NoLeaks
<1>2. CInv => ResultsInOrder
  BY DEF CInv, Told, Counted, ResultsInOrder
<1> QED
  BY <1>1, <1>2, CallInvariance, PTL

LEMMA BalancedFromCInv ==
  ASSUME TypeOK, AllSlots
  PROVE  StackBalanced
<1>1. ASSUME NEW d \in 1 .. depth
      PROVE  IF scope[d] = << >> THEN stk[d] = entry[d]
             ELSE TopOf(scope[d]) \in Brackets => tb[TopOf(scope[d])] = Len(stk[d])
  <2>1. d \in Frame /\ scope[d] \in Seq(Item)
    BY ConstantsAssumption DEF TypeOK, Frame
  <2>2. CASE scope[d] = << >>
    <3>1. 0 \in 0 .. Len(scope[d]) /\ Len(scope[d]) = 0
      BY <2>2
    <3>2. Slots(d, 0)
      BY <2>1, <3>1 DEF AllSlots
    <3> QED
      BY <2>2, <3>1, <3>2 DEF Slots, Upto
  <2>3. CASE scope[d] # << >>
    <3> DEFINE n == Len(scope[d])
               x == scope[d][n]
    <3>1. n \in 1 .. Len(scope[d]) /\ n # 0 /\ n \in 0 .. Len(scope[d])
      BY <2>1, <2>3
    <3>2. TopOf(scope[d]) = x
      BY <2>1 DEF TopOf, ValueAt, AbsIndex
    <3>3. Slots(d, n)
      BY <2>1, <3>1 DEF AllSlots
    <3>4. Content(stk[d], x, tb[x], caller[x], hist[x], calling[d] = x)
      BY <3>1, <3>3 DEF Slots, Upto
    <3>5. x \in Brackets => Len(stk[d]) = tb[x]
      BY <3>4 DEF Content
    <3> QED
      BY <2>3, <3>2, <3>5
  <2> QED
    BY <2>2, <2>3
<1> QED
  BY <1>1 DEF StackBalanced

\* For hosts that leave nothing on the stack, a frame with no live object has
\* the stack it was entered with, and the table of the innermost bracket is on
\* top (lua_manager.cpp: DoGetTableVarible and EndGetTable index from the top).
THEOREM BracketsBalance ==
  ASSUME NoLeaks
  PROVE  Spec => []StackBalanced
<1>1. IInv /\ CInv => StackBalanced
  BY BalancedFromCInv DEF IInv, CInv
<1> QED
  BY <1>1, CallInvariance, PTL
=============================================================================
