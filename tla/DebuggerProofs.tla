--------------------------- MODULE DebuggerProofs ---------------------------
(***************************************************************************)
(* Theorems about Debugger, for every host and every bound: the state is   *)
(* well typed, a session never loses the activation it stopped in, and     *)
(* m_isDebugging is right where errors and nesting allow it to be.         *)
(***************************************************************************)
EXTENDS Debugger, SequenceTheorems, TLAPS

Kind == {"lua", "c", "co"}

\* SessionsNested, of any chain of activations as and sessions ss.
Nest(as, ss) ==
  /\ \A i \in 1 .. Len(ss) : ss[i].at <= Len(as)
  /\ \A i, j \in 1 .. Len(ss) : i < j => ss[i].at < ss[j].at

\* Where the innermost of the sessions ss stopped.
Floor(ss) == IF ss = << >> THEN 0 ELSE ss[Len(ss)].at

IInv == TypeOK /\ Nest(acts, sessions)

-----------------------------------------------------------------------------
(* Chains of sessions *)

LEMMA SessionsAt ==
  ASSUME NEW ss \in Seq(SessionState)
  PROVE  /\ Len(ss) \in Nat
         /\ \A i \in 1 .. Len(ss) : ss[i] \in SessionState /\ ss[i].at \in Nat
         /\ ss # << >> => Len(ss) >= 1 /\ Len(ss) \in 1 .. Len(ss)
<1>1. ASSUME NEW i \in 1 .. Len(ss) PROVE ss[i] \in SessionState
  OBVIOUS
<1>2. ASSUME NEW s \in SessionState PROVE s.at \in Nat
  BY <1>2 DEF SessionState
<1>3. Len(ss) \in Nat /\ (ss # << >> => Len(ss) # 0)
  OBVIOUS
<1> QED
  BY <1>1, <1>2, <1>3

\* What is left of a sequence without its last element.
LEMMA PopOne ==
  ASSUME NEW S, NEW s \in Seq(S), Len(s) # 0
  PROVE  /\ Pop(s, 1) \in Seq(S) /\ Len(Pop(s, 1)) = Len(s) - 1
         /\ \A i \in 1 .. Len(s) - 1 : Pop(s, 1)[i] = s[i]
<1>1. PICK n \in Nat : Len(s) = n + 1
  <2>1. Len(s) \in Nat
    OBVIOUS
  <2>2. Len(s) - 1 \in Nat /\ Len(s) = (Len(s) - 1) + 1
    BY <2>1
  <2> QED
    BY <2>2
<1>2. Pop(s, 1) = SubSeq(s, 1, n)
  BY <1>1 DEF Pop, SetTop
<1>3. SubSeq(s, 1, n) \in Seq(S)
  BY <1>1
<1>4. Len(SubSeq(s, 1, n)) = n /\ \A i \in 1 .. n : SubSeq(s, 1, n)[i] = s[i]
  BY <1>1
<1> QED
  BY <1>1, <1>2, <1>3, <1>4

LEMMA BaseIsFloor ==
  ASSUME IInv
  PROVE  /\ Base = Floor(sessions) /\ Base \in Nat /\ Base <= Len(acts)
         /\ sessions # << >> => Session = sessions[Len(sessions)] /\ Session \in SessionState
<1>1. sessions \in Seq(SessionState) /\ Nest(acts, sessions)
  BY DEF IInv, TypeOK
<1>2. sessions # << >> => Session = sessions[Len(sessions)]
  BY <1>1, SessionsAt DEF Session, TopOf, ValueAt, AbsIndex
<1>3. Base = Floor(sessions)
  BY <1>2 DEF Base, Floor
<1>4. CASE sessions = << >>
  BY <1>3, <1>4 DEF Floor, IInv, TypeOK
<1>5. CASE sessions # << >>
  BY <1>1, <1>2, <1>3, <1>5, SessionsAt DEF Floor, Nest
<1> QED
  BY <1>4, <1>5, <1>2, <1>3

\* The activations may change above the place where the innermost session stopped.
LEMMA NestMove ==
  ASSUME NEW as \in Seq(Kind), NEW as2 \in Seq(Kind), NEW ss \in Seq(SessionState),
         Nest(as, ss), Floor(ss) <= Len(as2)
  PROVE  Nest(as2, ss)
<1>1. ASSUME NEW i \in 1 .. Len(ss) PROVE ss[i].at <= Len(as2)
  <2>1. ss # << >> /\ Len(ss) \in 1 .. Len(ss) /\ ss[i].at \in Nat /\ ss[Len(ss)].at \in Nat
    BY SessionsAt
  <2>2. i = Len(ss) \/ ss[i].at < ss[Len(ss)].at
    BY <2>1 DEF Nest
  <2> QED
    BY <2>1, <2>2 DEF Floor
<1> QED
  BY <1>1 DEF Nest

\* A session opened further in than the innermost one.
LEMMA NestOpen ==
  ASSUME NEW as \in Seq(Kind), NEW ss \in Seq(SessionState), NEW s \in SessionState,
         Nest(as, ss), s.at <= Len(as), ss # << >> => Floor(ss) < s.at
  PROVE  Append(ss, s) \in Seq(SessionState) /\ Nest(as, Append(ss, s))
<1> DEFINE new == Append(ss, s)
<1>1. /\ new \in Seq(SessionState) /\ Len(new) = Len(ss) + 1 /\ Len(ss) \in Nat
      /\ \A i \in 1 .. Len(ss) : new[i] = ss[i]
      /\ new[Len(ss) + 1] = s
  OBVIOUS
<1> HIDE DEF new
<1>2. \A i \in 1 .. Len(ss) : ss[i].at \in Nat
  BY SessionsAt
<1>3. s.at \in Nat
  BY DEF SessionState
<1>4. ASSUME NEW i \in 1 .. Len(ss) PROVE ss[i].at < s.at
  <2>1. ss # << >> /\ Len(ss) \in 1 .. Len(ss)
    OBVIOUS
  <2>2. i = Len(ss) \/ ss[i].at < ss[Len(ss)].at
    BY <2>1 DEF Nest
  <2> QED
    BY <1>2, <1>3, <2>1, <2>2 DEF Floor
<1>5. \A i \in 1 .. Len(new) : i \in 1 .. Len(ss) \/ i = Len(ss) + 1
  BY <1>1
<1>6. \A i \in 1 .. Len(new) : new[i].at <= Len(as)
  BY <1>1, <1>5 DEF Nest
<1>7. ASSUME NEW i \in 1 .. Len(new), NEW j \in 1 .. Len(new), i < j
      PROVE  new[i].at < new[j].at
  <2>1. i \in 1 .. Len(ss)
    BY <1>1, <1>7
  <2>2. CASE j \in 1 .. Len(ss)
    BY <1>1, <1>7, <2>1, <2>2 DEF Nest
  <2>3. CASE j = Len(ss) + 1
    BY <1>1, <1>4, <2>1, <2>3
  <2> QED
    BY <1>5, <2>2, <2>3
<1> QED
  BY <1>1, <1>6, <1>7 DEF Nest, new

\* Without its innermost session, the chain still fits activations that are cut
\* no lower than the next session.
LEMMA NestClose ==
  ASSUME NEW as \in Seq(Kind), NEW as2 \in Seq(Kind), NEW ss \in Seq(SessionState),
         Nest(as, ss), ss # << >>, Floor(Pop(ss, 1)) <= Len(as2)
  PROVE  Pop(ss, 1) \in Seq(SessionState) /\ Nest(as2, Pop(ss, 1))
<1> DEFINE old == Pop(ss, 1)
<1>1. /\ old \in Seq(SessionState) /\ Len(old) = Len(ss) - 1 /\ Len(ss) \in Nat \ {0}
      /\ \A i \in 1 .. Len(old) : old[i] = ss[i]
  <2>1. Len(ss) \in Nat /\ Len(ss) >= 1 /\ Len(ss) # 0
    BY SessionsAt
  <2>2. /\ old \in Seq(SessionState) /\ Len(old) = Len(ss) - 1
        /\ \A i \in 1 .. Len(ss) - 1 : old[i] = ss[i]
    BY <2>1, PopOne
  <2> HIDE DEF old
  <2> QED
    BY <2>1, <2>2
<1> HIDE DEF old
<1>2. Nest(as, old)
  <2>1. \A i \in 1 .. Len(old) : i \in 1 .. Len(ss)
    BY <1>1
  <2> QED
    BY <1>1, <2>1 DEF Nest
<1> QED
  BY <1>1, <1>2, NestMove DEF old

\* Where the session below the innermost one stopped.
LEMMA FloorBelow ==
  ASSUME NEW as \in Seq(Kind), NEW ss \in Seq(SessionState), Nest(as, ss), ss # << >>
  PROVE  /\ Floor(Pop(ss, 1)) \in Nat
         /\ Floor(Pop(ss, 1)) = IF Len(ss) = 1 THEN 0 ELSE ss[Len(ss) - 1].at
         /\ Floor(Pop(ss, 1)) < Floor(ss) \/ Floor(Pop(ss, 1)) = 0
<1>1. CASE Len(ss) = 1
  BY <1>1 DEF Floor, Pop, SetTop
<1>2. CASE Len(ss) # 1
  <2>1. /\ Len(ss) \in Nat /\ Len(ss) >= 2
        /\ Len(ss) - 1 \in 1 .. Len(ss) /\ Len(ss) \in 1 .. Len(ss)
    <3> DEFINE n == Len(ss)
    <3>1. n \in Nat /\ n >= 1 /\ n # 1
      BY <1>2, SessionsAt
    <3> HIDE DEF n
    <3>2. n >= 2 /\ n - 1 \in 1 .. n /\ n \in 1 .. n
      BY <3>1
    <3> QED
      BY <3>1, <3>2 DEF n
  <2>2. /\ Pop(ss, 1) # << >> /\ Len(Pop(ss, 1)) = Len(ss) - 1
        /\ Pop(ss, 1)[Len(ss) - 1] = ss[Len(ss) - 1]
    BY <2>1, PopOne
  <2>3. ss[Len(ss) - 1].at < ss[Len(ss)].at /\ ss[Len(ss) - 1].at \in Nat
    BY <2>1, SessionsAt DEF Nest
  <2> QED
    BY <1>2, <2>2, <2>3 DEF Floor
<1> QED
  BY <1>1, <1>2

-----------------------------------------------------------------------------
(* Steps *)

LEMMA InitIInv == Init => IInv
<1> SUFFICES ASSUME Init PROVE IInv
  OBVIOUS
<1>1. acts \in Seq(Kind) /\ sessions \in Seq(SessionState) /\ Len(sessions) = 0
  BY DEF Init
<1>2. Nest(acts, sessions)
  BY <1>1 DEF Nest
<1> QED
  BY <1>1, <1>2 DEF Init, IInv, TypeOK, Kind

\* A hook event of activations at least as deep as the innermost session.
LEMMA StepIInv ==
  ASSUME IInv, NEW event \in {"call", "return", "line"},
         NEW before \in Seq(Kind), NEW after \in Seq(Kind),
         Len(before) > Base, Len(after) >= Base,
         Step(event, before, after)
  PROVE  IInv'
<1>1. Base = Floor(sessions) /\ Base \in Nat
  BY BaseIsFloor
<1>2. /\ acts \in Seq(Kind) /\ sessions \in Seq(SessionState) /\ Nest(acts, sessions)
      /\ isDebugging \in BOOLEAN /\ armed \in BOOLEAN /\ crashed \in BOOLEAN
      /\ raisedOut \in BOOLEAN
  BY DEF IInv, TypeOK, Kind
<1>3. Nest(before, sessions) /\ Nest(after, sessions)
  BY <1>1, <1>2, NestMove
<1>4. crashed' = crashed /\ raisedOut' = raisedOut /\ armed' \in BOOLEAN
  BY <1>2 DEF Step, HookCallback
<1>5. CASE acts' = after /\ UNCHANGED <<sessions, isDebugging>>
  BY <1>2, <1>3, <1>4, <1>5 DEF IInv, TypeOK, Nest, Kind
<1>6. CASE acts' = before /\ OpenSession(event)
  <2> DEFINE s == [event |-> event, at |-> Len(before), level |-> 1]
  <2>1. s \in SessionState /\ s.at = Len(before)
    BY DEF SessionState
  <2>2. sessions' = Append(sessions, s) /\ isDebugging' = TRUE
    BY <1>6 DEF OpenSession
  <2> HIDE DEF s
  <2>3. Append(sessions, s) \in Seq(SessionState) /\ Nest(before, Append(sessions, s))
    BY <1>1, <1>2, <1>3, <2>1, NestOpen
  <2> QED
    BY <1>4, <1>6, <2>2, <2>3 DEF IInv, TypeOK, Nest, Kind
<1> QED
  BY <1>5, <1>6 DEF Step, HookCallback

LEMMA CallIInv ==
  ASSUME IInv, NEW kind \in Kind, CallStep(kind)
  PROVE  IInv'
<1>1. acts \in Seq(Kind) /\ Base \in Nat /\ Base <= Len(acts)
  BY BaseIsFloor DEF IInv, TypeOK, Kind
<1> DEFINE more == Append(acts, kind)
<1>2. more \in Seq(Kind) /\ Len(more) > Base /\ Len(more) >= Base
  BY <1>1
<1>3. Step("call", more, more)
  BY DEF CallStep
<1> HIDE DEF more
<1> QED
  BY <1>1, <1>2, <1>3, StepIInv

LEMMA ReturnIInv ==
  ASSUME IInv, LuaReturns \/ LuaLine
  PROVE  IInv'
<1>1. acts \in Seq(Kind) /\ Base \in Nat /\ Base < Len(acts)
  BY BaseIsFloor DEF IInv, TypeOK, Kind, LuaReturns, LuaLine, LuaRuns
<1>2. Pop(acts, 1) \in Seq(Kind) /\ Len(Pop(acts, 1)) = Len(acts) - 1
  BY <1>1, PopOne
<1>3. CASE Step("return", acts, Pop(acts, 1))
  BY <1>1, <1>2, <1>3, StepIInv
<1>4. CASE Step("line", acts, acts)
  BY <1>1, <1>4, StepIInv
<1> QED
  BY <1>3, <1>4 DEF LuaReturns, LuaLine

LEMMA RaisesIInv ==
  ASSUME IInv, LuaRaises
  PROVE  IInv'
<1>1. /\ Base = Floor(sessions) /\ Base \in Nat
      /\ acts \in Seq(Kind) /\ sessions \in Seq(SessionState) /\ Nest(acts, sessions)
  BY BaseIsFloor DEF IInv, TypeOK, Kind
<1>2. PICK k \in Base .. Len(acts) - 1 : acts' = SetTop(acts, k)
  BY DEF LuaRaises, Catchers
<1>3. acts' \in Seq(Kind) /\ Len(acts') = k
  BY <1>1, <1>2 DEF SetTop
<1>4. Nest(acts', sessions)
  BY <1>1, <1>2, <1>3, NestMove
<1> QED
  BY <1>3, <1>4 DEF IInv, TypeOK, Nest, Kind, LuaRaises

LEMMA DebugIInv ==
  ASSUME IInv, Debug
  PROVE  IInv'
<1>1. /\ Base = Floor(sessions) /\ Base \in Nat
      /\ acts \in Seq(Kind) /\ sessions \in Seq(SessionState) /\ Nest(acts, sessions)
  BY BaseIsFloor DEF IInv, TypeOK, Kind
<1> DEFINE s == [event |-> "debug", at |-> Len(acts), level |-> 1]
<1>2. s \in SessionState /\ s.at = Len(acts)
  BY <1>1 DEF SessionState
<1>3. /\ sessions' = Append(sessions, s) /\ isDebugging' = TRUE
      /\ UNCHANGED <<acts, armed, crashed, raisedOut>>
  BY DEF Debug, OpenSession
<1>4. sessions # << >> => Floor(sessions) < Len(acts)
  BY <1>1 DEF Debug, LuaRuns, HostRuns
<1> HIDE DEF s
<1>5. Append(sessions, s) \in Seq(SessionState) /\ Nest(acts, Append(sessions, s))
  BY <1>1, <1>2, <1>4, NestOpen
<1> QED
  BY <1>3, <1>5 DEF IInv, TypeOK, Nest

LEMMA PrintRaisesIInv ==
  ASSUME IInv, PrintRaises
  PROVE  IInv'
<1>1. /\ acts \in Seq(Kind) /\ sessions \in Seq(SessionState) /\ Nest(acts, sessions)
      /\ sessions # << >>
  BY DEF IInv, TypeOK, Kind, PrintRaises, AtPrompt
<1> DEFINE floor == IF Len(sessions) = 1 THEN 0 ELSE sessions[Len(sessions) - 1].at
<1>2. PICK k \in floor .. Len(acts) - 1 : acts' = SetTop(acts, k)
  BY DEF PrintRaises
<1>3. Floor(Pop(sessions, 1)) = floor /\ floor \in Nat
  BY <1>1, FloorBelow
<1>4. acts' \in Seq(Kind) /\ Len(acts') = k
  BY <1>1, <1>2, <1>3 DEF SetTop
<1>5. Pop(sessions, 1) \in Seq(SessionState) /\ Nest(acts', Pop(sessions, 1))
  BY <1>1, <1>2, <1>3, <1>4, NestClose
<1> QED
  BY <1>4, <1>5 DEF IInv, TypeOK, Nest, Kind, PrintRaises

LEMMA FrameIInv ==
  ASSUME IInv, NEW level \in Levels, PrintFrame(level)
  PROVE  IInv'
<1>1. /\ acts \in Seq(Kind) /\ sessions \in Seq(SessionState) /\ Nest(acts, sessions)
      /\ Len(sessions) \in 1 .. Len(sessions) /\ level \in Nat
  BY ConstantsAssumption DEF IInv, TypeOK, Kind, PrintFrame, AtPrompt
<1>2. sessions' = [sessions EXCEPT ![Len(sessions)].level = level]
  BY DEF PrintFrame
<1>3. sessions' \in Seq(SessionState) /\ Len(sessions') = Len(sessions)
  <2>1. [sessions[Len(sessions)] EXCEPT !.level = level] \in SessionState
    <3>1. sessions[Len(sessions)] \in SessionState
      BY <1>1, SessionsAt
    <3> QED
      BY <1>1, <3>1 DEF SessionState
  <2> QED
    BY <1>1, <1>2, <2>1
<1>4. \A i \in 1 .. Len(sessions) : sessions'[i].at = sessions[i].at
  BY <1>1, <1>2 DEF SessionState
<1> QED
  BY <1>1, <1>3, <1>4 DEF IInv, TypeOK, Nest, Kind, PrintFrame

LEMMA LeaveIInv ==
  ASSUME IInv, Leave, armed' \in BOOLEAN
  PROVE  IInv'
<1>1. /\ acts \in Seq(Kind) /\ sessions \in Seq(SessionState) /\ Nest(acts, sessions)
      /\ sessions # << >> /\ Len(acts) = Floor(sessions)
  BY BaseIsFloor DEF IInv, TypeOK, Kind, Leave, AtPrompt
<1>2. /\ Floor(Pop(sessions, 1)) \in Nat
      /\ Floor(Pop(sessions, 1)) < Len(acts) \/ Floor(Pop(sessions, 1)) = 0
  BY <1>1, FloorBelow
<1>3. acts' \in Seq(Kind) /\ Len(acts') \in Nat /\ Len(acts') >= Len(acts) - 1
  <2>1. Pop(acts, 1) \in Seq(Kind) /\ Len(Pop(acts, 1)) \in Nat
        /\ Len(Pop(acts, 1)) >= Len(acts) - 1
    BY <1>1 DEF Pop, SetTop
  <2> QED
    BY <1>1, <2>1 DEF Leave
<1>4. Pop(sessions, 1) \in Seq(SessionState) /\ Nest(acts', Pop(sessions, 1))
  BY <1>1, <1>2, <1>3, NestClose
<1> QED
  BY <1>3, <1>4 DEF IInv, TypeOK, Nest, Kind, Leave

LEMMA IInvStep == IInv /\ [Next]_vars => IInv'
<1> SUFFICES ASSUME IInv, [Next]_vars PROVE IInv'
  OBVIOUS
<1>1. CASE LuaMoves
  BY <1>1, CallIInv, ReturnIInv DEF LuaMoves, LuaCalls, Kind
<1>2. CASE \E kind \in {"lua", "c"} : PrintVariable(kind)
  BY <1>2, CallIInv DEF PrintVariable, Kind
<1>3. CASE Continue \/ StepInto
  BY <1>3, LeaveIInv DEF Continue, StepInto, IInv, TypeOK
<1>4. CASE EndOfInput
  BY <1>4 DEF EndOfInput, IInv, TypeOK, Nest
<1>5. CASE UNCHANGED vars
  BY <1>5 DEF vars, IInv, TypeOK, Nest
<1> QED
  BY <1>1, <1>2, <1>3, <1>4, <1>5, RaisesIInv, DebugIInv, PrintRaisesIInv, FrameIInv
  DEF Next

-----------------------------------------------------------------------------
(* Theorems *)

LEMMA Invariance == Spec => []IInv
<1>1. Init => IInv
  BY InitIInv
<1>2. IInv /\ [Next]_vars => IInv'
  BY IInvStep
<1> QED
  BY <1>1, <1>2, PTL DEF Spec

\* The debugger's state is well typed, whatever the host, the scripts and the
\* user do.
THEOREM DebuggerTypes == Spec => []TypeOK
<1>1. IInv => TypeOK
  BY DEF IInv
<1> QED
  BY <1>1, Invariance, PTL

\* A prompt always has the activation its session stopped in under it: no code
\* run by p, and no error in it, takes it away (LuaDebugger::PrintVariable).
THEOREM PromptsKeepTheirPlace == Spec => []SessionsNested
<1>1. IInv => SessionsNested
  BY DEF IInv, Nest, SessionsNested
<1> QED
  BY <1>1, Invariance, PTL

\* What m_isDebugging = false at the end of Debug() is worth: until a lookup
\* raises out of a session, the flag of a session that is over is never kept.
THEOREM FlagIsReleased == Spec => []NoFlagWithoutSession
<1>1. Init => NoFlagWithoutSession
  BY DEF Init, NoFlagWithoutSession
<1>2. TypeOK /\ NoFlagWithoutSession /\ [Next]_vars => NoFlagWithoutSession'
  <2> SUFFICES ASSUME TypeOK, NoFlagWithoutSession, [Next]_vars
               PROVE  NoFlagWithoutSession'
    OBVIOUS
  <2> USE DEF NoFlagWithoutSession
  <2>1. ASSUME NEW event, OpenSession(event) PROVE NoFlagWithoutSession'
    BY <2>1 DEF OpenSession, TypeOK
  <2>2. ASSUME NEW event, NEW before, NEW after, Step(event, before, after)
        PROVE  NoFlagWithoutSession'
    BY <2>1, <2>2 DEF Step, HookCallback
  <2>3. CASE LuaMoves
    BY <2>2, <2>3 DEF LuaMoves, LuaCalls, CallStep, LuaReturns, LuaLine
  <2>4. CASE \E kind \in {"lua", "c"} : PrintVariable(kind)
    BY <2>2, <2>4 DEF PrintVariable, CallStep
  <2>5. CASE Debug
    BY <2>1, <2>5 DEF Debug
  <2>6. CASE Continue \/ StepInto
    BY <2>6 DEF Continue, StepInto, Leave
  <2>7. ASSUME NEW level \in Levels, PrintFrame(level) PROVE NoFlagWithoutSession'
    BY <2>7 DEF PrintFrame, AtPrompt, TypeOK
  <2> QED
    BY <2>3, <2>4, <2>5, <2>6, <2>7 DEF Next, vars, LuaRaises, PrintRaises, EndOfInput
<1> QED
  BY <1>1, <1>2, DebuggerTypes, PTL DEF Spec

\* A pending step in running code meets no session that would swallow it.
Ready == ~raisedOut /\ armed /\ LuaRuns /\ HooksAllowed => ~isDebugging

LEMMA TopOfAppend ==
  ASSUME NEW S, NEW s \in Seq(S), NEW x \in S
  PROVE  TopOf(Append(s, x)) = x
BY DEF TopOf, ValueAt, AbsIndex

LEMMA ReadyEvent ==
  ASSUME Ready, NEW event, NEW before, NEW after, Step(event, before, after),
         LuaRuns \/ OnState(TopOf(before))
  PROVE  Ready'
<1>1. CASE Fires(TopOf(before))
  BY <1>1 DEF Step, HookCallback, Ready
<1>2. CASE ~Fires(TopOf(before))
  <2>1. UNCHANGED <<sessions, isDebugging, armed, raisedOut>>
    BY <1>2 DEF Step
  <2>2. HooksAllowed' = HooksAllowed
    BY <2>1 DEF HooksAllowed
  <2> QED
    BY <1>2, <2>1, <2>2 DEF Ready, Fires
<1> QED
  BY <1>1, <1>2

LEMMA ReadyStep ==
  ASSUME IInv, Ready, [Next]_vars
  PROVE  Ready'
<1> USE DEF OnState
<1>1. ASSUME NEW kind \in Kind, CallStep(kind), LuaRuns \/ kind # "co"
      PROVE  Ready'
  <2> DEFINE more == Append(acts, kind)
  <2>1. TopOf(more) = kind
    BY <1>1, TopOfAppend DEF IInv, TypeOK, Kind
  <2>2. Step("call", more, more)
    BY <1>1 DEF CallStep
  <2> HIDE DEF more
  <2> QED
    BY <1>1, <2>1, <2>2, ReadyEvent
<1>2. ASSUME NEW kind \in Kind, LuaCalls(kind) PROVE Ready'
  BY <1>1, <1>2 DEF LuaCalls, HostRuns
<1>3. CASE LuaReturns \/ LuaLine
  BY <1>3, ReadyEvent DEF LuaReturns, LuaLine
<1>4. CASE LuaMoves
  BY <1>2, <1>3, <1>4 DEF LuaMoves, Kind
<1>5. CASE \E kind \in {"lua", "c"} : PrintVariable(kind)
  BY <1>1, <1>5 DEF PrintVariable, Kind
<1>6. CASE LuaRaises
  <2>1. PICK k \in Catchers : acts' = SetTop(acts, k)
    BY <1>6 DEF LuaRaises
  <2>2. LuaRuns /\ UNCHANGED <<sessions, isDebugging, armed, crashed, raisedOut>>
    BY <1>6 DEF LuaRaises
  <2>3. HooksAllowed' = HooksAllowed
    BY <2>2 DEF HooksAllowed
  <2> QED
    BY <2>2, <2>3 DEF Ready
<1>7. CASE Debug
  <2>1. Base' = Len(acts)
    <3> DEFINE s == [event |-> "debug", at |-> Len(acts), level |-> 1]
    <3>1. sessions' = Append(sessions, s) /\ s \in SessionState /\ s.at = Len(acts)
      BY <1>7 DEF Debug, OpenSession, SessionState, IInv, TypeOK
    <3> HIDE DEF s
    <3>2. TopOf(Append(sessions, s)) = s /\ Append(sessions, s) # << >>
      BY <3>1, TopOfAppend DEF IInv, TypeOK
    <3> QED
      BY <3>1, <3>2 DEF Base, Session, TopOf, ValueAt, AbsIndex
  <2>2. Len(acts') = Len(acts) /\ Len(acts) \in Nat
    BY <1>7 DEF Debug, IInv, TypeOK
  <2> QED
    BY <2>1, <2>2 DEF Ready, LuaRuns
<1>8. CASE Continue \/ StepInto
  BY <1>8 DEF Continue, StepInto, Leave, Ready
<1>9. ASSUME NEW level \in Levels, PrintFrame(level) PROVE Ready'
  <2>1. /\ sessions # << >> /\ Len(acts) = Base /\ acts' = acts
        /\ sessions' = [sessions EXCEPT ![Len(sessions)].level = level]
        /\ sessions \in Seq(SessionState) /\ Len(acts) \in Nat
    BY <1>9 DEF PrintFrame, AtPrompt, IInv, TypeOK
  <2>2. Len(sessions) \in 1 .. Len(sessions) /\ Base = sessions[Len(sessions)].at
    BY <2>1, BaseIsFloor, SessionsAt DEF Floor
  <2>3. /\ Len(sessions') = Len(sessions) /\ sessions' # << >>
        /\ sessions'[Len(sessions)].at = sessions[Len(sessions)].at
    BY <2>1, <2>2, SessionsAt DEF SessionState
  <2>4. Base' = Base
    BY <2>2, <2>3 DEF Base, Session, TopOf, ValueAt, AbsIndex
  <2> QED
    BY <2>1, <2>4 DEF Ready, LuaRuns
<1>10. CASE UNCHANGED vars \/ EndOfInput
  <2>1. CASE EndOfInput
    BY <2>1 DEF EndOfInput, Ready, LuaRuns
  <2>2. CASE UNCHANGED vars
    BY <2>2 DEF vars, Ready, LuaRuns, Base, Session, HooksAllowed
  <2> QED
    BY <1>10, <2>1, <2>2
<1>11. CASE PrintRaises
  BY <1>11 DEF PrintRaises, Ready
<1> QED
  BY <1>4, <1>5, <1>6, <1>7, <1>8, <1>9, <1>10, <1>11 DEF Next

\* "n": whatever nests, a step that running code uses up opens a session, as
\* long as no lookup has raised out of a session.
THEOREM StepsAreKept == Spec => NoStepLost
<1>1. Init => Ready
  BY DEF Init, Ready
<1>2. IInv /\ Ready /\ [Next]_vars => Ready'
  BY ReadyStep
<1>3. IInv /\ Ready /\ [Next]_vars
        => [~raisedOut /\ armed /\ LuaRuns /\ ~armed'
              => Len(sessions') > Len(sessions)]_vars
  <2> SUFFICES ASSUME IInv, Ready, Next, ~raisedOut, armed, LuaRuns, ~armed'
               PROVE  Len(sessions') > Len(sessions)
    BY DEF vars
  <2>1. ASSUME NEW event, NEW before, NEW after, Step(event, before, after)
        PROVE  Len(sessions') > Len(sessions)
    <3>1. Fires(TopOf(before)) /\ ~isDebugging
      BY <2>1 DEF Step, Fires, Ready
    <3>2. OpenSession(event)
      BY <2>1, <3>1 DEF Step, HookCallback
    <3>3. sessions \in Seq(SessionState)
      BY DEF IInv, TypeOK
    <3> QED
      BY <3>2, <3>3 DEF OpenSession
  <2>2. ~AtPrompt
    BY BaseIsFloor DEF AtPrompt, LuaRuns, IInv, TypeOK
  <2>3. CASE LuaMoves
    BY <2>1, <2>3 DEF LuaMoves, LuaCalls, CallStep, LuaReturns, LuaLine
  <2>4. ASSUME ~LuaMoves PROVE FALSE
    BY <2>2, <2>4 DEF Next, LuaRaises, Debug, PrintVariable, PrintRaises, PrintFrame,
                      Continue, StepInto, Leave, EndOfInput
  <2> QED
    BY <2>3, <2>4
<1> QED
  BY <1>1, <1>2, <1>3, Invariance, PTL DEF Spec, NoStepLost
=============================================================================
