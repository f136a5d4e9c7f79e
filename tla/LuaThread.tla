----------------------------- MODULE LuaThread ------------------------------
(***************************************************************************)
(* Calls, protected calls and coroutines as the embedded Lua runs them     *)
(* (ldo.c, lcorolib.c, the calls of lapi.c): Lua functions calling Lua     *)
(* functions need no C stack, but C functions that call back, metamethods, *)
(* message handlers and resumes do, and longjmp cuts that stack.           *)
(*                                                                         *)
(* th holds the lua_States: the CallInfo list ci, whose frames name the    *)
(* function that runs (a Lua function, or the C function that called one), *)
(* and the counters.  cs is the C stack: one entry for each activation of  *)
(* luaD_call, luaD_pcall and lua_resume; the thread of the last one runs.  *)
(***************************************************************************)
EXTENDS Integers, FiniteSets, SequencesExt, FiniteSetsExt

CONSTANTS
  Main, Cos,        \* the main thread, the coroutines
  Kinds,            \* the C functions used: "pcall", "xpcall", "callk" (dofile), "sort"
  MaxCCalls,        \* LUAI_MAXCCALLS
  HandlingCCalls,   \* LUAI_MAXCCALLS + (LUAI_MAXCCALLS>>3)
  MaxFrames         \* bound: the calls of all threads

ASSUME ConstantsAssumption ==
  /\ Main \notin Cos
  /\ MaxCCalls \in Nat /\ HandlingCCalls \in Nat
  /\ 1 < HandlingCCalls /\ MaxCCalls <= HandlingCCalls

VARIABLES th, cs, lost  \* lost: the coroutines a longjmp of another thread has cut

vars == <<th, cs, lost>>
Threads == {Main} \cup Cos
Host == -1              \* the errfunc of LuaCaller::Call

Frame(f) == [f |-> f, fresh |-> f \in {"lua", "handler"}, k |-> FALSE, yp |-> FALSE, old |-> 0]
NewThread == [status |-> "ok", fn |-> TRUE, ci |-> << >>, nny |-> 1, nC |-> 0, errfunc |-> 0]
\* An entry of the C stack of t, with what it saves.
Entry(a, t, s) ==
  [a |-> a, t |-> t, d |-> Len(s.ci), nny |-> s.nny, errfunc |-> s.errfunc, nC |-> s.nC]
NoSave == [ci |-> << >>, nny |-> 0, errfunc |-> 0, nC |-> 0]

\* The host runs a Lua function with the handler of LuaCaller.
HostRuns(s) == [s EXCEPT !.ci = <<Frame("lua")>>, !.nny = @ + 1, !.nC = @ + 1, !.errfunc = Host]
Init ==
  /\ th = [t \in Threads |-> IF t = Main THEN HostRuns(NewThread) ELSE NewThread]
  /\ cs = <<Entry("pcall", Main, NewThread)>>
  /\ lost = {}

-----------------------------------------------------------------------------
(* Errors: operators on m == [th, cs, lost] *)

m0 == [th |-> th, cs |-> cs, lost |-> lost]
Becomes(m) == th' = m.th /\ cs' = m.cs /\ lost' = m.lost
Runs == Last(cs).t
Top(t) == Last(th[t].ci)
Popped(s, n) == [s EXCEPT !.ci = SubSeq(@, 1, Len(@) - n)]

\* lua_resume returns to the thread that called it, in coroutine.resume or in a
\* function of coroutine.wrap, which will raise the error again.
ResumeReturns(m, ok) ==
  LET from == Last(m.cs).t
      n == Len(m.th[from].ci)
  IN IF ~ok /\ m.th[from].ci[n].f = "wrap" THEN [m EXCEPT !.th[from].ci[n].f = "failed"]
     ELSE [m EXCEPT !.th[from] = Popped(@, 1)]

\* The last Lua function of s, and the message handler that finishCcall leaves when
\* it has finished the C functions above the i-th call.
LastLua(s) ==
  LET luas == {i \in DOMAIN s.ci : s.ci[i].f = "lua"}
  IN IF luas = {} THEN 0 ELSE Max(luas)
FinishedHandler(s, i) ==
  LET yps == {j \in i + 1 .. Len(s.ci) : s.ci[j].yp}
  IN IF yps = {} THEN s.errfunc ELSE s.ci[Min(yps)].old

\* unroll: the C functions on top are finished, then a Lua function goes on in a new
\* luaV_execute; without one the coroutine has ended.
Unroll(m, t) ==
  LET s == m.th[t]
      i == LastLua(s)
      s1 == [s EXCEPT !.ci = SubSeq(@, 1, i), !.errfunc = FinishedHandler(s, i)]
  IN IF i # 0 THEN [m EXCEPT !.th[t] = [s1 EXCEPT !.ci[i].fresh = TRUE]]
     ELSE LET e == Last(m.cs)
          IN ResumeReturns([m EXCEPT !.th[t] = [s1 EXCEPT !.nny = e.nny, !.nC = e.nC - 1,
                                                          !.fn = FALSE],
                                     !.cs = Front(@)], TRUE)

RecoverPointsFault(s) == {i \in DOMAIN s.ci : s.ci[i].yp /\ i = Len(s.ci) - 1}
\* findpcall, of a coroutine.
RecoverPoints(s) == {i \in DOMAIN s.ci : s.ci[i].yp}

\* L->errorJmp: the last luaD_pcall or lua_resume of t.
ErrorJmp(m, t) ==
  Max({i \in DOMAIN m.cs : m.cs[i].t = t /\ m.cs[i].a \in {"pcall", "resume"}})

\* luaD_throw: to the errorJmp of t, over whatever C frames are above it.
Throw(m, t) ==
  LET j == ErrorJmp(m, t)
      e == m.cs[j]
      cut == {m.cs[i].t : i \in {x \in DOMAIN m.cs : x > j}} \ {t}
      m1 == [m EXCEPT !.lost = @ \cup cut]
      s == m.th[t]
  IN IF e.a = "pcall"
     THEN LET s1 == [s EXCEPT !.ci = SubSeq(@, 1, e.d), !.nny = e.nny, !.errfunc = e.errfunc,
                              !.nC = e.nC]
          IN [m1 EXCEPT !.th[t] = IF e.d = 0 THEN s1 ELSE Popped(s1, 1),
                        !.cs = SubSeq(@, 1, j - 1)]
     ELSE IF RecoverPoints(s) # {}
     THEN LET p == Max(RecoverPoints(s))
              s1 == [s EXCEPT !.ci = SubSeq(@, 1, p), !.nny = 0, !.nC = e.nC,
                              !.errfunc = s.ci[p].old]
          IN Unroll([m1 EXCEPT !.th[t] = s1, !.cs = SubSeq(@, 1, j)], t)
     ELSE ResumeReturns([m1 EXCEPT !.th[t] = [s EXCEPT !.status = "error", !.nny = e.nny,
                                                       !.nC = e.nC - 1],
                                   !.cs = SubSeq(@, 1, j - 1)], FALSE)

\* luaG_errormsg: the message handler runs first; an overflow of the C stack in
\* its call is an error too, handled once more and then not at all.
Raise(m, t) ==
  LET s == m.th[t]
      n == IF s.nC + 1 = MaxCCalls THEN s.nC + 2 ELSE s.nC + 1
  IN IF s.errfunc \in {0, Host} \/ n >= HandlingCCalls THEN Throw(m, t)
     ELSE [m EXCEPT !.th[t] = [s EXCEPT !.ci = Append(@, Frame("handler")), !.nC = n,
                                        !.nny = @ + (n - s.nC)],
                    !.cs = Append(@, Entry("handler", t, NoSave))]

\* luaD_call of a Lua function by the last frame of t, with the entry it makes.
LuaDCall(m, t, e, noyield) ==
  LET s == [m.th[t] EXCEPT !.nC = @ + 1, !.nny = IF noyield THEN @ + 1 ELSE @]
      m1 == [m EXCEPT !.th[t] = s, !.cs = Append(@, e)]
  IN IF s.nC = MaxCCalls THEN Raise(m1, t)
     ELSE IF s.nC >= HandlingCCalls THEN Throw(m1, t)
     ELSE [m1 EXCEPT !.th[t].ci = Append(@, Frame("lua"))]

\* The last function of t returns: a fresh one ends its luaV_execute, and what had
\* called that goes on.
Returned(m, t) ==
  LET s == Popped(m.th[t], 1)
      c == Last(s.ci)
      called == IF s.ci # << >> /\ c.f # "lua" /\ c.f # "handler" THEN 1 ELSE 0
      e == Last(m.cs)
      m1 == [m EXCEPT !.th[t] = s, !.cs = Front(@)]
  IN IF ~Last(m.th[t].ci).fresh THEN [m EXCEPT !.th[t] = s]
     ELSE CASE e.a = "call" ->
                 LET s1 == IF called = 1 /\ c.yp THEN [s EXCEPT !.errfunc = c.old] ELSE s
                 IN [m1 EXCEPT !.th[t] = Popped([s1 EXCEPT !.nC = @ - 1], called)]
            [] e.a = "noyield" ->
                 [m1 EXCEPT !.th[t] = Popped([s EXCEPT !.nC = @ - 1, !.nny = @ - 1], 1)]
            [] e.a = "handler" -> Throw(m, t)
            [] e.a = "pcall" ->
                 [m1 EXCEPT !.th[t] = Popped([s EXCEPT !.nC = e.nC, !.nny = @ - 1,
                                                       !.errfunc = e.errfunc], called)]
            [] e.a = "resume" -> Unroll([m EXCEPT !.th[t] = s], t)

-----------------------------------------------------------------------------
(* What a running Lua function may do *)

InLua == cs # << >> /\ Top(Runs).f \in {"lua", "handler"}
Room(n) == FoldSet(LAMBDA t, sum : sum + Len(th[t].ci), n, Threads) <= MaxFrames

\* OP_CALL of a Lua function: no new luaV_execute.
CallLua ==
  /\ InLua /\ Room(1)
  /\ Becomes([m0 EXCEPT !.th[Runs].ci = Append(@, [Frame("lua") EXCEPT !.fresh = FALSE])])

\* luaT_callTM from Lua code.
Metamethod ==
  /\ InLua /\ Room(1)
  /\ Becomes(LuaDCall(m0, Runs, Entry("call", Runs, NoSave), FALSE))

CallKFault(f) ==
  /\ InLua /\ Room(2) /\ f \in Kinds \cap {"sort", "callk"}
  /\ LET k == f = "callk" /\ th[Runs].nny = 0
     IN Becomes(LuaDCall([m0 EXCEPT !.th[Runs].ci = Append(@, [Frame(f) EXCEPT !.k = k])], Runs,
                         Entry("call", Runs, NoSave), FALSE))
\* lua_call and lua_callk by a C function, with a continuation or without.
CallK(f) ==
  /\ InLua /\ Room(2) /\ f \in Kinds \cap {"sort", "callk"}
  /\ LET t == Runs
         k == f = "callk" /\ th[t].nny = 0
     IN Becomes(LuaDCall([m0 EXCEPT !.th[t].ci = Append(@, [Frame(f) EXCEPT !.k = k])], t,
                         Entry(IF k THEN "call" ELSE "noyield", t, NoSave), ~k))

\* lua_pcallk by pcall or xpcall: without yields a new setjmp, else only marks.
PCallK(f) ==
  /\ InLua /\ Room(2) /\ f \in Kinds \cap {"pcall", "xpcall"}
  /\ LET t == Runs
         s == th[t]
         errfunc == IF f = "pcall" THEN 0 ELSE Len(s.ci) + 1
         k == s.nny = 0
         s1 == [s EXCEPT !.ci = Append(@, [Frame(f) EXCEPT !.k = k, !.yp = k, !.old = s.errfunc])]
         s2 == [s1 EXCEPT !.errfunc = errfunc]
     IN Becomes(LuaDCall([m0 EXCEPT !.th[t] = s2], t,
                         IF k THEN Entry("call", t, NoSave) ELSE Entry("pcall", t, [s1 EXCEPT !.nC = s.nC]),
                         ~k))

\* coroutine.resume, or a call of a function of coroutine.wrap.
ResumeNnyFault(nny) == nny
ResumeNny(nny) == 0  \* allow yields
Resume(f, c) ==
  /\ InLua /\ Room(1) /\ c # Runs
  /\ LET t == Runs
         s == th[c]
         n == th[t].nC + 1
         suspended == (s.status = "ok" /\ s.ci = << >> /\ s.fn) \/ s.status = "yield"
         s1 == [s EXCEPT !.status = "ok", !.nC = n, !.nny = ResumeNny(@)]
         m1 == [m0 EXCEPT !.th[t].ci = Append(@, Frame(f)),
                          !.cs = Append(@, Entry("resume", c, [s EXCEPT !.nC = n]))]
     IN IF ~suspended \/ n >= MaxCCalls
        THEN f = "wrap" /\ Becomes([m0 EXCEPT !.th[t].ci = Append(@, Frame("failed"))])
        ELSE Becomes(IF s.status = "ok" THEN [m1 EXCEPT !.th[c] = [s1 EXCEPT !.ci = <<Frame("lua")>>]]
                     ELSE Unroll([m1 EXCEPT !.th[c] = s1], c))

\* luaB_auxwrap propagates the error.
WrapRaises ==
  /\ cs # << >> /\ Top(Runs).f = "failed"
  /\ Becomes(Raise([m0 EXCEPT !.th[Runs] = Popped(@, 1)], Runs))

\* lua_yieldk: the longjmp to lua_resume keeps the frames.
Yield ==
  /\ InLua /\ Room(1)
  /\ LET t == Runs
         s == th[t]
         j == ErrorJmp(m0, t)
     IN IF s.nny > 0 THEN Becomes(Raise(m0, t))
        ELSE Becomes(ResumeReturns(
               [m0 EXCEPT !.th[t] = [s EXCEPT !.status = "yield", !.ci = Append(@, Frame("yield")),
                                              !.nny = cs[j].nny, !.nC = cs[j].nC - 1],
                          !.cs = SubSeq(@, 1, j - 1)], TRUE))

\* error(), a runtime error; or no memory, which has no handler.
Error == InLua /\ Becomes(Raise(m0, Runs))
MemoryError == InLua /\ Becomes(Throw(m0, Runs))

\* LuaManager::GenerateLuaError, by a C function that c called: luaL_error with
\* the state of the main thread, whose handlers are left out.
RaiseOnMain == InLua /\ Runs # Main /\ Becomes(Throw(m0, Main))

\* OP_RETURN.
Return == InLua /\ Becomes(Returned(m0, Runs))

\* coroutine.create, in the place of a coroutine that is dead.
Create(c) ==
  /\ InLua /\ c # Runs
  /\ th[c].status = "error" \/ (th[c].ci = << >> /\ ~th[c].fn)
  /\ Becomes([m0 EXCEPT !.th[c] = NewThread])

HostCalls ==
  /\ cs = << >>
  /\ Becomes([m0 EXCEPT !.th[Main] = HostRuns(@), !.cs = <<Entry("pcall", Main, th[Main])>>])

Next ==
  \/ CallLua \/ Metamethod \/ \E f \in Kinds : CallK(f) \/ PCallK(f)
  \/ \E c \in Cos : Create(c) \/ \E f \in {"resume", "wrap"} : Resume(f, c)
  \/ Yield \/ WrapRaises \/ Error \/ MemoryError \/ RaiseOnMain \/ Return \/ HostCalls

Spec == Init /\ [][Next]_vars

-----------------------------------------------------------------------------
(* Properties *)

\* The calls of a thread as a program sees them: without coroutine.wrap's last
\* part, in which the error is raised again.
Functions(a) == [i \in 1 .. Len(a) |-> IF a[i].f = "wrap" THEN "resume" ELSE a[i].f]
Calls(s) ==
  LET n == Len(s.ci)
  IN IF s.status = "error" THEN << >>
     ELSE Functions(IF n > 0 /\ s.ci[n].f = "failed" THEN SubSeq(s.ci, 1, n - 1) ELSE s.ci)

\* luaB_costatus of a thread with the state s, asked by the running one.
Status(s) ==
  IF s.status = "yield" THEN "suspended"
  ELSE IF s.status = "error" THEN "dead"
  ELSE IF s.ci # << >> THEN "normal"
  ELSE IF s.fn THEN "suspended" ELSE "dead"

\* The thread that runs, and the one that waits in lua_resume for t.
Running(c) == IF c = << >> THEN Main ELSE Last(c).t
Resumer(c, t) ==
  LET r == {i \in DOMAIN c : c[i].a = "resume" /\ c[i].t = t}
  IN IF r = {} THEN t ELSE c[Max(r) - 1].t

\* The C stack, setjmp and the continuations together do what is promised of
\* coroutines and protected calls: an error reaches the innermost protected call
\* of its thread whichever way that was made, a yield keeps every call, and
\* coroutine.status tells the truth.
Promise == INSTANCE Coroutines WITH
             calls <- [t \in Threads |-> Calls(th[t])],
             state <- [t \in Threads |-> IF t = Running(cs) THEN "running" ELSE Status(th[t])],
             running <- Running(cs),
             resumer <- [t \in Threads |-> Resumer(cs, t)]
KeepsThePromise == Promise!Spec

Count(t, S) == Cardinality({i \in DOMAIN cs : cs[i].t = t /\ cs[i].a \in S})
Alive == {t \in Threads \ lost : cs # << >> /\ \E i \in DOMAIN cs : cs[i].t = t}

\* nny counts the C calls that cannot be left by a yield, whatever longjmps have
\* been made, and errfunc is the handler of the innermost protected call.
CountersAreTrue ==
  /\ \A t \in Alive :
       /\ (th[t].nny = 0) <=> (t # Main /\ Count(t, {"noyield", "handler", "pcall"}) = 0)
       /\ th[t].nC < HandlingCCalls
       /\ LET p == {i \in DOMAIN th[t].ci : th[t].ci[i].f \in {"pcall", "xpcall"}}
              i == CHOOSE x \in p : \A y \in p : y <= x
          IN th[t].errfunc = IF p = {} THEN (IF t = Main THEN Host ELSE 0)
                             ELSE IF th[t].ci[i].f = "xpcall" THEN i ELSE 0
  /\ \A t \in Threads \ Alive : t \notin lost /\ t # Main => th[t].nny = 1

\* "must have a continuation and must be able to call it" (ldo.c:522): every C
\* function that a yield leaves can be finished later.
YieldedCanContinue ==
  \A c \in Cos : th[c].status = "yield" =>
    \A i \in DOMAIN th[c].ci : th[c].ci[i].f \in {"lua", "yield"} \/ th[c].ci[i].k
=============================================================================
