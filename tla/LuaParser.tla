----------------------------- MODULE LuaParser ------------------------------
(***************************************************************************)
(* The compiler of the embedded Lua (lparser.c): one pass over the tokens, *)
(* which emits code as it recognises the grammar.  A rule maps the state C *)
(* of the parser to the state after it:                                    *)
(*   tk, i       the tokens <<kind, value>> and the current one            *)
(*   e, n        the expression the last rule read, the length of a list   *)
(*   cc          the constructor being read                                *)
(*   fs          the FuncStates, innermost last                            *)
(*   act         the names of the active locals of all functions           *)
(*   lab, gt     the visible labels and the pending gotos                  *)
(*   err, ok     what is wrong with the source, whether assertions hold    *)
(*   last        the prototype of the function that ended last             *)
(* An error ends the parser; here no rule changes a FuncState after it and *)
(* the rest of the tokens is the end of the source, so that every rule     *)
(* ends.                                                                   *)
(***************************************************************************)
EXTENDS LuaCode

F(C) == Last(C.fs)
Put(C, f) == IF C.err = "" THEN [C EXCEPT !.fs[Len(C.fs)] = f] ELSE C
WithExp(C, e) == IF C.err = "" THEN [C EXCEPT !.e = e] ELSE C
PutE(C, r) == WithExp(Put(C, r[1]), r[2])
Fail(C, msg) == IF C.err = "" THEN [C EXCEPT !.err = msg, !.e = Exp("VOID", 0)] ELSE C
Check(C, b, msg) == IF b THEN C ELSE Fail(C, msg)

Tok(C) == IF C.err # "" \/ C.i > Len(C.tk) THEN "EOS" ELSE C.tk[C.i][1]
Sem(C) == IF Tok(C) = "EOS" THEN "" ELSE C.tk[C.i][2]
Skip(C) == [C EXCEPT !.i = @ + 1]
CheckNext(C, c) == Skip(Check(C, Tok(C) = c, "syntax"))
BlockFollow(C, withuntil) ==
  Tok(C) \in {"else", "elseif", "end", "EOS"} \cup (IF withuntil THEN {"until"} ELSE {})

ToNextReg(C) == PutE(C, Exp2NextReg(F(C), C.e))
ToAnyReg(C) == PutE(C, Exp2AnyReg(F(C), C.e))
ToAnyRegUp(C) == PutE(C, Exp2AnyRegUp(F(C), C.e))
ToVal(C) == PutE(C, Exp2Val(F(C), C.e))
SetMultret(C) == Put(C, SetReturns(F(C), C.e, Multret))
Store(C, var, e) == Put(C, StoreVar(F(C), var, e))
IndexWith(C, t) == PutE(C, Indexed(F(C), t, C.e))

-----------------------------------------------------------------------------
(* Variables *)

NewLocalVar(C, name) == [C EXCEPT !.act = Append(@, name)]
AdjustLocalVars(C, n) == Put(C, [F(C) EXCEPT !.nactvar = @ + n])
LocalNamed(C, f, name) == {i \in 0 .. f.nactvar - 1 : C.act[f.firstlocal + i + 1] = name}
UpvalueNamed(f, name) == {i \in DOMAIN f.ups : f.ups[i].name = name}
\* The innermost block of the function that starts at or below the level.
MarkUpval(f, level) ==
  [f EXCEPT !.bl[Max({b \in DOMAIN f.bl : f.bl[b].nactvar <= level})].upval = TRUE]
NewUpvalue(f, name, e) ==
  [f EXCEPT !.ups = Append(@, [name |-> name, instack |-> e.k = "LOCAL", idx |-> e.i])]

\* <<C, e>>: the variable as function l sees it; VOID when it is global.
RECURSIVE SingleVarAux(_, _, _, _)
SingleVarAux(C, l, name, base) ==
  IF l = 0 THEN <<C, Exp("VOID", 0)>>
  ELSE LET f == C.fs[l]
           own == LocalNamed(C, f, name)
           up == UpvalueNamed(f, name)
           outer == SingleVarAux(C, l - 1, name, FALSE)
       IN CASE own # {} -> <<IF base THEN C ELSE [C EXCEPT !.fs[l] = MarkUpval(f, Max(own))],
                             Exp("LOCAL", Max(own))>>
            [] own = {} /\ up # {} -> <<C, Exp("UPVAL", Min(up) - 1)>>
            [] OTHER -> IF outer[2].k = "VOID" THEN outer
                        ELSE <<[outer[1] EXCEPT !.fs[l] = NewUpvalue(f, name, outer[2])],
                               Exp("UPVAL", Len(f.ups))>>

CodeString(C, s) ==
  LET r == StringK(F(C), s)
  IN PutE(C, <<r[1], [Exp("K", r[2]) EXCEPT !.v = Str(s)]>>)
CheckName(C) == LET c == CheckNext(C, "name") IN CodeString(c, IF c.err = "" THEN Sem(C) ELSE "")

SingleVar(C) ==
  LET name == Sem(C)
      v == SingleVarAux(C, Len(C.fs), name, TRUE)
      env == SingleVarAux(v[1], Len(C.fs), "_ENV", TRUE)
      found == IF v[2].k # "VOID" THEN WithExp(v[1], v[2])
               ELSE IndexWith(CodeString(env[1], name), env[2])
  IN CheckNext(found, "name")

\* The values of an explist of nexps become those of nvars variables.
AdjustAssign(C, nvars, nexps) ==
  LET f == F(C)
      extra == nvars - nexps
      wanted == Max({0, extra + 1})
      open == ReserveRegs(SetReturns(f, C.e, wanted), Max({0, wanted - 1}))
      h == IF C.e.k = "VOID" THEN f ELSE Exp2NextReg(f, C.e)[1]
      closed == IF extra > 0 THEN CodeNil(ReserveRegs(h, extra), h.freereg, extra) ELSE h
      g == IF HasMultret(C.e) THEN open ELSE closed
  IN Put(C, [g EXCEPT !.freereg = @ - Max({0, nexps - nvars})])

-----------------------------------------------------------------------------
(* Blocks, labels and gotos *)

EnterBlock(C, isloop) ==
  LET f == F(C)
      bl == [nactvar |-> f.nactvar, firstlabel |-> Len(C.lab), firstgoto |-> Len(C.gt),
             upval |-> FALSE, isloop |-> isloop]
  IN Put(C, [Claim(f, f.freereg = f.nactvar) EXCEPT !.bl = Append(@, bl)])

Entry(C, name, pc) == [name |-> name, nactvar |-> F(C).nactvar, pc |-> pc]

CloseGoto(C, g, label) ==
  LET c == Put(C, PatchList(F(C), C.gt[g].pc, label.pc))
  IN Check([c EXCEPT !.gt = RemoveAt(@, g)], C.gt[g].nactvar >= label.nactvar, "scope")

LabelsNamed(C, name) ==
  {l \in Last(F(C).bl).firstlabel + 1 .. Len(C.lab) : C.lab[l].name = name}
\* A backward jump that leaves the scope of a local closes it.
FindLabel(C, g) ==
  LET gt == C.gt[g]
      lb == C.lab[Min(LabelsNamed(C, gt.name))]
      leaves == gt.nactvar > lb.nactvar
                  /\ (Last(F(C).bl).upval \/ Len(C.lab) > Last(F(C).bl).firstlabel)
  IN IF LabelsNamed(C, gt.name) = {} THEN C
     ELSE CloseGoto(IF leaves THEN Put(C, PatchClose(F(C), gt.pc, lb.nactvar)) ELSE C, g, lb)

RECURSIVE FindGotos(_, _, _)
FindGotos(C, lb, i) ==
  IF i > Len(C.gt) THEN C
  ELSE IF C.gt[i].name = lb.name THEN FindGotos(CloseGoto(C, i, lb), lb, i)
  ELSE FindGotos(C, lb, i + 1)
PendingHere(C, lb) == FindGotos(C, lb, Last(F(C).bl).firstgoto + 1)

RECURSIVE MoveGotosOut(_, _, _)
MoveGotosOut(C, bl, i) ==
  LET gt == C.gt[i]
      closed == IF bl.upval THEN Put(C, PatchClose(F(C), gt.pc, bl.nactvar)) ELSE C
      moved == IF gt.nactvar > bl.nactvar THEN [closed EXCEPT !.gt[i].nactvar = bl.nactvar] ELSE C
      c == FindLabel(moved, i)
  IN IF i > Len(C.gt) THEN C
     ELSE MoveGotosOut(c, bl, IF Len(c.gt) = Len(C.gt) THEN i + 1 ELSE i)

BreakLabel(C) == PendingHere(C, Entry(C, "break", Pc(F(C))))

RemoveVars(C, level) ==
  LET f == F(C)
  IN [Put(C, [f EXCEPT !.nactvar = level]) EXCEPT !.act = SubSeq(@, 1, f.firstlocal + level)]
\* A jump to the next instruction closes the upvalues of the block.
CloseHere(f, level) ==
  LET j == Jump(f) IN PatchToHere(PatchClose(j[1], j[2], level), j[2])
\* The goto has no label, or the break no loop.
UndefGoto(C, gt) == Fail(C, IF gt.name = "break" THEN "break outside a loop" ELSE "no visible label")
LeaveBlock(C) ==
  LET bl == Last(F(C).bl)
      inner == Len(F(C).bl) > 1
      c == IF inner /\ bl.upval THEN Put(C, CloseHere(F(C), bl.nactvar)) ELSE C
      b == RemoveVars(IF bl.isloop THEN BreakLabel(c) ELSE c, bl.nactvar)
      d == [Put(b, [F(b) EXCEPT !.freereg = bl.nactvar, !.bl = Front(@)])
              EXCEPT !.lab = SubSeq(@, 1, bl.firstlabel)]
  IN IF C.err # "" THEN C
     ELSE IF inner THEN MoveGotosOut(d, bl, bl.firstgoto + 1)
     ELSE IF bl.firstgoto < Len(d.gt) THEN UndefGoto(C, d.gt[bl.firstgoto + 1]) ELSE d

OpenFunc(C) ==
  IF C.err # "" THEN C ELSE EnterBlock([C EXCEPT !.fs = Append(@, NewFunc(Len(C.act)))], FALSE)
Proto(C, f) ==
  [source |-> C.source, code |-> f.code, k |-> f.k, p |-> f.p, ups |-> f.ups, maxstack |-> f.maxstack,
   numparams |-> f.numparams, vararg |-> f.vararg]
CloseFunc(C) ==
  LET c == LeaveBlock(Put(C, Ret(F(C), 0, 0)))
  IN IF c.err # "" THEN c ELSE [c EXCEPT !.fs = Front(@), !.last = Proto(c, F(c)), !.ok = @ /\ F(c).ok]

-----------------------------------------------------------------------------
(* Expressions *)

RECURSIVE subexpr(_, _), binary(_, _), statement(_), statlist(_), moreexps(_, _), suffixes(_),
          fields(_), parlist(_)

expr(C) == subexpr(C, 0)
moreexps(C, n) ==
  IF Tok(C) = "," THEN moreexps(expr(Skip(ToNextReg(C))), n + 1) ELSE [C EXCEPT !.n = n]
explist(C) == moreexps(expr(C), 1)

fieldsel(C) ==
  LET c == ToAnyRegUp(C) IN IndexWith(CheckName(Skip(c)), c.e)
yindex(C) == CheckNext(ToVal(expr(Skip(C))), "]")

\* <<C, the operand>> for the expression just read
Operand(C) == LET r == Exp2RK(F(C), C.e) IN <<PutE(C, r), r[3]>>
recfield(C) ==
  LET key == Operand(CheckNext(IF Tok(C) = "name" THEN CheckName(C) ELSE yindex(C), "="))
      val == Operand(expr(key[1]))
      f == Emit(F(val[1]), "SETTABLE", C.cc.t, key[2], val[2])
  IN WithExp(Put(val[1], [f EXCEPT !.freereg = F(C).freereg]), Exp("VOID", 0))
closelistfield(C) ==
  LET c == WithExp(ToNextReg(C), Exp("VOID", 0))
  IN CASE C.e.k = "VOID" -> C
       [] C.e.k # "VOID" /\ C.cc.tostore = FieldsPerFlush ->
            [Put(c, CodeSetList(F(c), C.cc.t, C.cc.na, C.cc.tostore)) EXCEPT !.cc.tostore = 0]
       [] OTHER -> c
lastlistfield(C) ==
  LET open == HasMultret(C.e)
      c == IF open THEN SetMultret(C) ELSE IF C.e.k = "VOID" THEN C ELSE ToNextReg(C)
  IN IF C.cc.tostore = 0 THEN C
     ELSE Put(c, CodeSetList(F(c), C.cc.t, C.cc.na, IF open THEN Multret ELSE C.cc.tostore))
listfield(C) == [expr(C) EXCEPT !.cc.na = @ + 1, !.cc.tostore = @ + 1]
field(C) ==
  IF Tok(C) = "[" \/ (Tok(C) = "name" /\ Tok(Skip(C)) = "=") THEN recfield(C) ELSE listfield(C)
fields(C) ==
  LET c == field(closelistfield(C))
  IN IF Tok(C) = "}" THEN C ELSE IF Tok(c) \in {",", ";"} THEN fields(Skip(c)) ELSE c
\* The sizes of the new table are left out: they do not change what it holds.
constructor(C) ==
  LET t == ToNextReg(PutE(C, <<Emit(F(C), "NEWTABLE", 0, 0, 0), Exp("RELOCABLE", Pc(F(C)))>>))
      c == [t EXCEPT !.cc = [t |-> t.e.i, na |-> 0, tostore |-> 0], !.e = Exp("VOID", 0)]
      all == lastlistfield(CheckNext(fields(CheckNext(c, "{")), "}"))
  IN [all EXCEPT !.cc = C.cc, !.e = t.e]

parlist(C) ==
  CASE Tok(C) = "name" -> LET c == Skip(NewLocalVar(C, Sem(C)))
                          IN IF Tok(c) = "," THEN parlist(Skip(c)) ELSE c
    [] Tok(C) = "..." -> Skip(Put(C, [F(C) EXCEPT !.vararg = TRUE]))
    [] OTHER -> Fail(C, "syntax")
params(C) ==
  LET c == IF Tok(C) = ")" THEN C ELSE parlist(C)
      n == Len(c.act) - F(c).firstlocal
  IN Put(c, ReserveRegs([F(c) EXCEPT !.nactvar = n, !.numparams = n], n))
\* The closure is made in the last register of the enclosing function.
body(C, ismethod) ==
  LET o == CheckNext(OpenFunc(C), "(")
      s == IF ismethod THEN NewLocalVar(o, "self") ELSE o
      c == CloseFunc(CheckNext(statlist(CheckNext(params(s), ")")), "end"))
      f == Emit([F(c) EXCEPT !.p = Append(@, c.last)], "CLOSURE", 0, Len(F(c).p), 0)
  IN ToNextReg(PutE(c, <<f, Exp("RELOCABLE", Pc(F(c)))>>))

funcargs(C) ==
  LET f == C.e
      args == CASE Tok(C) = "(" /\ Tok(Skip(C)) = ")" -> WithExp(Skip(Skip(C)), Exp("VOID", 0))
                [] Tok(C) = "(" /\ Tok(Skip(C)) # ")" -> CheckNext(SetMultret(explist(Skip(C))), ")")
                [] Tok(C) = "{" -> constructor(C)
                [] Tok(C) = "string" -> Skip(CodeString(C, Sem(C)))
                [] OTHER -> Fail(C, "syntax")
      open == HasMultret(args.e)
      c == IF open \/ args.e.k = "VOID" THEN args ELSE ToNextReg(args)
      nparams == IF open THEN Multret ELSE F(c).freereg - (f.i + 1)
      g == Claim(Emit(F(c), "CALL", f.i, nparams + 1, 2), f.k = "NONRELOC")
  IN PutE(c, <<[g EXCEPT !.freereg = f.i + 1], Exp("CALL", Pc(F(c)))>>)

primaryexp(C) ==
  CASE Tok(C) = "(" -> LET c == CheckNext(expr(Skip(C)), ")") IN PutE(c, DischargeVars(F(c), c.e))
    [] Tok(C) = "name" -> SingleVar(C)
    [] OTHER -> Fail(C, "syntax")
suffixes(C) ==
  LET c == ToAnyRegUp(C)
      k == CheckName(Skip(C))
  IN CASE Tok(C) = "." -> suffixes(fieldsel(C))
       [] Tok(C) = "[" -> suffixes(IndexWith(yindex(c), c.e))
       [] Tok(C) = ":" -> suffixes(funcargs(PutE(k, Self(F(k), C.e, k.e))))
       [] Tok(C) \in {"(", "string", "{"} -> suffixes(funcargs(ToNextReg(C)))
       [] OTHER -> C
suffixedexp(C) == suffixes(primaryexp(C))

simpleexp(C) ==
  LET literal == [k \in {"nil", "true", "false"} |->
                    CASE k = "nil" -> "NIL" [] k = "true" -> "TRUE" [] OTHER -> "FALSE"]
      dots == PutE(C, <<Emit(F(C), "VARARG", 0, 1, 0), Exp("VARARG", Pc(F(C)))>>)
  IN CASE Tok(C) = "int" -> Skip(WithExp(C, [Exp("KINT", 0) EXCEPT !.v = Num(Sem(C))]))
       [] Tok(C) = "string" -> Skip(CodeString(C, Sem(C)))
       [] Tok(C) \in DOMAIN literal -> Skip(WithExp(C, Exp(literal[Tok(C)], 0)))
       [] Tok(C) = "..." -> Skip(Check(dots, F(C).vararg, "vararg"))
       [] Tok(C) = "{" -> constructor(C)
       [] Tok(C) = "function" -> body(Skip(C), FALSE)
       [] OTHER -> suffixedexp(C)

UnaryPriority == 12
BinaryOps == Arithmetic \cup {"..", "==", "<", "<=", "~=", ">", ">=", "and", "or"}
Left ==
  [op \in BinaryOps |->
     CASE op \in {"*", "//", "%"} -> 11 [] op \in {"+", "-"} -> 10 [] op = ".." -> 9
       [] op \in {"<<", ">>"} -> 7 [] op = "&" -> 6 [] op = "~" -> 5 [] op = "|" -> 4 [] op = "and" -> 2 [] op = "or" -> 1 [] OTHER -> 3]
Right == [Left EXCEPT ![".."] = 8]
UnaryOp ==
  [t \in {"not", "-", "~", "#"} |-> CASE t = "-" -> "neg" [] t = "~" -> "bnot" [] OTHER -> t]

subexpr(C, limit) ==
  LET u == subexpr(Skip(C), UnaryPriority)
  IN binary(IF Tok(C) \in DOMAIN UnaryOp THEN PutE(u, Prefix(F(u), UnaryOp[Tok(C)], u.e))
            ELSE simpleexp(C), limit)
binary(C, limit) ==
  LET op == Tok(C)
      left == PutE(Skip(C), Infix(F(C), op, C.e))
      right == subexpr(left, Right[op])
  IN IF op \notin BinaryOps THEN C
     ELSE IF Left[op] <= limit THEN C
     ELSE binary(PutE(right, Posfix(F(right), op, left.e, right.e)), limit)

-----------------------------------------------------------------------------
(* Statements *)

Jumping(C) == LET r == Jump(F(C)) IN <<Put(C, r[1]), r[2]>>
ToHere(C, list) == Put(C, PatchToHere(F(C), list))
ToTarget(C, list, target) == Put(C, PatchList(F(C), list, target))
Label(C) == Put(C, GetLabel(F(C)))
block(C) == LeaveBlock(statlist(EnterBlock(C, FALSE)))

statlist(C) ==
  CASE BlockFollow(C, TRUE) -> C
    [] Tok(C) = "return" -> statement(C)
    [] OTHER -> statlist(statement(C))

IsVar(e) == e.k \in {"LOCAL", "UPVAL", "INDEXED"}
\* Mutant: an index that the assignment changes is not copied.
CheckConflictFault(C, lhs, v) ==
  LET f == F(C)
      tabs == {n \in DOMAIN lhs : lhs[n].k = "INDEXED" /\ lhs[n].vt = v.k /\ lhs[n].tab = v.i}
      copy == Emit(f, IF v.k = "LOCAL" THEN "MOVE" ELSE "GETUPVAL", f.freereg, v.i, 0)
      safe == [n \in DOMAIN lhs |->
                 [lhs[n] EXCEPT !.vt = IF n \in tabs THEN "LOCAL" ELSE @,
                                !.tab = IF n \in tabs THEN f.freereg ELSE @]]
  IN IF tabs = {} THEN <<C, lhs>> ELSE <<Put(C, ReserveRegs(copy, 1)), safe>>
\* Earlier targets t[i] keep the table and the index they would have without
\* the assignment to v.
CheckConflict(C, lhs, v) ==
  LET f == F(C)
      tabs == {n \in DOMAIN lhs : lhs[n].k = "INDEXED" /\ lhs[n].vt = v.k /\ lhs[n].tab = v.i}
      idxs == {n \in DOMAIN lhs : lhs[n].k = "INDEXED" /\ v.k = "LOCAL" /\ lhs[n].idx = v.i}
      copy == Emit(f, IF v.k = "LOCAL" THEN "MOVE" ELSE "GETUPVAL", f.freereg, v.i, 0)
      safe == [n \in DOMAIN lhs |->
                 [lhs[n] EXCEPT !.vt = IF n \in tabs THEN "LOCAL" ELSE @,
                                !.tab = IF n \in tabs THEN f.freereg ELSE @,
                                !.idx = IF n \in idxs THEN f.freereg ELSE @]]
  IN IF tabs \cup idxs = {} THEN <<C, lhs>> ELSE <<Put(C, ReserveRegs(copy, 1)), safe>>

\* The values wait in the last registers: the last target takes the last one.
StoreFromTop(C, lhs) ==
  FoldRight(LAMBDA v, c : Store(c, v, Exp("NONRELOC", F(c).freereg - 1)), lhs, C)
RECURSIVE assignment(_, _)
assignment(C, lhs) ==
  LET v == suffixedexp(Skip(C))
      r == IF v.e.k = "INDEXED" THEN <<v, lhs>> ELSE CheckConflict(v, lhs, v.e)
      c == explist(CheckNext(C, "="))
      one == SetOneRet(F(c), c.e)
  IN CASE ~IsVar(Last(lhs)) -> Fail(C, "syntax")
       [] IsVar(Last(lhs)) /\ Tok(C) = "," -> assignment(r[1], Append(r[2], v.e))
       [] OTHER -> IF c.n = Len(lhs) THEN StoreFromTop(Store(Put(c, one[1]), Last(lhs), one[2]), Front(lhs))
                   ELSE StoreFromTop(AdjustAssign(c, Len(lhs), c.n), lhs)
exprstat(C) ==
  LET v == suffixedexp(C)
  IN CASE Tok(v) \in {"=", ","} -> assignment(v, <<v.e>>)
       [] Tok(v) \notin {"=", ","} /\ v.e.k = "CALL" ->
            Put(v, [F(v) EXCEPT !.code[v.e.i + 1].c = 1])
       [] OTHER -> Fail(v, "syntax")

\* <<C, the jumps taken when the condition is false>>
cond(C) ==
  LET c == expr(C)
      r == GoIfTrue(F(c), IF c.e.k = "NIL" THEN [c.e EXCEPT !.k = "FALSE"] ELSE c.e)
  IN <<Put(c, r[1]), r[2].f>>

gotostat(C, pc) ==
  LET name == IF Tok(C) = "goto" THEN Sem(Skip(C)) ELSE "break"
      c == IF Tok(C) = "goto" THEN CheckNext(Skip(C), "name") ELSE Skip(C)
  IN FindLabel([c EXCEPT !.gt = Append(@, Entry(c, name, pc))], Len(c.gt) + 1)
RECURSIVE skipnoopstat(_)
skipnoopstat(C) == IF Tok(C) \in {";", "::"} THEN skipnoopstat(statement(C)) ELSE C
labelstat(C) ==
  LET name == Sem(C)
      c == CheckNext(CheckNext(Check(C, LabelsNamed(C, name) = {}, "repeated"), "name"), "::")
      l == Len(c.lab) + 1
      g == skipnoopstat([Label(c) EXCEPT !.lab = Append(@, Entry(c, name, Pc(F(c))))])
      d == IF BlockFollow(g, FALSE) THEN [g EXCEPT !.lab[l].nactvar = Last(F(g).bl).nactvar] ELSE g
  IN PendingHere(d, d.lab[l])

whilestat(C) ==
  LET init == Pc(F(C))
      exit == cond(Label(Skip(C)))
      j == Jumping(block(CheckNext(EnterBlock(exit[1], TRUE), "do")))
  IN ToHere(LeaveBlock(CheckNext(ToTarget(j[1], j[2], init), "end")), exit[2])

repeatstat(C) ==
  LET init == Pc(F(C))
      c == EnterBlock(EnterBlock(Label(C), TRUE), FALSE)
      exit == cond(CheckNext(statlist(Skip(c)), "until"))
      bl == Last(F(exit[1]).bl)
      closed == IF bl.upval THEN Put(exit[1], PatchClose(F(exit[1]), exit[2], bl.nactvar)) ELSE exit[1]
  IN LeaveBlock(ToTarget(LeaveBlock(closed), exit[2], init))

forbody(C, base, nvars, isnum) ==
  LET c == CheckNext(AdjustLocalVars(C, 3), "do")
      prep == IF isnum THEN <<Put(c, Emit(F(c), "FORPREP", base, NoJump, 0)), Pc(F(c))>> ELSE Jumping(c)
      d == AdjustLocalVars(EnterBlock(prep[1], FALSE), nvars)
      b == ToHere(LeaveBlock(block(Put(d, ReserveRegs(F(d), nvars)))), prep[2])
      f == IF isnum THEN Emit(F(b), "FORLOOP", base, NoJump, 0)
           ELSE Emit(Emit(F(b), "TFORCALL", base, 0, nvars), "TFORLOOP", base + 2, NoJump, 0)
  IN Put(b, PatchList(f, Pc(f) - 1, prep[2] + 1))
NewLocals(C, names) == [C EXCEPT !.act = @ \o names]
exp1(C) == ToNextReg(expr(C))
fornum(C, name) ==
  LET named == NewLocals(C, <<"(for index)", "(for limit)", "(for step)", name>>)
      c == exp1(CheckNext(exp1(CheckNext(named, "=")), ","))
      one == ReserveRegs(CodeK(F(c), F(c).freereg, Num(1)), 1)
  IN forbody(IF Tok(c) = "," THEN exp1(Skip(c)) ELSE Put(c, one), F(C).freereg, 1, TRUE)
RECURSIVE namelist(_)
namelist(C) ==
  LET c == CheckNext(NewLocalVar(C, Sem(C)), "name")
  IN IF Tok(c) = "," THEN namelist(Skip(c)) ELSE c
forlist(C, name) ==
  LET named == NewLocals(C, <<"(for generator)", "(for state)", "(for control)", name>>)
      all == IF Tok(C) = "," THEN namelist(Skip(named)) ELSE named
      list == explist(CheckNext(all, "in"))
      c == AdjustAssign(list, 3, list.n)
      f == [F(c) EXCEPT !.maxstack = Max({@, F(c).freereg + 3})]
  IN forbody(Put(c, f), F(C).freereg, Len(all.act) - Len(C.act) - 3, FALSE)
forstat(C) ==
  LET c == CheckNext(Skip(EnterBlock(C, TRUE)), "name")
      name == Sem(Skip(C))
      loop == CASE Tok(c) = "=" -> fornum(c, name)
                [] Tok(c) \in {",", "in"} -> forlist(c, name)
                [] OTHER -> Fail(c, "syntax")
  IN LeaveBlock(CheckNext(loop, "end"))

\* <<C, the jumps to the end of the if>>
ThenPart(C, jf, escapes) ==
  LET c == LeaveBlock(statlist(C))
      j == Jumping(c)
      e == Concat(F(j[1]), escapes, j[2])
  IN IF Tok(c) \in {"else", "elseif"} THEN <<ToHere(Put(j[1], e[1]), jf), e[2]>>
     ELSE <<ToHere(c, jf), escapes>>
TestThenBlock(C, escapes) ==
  LET c == CheckNext(expr(Skip(C)), "then")
      jumps == GoIfFalse(F(c), c.e)
      g == skipnoopstat(gotostat(EnterBlock(Put(c, jumps[1]), FALSE), jumps[2].t))
      over == Jumping(g)
      falls == GoIfTrue(F(c), c.e)
  IN CASE Tok(c) \notin {"goto", "break"} ->
            ThenPart(EnterBlock(Put(c, falls[1]), FALSE), falls[2].f, escapes)
       [] Tok(c) \in {"goto", "break"} /\ BlockFollow(g, FALSE) -> <<LeaveBlock(g), escapes>>
       [] OTHER -> ThenPart(over[1], over[2], escapes)
RECURSIVE elseifs(_, _)
elseifs(C, escapes) ==
  LET r == TestThenBlock(C, escapes)
  IN IF Tok(r[1]) = "elseif" THEN elseifs(r[1], r[2]) ELSE r
ifstat(C) ==
  LET r == elseifs(C, NoJump)
      c == IF Tok(r[1]) = "else" THEN block(Skip(r[1])) ELSE r[1]
  IN ToHere(CheckNext(c, "end"), r[2])

localfunc(C) == body(AdjustLocalVars(CheckNext(NewLocalVar(C, Sem(C)), "name"), 1), FALSE)
localstat(C) ==
  LET c == namelist(C)
      n == Len(c.act) - Len(C.act)
      v == IF Tok(c) = "=" THEN explist(Skip(c)) ELSE [WithExp(c, Exp("VOID", 0)) EXCEPT !.n = 0]
  IN AdjustLocalVars(AdjustAssign(v, n, v.n), n)
RECURSIVE fieldsels(_)
fieldsels(C) == IF Tok(C) = "." THEN fieldsels(fieldsel(C)) ELSE C
funcstat(C) ==
  LET v == fieldsels(SingleVar(Skip(C)))
      m == IF Tok(v) = ":" THEN fieldsel(v) ELSE v
      b == body(m, Tok(v) = ":")
  IN Store(b, m.e, b.e)

retstat(C) ==
  LET none == BlockFollow(C, TRUE) \/ Tok(C) = ";"
      c == explist(C)
      open == SetMultret(c)
      tail == c.e.k = "CALL" /\ c.n = 1
      called == Put(open, Claim([F(open) EXCEPT !.code[c.e.i + 1].o = "TAILCALL"],
                                At(F(open), c.e.i).a = F(open).nactvar))
      one == ToAnyReg(c)
      all == ToNextReg(c)
      r == CASE none -> <<C, 0, 0>>
             [] ~none /\ HasMultret(c.e) -> <<IF tail THEN called ELSE open, F(c).nactvar, Multret>>
             [] ~none /\ ~HasMultret(c.e) /\ c.n = 1 -> <<one, one.e.i, 1>>
             [] OTHER -> <<Put(all, Claim(F(all), c.n = F(all).freereg - F(c).nactvar)), F(c).nactvar, c.n>>
      d == Put(r[1], Ret(F(r[1]), r[2], r[3]))
  IN IF Tok(d) = ";" THEN Skip(d) ELSE d

jumpstat(C) == LET j == Jumping(C) IN gotostat(j[1], j[2])
statement(C) ==
  LET c == CASE Tok(C) = ";" -> Skip(C)
             [] Tok(C) = "if" -> ifstat(C)
             [] Tok(C) = "while" -> whilestat(C)
             [] Tok(C) = "do" -> CheckNext(block(Skip(C)), "end")
             [] Tok(C) = "for" -> forstat(C)
             [] Tok(C) = "repeat" -> repeatstat(C)
             [] Tok(C) = "function" -> funcstat(C)
             [] Tok(C) = "local" -> IF Tok(Skip(C)) = "function" THEN localfunc(Skip(Skip(C)))
                                    ELSE localstat(Skip(C))
             [] Tok(C) = "::" -> labelstat(Skip(C))
             [] Tok(C) = "return" -> retstat(Skip(C))
             [] Tok(C) \in {"break", "goto"} -> jumpstat(C)
             [] OTHER -> exprstat(C)
      f == F(c)
  IN Put(c, [Claim(f, f.maxstack >= f.freereg /\ f.freereg >= f.nactvar) EXCEPT !.freereg = f.nactvar])

\* The main function is a vararg function with one upvalue, the environment.
Parse(tokens, name) ==
  LET C == [tk |-> tokens, i |-> 1, e |-> Exp("VOID", 0), n |-> 0,
            cc |-> [t |-> 0, na |-> 0, tostore |-> 0], fs |-> << >>, act |-> << >>,
            lab |-> << >>, gt |-> << >>, err |-> "", last |-> << >>, ok |-> TRUE, source |-> name]
      o == OpenFunc(C)
      f == NewUpvalue([F(o) EXCEPT !.vararg = TRUE], "_ENV", Exp("LOCAL", 0))
      c == statlist(Put(o, f))
  IN CloseFunc(Check(c, Tok(c) = "EOS", "syntax"))

\* luaY_parser: all scopes are closed, nothing is left of their variables,
\* gotos and labels, and no assertion on the way failed.
Sound(C) ==
  /\ C.err = "" /\ C.ok /\ C.fs = << >>
  /\ C.act = << >> /\ C.gt = << >> /\ C.lab = << >>
  /\ Len(C.last.ups) = 1
=============================================================================
