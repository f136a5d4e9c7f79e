------------------------------ MODULE LuaCode -------------------------------
(***************************************************************************)
(* The code generator of the embedded Lua (lcode.c).  It emits an          *)
(* instruction before it knows where a result is wanted or where a jump    *)
(* goes: an expression descriptor e says where its value is so far, and    *)
(* the instructions of a list of jumps hold the list's links until it is   *)
(* patched.                                                                *)
(*                                                                         *)
(* f is a FuncState; positions in its code start at 0.  The operators give *)
(* <<f, e>> or f.  f.ok is what the assertions of the code generator say.  *)
(***************************************************************************)
EXTENDS LuaValues

CONSTANTS
  MaxIndexRK,       \* MAXINDEXRK: the last constant an operand can name
  FieldsPerFlush    \* LFIELDS_PER_FLUSH

NoJump == -1
NoReg == 255
Multret == -1
RKAsK(i) == 256 + i
IsK(rk) == rk >= 256

Ins(o, a, b, c) == [o |-> o, a |-> a, b |-> b, c |-> c]
\* The instructions whose next one is the jump they decide.
TestModes == {"EQ", "LT", "LE", "TEST", "TESTSET"}

\* expdesc: i is u.info, v is u.ival, and tab, idx, vt are u.ind.
Exp(k, i) == [k |-> k, i |-> i, v |-> Nil, tab |-> 0, idx |-> 0, vt |-> "VOID",
              t |-> NoJump, f |-> NoJump]
Fixed(e, reg) == [e EXCEPT !.k = "NONRELOC", !.i = reg]
HasJumps(e) == e.t # e.f
HasMultret(e) == e.k \in {"CALL", "VARARG"}

NewFunc(firstlocal) ==
  [code |-> << >>, k |-> << >>, p |-> << >>, ups |-> << >>, jpc |-> NoJump, lasttarget |-> 0,
   freereg |-> 0, nactvar |-> 0, firstlocal |-> firstlocal, bl |-> << >>, maxstack |-> 2,
   numparams |-> 0, vararg |-> FALSE, ok |-> TRUE]
Pc(f) == Len(f.code)
At(f, pc) == f.code[pc + 1]
Claim(f, b) == [f EXCEPT !.ok = @ /\ b]

-----------------------------------------------------------------------------
(* Jump lists *)

GetJump(f, pc) == IF At(f, pc).b = NoJump THEN NoJump ELSE pc + 1 + At(f, pc).b
FixJump(f, pc, dest) == [f EXCEPT !.code[pc + 1].b = dest - (pc + 1)]
RECURSIVE JumpList(_, _)
JumpList(f, list) == IF list = NoJump THEN << >> ELSE <<list>> \o JumpList(f, GetJump(f, list))

\* Mutant: the second list is not linked to the first.
ConcatFault(f, l1, l2) == <<f, IF l1 = NoJump THEN l2 ELSE l1>>
\* <<f, the list of both>>
Concat(f, l1, l2) ==
  IF l2 = NoJump THEN <<f, l1>>
  ELSE IF l1 = NoJump THEN <<f, l2>> ELSE <<FixJump(f, Last(JumpList(f, l1)), l2), l1>>
ConcatT(f, e, l) == LET r == Concat(f, e.t, l) IN <<r[1], [e EXCEPT !.t = r[2]]>>
ConcatF(f, e, l) == LET r == Concat(f, e.f, l) IN <<r[1], [e EXCEPT !.f = r[2]]>>

\* The test that controls the jump at pc, or the jump.
JumpControl(f, pc) == IF pc >= 1 /\ At(f, pc - 1).o \in TestModes THEN pc - 1 ELSE pc
IsTestSet(f, pc) == At(f, JumpControl(f, pc)).o = "TESTSET"
PatchTestReg(f, pc, reg) ==
  LET c == JumpControl(f, pc)
      i == At(f, c)
  IN IF i.o # "TESTSET" THEN f
     ELSE [f EXCEPT !.code[c + 1] = IF reg # NoReg /\ reg # i.b THEN [i EXCEPT !.a = reg]
                                    ELSE Ins("TEST", i.b, 0, i.c)]
RemoveValues(f, list) == FoldLeft(LAMBDA g, pc : PatchTestReg(g, pc, NoReg), f, JumpList(f, list))

\* Tests that produce values go to vtarget, the others to dtarget.
PatchListAux(f, list, vtarget, reg, dtarget) ==
  FoldLeft(LAMBDA g, pc : FixJump(PatchTestReg(g, pc, reg), pc,
                                  IF IsTestSet(g, pc) THEN vtarget ELSE dtarget),
           f, JumpList(f, list))

Emit(f, o, a, b, c) ==
  LET g == PatchListAux(f, f.jpc, Pc(f), NoReg, Pc(f))
  IN [g EXCEPT !.jpc = NoJump, !.code = Append(@, Ins(o, a, b, c))]

\* <<f, the list of the new jump and the jumps to here>>
Jump(f) ==
  Concat(Emit([f EXCEPT !.jpc = NoJump], "JMP", 0, NoJump, 0), Pc(f), f.jpc)
CondJump(f, o, a, b, c) == Jump(Emit(f, o, a, b, c))
GetLabel(f) == [f EXCEPT !.lasttarget = Pc(f)]
PatchToHere(f, list) ==
  LET r == Concat(GetLabel(f), f.jpc, list) IN [r[1] EXCEPT !.jpc = r[2]]
PatchList(f, list, target) ==
  IF target = Pc(f) THEN PatchToHere(f, list)
  ELSE PatchListAux(f, list, target, NoReg, target)
\* The jumps of the list close the upvalues from level on.
PatchClose(f, list, level) ==
  FoldLeft(LAMBDA g, pc : Claim([g EXCEPT !.code[pc + 1].a = level + 1],
                                 At(g, pc).o = "JMP" /\ At(g, pc).a \in {0} \cup level + 1 .. NoReg),
           f, JumpList(f, list))

-----------------------------------------------------------------------------
(* Registers and constants *)

ReserveRegs(f, n) ==
  [f EXCEPT !.freereg = @ + n, !.maxstack = Max({@, f.freereg + n})]
FreeReg(f, reg) ==
  IF IsK(reg) \/ reg < f.nactvar THEN f
  ELSE Claim([f EXCEPT !.freereg = @ - 1], reg = f.freereg - 1)
FreeExp(f, e) == IF e.k = "NONRELOC" THEN FreeReg(f, e.i) ELSE f
\* Mutant: the registers are released in the order of the operands.
FreeExpsFault(f, e1, e2) == FreeExp(FreeExp(f, e2), e1)
FreeExps(f, e1, e2) ==
  IF e1.k = "NONRELOC" /\ e2.k = "NONRELOC" /\ e1.i > e2.i THEN FreeExp(FreeExp(f, e1), e2)
  ELSE FreeExp(FreeExp(f, e2), e1)

\* addk: <<f, the index of the constant>>
AddK(f, v) ==
  LET at == {i \in DOMAIN f.k : f.k[i] = v}
  IN IF at # {} THEN <<f, Min(at) - 1>> ELSE <<[f EXCEPT !.k = Append(@, v)], Len(f.k)>>
StringK(f, s) == AddK(f, Str(s))
CodeK(f, reg, v) == LET r == AddK(f, v) IN Emit(r[1], "LOADK", reg, r[2], 0)

\* luaK_nil: extends a LOADNIL just before, unless a jump comes between.
CodeNil(f, from, n) ==
  LET l == from + n - 1
      prev == At(f, Pc(f) - 1)
      pl == prev.a + prev.b
      first == Min({from, prev.a})
  IN IF /\ Pc(f) > f.lasttarget /\ prev.o = "LOADNIL"
        /\ (prev.a <= from /\ from <= pl + 1) \/ (from <= prev.a /\ prev.a <= l + 1)
     THEN [f EXCEPT !.code[Pc(f)] = Ins("LOADNIL", first, Max({l, pl}) - first, 0)]
     ELSE Emit(f, "LOADNIL", from, n - 1, 0)

-----------------------------------------------------------------------------
(* From descriptors to registers *)

SetReturns(f, e, nresults) ==
  CASE e.k = "CALL" -> [f EXCEPT !.code[e.i + 1].c = nresults + 1]
    [] e.k = "VARARG" -> ReserveRegs([f EXCEPT !.code[e.i + 1].b = nresults + 1,
                                               !.code[e.i + 1].a = f.freereg], 1)
    [] OTHER -> f
SetOneRet(f, e) ==
  CASE e.k = "CALL" -> <<f, Fixed(e, At(f, e.i).a)>>
    [] e.k = "VARARG" -> <<[f EXCEPT !.code[e.i + 1].b = 2], [e EXCEPT !.k = "RELOCABLE"]>>
    [] OTHER -> <<f, e>>

DischargeVars(f, e) ==
  LET reloc(g) == [e EXCEPT !.k = "RELOCABLE", !.i = Pc(g)]
      g == FreeReg(f, e.idx)
      h == IF e.vt = "LOCAL" THEN FreeReg(g, e.tab) ELSE g
  IN CASE e.k = "LOCAL" -> <<f, [e EXCEPT !.k = "NONRELOC"]>>
       [] e.k = "UPVAL" -> <<Emit(f, "GETUPVAL", 0, e.i, 0), reloc(f)>>
       [] e.k = "INDEXED" ->
            <<Emit(h, IF e.vt = "LOCAL" THEN "GETTABLE" ELSE "GETTABUP", 0, e.tab, e.idx), reloc(h)>>
       [] OTHER -> SetOneRet(f, e)

Constants == {"NIL", "TRUE", "FALSE", "K", "KINT"}
ConstantOf(f, e) ==
  CASE e.k = "NIL" -> Nil [] e.k = "TRUE" -> Bool(TRUE) [] e.k = "FALSE" -> Bool(FALSE)
    [] OTHER -> e.v

Discharge2Reg(f, e, reg) ==
  LET r == DischargeVars(f, e)
      g == r[1]
      d == r[2]
      coded ==
        CASE d.k = "NIL" -> CodeNil(g, reg, 1)
          [] d.k \in {"TRUE", "FALSE"} -> Emit(g, "LOADBOOL", reg, IF d.k = "TRUE" THEN 1 ELSE 0, 0)
          [] d.k \in {"K", "KINT"} -> CodeK(g, reg, d.v)
          [] d.k = "RELOCABLE" -> [g EXCEPT !.code[d.i + 1].a = reg]
          [] OTHER -> IF d.i = reg THEN g ELSE Emit(g, "MOVE", reg, d.i, 0)
  IN IF d.k = "JMP" THEN r ELSE <<coded, Fixed(d, reg)>>
Discharge2AnyReg(f, e) ==
  IF e.k = "NONRELOC" THEN <<f, e>> ELSE Discharge2Reg(ReserveRegs(f, 1), e, f.freereg)

NeedValue(f, list) == \E n \in ToSet(JumpList(f, list)) : ~IsTestSet(f, n)
LoadBool(f, a, b, skip) == Emit(GetLabel(f), "LOADBOOL", a, b, skip)

\* The value of e, its jumps included, in the register.
Exp2Reg(f, e, reg) ==
  LET d == Discharge2Reg(f, e, reg)
      isJmp == d[2].k = "JMP"
      r == IF isJmp THEN ConcatT(d[1], d[2], d[2].i) ELSE d
      x == r[2]
      needs == NeedValue(r[1], x.t) \/ NeedValue(r[1], x.f)
      fj == IF isJmp THEN <<r[1], NoJump>> ELSE Jump(r[1])
      loads == LoadBool(LoadBool(fj[1], reg, 0, 1), reg, 1, 0)
      g == GetLabel(IF needs THEN PatchToHere(loads, fj[2]) ELSE r[1])
      h == PatchListAux(g, x.f, Pc(g), reg, Pc(fj[1]))
  IN <<IF HasJumps(x) THEN PatchListAux(h, x.t, Pc(g), reg, Pc(fj[1]) + 1) ELSE r[1],
       [Fixed(x, reg) EXCEPT !.t = NoJump, !.f = NoJump]>>

Exp2NextReg(f, e) ==
  LET r == DischargeVars(f, e)
      g == ReserveRegs(FreeExp(r[1], r[2]), 1)
  IN Exp2Reg(g, r[2], g.freereg - 1)
Exp2AnyReg(f, e) ==
  LET r == DischargeVars(f, e)
      d == r[2]
  IN CASE d.k = "NONRELOC" /\ ~HasJumps(d) -> r
       [] d.k = "NONRELOC" /\ HasJumps(d) /\ d.i >= r[1].nactvar -> Exp2Reg(r[1], d, d.i)
       [] OTHER -> Exp2NextReg(r[1], d)
Exp2AnyRegUp(f, e) == IF e.k # "UPVAL" \/ HasJumps(e) THEN Exp2AnyReg(f, e) ELSE <<f, e>>
Exp2Val(f, e) == IF HasJumps(e) THEN Exp2AnyReg(f, e) ELSE DischargeVars(f, e)

\* <<f, e, the operand>>
Exp2RK(f, e) ==
  LET r == Exp2Val(f, e)
      c == AddK(r[1], ConstantOf(r[1], r[2]))
      k == [r[2] EXCEPT !.k = "K", !.i = c[2], !.v = ConstantOf(r[1], r[2])]
      isK == r[2].k \in Constants
      a == IF isK THEN Exp2AnyReg(c[1], k) ELSE Exp2AnyReg(r[1], r[2])
  IN IF isK /\ c[2] <= MaxIndexRK THEN <<c[1], k, RKAsK(c[2])>> ELSE <<a[1], a[2], a[2].i>>

StoreVar(f, var, e) ==
  LET a == Exp2AnyReg(f, e)
      rk == Exp2RK(f, e)
      op == IF var.vt = "LOCAL" THEN "SETTABLE" ELSE "SETTABUP"
  IN CASE var.k = "LOCAL" -> Exp2Reg(FreeExp(f, e), e, var.i)[1]
       [] var.k = "UPVAL" -> FreeExp(Emit(a[1], "SETUPVAL", a[2].i, var.i, 0), a[2])
       [] var.k = "INDEXED" -> FreeExp(Emit(rk[1], op, var.tab, var.idx, rk[3]), rk[2])

Self(f, e, key) ==
  LET r == Exp2AnyReg(f, e)
      g == FreeExp(r[1], r[2])
      k == Exp2RK(ReserveRegs(g, 2), key)
  IN <<FreeExp(Emit(k[1], "SELF", g.freereg, r[2].i, k[3]), k[2]), Fixed(r[2], g.freereg)>>

Indexed(f, t, k) ==
  LET r == Exp2RK(f, k)
  IN <<Claim(r[1], ~HasJumps(t)),
       [t EXCEPT !.k = "INDEXED", !.tab = t.i, !.idx = r[3],
                 !.vt = IF t.k = "UPVAL" THEN "UPVAL" ELSE "LOCAL"]>>

-----------------------------------------------------------------------------
(* Conditions *)

NegateCondition(f, e) == [f EXCEPT !.code[JumpControl(f, e.i) + 1].a = 1 - @]

\* <<f, the position of the jump>>
JumpOnCond(f, e, cond) ==
  LET i == At(f, e.i)
      r == Discharge2AnyReg(f, e)
  IN IF e.k = "RELOCABLE" /\ i.o = "NOT"
     THEN CondJump([f EXCEPT !.code = Front(@)], "TEST", i.b, 0, 1 - cond)
     ELSE CondJump(FreeExp(r[1], r[2]), "TESTSET", NoReg, r[2].i, cond)

GoIfTrue(f, e) ==
  LET r == DischargeVars(f, e)
      j == CASE r[2].k = "JMP" -> <<NegateCondition(r[1], r[2]), r[2].i>>
             [] r[2].k \in {"K", "KINT", "TRUE"} -> <<r[1], NoJump>>
             [] OTHER -> JumpOnCond(r[1], r[2], 0)
      c == ConcatF(j[1], r[2], j[2])
  IN <<PatchToHere(c[1], c[2].t), [c[2] EXCEPT !.t = NoJump]>>
GoIfFalse(f, e) ==
  LET r == DischargeVars(f, e)
      j == CASE r[2].k = "JMP" -> <<r[1], r[2].i>>
             [] r[2].k \in {"NIL", "FALSE"} -> <<r[1], NoJump>>
             [] OTHER -> JumpOnCond(r[1], r[2], 1)
      c == ConcatT(j[1], r[2], j[2])
  IN <<PatchToHere(c[1], c[2].f), [c[2] EXCEPT !.f = NoJump]>>

CodeNot(f, e) ==
  LET r == DischargeVars(f, e)
      d == r[2]
      a == Discharge2AnyReg(r[1], d)
      g == FreeExp(a[1], a[2])
      n == CASE d.k \in {"NIL", "FALSE"} -> <<r[1], [d EXCEPT !.k = "TRUE"]>>
             [] d.k \in {"K", "KINT", "TRUE"} -> <<r[1], [d EXCEPT !.k = "FALSE"]>>
             [] d.k = "JMP" -> <<NegateCondition(r[1], d), d>>
             [] OTHER -> <<Emit(g, "NOT", 0, a[2].i, 0), [a[2] EXCEPT !.k = "RELOCABLE", !.i = Pc(g)]>>
  IN <<RemoveValues(RemoveValues(n[1], d.t), d.f), [n[2] EXCEPT !.t = d.f, !.f = d.t]>>

-----------------------------------------------------------------------------
(* Operators *)

IsNumeral(e) == ~HasJumps(e) /\ e.k = "KINT"
CanFold(op, e1, e2) == IsNumeral(e1) /\ IsNumeral(e2) /\ ~DividesByZero(op, e2.v[2])
OpCode == [o \in Arithmetic \cup {"neg", "bnot", "#", ".."} |->
             CASE o = "+" -> "ADD" [] o = "-" -> "SUB" [] o = "*" -> "MUL" [] o = "//" -> "IDIV"
               [] o = "%" -> "MOD" [] o = "&" -> "BAND" [] o = "|" -> "BOR" [] o = "~" -> "BXOR"
               [] o = "<<" -> "SHL" [] o = ">>" -> "SHR" [] o = "neg" -> "UNM" [] o = "bnot" -> "BNOT"
               [] o = "#" -> "LEN" [] OTHER -> "CONCAT"]

CodeUnExpVal(f, op, e) ==
  LET r == Exp2AnyReg(f, e)
      g == FreeExp(r[1], r[2])
  IN <<Emit(g, OpCode[op], 0, r[2].i, 0), [r[2] EXCEPT !.k = "RELOCABLE", !.i = Pc(g)]>>
CodeBinExpVal(f, op, e1, e2) ==
  LET r2 == Exp2RK(f, e2)
      r1 == Exp2RK(r2[1], e1)
      g == FreeExps(r1[1], r1[2], r2[2])
  IN <<Emit(g, OpCode[op], 0, r1[3], r2[3]), [r1[2] EXCEPT !.k = "RELOCABLE", !.i = Pc(g)]>>

CodeComp(f, op, e1, e2) ==
  LET rk1 == IF e1.k = "K" THEN RKAsK(e1.i) ELSE e1.i
      r2 == Exp2RK(f, e2)
      g == FreeExps(r2[1], e1, r2[2])
      o == CASE op \in {"==", "~="} -> "EQ" [] op \in {"<", ">"} -> "LT" [] OTHER -> "LE"
      j == IF op \in {">", ">="} THEN CondJump(g, o, 1, r2[3], rk1)
           ELSE CondJump(g, o, IF op = "~=" THEN 0 ELSE 1, rk1, r2[3])
  IN <<j[1], [e1 EXCEPT !.k = "JMP", !.i = j[2]]>>

Prefix(f, op, e) ==
  CASE op = "not" -> CodeNot(f, e)
    [] op = "neg" /\ IsNumeral(e) -> <<f, [e EXCEPT !.v = Negated(e.v)]>>
    [] op = "bnot" /\ IsNumeral(e) -> <<f, [e EXCEPT !.v = Complement(e.v)]>>
    [] OTHER -> CodeUnExpVal(f, op, e)
Infix(f, op, e) ==
  LET rk == Exp2RK(f, e)
  IN CASE op = "and" -> GoIfTrue(f, e)
       [] op = "or" -> GoIfFalse(f, e)
       [] op = ".." -> Exp2NextReg(f, e)
       [] op \in Arithmetic /\ IsNumeral(e) -> <<f, e>>
       [] OTHER -> <<rk[1], rk[2]>>
Posfix(f, op, e1, e2) ==
  LET d == DischargeVars(f, e2)
      v == Exp2Val(f, e2)
      merges == v[2].k = "RELOCABLE" /\ At(v[1], v[2].i).o = "CONCAT"
      n == Exp2NextReg(v[1], v[2])
  IN CASE op = "and" -> ConcatF(d[1], d[2], e1.f)
       [] op = "or" -> ConcatT(d[1], d[2], e1.t)
       [] op = ".." /\ merges ->
            <<Claim([FreeExp(v[1], e1) EXCEPT !.code[v[2].i + 1].b = e1.i],
                     e1.i = At(v[1], v[2].i).b - 1),
              [e1 EXCEPT !.k = "RELOCABLE", !.i = v[2].i]>>
       [] op = ".." /\ ~merges -> CodeBinExpVal(n[1], op, e1, n[2])
       [] op \in Arithmetic /\ CanFold(op, e1, e2) -> <<f, [e1 EXCEPT !.v = Arith(op, e1.v, e2.v)]>>
       [] op \in Arithmetic /\ ~CanFold(op, e1, e2) -> CodeBinExpVal(f, op, e1, e2)
       [] OTHER -> CodeComp(f, op, e1, e2)

\* luaK_setlist
CodeSetList(f, base, nelems, tostore) ==
  [Emit(f, "SETLIST", base, IF tostore = Multret THEN 0 ELSE tostore,
        (nelems - 1) \div FieldsPerFlush + 1) EXCEPT !.freereg = base + 1]
Ret(f, first, nret) == Emit(f, "RETURN", first, nret + 1, 0)
=============================================================================
