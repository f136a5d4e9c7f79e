------------------------------- MODULE LuaVM --------------------------------
(***************************************************************************)
(* The virtual machine of the embedded Lua (luaV_execute in lvm.c, the     *)
(* calls of ldo.c, the upvalues of lfunc.c).  A step executes one          *)
(* instruction of the innermost frame.                                     *)
(*                                                                         *)
(*   chunk       the prototype of the main function                        *)
(*   stack, top  the Lua stack and its first free position                 *)
(*   ci          the frames [cl, func, base, pc, nresults, top, tail]      *)
(*   tables      the contents of the tables; table 1 holds the globals     *)
(*   closures    [path, ups, native]; path leads to the prototype          *)
(*   upvals      [at, v]: open at a stack position, or closed (at = 0)     *)
(*   cache       the last closure of each prototype                        *)
(*   out         the arguments of the calls to emit                        *)
(*   status      "loading", "running", "done" or "error"                   *)
(*                                                                         *)
(* A register that nothing wrote since its frame began holds Dead: reading *)
(* one is reading memory nothing defines.                                  *)
(***************************************************************************)
EXTENDS LuaCode

VARIABLES chunk, stack, top, ci, tables, closures, upvals, cache, out, status
vm == <<chunk, stack, top, ci, tables, closures, upvals, cache, out, status>>

Dead == <<"dead", 0>>
Natives == <<"emit", "ipairs", "ipairsaux">>
Env == 1

Fr == Last(ci)
PathOf(v) == closures[v[2]].path
ProtoAt(path) == FoldLeft(LAMBDA p, i : p.p[i], chunk, path)
P == ProtoAt(closures[Fr.cl].path)
I == P.code[Fr.pc + 1]
R(r) == stack[Fr.base + r]
RK(x) == IF IsK(x) THEN P.k[x - 256 + 1] ELSE R(x)
Unwritten(n) == [i \in 1 .. n |-> Dead]
\* Mutant: missing values are counted but not written.
NilsFault(n) == Unwritten(Max({0, n}))
Nils(n) == [i \in 1 .. Max({0, n}) |-> Nil]
Padded(s, n) == s \o Unwritten(Max({0, n - Len(s)}))

UpValue(uvs, u) == IF uvs[u].at > 0 THEN stack[uvs[u].at] ELSE uvs[u].v
\* luaF_close: the upvalues at level and above keep their own value.
Closed(level) ==
  [u \in DOMAIN upvals |->
     IF upvals[u].at >= level THEN [at |-> 0, v |-> stack[upvals[u].at]] ELSE upvals[u]]

-----------------------------------------------------------------------------
(* The effects of an instruction *)

GoTo(pc) == ci' = [ci EXCEPT ![Len(ci)].pc = pc]
Set(new) ==
  stack' = [p \in DOMAIN stack |->
              IF p - Fr.base \in DOMAIN new THEN new[p - Fr.base] ELSE stack[p]]
Write(r, v) == Set([x \in {r} |-> v])
Raise == status' = "error" /\ UNCHANGED <<chunk, stack, top, ci, tables, closures, upvals, cache, out>>
Heap == <<tables, closures, upvals, cache>>
\* Register a gets v, unless the operation raises an error.
Gives(v) ==
  \/ v = Raised /\ Raise
  \/ /\ v # Raised
     /\ Write(I.a, v) /\ GoTo(Fr.pc + 1)
     /\ UNCHANGED <<chunk, top, Heap, out, status>>

\* dojump: a jump closes the upvalues of the blocks it leaves.
DoJump(jump, pc) ==
  /\ GoTo(pc + 1 + jump.b)
  /\ upvals' = IF jump.a # 0 THEN Closed(Fr.base + jump.a - 1) ELSE upvals
SkipNext == GoTo(Fr.pc + 2) /\ UNCHANGED upvals
Branch(b) ==
  /\ IF b THEN DoJump(P.code[Fr.pc + 2], Fr.pc + 1) ELSE SkipNext
  /\ UNCHANGED <<chunk, top, tables, closures, cache, out, status>>

-----------------------------------------------------------------------------
(* Values *)

Move == I.o = "MOVE" /\ Gives(R(I.b))
LoadK == I.o = "LOADK" /\ Gives(P.k[I.b + 1])
LoadBoolean ==
  /\ I.o = "LOADBOOL"
  /\ Write(I.a, Bool(I.b = 1)) /\ GoTo(Fr.pc + 1 + I.c)
  /\ UNCHANGED <<chunk, top, Heap, out, status>>
LoadNil ==
  /\ I.o = "LOADNIL"
  /\ Set([r \in I.a .. I.a + I.b |-> Nil]) /\ GoTo(Fr.pc + 1)
  /\ UNCHANGED <<chunk, top, Heap, out, status>>

Field(t, k) == IF t[1] = "tab" THEN GetKey(tables[t[2]], k) ELSE Raised
Up(i) == UpValue(upvals, closures[Fr.cl].ups[i + 1])
GetUpval == I.o = "GETUPVAL" /\ Gives(Up(I.b))
GetTabUp == I.o = "GETTABUP" /\ Gives(Field(Up(I.b), RK(I.c)))
GetTable == I.o = "GETTABLE" /\ Gives(Field(R(I.b), RK(I.c)))
SetUpval ==
  /\ I.o = "SETUPVAL"
  /\ LET u == closures[Fr.cl].ups[I.b + 1]
     IN IF upvals[u].at > 0 THEN stack' = [stack EXCEPT ![upvals[u].at] = R(I.a)] /\ UNCHANGED upvals
        ELSE upvals' = [upvals EXCEPT ![u].v = R(I.a)] /\ UNCHANGED stack
  /\ GoTo(Fr.pc + 1) /\ UNCHANGED <<chunk, top, tables, closures, cache, out, status>>
StoreField(t, k, v) ==
  \/ (t[1] # "tab" \/ k = Nil) /\ Raise
  \/ /\ t[1] = "tab" /\ k # Nil
     /\ tables' = [tables EXCEPT ![t[2]] = SetKey(@, k, v)]
     /\ GoTo(Fr.pc + 1) /\ UNCHANGED <<chunk, stack, top, closures, upvals, cache, out, status>>
SetTabUp == I.o = "SETTABUP" /\ StoreField(Up(I.a), RK(I.b), RK(I.c))
SetTable == I.o = "SETTABLE" /\ StoreField(R(I.a), RK(I.b), RK(I.c))
NewTable ==
  /\ I.o = "NEWTABLE"
  /\ tables' = Append(tables, NoEntries)
  /\ Write(I.a, <<"tab", Len(tables) + 1>>)
  /\ GoTo(Fr.pc + 1) /\ UNCHANGED <<chunk, top, closures, upvals, cache, out, status>>
SelfOp ==
  /\ I.o = "SELF"
  /\ LET v == Field(R(I.b), RK(I.c))
     IN \/ v = Raised /\ Raise
        \/ /\ v # Raised /\ Set([r \in {I.a, I.a + 1} |-> IF r = I.a THEN v ELSE R(I.b)])
           /\ GoTo(Fr.pc + 1) /\ UNCHANGED <<chunk, top, Heap, out, status>>
SetList ==
  /\ I.o = "SETLIST"
  /\ LET n == IF I.b = 0 THEN top - (Fr.base + I.a) - 1 ELSE I.b
         last == (I.c - 1) * FieldsPerFlush + n
         t == R(I.a)[2]
     IN tables' = [tables EXCEPT ![t] =
                     FoldFunction(LAMBDA i, tab : SetKey(tab, Num(last - n + i), R(I.a + i)),
                                  @, [i \in 1 .. n |-> i])]
  /\ top' = Fr.top /\ stack' = Padded(SubSeq(stack, 1, Min({Len(stack), Fr.top - 1})), Fr.top - 1)
  /\ GoTo(Fr.pc + 1) /\ UNCHANGED <<chunk, closures, upvals, cache, out, status>>

-----------------------------------------------------------------------------
(* Operators and jumps *)

OperateOn(ops) == \E op \in ops : I.o = OpCode[op] /\ Gives(Arith(op, RK(I.b), RK(I.c)))
ArithOp == OperateOn({"+", "-", "*"})
DivideOp == OperateOn({"//", "%"})
BitOp == OperateOn({"&", "|", "~", "<<", ">>"})
Unm == I.o = "UNM" /\ Gives(Negated(R(I.b)))
BNot == I.o = "BNOT" /\ Gives(Complement(R(I.b)))
Not == I.o = "NOT" /\ Gives(Bool(IsFalse(R(I.b))))
Length == I.o = "LEN" /\ Gives(LengthOf(R(I.b), tables))
\* The operands are joined from the last to the first.
ConcatOp ==
  I.o = "CONCAT" /\
    Gives(FoldRight(LAMBDA v, w : IF w = Raised THEN Raised ELSE Join(v, w),
                    [i \in 1 .. I.c - I.b |-> R(I.b + i - 1)], R(I.c)))

JumpOp ==
  I.o = "JMP" /\ DoJump(I, Fr.pc) /\ UNCHANGED <<chunk, stack, top, tables, closures, cache, out, status>>
Compare ==
  /\ I.o \in {"EQ", "LT", "LE"}
  /\ LET v == RK(I.b)
         w == RK(I.c)
         r == CASE I.o = "EQ" -> Bool(Equal(v, w)) [] I.o = "LT" -> Less(v, w) [] OTHER -> LessEq(v, w)
     IN IF r = Raised THEN Raise ELSE Branch(r = Bool(I.a = 1)) /\ UNCHANGED stack
Test == I.o = "TEST" /\ Branch(IsFalse(R(I.a)) = (I.c = 0)) /\ UNCHANGED stack
TestSet ==
  /\ I.o = "TESTSET"
  /\ LET b == IsFalse(R(I.b)) = (I.c = 0)
     IN Branch(b) /\ IF b THEN Write(I.a, R(I.b)) ELSE UNCHANGED stack

ForPrep ==
  /\ I.o = "FORPREP"
  /\ IF {R(I.a)[1], R(I.a + 1)[1], R(I.a + 2)[1]} = {"int"}
     THEN /\ Write(I.a, Arith("-", R(I.a), R(I.a + 2)))
          /\ GoTo(Fr.pc + 1 + I.b) /\ UNCHANGED <<chunk, top, Heap, out, status>>
     ELSE Raise
ForLoop ==
  /\ I.o = "FORLOOP"
  /\ LET idx == Arith("+", R(I.a), R(I.a + 2))
         limit == R(I.a + 1)
         again == IF 0 < R(I.a + 2)[2] THEN idx[2] <= limit[2] ELSE limit[2] <= idx[2]
     IN IF again THEN Set([r \in {I.a, I.a + 3} |-> idx]) /\ GoTo(Fr.pc + 1 + I.b)
        ELSE UNCHANGED stack /\ GoTo(Fr.pc + 1)
  /\ UNCHANGED <<chunk, top, Heap, out, status>>
TForLoop ==
  /\ I.o = "TFORLOOP"
  /\ IF R(I.a + 1) # Nil THEN Write(I.a, R(I.a + 1)) /\ GoTo(Fr.pc + 1 + I.b)
     ELSE UNCHANGED stack /\ GoTo(Fr.pc + 1)
  /\ UNCHANGED <<chunk, top, Heap, out, status>>

-----------------------------------------------------------------------------
(* Closures *)

\* getcached: the last closure of the prototype, if it has the same upvalues
\* as a new one would have.
UpOf(desc, uvs) ==
  IF ~desc.instack THEN {closures[Fr.cl].ups[desc.idx + 1]}
  ELSE {u \in DOMAIN uvs : uvs[u].at = Fr.base + desc.idx}
Cached(path, ups) ==
  {c \in {cache[x] : x \in DOMAIN cache \cap {path}} :
     \A i \in DOMAIN ups : UpOf(ups[i], upvals) = {closures[c].ups[i]}}
\* pushclosure: a local of the frame becomes an open upvalue.
NewUps(ups) ==
  FoldLeft(LAMBDA uvs, d : IF UpOf(d, uvs) # {} THEN uvs
                           ELSE Append(uvs, [at |-> Fr.base + d.idx, v |-> Nil]),
           upvals, ups)
ClosureOp ==
  /\ I.o = "CLOSURE"
  /\ LET path == Append(closures[Fr.cl].path, I.b + 1)
         ups == ProtoAt(path).ups
         uvs == NewUps(ups)
         c == Len(closures) + 1
     IN \/ /\ Cached(path, ups) # {}
           /\ Write(I.a, <<"fun", Max(Cached(path, ups))>>) /\ UNCHANGED Heap
        \/ /\ Cached(path, ups) = {}
           /\ upvals' = uvs
           /\ closures' = Append(closures, [path |-> path, native |-> "",
                                            ups |-> [i \in DOMAIN ups |-> Max(UpOf(ups[i], uvs))]])
           /\ cache' = [x \in DOMAIN cache \cup {path} |-> IF x = path THEN c ELSE cache[x]]
           /\ Write(I.a, <<"fun", c>>) /\ UNCHANGED tables
  /\ GoTo(Fr.pc + 1) /\ UNCHANGED <<chunk, top, out, status>>

VarArg ==
  /\ I.o = "VARARG"
  /\ LET n == Max({0, Fr.base - Fr.func - P.numparams - 1})
         wanted == IF I.b = 0 THEN n ELSE I.b - 1
         extra == SubSeq(stack, Fr.base - n, Fr.base - 1)
         ra == Fr.base + I.a
         got == [j \in 1 .. wanted |-> IF j <= n THEN extra[j] ELSE Nil]
     IN /\ stack' = SubSeq(stack, 1, ra - 1) \o got \o SubSeq(stack, ra + wanted, Len(stack))
        /\ top' = IF I.b = 0 THEN ra + n ELSE top
  /\ GoTo(Fr.pc + 1) /\ UNCHANGED <<chunk, Heap, out, status>>

-----------------------------------------------------------------------------
(* Calls *)

\* luaD_poscall: vals are returned to position res of st, to the innermost of
\* the frames left.
Return(st, frames, res, vals, wanted) ==
  LET n == IF wanted = Multret THEN Len(vals) ELSE wanted
      s == SubSeq(st, 1, res - 1) \o SubSeq(vals, 1, Min({n, Len(vals)})) \o Nils(n - Len(vals))
      inner == frames # << >>
  IN /\ ci' = frames
     /\ status' = IF inner THEN status ELSE "done"
     /\ stack' = IF inner THEN Padded(s, Last(frames).top - 1) ELSE s
     /\ top' = IF inner /\ wanted # Multret THEN Last(frames).top ELSE res + n

Shown(vals) == [i \in DOMAIN vals |-> IF vals[i][1] \in {"tab", "fun"} THEN <<vals[i][1], 0>> ELSE vals[i]]
Emitted(vals) == out' = Append(out, Shown(vals))
Arg(args, i) == IF i <= Len(args) THEN args[i] ELSE Nil
Results(native, args) ==
  LET i == Arith("+", Arg(args, 2), Num(1))
      v == IF i = Raised THEN Raised ELSE Field(Arg(args, 1), i)
  IN CASE native = "emit" -> args
       [] native = "ipairs" -> <<tables[Env][Str("ipairsaux")], Arg(args, 1), Num(0)>>
       [] native = "ipairsaux" -> IF v \in {Nil, Raised} THEN <<v>> ELSE <<i, v>>
CallNative(st, frames, func, args, wanted) ==
  LET native == closures[st[func][2]].native
      vals == Results(native, args)
  IN \/ vals = <<Raised>> /\ Raise
     \/ /\ vals # <<Raised>>
        /\ IF native = "emit" THEN Emitted(args) ELSE UNCHANGED out
        /\ Return(st, frames, func, vals, wanted) /\ UNCHANGED <<chunk, Heap>>

\* luaD_precall: a vararg function gets its parameters above the arguments.
Enter(st, frames, func, args, wanted, tail) ==
  LET p == ProtoAt(PathOf(st[func]))
      n == p.numparams
      base == IF p.vararg THEN func + 1 + Len(args) ELSE func + 1
      params == SubSeq(args, 1, Min({n, Len(args)})) \o Nils(n - Len(args))
      erased == [i \in DOMAIN args |-> IF i <= n THEN Nil ELSE args[i]]
  IN /\ ci' = Append(frames, [cl |-> st[func][2], func |-> func, base |-> base, pc |-> 0,
                              nresults |-> wanted, top |-> base + p.maxstack, tail |-> tail])
     /\ stack' = Padded(SubSeq(st, 1, func) \o (IF p.vararg THEN erased ELSE << >>) \o params,
                        base + p.maxstack - 1)
     /\ top' = base + p.maxstack
     /\ UNCHANGED <<chunk, tables, closures, cache, out, status>>

IsLua(v) == v[1] = "fun" /\ closures[v[2]].native = ""
IsNative(v) == v[1] = "fun" /\ closures[v[2]].native # ""
Precall(st, frames, func, args, wanted) ==
  \/ st[func][1] # "fun" /\ Raise
  \/ IsNative(st[func]) /\ CallNative(st, frames, func, args, wanted)
  \/ IsLua(st[func]) /\ Enter(st, frames, func, args, wanted, FALSE) /\ UNCHANGED upvals

Resumed == [ci EXCEPT ![Len(ci)].pc = Fr.pc + 1]
Func == Fr.base + I.a
Args == SubSeq(stack, Func + 1, IF I.b = 0 THEN top - 1 ELSE Func + I.b - 1)
\* Mutant: asks for upvalues of the function instead of nested functions.
ClosedByFrameFault == IF P.ups # << >> THEN Closed(Fr.base) ELSE upvals
ClosedByFrame == IF P.p # << >> THEN Closed(Fr.base) ELSE upvals

Call == I.o = "CALL" /\ Precall(stack, Resumed, Func, Args, I.c - 1)
TForCall ==
  I.o = "TFORCALL" /\ Precall(SubSeq(stack, 1, Func + 2) \o SubSeq(stack, Func, Func + 2), Resumed,
                              Func + 3, SubSeq(stack, Func + 1, Func + 2), I.c)
\* The frame of the called function takes the place of the caller's.
TailCall ==
  /\ I.o = "TAILCALL"
  /\ IF IsLua(stack[Func])
     THEN /\ Enter(SubSeq(stack, 1, Fr.func - 1) \o <<stack[Func]>>, Front(ci), Fr.func, Args, Fr.nresults, TRUE)
          /\ upvals' = ClosedByFrame
     ELSE Precall(stack, Resumed, Func, Args, Multret)
ReturnOp ==
  /\ I.o = "RETURN"
  /\ LET vals == SubSeq(stack, Func, IF I.b = 0 THEN top - 1 ELSE Func + I.b - 2)
     IN /\ Return(stack, Front(ci), Fr.func, vals, Fr.nresults)
        /\ IF Len(ci) = 1 THEN Emitted(vals) ELSE UNCHANGED out
  /\ upvals' = ClosedByFrame /\ UNCHANGED <<chunk, tables, closures, cache>>

-----------------------------------------------------------------------------
Idle ==
  /\ chunk = << >> /\ stack = << >> /\ top = 1 /\ ci = << >> /\ tables = << >> /\ closures = << >>
  /\ upvals = << >> /\ cache = [x \in {} |-> 0] /\ out = << >> /\ status = "loading"
\* The host calls the main function p, whose upvalue is the table of globals.
Begin(p) ==
  /\ chunk' = p
  /\ closures' = [i \in 1 .. 4 |-> [path |-> << >>, ups |-> IF i = 4 THEN <<1>> ELSE << >>,
                                    native |-> IF i = 4 THEN "" ELSE Natives[i]]]
  /\ tables' = <<[k \in {Str(Natives[i]) : i \in 1 .. 3} |->
                   <<"fun", CHOOSE i \in 1 .. 3 : k = Str(Natives[i])>>]>>
  /\ upvals' = <<[at |-> 0, v |-> <<"tab", Env>>]>>
  /\ stack' = Padded(<<<<"fun", 4>>>>, p.maxstack + 1)
  /\ ci' = <<[cl |-> 4, func |-> 1, base |-> 2, pc |-> 0, nresults |-> Multret,
              top |-> p.maxstack + 2, tail |-> FALSE]>>
  /\ top' = p.maxstack + 2
  /\ status' = "running" /\ UNCHANGED <<cache, out>>

Step ==
  \/ Move \/ LoadK \/ LoadBoolean \/ LoadNil \/ GetUpval \/ GetTabUp \/ GetTable
  \/ SetUpval \/ SetTabUp \/ SetTable \/ NewTable \/ SelfOp \/ SetList
  \/ ArithOp \/ DivideOp \/ BitOp \/ Unm \/ BNot \/ Not \/ Length \/ ConcatOp
  \/ JumpOp \/ Compare \/ Test \/ TestSet \/ ForPrep \/ ForLoop \/ TForLoop
  \/ ClosureOp \/ VarArg \/ Call \/ TForCall \/ TailCall \/ ReturnOp
Execute == status = "running" /\ Step
=============================================================================
