---------------------------- MODULE LuaPrograms -----------------------------
(***************************************************************************)
(* The programs the compiler and the virtual machine are checked on, one   *)
(* family for each thing the compiler has to get right.                    *)
(***************************************************************************)
EXTENDS LuaMeaning

X == N("x")
Y == N("y")
Z == N("z")

-----------------------------------------------------------------------------
(* Conditions: and, or, not, comparisons and calls, used for their value   *)
(* and to decide a jump.                                                   *)

Plain == {X, Emit(<<K(1)>>)}
Tests ==
  Plain \cup {Un("not", e) : e \in Plain}
    \cup {Bin(X, "and", Emit(<<K(2)>>)), Bin(X, "or", Emit(<<K(2)>>)), Bin(Y, "==", X), Bin(Y, "<", K(2)),
          Un("not", Bin(X, "or", Emit(<<K(3)>>))), BoolK(TRUE), NilK}
Conditions == {Bin(a, op, b) : a \in Tests, op \in {"and", "or"}, b \in Tests}
Start_ == Local(<<"x", "y">>, <<NilK, K(1)>>)
AsValue(e) == <<Start_, Local(<<"r">>, <<e>>), Ret(<<N("r"), e>>)>>
AsCondition(e) ==
  <<Start_,
    If(<< <<e, <<Emit(<<K(5)>>)>>>>, <<Un("not", e), <<Emit(<<K(6)>>)>>>> >>, <<Emit(<<K(7)>>)>>),
    While(e, <<Emit(<<K(8)>>), Break>>),
    Repeat(<<Set(<<X>>, <<BoolK(TRUE)>>)>>, Bin(X, "or", e))>>
Choosing == {AsValue(e) : e \in Conditions} \cup {AsCondition(e) : e \in Conditions}

-----------------------------------------------------------------------------
(* Operators: priorities, associativity, folding, registers and constants  *)
(* as operands, operands of the wrong type, overflow.                      *)

Operators == Arithmetic \cup {"..", "<", ">=", "~="}
Outer == {"-", "*", "..", "<", "|", "<<"}
Expressions ==
  {Bin(Bin(a, op, Y), outer, K(3)) : a \in {X, K(7)}, op \in Operators, outer \in Outer}
    \cup {Bin(X, outer, Bin(b, op, Z)) : b \in {Y, K(100)}, op \in Operators, outer \in Outer}
    \cup {Un(u, Bin(a, op, b)) : u \in {"-", "not", "#", "~"}, op \in Operators, a \in {K(100)}, b \in {K(-3), K(0)}}
Lengths == {<<Ret(<<Un("#", e), Un("~", e)>>)>> : e \in {T("abc"), K(5)}} \cup {<<Ret(<<Un("#", T("abc"))>>)>>}
Computing == Lengths \cup {<<Local(<<"x", "y", "z">>, <<K(7), K(-3), K(100)>>), Ret(<<e, X, Y>>)>> : e \in Expressions}

-----------------------------------------------------------------------------
(* Assignments: a target's table or key may be another target, or a local  *)
(* or an upvalue that the assignment changes.                              *)

Places == {X, Y, Z, N("g"), At(Z, X), At(Z, K(2)), At(Z, Y)}
Sources_ == {<<Y, X>>, <<K(2), TabOf(<<Item(K(8))>>)>>, <<Emit(<<Y, Z>>)>>}
Assigning(a, b, vs) ==
  <<Set(<<a, b>>, vs), Emit(<<X, Y, Z, N("g"), At(N("u"), K(1)), At(N("u"), K(2)), Un("#", N("u"))>>)>>
Locals3 == Local(<<"x", "y", "z">>, <<K(1), K(2), Tab(<<K(10), K(20)>>)>>)
Changing ==
  {<<Locals3, Local(<<"u">>, <<Z>>)>> \o Assigning(a, b, vs) : a \in Places, b \in Places, vs \in Sources_}
    \cup {<<Locals3, Local(<<"u">>, <<Z>>), App(Paren(Fun(<< >>, Assigning(a, b, vs))), << >>)>> :
            a \in Places, b \in Places, vs \in {<<Y, X>>, <<K(2), K(1)>>}}

-----------------------------------------------------------------------------
(* Calls: fewer and more arguments than parameters, several results in     *)
(* every place of a list, tail calls, calls of what is no function.        *)

Params == {<< >>, <<"x">>, <<"x", "y">>}
Given == {<< >>, <<K(1)>>, <<K(1), K(2), K(3)>>, <<N("g"), Emit(<<K(4), K(5)>>)>>, <<Emit(<< >>)>>}
Uses(call) ==
  {<<Local(<<"a", "b", "c">>, <<call>>), Ret(<<N("a"), N("b"), N("c")>>)>>,
   <<Ret(<<call, call>>)>>, <<Ret(<<Paren(call)>>)>>, <<Ret(<<Un("#", Tab(<<call, call>>))>>)>>,
   <<Local(<<"a">>, <<call, K(6)>>), call, Ret(<<call>>)>>}
Callee(ps, va) ==
  IF va THEN FunV(ps, <<Ret(Append([i \in DOMAIN ps |-> N(ps[i])], Dots))>>)
  ELSE Fun(ps, <<Emit([i \in DOMAIN ps |-> N(ps[i])]), Ret([i \in DOMAIN ps |-> N(ps[i])])>>)
Calling ==
  UNION {{<<Local(<<"f">>, <<Callee(ps, va)>>)>> \o b : b \in Uses(App(N("f"), as))} :
           ps \in Params, va \in BOOLEAN, as \in Given}
    \cup {<<Local(<<"f">>, <<f>>), App(N("f"), <<K(1)>>)>> : f \in {NilK, K(1), Tab(<< >>)}}

-----------------------------------------------------------------------------
(* Constructors: flushed every FieldsPerFlush items, an open last item.    *)

Items(n) == [i \in 1 .. n |-> Item(K(10 + i))]
Ends == {<< >>, <<Item(Emit(<<K(1), K(2), K(3)>>))>>, <<Item(Emit(<< >>))>>, <<Item(Paren(Emit(<<K(1), K(2)>>)))>>,
         <<Pair(K(2), K(50)), Item(K(51))>>, <<Item(Dots)>>, <<Item(Emit(<<K(7)>>)), Pair(T("k"), K(52))>>}
Building ==
  {<<Local(<<"t">>, <<TabOf(Items(n) \o end)>>),
     Ret(<<Un("#", N("t")), At(N("t"), T("k"))>> \o [i \in 1 .. 7 |-> At(N("t"), K(i))])>> : n \in 0 .. 5, end \in Ends}

-----------------------------------------------------------------------------
(* Numeric loops, at the ends of the integers too.                         *)

Counting ==
  {<<ForNum("i", <<r[1], r[2], r[3]>>, <<Emit(<<N("i")>>), Set(<<N("i")>>, <<K(0)>>)>>)>> :
     r \in {<<K(1), K(3), K(1)>>, <<K(3), K(1), K(1)>>, <<K(3), K(1), K(-1)>>, <<K(-128), K(-127), K(1)>>,
            <<K(-127), K(-126), K(2)>>, <<K(126), K(120), K(-3)>>, <<K(5), K(5), K(100)>>, <<K(0), K(-5), K(-2)>>,
            <<NilK, K(1), K(1)>>, <<K(1), NilK, K(1)>>, <<K(1), K(2), Tab(<< >>)>>}}
    \cup {<<ForIn(<<"i", "v">>, <<App(N("ipairs"), <<t>>)>>, <<Emit(<<N("i"), N("v")>>)>>)>> :
            t \in {Tab(<< >>), Tab(<<K(4), K(5)>>), Tab(<<K(4), NilK, K(6)>>)}}
    \cup {<<ForIn(<<"i">>, <<NilK>>, << >>)>>}

-----------------------------------------------------------------------------
(* Closures made in a loop: each pass has variables of its own, whichever  *)
(* way the pass ends.                                                      *)

Keep(i) == Set(<<At(N("fs"), i)>>, <<Fun(<< >>, <<Set(<<N("v")>>, <<Bin(N("v"), "+", K(1))>>), Ret(<<N("v")>>)>>)>>)
Leaving == {<< >>, <<If(<< <<Bin(N("v"), "==", K(2)), <<Break>>>> >>, << >>)>>,
            <<If(<< <<Bin(N("v"), "==", K(2)), <<Goto("out")>>>> >>, << >>)>>,
            <<Do(<<Local(<<"w">>, <<N("v")>>), If(<< <<Bin(N("w"), "==", K(1)), <<Goto("next")>>>> >>, << >>),
                   Set(<<N("v")>>, <<Fun(<< >>, <<Ret(<<N("w")>>)>>)>>), Break>>)>>}
Pass(i, leave) == <<Do(<<Local(<<"v">>, <<i>>), Keep(i)>> \o leave), LabelS("next")>>
Count == Set(<<N("n")>>, <<Bin(N("n"), "+", K(1))>>)
Loops(leave) ==
  {<<While(Bin(N("n"), "<", K(3)), <<Count, Local(<<"i">>, <<N("n")>>)>> \o Pass(N("i"), leave))>>,
   <<ForNum("i", <<K(1), K(3)>>, Pass(N("i"), leave))>>,
   <<ForIn(<<"i", "x">>, <<App(N("ipairs"), <<Tab(<<K(7), K(8), K(9)>>)>>)>>, Pass(N("i"), leave))>>,
   <<LabelS("again"), Count, Do(<<Do(<<Local(<<"v">>, <<N("n")>>), Keep(N("n"))>>),
                                  If(<< <<Bin(N("n"), "<", K(3)), <<Goto("again")>>>> >>, << >>)>>)>>,
   <<Repeat(<<Count, Local(<<"v">>, <<N("n")>>), Keep(N("n"))>>
              \o (IF leave = << >> THEN << >> ELSE <<If(<< <<Bin(N("v"), "==", K(2)), <<Break>>>> >>, << >>)>>),
            Bin(App(At(N("fs"), N("n")), << >>), "==", K(4)))>>}
Fs(i) == App(At(N("fs"), K(i)), << >>)
After == <<LabelS("out"), Do(<<Local(<<"o">>, <<K(90)>>), Emit(<<Fs(1), Fs(1)>>), Emit(<<Fs(2), Fs(2), Fs(1), N("o")>>)>>)>>
Capturing ==
  UNION {{<<Local(<<"fs", "n">>, <<Tab(<< >>), K(0)>>)>> \o l \o After : l \in Loops(leave)} : leave \in Leaving}

-----------------------------------------------------------------------------
(* Upvalues: shared, of enclosing functions, of functions that returned,   *)
(* of tail callers; recursion; methods; many constants.                    *)

Plus1(x) == Set(<<N(x)>>, <<Bin(N(x), "+", K(1))>>)
Counter == Fun(<<"x">>, <<Ret(<<Fun(<< >>, <<Plus1("x"), Ret(<<X>>)>>), Fun(<< >>, <<Ret(<<X>>)>>)>>)>>)
Nesting ==
  {<<Local(<<"c">>, <<Counter>>), Local(<<"a", "b">>, <<App(N("c"), <<K(1)>>)>>),
     Local(<<"d">>, <<App(N("c"), <<K(5)>>)>>), App(N("a"), << >>), App(N("d"), << >>),
     Ret(<<App(N("a"), << >>), App(N("b"), << >>), App(N("d"), << >>)>>)>>,
   <<LocalFun("f", Fun(<<"n">>, <<If(<< <<Bin(N("n"), "<", K(2)), <<Ret(<<K(1)>>)>>>> >>, << >>),
                                  Ret(<<Bin(N("n"), "*", App(N("f"), <<Bin(N("n"), "-", K(1))>>))>>)>>)),
     Ret(<<App(N("f"), <<K(5)>>)>>)>>,
   <<LocalFun("f", Fun(<<"n", "g">>, <<If(<< <<Bin(N("n"), "==", K(0)), <<Ret(<<App(N("g"), << >>)>>)>>>> >>, << >>),
                                       Ret(<<App(N("f"), <<Bin(N("n"), "-", K(1)), Fun(<< >>, <<Ret(<<N("n"), N("g")>>)>>)>>)>>)>>)),
     Ret(<<App(N("f"), <<K(2), NilK>>)>>)>>,
   <<Local(<<"x">>, <<K(1)>>),
     Local(<<"f">>, <<Fun(<<"y">>, <<Ret(<<Fun(<<"z">>, <<Set(<<X, Y>>, <<Bin(X, "+", Y), Z>>), Ret(<<X, Y, Z>>)>>)>>)>>)>>),
     Local(<<"g">>, <<App(N("f"), <<K(10)>>)>>), App(N("g"), <<K(20)>>), Emit(<<App(N("g"), <<K(30)>>)>>), Ret(<<X>>)>>,
   <<Local(<<"x">>, <<X>>), Local(<<"x">>, <<K(2), Emit(<<X>>)>>), Do(<<Local(<<"x">>, <<Bin(X, "+", K(1))>>), Emit(<<X>>)>>), Ret(<<X>>)>>,
   <<Local(<<"o">>, <<TabOf(<<Pair(T("n"), K(1)), Pair(T("in"), Tab(<< >>))>>)>>),
     FunStat(N("o"), "add", Fun(<<"d">>, <<Set(<<At(N("self"), T("n"))>>, <<Bin(At(N("self"), T("n")), "+", N("d"))>>), Ret(<<N("self")>>)>>)),
     FunStat(At(At(N("o"), T("in")), T("f")), "", FunV(<< >>, <<Ret(<<At(N("o"), T("n")), Dots>>)>>)),
     FunStat(N("h"), "", Fun(<<"a">>, <<Ret(<<App(At(At(N("o"), T("in")), T("f")), <<N("a"), N("a")>>)>>)>>)),
     Method(Method(N("o"), "add", <<K(2)>>), "add", <<K(3)>>), Ret(<<App(N("h"), <<K(4)>>)>>)>>,
   <<Set(<<N("t")>>, <<TabOf([i \in 1 .. 5 |-> Pair(K(20 + i), T(ToString(i)))])>>),
     Set(<<At(N("t"), K(30)), At(N("t"), T("1"))>>, <<K(31), K(32)>>),
     Ret(<<Bin(At(N("t"), K(21)), "..", Bin(At(N("t"), K(25)), "..", At(N("t"), K(30)))), Bin(K(33), "==", At(N("t"), T("1")))>>)>>}

Programs == UNION {Choosing, Computing, Changing, Calling, Building, Counting, Capturing, Nesting}
\* The programs that are also precompiled.
Precompiled == Capturing \cup Nesting
=============================================================================
