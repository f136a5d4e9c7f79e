----------------------------- MODULE LuaMeaning -----------------------------
(***************************************************************************)
(* What a script means and how it is written down.  A program is a tree;   *)
(* Meaning gives what it emits and returns, straight from the tree, as the *)
(* reference manual tells it: no registers, no jumps, no shared upvalues,  *)
(* only environments that map names to cells.  Source gives its tokens,    *)
(* with the fewest parentheses the manual's priorities allow.              *)
(***************************************************************************)
EXTENDS LuaValues

(* Expressions *)
K(n) == <<"const", Num(n)>>
T(s) == <<"const", Str(s)>>
NilK == <<"const", Nil>>
BoolK(b) == <<"const", Bool(b)>>
N(x) == <<"name", x>>
Dots == <<"dots">>
Un(op, e) == <<"un", op, e>>
Bin(a, op, b) == <<"bin", op, a, b>>
Paren(e) == <<"paren", e>>
At(e, k) == <<"index", e, k>>
App(f, args) == <<"call", f, args>>
Method(o, name, args) == <<"method", o, name, args>>
Fun(params, body) == <<"fun", params, FALSE, body>>
FunV(params, body) == <<"fun", params, TRUE, body>>
Tab(items) == <<"tab", [i \in DOMAIN items |-> <<"item", items[i]>>]>>
TabOf(fields) == <<"tab", fields>>
Pair(k, e) == <<"pair", k, e>>
Item(e) == <<"item", e>>

(* Statements *)
Local(xs, es) == <<"local", xs, es>>
LocalFun(x, f) == <<"localfunction", x, f>>
Set(vs, es) == <<"set", vs, es>>
Do(b) == <<"do", b>>
While(e, b) == <<"while", e, b>>
Repeat(b, e) == <<"repeat", b, e>>
If(clauses, else) == <<"if", clauses, else>>    \* clauses: <<condition, block>>
ForNum(x, es, b) == <<"fornum", x, es, b>>
ForIn(xs, es, b) == <<"forin", xs, es, b>>
Ret(es) == <<"return", es>>
Break == <<"break">>
Goto(l) == <<"goto", l>>
LabelS(l) == <<"label", l>>
Emit(es) == App(N("emit"), es)
\* function a.b.m(...) or, with a method name, function a.b:m(...)
FunStat(var, method, f) == <<"function", var, method, f>>

-----------------------------------------------------------------------------
(* Meaning.  S: cells, tabs, funs hold the heap, out what was emitted; sig *)
(* is why control leaves ("", break, goto, return, error) and val the      *)
(* values or the label that goes with it, or the values of an expression.  *)

Start ==
  [cells |-> << >>, tabs |-> <<[k \in {Str("emit"), Str("ipairs")} |-> <<"fun", IF k = Str("emit") THEN 1 ELSE 2>>]>>,
   funs |-> <<"emit", "ipairs", "ipairsaux">>, out |-> << >>, sig |-> "", val |-> << >>]
Err(S) == [S EXCEPT !.sig = "error", !.val = << >>]
Val(S, vs) == [S EXCEPT !.val = vs]
First(S) == IF S.val = << >> THEN Nil ELSE S.val[1]
Take(vs, i) == IF i <= Len(vs) THEN vs[i] ELSE Nil
OrRaise(S, v) == IF v = Raised THEN Err(S) ELSE Val(S, <<v>>)

Declare(S, env, xs, vs) ==
  <<[S EXCEPT !.cells = @ \o [i \in DOMAIN xs |-> Take(vs, i)]],
    [env EXCEPT !.vars = [x \in DOMAIN @ \cup ToSet(xs) |->
       IF x \in ToSet(xs) THEN Len(S.cells) + Max({i \in DOMAIN xs : xs[i] = x}) ELSE @[x]]]>>

Lookup(S, env, x) ==
  IF x \in DOMAIN env.vars THEN S.cells[env.vars[x]] ELSE GetKey(S.tabs[1], Str(x))
Put_(S, t, k, v) ==
  IF t[1] # "tab" \/ k = Nil THEN Err(S) ELSE [S EXCEPT !.tabs[t[2]] = SetKey(@, k, v)]
Operate(op, v, w) ==
  CASE op \in Arithmetic -> Arith(op, v, w)
    [] op = ".." -> IF w = Raised THEN Raised ELSE Join(v, w)
    [] op = "==" -> Bool(v = w)
    [] op = "~=" -> Bool(v # w)
    [] op = "<" -> Less(v, w)
    [] op = ">" -> Less(w, v)
    [] op = "<=" -> LessEq(v, w)
    [] op = ">=" -> LessEq(w, v)
Operate1(S, op, v) ==
  CASE op = "not" -> Bool(IsFalse(v))
    [] op = "-" -> Negated(v)
    [] op = "~" -> Complement(v)
    [] op = "#" -> LengthOf(v, S.tabs)
Visible(vs) == [i \in DOMAIN vs |-> IF vs[i][1] \in {"tab", "fun"} THEN <<vs[i][1], 0>> ELSE vs[i]]

RECURSIVE Eval(_, _, _), EvalAll(_, _, _, _), Fields(_, _, _, _, _), CallV(_, _, _), Run(_, _, _, _, _),
          Exec(_, _, _), Targets(_, _, _, _), Loop(_, _, _, _, _), Each(_, _, _, _, _, _), Choose_(_, _, _, _)

\* The values of a list of expressions: only the last may give several.
EvalAll(S, env, es, done) ==
  LET r == Eval(S, env, Head(es))
  IN IF S.sig # "" THEN S
     ELSE IF es = << >> THEN Val(S, done)
     ELSE IF Len(es) = 1 THEN IF r.sig # "" THEN r ELSE Val(r, done \o r.val)
     ELSE EvalAll(r, env, Tail(es), Append(done, First(r)))
Fields(S, env, t, fs, n) ==
  LET f == Head(fs)
      k == Eval(S, env, f[2])
      v == EvalAll(S, env, <<f[2], f[3]>>, << >>)
      filled == FoldLeft(LAMBDA s, i : Put_(s, t, Num(n + i), k.val[i]), k,
                         [i \in 1 .. IF Len(fs) = 1 THEN Len(k.val) ELSE 0 |-> i])
  IN IF S.sig # "" \/ fs = << >> THEN S
     ELSE IF f[1] = "pair" THEN
            IF v.sig # "" THEN v ELSE Fields(Put_(v, t, v.val[1], Take(v.val, 2)), env, t, Tail(fs), n)
     ELSE IF k.sig # "" THEN k
     ELSE IF Len(fs) = 1 THEN filled
     ELSE Fields(Put_(k, t, Num(n + 1), First(k)), env, t, Tail(fs), n + 1)

Eval(S, env, e) ==
  LET a == Eval(S, env, e[2])
      b == Eval(a, env, e[4])
      two == EvalAll(S, env, <<e[3], e[4]>>, << >>)
      ix == EvalAll(S, env, <<e[2], e[3]>>, << >>)
      args == EvalAll(a, env, e[3], << >>)
      t == <<"tab", Len(S.tabs) + 1>>
      made == Fields([S EXCEPT !.tabs = Append(@, NoEntries)], env, t, e[2], 0)
      f == OrRaise(a, IF First(a)[1] = "tab" THEN GetKey(a.tabs[First(a)[2]], Str(e[3])) ELSE Raised)
      margs == EvalAll(f, env, e[4], << >>)
      left == Eval(S, env, e[3])
      IsFalseV == IsFalse(First(left))
  IN IF S.sig # "" THEN S
     ELSE CASE e[1] = "const" -> Val(S, <<e[2]>>)
       [] e[1] = "name" -> Val(S, <<Lookup(S, env, e[2])>>)
       [] e[1] = "dots" -> Val(S, env.va)
       [] e[1] = "paren" -> IF a.sig # "" THEN a ELSE Val(a, <<First(a)>>)
       [] e[1] = "un" -> IF left.sig # "" THEN left ELSE OrRaise(left, Operate1(left, e[2], First(left)))
       [] e[1] = "bin" /\ e[2] \in {"and", "or"} ->
            IF left.sig # "" \/ IsFalseV = (e[2] = "and") THEN Val(left, <<First(left)>>)
            ELSE LET r == Eval(left, env, e[4]) IN Val(r, <<First(r)>>)
       [] e[1] = "bin" /\ e[2] \notin {"and", "or"} ->
            IF two.sig # "" THEN two ELSE OrRaise(two, Operate(e[2], two.val[1], Take(two.val, 2)))
       [] e[1] = "index" ->
            IF ix.sig # "" THEN ix
            ELSE OrRaise(ix, IF ix.val[1][1] = "tab" THEN GetKey(ix.tabs[ix.val[1][2]], Take(ix.val, 2)) ELSE Raised)
       [] e[1] = "call" -> IF args.sig # "" THEN args ELSE CallV(args, First(a), args.val)
       [] e[1] = "method" -> IF margs.sig # "" THEN margs ELSE CallV(margs, First(f), <<First(a)>> \o margs.val)
       [] e[1] = "fun" ->
            Val([S EXCEPT !.funs = Append(@, [params |-> e[2], va |-> e[3], body |-> e[4], env |-> env])],
                <<<<"fun", Len(S.funs) + 1>>>>)
       [] e[1] = "tab" -> IF made.sig # "" THEN made ELSE Val(made, <<t>>)

CallV(S, f, args) ==
  LET c == S.funs[f[2]]
      d == Declare(S, [c.env EXCEPT !.va = IF c.va THEN SubSeq(args, Len(c.params) + 1, Len(args)) ELSE << >>],
                   c.params, args)
      r == Run(Val(d[1], << >>), d[2], c.body, 1, << >>)[1]
      i == Arith("+", Take(args, 2), Num(1))
      v == GetKey(S.tabs[args[1][2]], i)
  IN IF f[1] # "fun" THEN Err(S)
     ELSE CASE f[2] = 1 -> Val([S EXCEPT !.out = Append(@, Visible(args))], args)
            [] f[2] = 2 -> Val(S, <<<<"fun", 3>>, args[1], Num(0)>>)
            [] f[2] = 3 -> Val(S, IF v = Nil THEN <<Nil>> ELSE <<i, v>>)
            [] OTHER -> CASE r.sig = "return" -> [r EXCEPT !.sig = ""]
                          [] r.sig = "" -> Val(r, << >>)
                          [] OTHER -> r

\* A block from statement i on; envs are the environments before each of the
\* statements passed.  Gives <<S, env>>.
LabelsOf(S, b) == {j \in DOMAIN b : b[j] = <<"label", S.val>>}
Run(S, env, b, i, envs) ==
  LET j == CHOOSE j \in LabelsOf(S, b) : TRUE
      st == b[i]
      vs == EvalAll(S, env, st[3], << >>)
      decl == IF st[1] = "localfunction"
              THEN LET d == Declare(S, env, <<st[2]>>, << >>)
                       f == Eval(d[1], d[2], st[3])
                   IN <<[f EXCEPT !.cells[Len(d[1].cells)] = First(f)], d[2]>>
              ELSE IF vs.sig # "" THEN <<vs, env>> ELSE Declare(vs, env, st[2], vs.val)
  IN IF S.sig = "goto" THEN
          IF LabelsOf(S, b) = {} THEN <<S, env>>
          ELSE Run([S EXCEPT !.sig = "", !.val = << >>], IF j <= Len(envs) THEN envs[j] ELSE env,
                   b, j + 1, IF j <= Len(envs) THEN SubSeq(envs, 1, j) ELSE envs \o [x \in 1 .. j - Len(envs) |-> env])
     ELSE IF S.sig # "" \/ i > Len(b) THEN <<S, env>>
     ELSE IF st[1] \in {"local", "localfunction"} THEN Run(decl[1], decl[2], b, i + 1, Append(envs, env))
     ELSE Run(Exec(S, env, st), env, b, i + 1, Append(envs, env))

\* The tables and keys of the targets of an assignment.
Targets(S, env, vs, done) ==
  LET v == Head(vs)
      r == IF v[1] = "index" THEN EvalAll(S, env, <<v[2], v[3]>>, << >>) ELSE Val(S, <<N(v[2])>>)
  IN IF S.sig # "" THEN S
     ELSE IF vs = << >> THEN Val(S, done)
     ELSE Targets(r, env, Tail(vs), Append(done, r.val))
Assign(S, env, vs, targets, vals) ==
  FoldLeft(LAMBDA s, i :
             IF s.sig # "" THEN s
             ELSE IF vs[i][1] = "index" THEN Put_(s, targets[i][1], Take(targets[i], 2), Take(vals, i))
             ELSE IF vs[i][2] \in DOMAIN env.vars THEN [s EXCEPT !.cells[env.vars[vs[i][2]]] = Take(vals, i)]
             ELSE Put_(s, <<"tab", 1>>, Str(vs[i][2]), Take(vals, i)),
           S, Reverse([i \in DOMAIN vs |-> i]))

Ended(S) == IF S.sig = "break" THEN [S EXCEPT !.sig = ""] ELSE S
Loop(S, env, x, r, b) ==     \* r: <<index, limit, step>>
  LET goes == IF r[3] > 0 THEN r[1] <= r[2] ELSE r[1] >= r[2]
      d == Declare(S, env, <<x>>, <<Num(r[1])>>)
      s == Run(d[1], d[2], b, 1, << >>)[1]
  IN IF ~goes THEN S ELSE IF s.sig # "" THEN Ended(s)
     ELSE Loop(s, env, x, <<Wrap(r[1] + r[3]), r[2], r[3]>>, b)
Each(S, env, xs, gen, ctl, b) ==
  LET r == CallV(S, gen[1], <<Take(gen, 2), ctl>>)
      d == Declare(r, env, xs, r.val)
      s == Run(d[1], d[2], b, 1, << >>)[1]
  IN IF r.sig # "" THEN r
     ELSE IF First(r) = Nil THEN Val(r, << >>)
     ELSE IF s.sig # "" THEN Ended(s) ELSE Each(s, env, xs, gen, First(r), b)
Choose_(S, env, clauses, else) ==
  LET c == Eval(S, env, clauses[1][1])
  IN IF clauses = << >> THEN Run(S, env, else, 1, << >>)[1]
     ELSE IF c.sig # "" THEN c
     ELSE IF IsFalse(First(c)) THEN Choose_(c, env, Tail(clauses), else)
     ELSE Run(c, env, clauses[1][2], 1, << >>)[1]

Exec(S, env, st) ==
  LET c == Eval(S, env, st[2])
      body == Run(c, env, st[3], 1, << >>)[1]
      once == Run(S, env, st[2], 1, << >>)
      until == Eval(once[1], once[2], st[3])
      targets == Targets(S, env, st[2], << >>)
      vals == EvalAll(targets, env, st[3], << >>)
      range == EvalAll(S, env, st[3], << >>)
      ret == EvalAll(S, env, st[2], << >>)
      ftarget == IF st[3] = "" THEN st[2] ELSE At(st[2], T(st[3]))
      tgt == Targets(S, env, <<ftarget>>, << >>)
      fv == Eval(tgt, env, IF st[3] = "" THEN st[4] ELSE [st[4] EXCEPT ![2] = <<"self">> \o @])
  IN CASE st[1] \in {"call", "method"} -> Val(Eval(S, env, st), << >>)
       [] st[1] = "do" -> once[1]
       [] st[1] = "while" ->
            IF c.sig # "" THEN c ELSE IF IsFalse(First(c)) THEN c
            ELSE IF body.sig # "" THEN Ended(body) ELSE Exec(body, env, st)
       [] st[1] = "repeat" ->
            IF once[1].sig # "" THEN Ended(once[1])
            ELSE IF until.sig # "" \/ ~IsFalse(First(until)) THEN until ELSE Exec(until, env, st)
       [] st[1] = "if" -> Choose_(S, env, st[2], st[3])
       [] st[1] = "fornum" ->
            IF range.sig # "" THEN range
            ELSE IF \E i \in 1 .. Len(st[3]) : Take(range.val, i)[1] # "int" THEN Err(range)
            ELSE Loop(range, env, st[2], <<range.val[1][2], range.val[2][2],
                                           IF Len(st[3]) = 3 THEN range.val[3][2] ELSE 1>>, st[4])
       [] st[1] = "forin" ->
            IF range.sig # "" THEN range
            ELSE Each(range, env, st[2], <<Take(range.val, 1), Take(range.val, 2)>>, Take(range.val, 3), st[4])
       [] st[1] = "set" -> IF vals.sig # "" THEN vals ELSE Assign(vals, env, st[2], targets.val, vals.val)
       [] st[1] = "function" -> IF fv.sig # "" THEN fv ELSE Assign(fv, env, <<ftarget>>, tgt.val, fv.val)
       [] st[1] = "return" -> IF ret.sig # "" THEN ret ELSE [ret EXCEPT !.sig = "return"]
       [] st[1] = "break" -> [S EXCEPT !.sig = "break"]
       [] st[1] = "goto" -> [S EXCEPT !.sig = "goto", !.val = st[2]]
       [] st[1] = "label" -> S

\* What a program emits, its results last, and how it ends.
Meaning(program) ==
  LET S == Run(Start, [vars |-> [x \in {} |-> 0], va |-> << >>], program, 1, << >>)[1]
  IN IF S.sig = "error" THEN [status |-> "error", out |-> S.out]
     ELSE [status |-> "done", out |-> Append(S.out, IF S.sig = "return" THEN Visible(S.val) ELSE << >>)]

-----------------------------------------------------------------------------
(* Source *)

Word(w) == <<<<w, "">>>>
Id(x) == <<<<"name", x>>>>
Between(open, ts, close) == Word(open) \o ts \o Word(close)
Commas(tss) == FoldLeft(LAMBDA l, ts : IF l = << >> THEN ts ELSE l \o Word(",") \o ts, << >>, tss)

\* The manual, from lower to higher priority: or; and; comparisons; |; ~; &;
\* << >>; ..; + -; * // %; unary operators.  Concatenation associates to the
\* right.
Priority(op) ==
  CASE op = "or" -> 1 [] op = "and" -> 2 [] op = "|" -> 4 [] op = "~" -> 5 [] op = "&" -> 6
    [] op \in {"<<", ">>"} -> 7 [] op = ".." -> 8 [] op \in {"+", "-"} -> 9
    [] op \in {"*", "//", "%"} -> 10 [] OTHER -> 3
Strength(e) == CASE e[1] = "bin" -> Priority(e[2]) [] e[1] = "un" -> 11 [] OTHER -> 12

RECURSIVE Source(_), Phrase(_), Text_(_)
AsPart(e, strength) == IF Strength(e) >= strength THEN Phrase(e) ELSE Between("(", Phrase(e), ")")
AsPrefix(e) ==
  IF e[1] \in {"name", "index", "call", "method", "paren"} THEN Phrase(e) ELSE Between("(", Phrase(e), ")")
Phrases(es) == Commas([i \in DOMAIN es |-> Phrase(es[i])])
Function(f) ==
  Between("(", Commas([i \in DOMAIN f[2] |-> Id(f[2][i])] \o (IF f[3] THEN <<Word("...")>> ELSE << >>)), ")")
    \o Source(f[4]) \o Word("end")
KeyPhrase(k) == Between("[", Phrase(k), "]")
Phrase(e) ==
  CASE e[1] = "const" -> CASE e[2][1] = "int" -> <<<<"int", e[2][2]>>>>
                           [] e[2][1] = "str" -> <<<<"string", e[2][2]>>>>
                           [] OTHER -> Word(CASE e[2] = Nil -> "nil" [] e[2] = Bool(TRUE) -> "true" [] OTHER -> "false")
    [] e[1] = "name" -> Id(e[2])
    [] e[1] = "dots" -> Word("...")
    [] e[1] = "paren" -> Between("(", Phrase(e[2]), ")")
    [] e[1] = "un" -> Word(e[2]) \o AsPart(e[3], 11)
    [] e[1] = "bin" -> LET onRight == IF e[2] = ".." THEN 0 ELSE 1
                       IN AsPart(e[3], Priority(e[2]) + 1 - onRight) \o Word(e[2])
                            \o AsPart(e[4], Priority(e[2]) + onRight)
    [] e[1] = "index" -> AsPrefix(e[2]) \o IF e[3][1] = "const" /\ e[3][2][1] = "str"
                                           THEN Word(".") \o Id(e[3][2][2]) ELSE KeyPhrase(e[3])
    [] e[1] = "call" -> AsPrefix(e[2]) \o Between("(", Phrases(e[3]), ")")
    [] e[1] = "method" -> AsPrefix(e[2]) \o Word(":") \o Id(e[3]) \o Between("(", Phrases(e[4]), ")")
    [] e[1] = "fun" -> Word("function") \o Function(e)
    [] e[1] = "tab" ->
         Between("{", Commas([i \in DOMAIN e[2] |->
                   IF e[2][i][1] = "item" THEN Phrase(e[2][i][2])
                   ELSE KeyPhrase(e[2][i][2]) \o Word("=") \o Phrase(e[2][i][3])]), "}")

Names(xs) == Commas([i \in DOMAIN xs |-> Id(xs[i])])
Text_(st) ==
  CASE st[1] \in {"call", "method"} -> Phrase(st)
    [] st[1] = "local" ->
         Word("local") \o Names(st[2]) \o (IF st[3] = << >> THEN << >> ELSE Word("=") \o Phrases(st[3]))
    [] st[1] = "localfunction" -> Word("local") \o Word("function") \o Id(st[2]) \o Function(st[3])
    [] st[1] = "function" -> Word("function") \o Phrase(st[2])
                               \o (IF st[3] = "" THEN << >> ELSE Word(":") \o Id(st[3])) \o Function(st[4])
    [] st[1] = "set" -> Phrases(st[2]) \o Word("=") \o Phrases(st[3])
    [] st[1] = "do" -> Word("do") \o Source(st[2]) \o Word("end")
    [] st[1] = "while" -> Word("while") \o Phrase(st[2]) \o Word("do") \o Source(st[3]) \o Word("end")
    [] st[1] = "repeat" -> Word("repeat") \o Source(st[2]) \o Word("until") \o Phrase(st[3])
    [] st[1] = "if" ->
         FlattenSeq([i \in DOMAIN st[2] |->
                       Word(IF i = 1 THEN "if" ELSE "elseif") \o Phrase(st[2][i][1]) \o Word("then") \o Source(st[2][i][2])])
           \o (IF st[3] = << >> THEN << >> ELSE Word("else") \o Source(st[3])) \o Word("end")
    [] st[1] = "fornum" -> Word("for") \o Id(st[2]) \o Word("=") \o Phrases(st[3]) \o Word("do") \o Source(st[4]) \o Word("end")
    [] st[1] = "forin" -> Word("for") \o Names(st[2]) \o Word("in") \o Phrases(st[3]) \o Word("do") \o Source(st[4]) \o Word("end")
    [] st[1] = "return" -> Word("return") \o Phrases(st[2])
    [] st[1] = "break" -> Word("break")
    [] st[1] = "goto" -> Word("goto") \o Id(st[2])
    [] st[1] = "label" -> Word("::") \o Id(st[2]) \o Word("::")
\* A semicolon ends the statements that a following parenthesis would continue.
Source(block) ==
  FlattenSeq([i \in DOMAIN block |->
                Text_(block[i]) \o IF block[i][1] \in {"call", "method", "local", "set"} THEN Word(";") ELSE << >>])
=============================================================================
