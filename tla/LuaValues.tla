----------------------------- MODULE LuaValues ------------------------------
(***************************************************************************)
(* The values of the embedded Lua and its arithmetic, as far as compiled   *)
(* code and the meaning of a script share them: integers, strings,         *)
(* booleans, nil and references <<type, id>> to tables and functions.      *)
(***************************************************************************)
EXTENDS Integers, SequencesExt, FiniteSetsExt, TLC

CONSTANT MaxInteger   \* LUA_MAXINTEGER

Wrap(n) == ((n + MaxInteger + 1) % (2 * (MaxInteger + 1))) - (MaxInteger + 1)

Nil == <<"nil", 0>>
Bool(b) == <<"bool", b>>
Num(n) == <<"int", n>>
Str(s) == <<"str", s>>
IsFalse(v) == v = Nil \/ v = Bool(FALSE)
\* The outcome of an operation that raises an error.
Raised == <<"error", 0>>

Quotient(m, n) == (IF m < 0 THEN -m ELSE m) \div (IF n < 0 THEN -n ELSE n)
\* luaV_div rounds to minus infinity, where C rounds to zero.
FloorDiv(m, n) ==
  IF (m < 0) = (n < 0) \/ m = 0 THEN Quotient(m, n)
  ELSE IF n * Quotient(m, n) \in {m, -m} THEN -Quotient(m, n) ELSE -Quotient(m, n) - 1

\* An integer as the set of its bits that are 1; NBITS is their number.
NBITS == CHOOSE b \in 1 .. 64 : 2 ^ (b - 1) = MaxInteger + 1
Unsigned(n) == n % 2 ^ NBITS
Bits(n) == {i \in 0 .. NBITS - 1 : (Unsigned(n) \div 2 ^ i) % 2 = 1}
OfBits(bits) == MapThenSumSet(LAMBDA i : 2 ^ i, bits)
\* luaV_shiftl: by y places to the left, or by -y to the right.
ShiftLeft(x, y) == OfBits({i + y : i \in Bits(x)} \cap 0 .. NBITS - 1)

Arithmetic == {"+", "-", "*", "//", "%", "&", "|", "~", "<<", ">>"}
Calculate(op, m, n) ==
  CASE op = "+" -> m + n
    [] op = "-" -> m - n
    [] op = "*" -> m * n
    [] op = "//" -> FloorDiv(m, n)
    [] op = "%" -> m - n * FloorDiv(m, n)
    [] op = "&" -> OfBits(Bits(m) \cap Bits(n))
    [] op = "|" -> OfBits(Bits(m) \cup Bits(n))
    [] op = "~" -> OfBits((Bits(m) \cup Bits(n)) \ (Bits(m) \cap Bits(n)))
    [] op = "<<" -> ShiftLeft(m, n)
    [] op = ">>" -> ShiftLeft(m, Wrap(-n))
DividesByZero(op, n) == op \in {"//", "%"} /\ n = 0
Arith(op, v, w) ==
  IF v[1] # "int" \/ w[1] # "int" \/ DividesByZero(op, w[2]) THEN Raised
  ELSE Num(Wrap(Calculate(op, v[2], w[2])))
Negated(v) == Arith("-", Num(0), v)
Complement(v) == Arith("~", Num(-1), v)

\* Values are equal when they are of the same type and variant and are the same
\* integer, string or boolean, or the same object.
Equal(v, w) == v[1] = w[1] /\ v[2] = w[2]

Text(v) == IF v[1] = "int" THEN ToString(v[2]) ELSE v[2]
Join(v, w) ==
  IF {v[1], w[1]} \subseteq {"int", "str"} THEN Str(Text(v) \o Text(w)) ELSE Raised

\* Only integers are ordered here: strings are not compared by their characters.
Less(v, w) == IF v[1] = "int" /\ w[1] = "int" THEN Bool(v[2] < w[2]) ELSE Raised
LessEq(v, w) == IF v[1] = "int" /\ w[1] = "int" THEN Bool(v[2] <= w[2]) ELSE Raised

-----------------------------------------------------------------------------
(* A table is a function on the keys that have a value. *)

NoEntries == [k \in {} |-> Nil]
GetKey(tab, k) == IF k \in DOMAIN tab THEN tab[k] ELSE Nil
SetKey(tab, k, v) ==
  [x \in (DOMAIN tab \cup {k}) \ (IF v = Nil THEN {k} ELSE {}) |-> IF x = k THEN v ELSE tab[x]]
\* One border of the table: the last index before the first hole.
Border(tab) ==
  CHOOSE n \in 0 .. Cardinality(DOMAIN tab) :
    (\A i \in 1 .. n : Num(i) \in DOMAIN tab) /\ Num(n + 1) \notin DOMAIN tab
\* The length of a value; tabs are the contents of the tables.
LengthOf(v, tabs) ==
  CASE v[1] = "tab" -> Num(Border(tabs[v[2]]))
    [] v[1] = "str" -> Num(Len(v[2]))
    [] OTHER -> Raised
=============================================================================
