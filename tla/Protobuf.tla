------------------------------ MODULE Protobuf ------------------------------
(***************************************************************************)
(* LuaProtobuf and the C functions PBEncode, PBDecode and UpdateRootProto  *)
(* that give it to scripts: Lua tables are converted to messages of types  *)
(* found by name in the imported pool, else in the generated one, and      *)
(* back.  The conversions walk the Lua stack without checking its size and *)
(* own the messages they create; both are counted.                         *)
(*                                                                         *)
(* A Lua value is a record with the type t: "int" and "str" with a value,  *)
(* "bool", "nil", or "table" with its array part a and the nodes of its    *)
(* hash part, in the order in which lua_next comes to them: tables with    *)
(* the same entries may differ in it.  Numbers are integers; a double      *)
(* holds each of them.  Protobuf's own behaviour (default instances,       *)
(* CopyFrom) is modelled from its use.                                     *)
(***************************************************************************)
EXTENDS Integers, Sequences, SequencesExt, TLC

CONSTANTS
  Files,       \* Files[f]: the types an import of f makes known; none if it fails
  Generated,   \* the types of the generated pool
  Fields,      \* Fields[t]: the fields of the message type t, in their order
  Tables,      \* Tables[t]: the Lua values scripts encode as t
  IntBits,     \* the width of int32_t and uint32_t
  LongBits,    \* the width of uint64_t
  FloatBits,   \* the significant bits of a float
  MinStack,    \* LUA_MINSTACK: the stack slots a C function may use unchecked
  CStack,      \* the calls of PushProtobufToLuaTable for which the C stack has room
  MaxLeaked    \* bound: messages nobody will delete

ASSUME ConstantsAssumption ==
  /\ DOMAIN Tables \subseteq DOMAIN Fields
  /\ IntBits \in Nat \ {0} /\ LongBits >= IntBits /\ FloatBits \in Nat \ {0, 1}
  /\ MinStack \in Nat /\ CStack \in Nat \ {0} /\ MaxLeaked \in Nat

VARIABLES
  imported,   \* the types of m_importer's pool
  wire,       \* the last message encoded: its type, its fields, its source
  last,       \* the last call of a script, with what it was given and its result
  leaked      \* messages without an owner

vars == <<imported, wire, last, leaked>>

NilValue == [t |-> "nil"]
Num(n) == [t |-> "int", n |-> n]
Str(s) == [t |-> "str", s |-> s]
Bool(b) == [t |-> "bool", b |-> b]
Table(nodes, a) == [t |-> "table", nodes |-> nodes, a |-> a]

\* lua_rawget, and what lua_next goes through.
Got(v, name) ==
  LET at == {i \in DOMAIN v.nodes : v.nodes[i].k = name}
  IN IF at = {} THEN NilValue ELSE v.nodes[CHOOSE i \in at : TRUE].v
Elements(v) == v.a \o [i \in DOMAIN v.nodes |-> v.nodes[i].v]

-----------------------------------------------------------------------------
(* Values *)

Numerals == [s \in {ToString(n) : n \in -20 .. 20} |-> CHOOSE n \in -20 .. 20 : ToString(n) = s]
IsNumeral(v) == v.t = "int" \/ (v.t = "str" /\ v.s \in DOMAIN Numerals)
Number(v) == IF v.t = "int" THEN v.n ELSE Numerals[v.s]

\* The casts to uint32_t and uint64_t, and the one to int32_t.
Unsigned(n, bits) == n % 2 ^ bits
TruncatedFault(n) == Unsigned(n, IntBits)
Truncated(n) ==
  LET m == Unsigned(n, IntBits) IN IF m >= 2 ^ (IntBits - 1) THEN m - 2 ^ IntBits ELSE m

Abs(n) == IF n < 0 THEN -n ELSE n

\* The cast to float rounds to the nearest one, the even one of two.
Rounded(n) ==
  LET size == Abs(n)
      step == 2 ^ (CHOOSE e \in 0 .. size : /\ size < 2 ^ (FloatBits + e)
                                            /\ \A d \in 0 .. e - 1 : size >= 2 ^ (FloatBits + d))
      q == size \div step
      r == size % step
      up == 2 * r > step \/ (2 * r = step /\ q % 2 = 1)
  IN (IF n < 0 THEN -1 ELSE 1) * step * (IF up THEN q + 1 ELSE q)

Made(v) == [out |-> "ok", val |-> v]
Stopped(how) == [out |-> how, val |-> NilValue]

\* The switch on fd->cpp_type(), for the types that are not messages; luaL_check*
\* raises an error, and an enum value without a descriptor is a null pointer.
Scalar(fd, v) ==
  CASE fd.kind = "bool" -> Made(v # Bool(FALSE) /\ v # NilValue)
    [] fd.kind = "string" /\ v.t \in {"str", "int"} ->
         Made(IF v.t = "int" THEN ToString(v.n) ELSE v.s)
    [] fd.kind \in {"double", "int64"} /\ IsNumeral(v) -> Made(Number(v))
    [] fd.kind = "float" /\ IsNumeral(v) -> Made(Rounded(Number(v)))
    [] fd.kind = "uint64" /\ IsNumeral(v) -> Made(Unsigned(Number(v), LongBits))
    [] fd.kind = "uint32" /\ IsNumeral(v) -> Made(Unsigned(Number(v), IntBits))
    [] fd.kind = "int32" /\ IsNumeral(v) -> Made(Truncated(Number(v)))
    [] fd.kind = "enum" /\ IsNumeral(v) ->
         LET n == Truncated(Number(v)) IN IF n \in fd.of THEN Made(n) ELSE Stopped("crash")
    [] OTHER -> Stopped("error")

\* CreateMessage looks in the imported pool first.
Pool(t) == IF t \in imported THEN "imported" ELSE IF t \in Generated THEN "generated" ELSE "none"

\* A conversion: how it stands, the slots in use and the most there were, the
\* messages nobody has deleted, and what it has made.
Start == [out |-> "ok", top |-> 0, peak |-> 0, live |-> 0, val |-> NilValue]
Push(m, n) == [m EXCEPT !.top = @ + n, !.peak = Max({@, m.top + n})]
Pop(m, n) == IF m.out = "ok" THEN [m EXCEPT !.top = @ - n] ELSE m
Outcome(m) == IF m.peak > MinStack /\ m.out # "endless" THEN "overflow" ELSE m.out

-----------------------------------------------------------------------------
(* From Lua *)

RECURSIVE LuaToProtobuf(_, _, _)

\* The value v, on top of the stack, is set or added to the field fd of a message
\* in pool: a nested message is copied and deleted.
ConvertedFault(m, fd, v, pool) ==
  IF fd.kind # "message"
  THEN LET s == Scalar(fd, v)
       IN IF s.out = "ok" THEN [m EXCEPT !.val[fd.name] = Append(@, s.val)] ELSE [m EXCEPT !.out = s.out]
  ELSE LET sub == LuaToProtobuf(fd.of, v, m)
       IN IF sub.out # "ok" THEN sub ELSE [sub EXCEPT !.val = [m.val EXCEPT ![fd.name] = Append(@, sub.val)]]
Converted(m, fd, v, pool) ==
  IF fd.kind # "message"
  THEN LET s == Scalar(fd, v)
       IN IF s.out = "ok" THEN [m EXCEPT !.val[fd.name] = Append(@, s.val)] ELSE [m EXCEPT !.out = s.out]
  ELSE LET sub == LuaToProtobuf(fd.of, v, m)
       IN CASE sub.out # "ok" -> sub
            [] sub.out = "ok" /\ Pool(fd.of) # pool -> [sub EXCEPT !.out = "crash"]
            [] OTHER -> [sub EXCEPT !.val = [m.val EXCEPT ![fd.name] = Append(@, sub.val)],
                                    !.live = @ - 1]

\* A list is gone through with lua_next: its key is on the stack, and the element.
Take(m, fd, v, pool) ==
  IF fd.label # "repeated" THEN Converted(m, fd, v, pool)
  ELSE Pop(FoldLeft(LAMBDA acc, w : IF acc.out # "ok" THEN acc
                                    ELSE Pop(Converted(Push(acc, 1), fd, w, pool), 1),
                    Push(m, 1), Elements(v)), 1)

\* An error exit leaves its slots on the stack, and the message without owner.
LuaToProtobuf(t, v, m) ==
  IF v.t # "table" \/ Pool(t) = "none" THEN [m EXCEPT !.out = "null"]
  ELSE LET empty == [n \in {Fields[t][i].name : i \in 1 .. Len(Fields[t])} |-> << >>]
           field(acc, fd) ==
             LET given == Got(v, fd.name)
                 w == Push(acc, 1)
             IN CASE acc.out # "ok" -> acc
                  [] acc.out = "ok" /\ given = NilValue /\ fd.label # "required" -> Pop(w, 1)
                  [] acc.out = "ok" /\ (IF fd.label = "repeated" THEN given.t \notin {"nil", "table"}
                                        ELSE given = NilValue /\ fd.label = "required") ->
                       [w EXCEPT !.out = "null"]
                  [] OTHER -> Pop(Take(w, fd, given, Pool(t)), 1)
       IN FoldLeft(field, [m EXCEPT !.val = empty, !.live = @ + 1], Fields[t])

-----------------------------------------------------------------------------
(* To Lua *)

Default(fd) ==
  CASE fd.kind = "message" -> << >> [] fd.kind = "string" -> ""
    [] fd.kind = "bool" -> FALSE [] OTHER -> 0

RECURSIVE PushProtobufToLuaTable(_, _, _, _)

PushedFault(m, fd, v, depth) ==
  IF fd.kind = "message" /\ v # << >> THEN PushProtobufToLuaTable(fd.of, v, m, depth + 1)
  ELSE [Push(m, 1) EXCEPT !.val = CASE fd.kind = "message" -> NilValue
                                    [] fd.kind = "string" -> Str(v)
                                    [] fd.kind = "bool" -> Bool(v)
                                    [] fd.kind \in {"int64", "uint64"} -> Str(ToString(v))
                                    [] OTHER -> Num(v)]
\* 64-bit values become strings; a message that was never set is its type's
\* default instance.
Pushed(m, fd, v, depth) ==
  IF fd.kind = "message" THEN PushProtobufToLuaTable(fd.of, v, m, depth + 1)
  ELSE [Push(m, 1) EXCEPT !.val = CASE fd.kind = "string" -> Str(v)
                                    [] fd.kind = "bool" -> Bool(v)
                                    [] fd.kind \in {"int64", "uint64"} -> Str(ToString(v))
                                    [] OTHER -> Num(v)]

\* msg: the fields, each the list of its values; << >>: the default instance.
\* The key, and for a list its table, are below a value that is pushed.
PushProtobufToLuaTable(t, msg, m, depth) ==
  LET vals(fd) == IF msg = << >> THEN << >> ELSE msg[fd.name]
      element(fd, acc, v) ==
        IF acc.out # "ok" THEN acc
        ELSE LET p == Pushed(acc, fd, v, depth)
             IN Pop([p EXCEPT !.val = Append(acc.val, p.val)], 1)
      field(acc, fd) ==
        IF acc.out # "ok" THEN acc
        ELSE LET key == Push(acc, 1)
                 list == FoldLeft(LAMBDA b, v : element(fd, b, v),
                                  [Push(key, 1) EXCEPT !.val = << >>], vals(fd))
                 z == IF fd.label = "repeated" THEN [list EXCEPT !.val = Table(<< >>, @)]
                      ELSE Pushed(key, fd, IF vals(fd) = << >> THEN Default(fd) ELSE vals(fd)[1], depth)
             IN Pop([z EXCEPT !.val = Table(Append(acc.val.nodes, [k |-> fd.name, v |-> z.val]), << >>)], 2)
  IN IF depth > CStack THEN [m EXCEPT !.out = "endless"]
     ELSE FoldLeft(field, [Push(m, 1) EXCEPT !.val = Table(<< >>, << >>)], Fields[t])

-----------------------------------------------------------------------------
(* The functions scripts call *)

Init ==
  /\ imported = {}
  /\ wire = [type |-> "none"]
  /\ last = [op |-> "none", out |-> "ok"]
  /\ leaked = 0

Runs == last.out \notin {"crash", "overflow", "endless"} /\ leaked <= MaxLeaked

\* The types of the earlier import are gone, whether or not this one succeeds.
LoadRootProto(f) ==
  /\ Runs
  /\ imported' = Files[f]
  /\ last' = [op |-> "load", out |-> "ok"]
  /\ UNCHANGED <<wire, leaked>>

\* The result is serialized and deleted; a message that failed is not.
PBEncode(t, v) ==
  /\ Runs
  /\ LET r == LuaToProtobuf(t, v, Start)
         ok == Outcome(r) = "ok"
     IN /\ last' = [op |-> "encode", out |-> Outcome(r), top |-> r.top, type |-> t, source |-> v]
        /\ wire' = IF ok THEN [type |-> t, msg |-> r.val, source |-> v] ELSE wire
        /\ leaked' = leaked + IF ok THEN r.live - 1 ELSE r.live
  /\ UNCHANGED imported

\* The message parsed is converted and never deleted.
PBDecode ==
  /\ Runs /\ wire.type # "none"
  /\ LET call == [op |-> "decode", type |-> wire.type, source |-> wire.source]
     IN IF Pool(wire.type) = "none" THEN last' = call @@ [out |-> "null"] /\ UNCHANGED leaked
        ELSE LET r == PushProtobufToLuaTable(wire.type, wire.msg, Start, 1)
             IN last' = call @@ [out |-> Outcome(r), value |-> r.val] /\ leaked' = leaked + 1
  /\ UNCHANGED <<imported, wire>>

Next ==
  \/ \E f \in DOMAIN Files : LoadRootProto(f)
  \/ \E t \in DOMAIN Tables : \E v \in Tables[t] : PBEncode(t, v)
  \/ PBDecode

Spec == Init /\ [][Next]_vars

-----------------------------------------------------------------------------
(* Properties *)

Fits(n, m, bits) == (n - m) % 2 ^ bits = 0
Floats(bits) == {s * q * 2 ^ e : s \in {-1, 1}, q \in 0 .. 2 ^ bits - 1, e \in 0 .. LongBits}

\* What the value v means to a field: the number it is or spells, cut to the
\* field's width or the nearest one a float can be; 64-bit ones come back as text.
Meaning(fd, v) ==
  CASE fd.kind = "int64" -> Str(ToString(Number(v)))
    [] fd.kind = "uint64" ->
         Str(ToString(CHOOSE n \in 0 .. 2 ^ LongBits - 1 : Fits(Number(v), n, LongBits)))
    [] fd.kind = "uint32" -> Num(CHOOSE n \in 0 .. 2 ^ IntBits - 1 : Fits(Number(v), n, IntBits))
    [] fd.kind \in {"int32", "enum"} ->
         Num(CHOOSE n \in -(2 ^ (IntBits - 1)) .. 2 ^ (IntBits - 1) - 1 : Fits(Number(v), n, IntBits))
    [] fd.kind = "float" ->
         Num(CHOOSE n \in Floats(FloatBits) : \A o \in Floats(FloatBits) \ {n} :
               \/ Abs(Number(v) - n) < Abs(Number(v) - o)
               \/ Abs(Number(v) - n) = Abs(Number(v) - o) /\ n \in Floats(FloatBits - 1))
    [] fd.kind = "string" /\ v.t = "int" -> Str(ToString(v.n))
    [] fd.kind = "bool" -> Bool(v # Bool(FALSE))
    [] fd.kind = "double" -> Num(Number(v))
    [] OTHER -> v

\* What a field that was not given means.
Absent(fd) ==
  CASE fd.kind = "string" -> Str("") [] fd.kind = "bool" -> Bool(FALSE)
    [] fd.kind \in {"int64", "uint64"} -> Str("0") [] OTHER -> Num(0)

\* The table r is what v means to the type t: a list has the elements of its array
\* part in their order, and after them the others, in some order.
RECURSIVE Means(_, _, _)
Means(t, v, r) ==
  LET one(fd, w, x) == IF fd.kind = "message" THEN Means(fd.of, w, x) ELSE x = Meaning(fd, w)
      all(fd, w, x) ==
        LET n == Len(w.a)
        IN /\ x.nodes = << >> /\ Len(x.a) = n + Len(w.nodes)
           /\ \A i \in 1 .. n : one(fd, w.a[i], x.a[i])
           /\ \E p \in Permutations(DOMAIN w.nodes) :
                \A i \in DOMAIN w.nodes : one(fd, w.nodes[p[i]].v, x.a[n + i])
      nothing == Table(<< >>, << >>)
      field(fd) ==
        LET given == Got(v, fd.name)
            r1 == Got(r, fd.name)
        IN IF fd.label = "repeated" THEN all(fd, IF given = NilValue THEN nothing ELSE given, r1)
           ELSE IF given # NilValue THEN one(fd, given, r1)
           ELSE IF fd.kind = "message" THEN Means(fd.of, nothing, r1)
           ELSE r1 = Absent(fd)
  IN r.t = "table" /\ r.a = << >> /\ Len(r.nodes) = Len(Fields[t])
     /\ \A i \in DOMAIN Fields[t] : field(Fields[t][i])

\* The types a default instance of t contains through fields set to one message.
RECURSIVE Holds(_, _)
Holds(t, seen) ==
  LET parts == {Fields[t][i].of : i \in {j \in 1 .. Len(Fields[t]) :
                  Fields[t][j].kind = "message" /\ Fields[t][j].label # "repeated"}}
  IN parts \cup UNION {Holds(p, seen \cup {p}) : p \in parts \ seen}
Endless(t) == \E p \in {t} \cup Holds(t, {t}) : p \in Holds(p, {p})

\* The messages directly in a message of type t made of v: with their types, what
\* they are made of, nothing for those that are not given.
Parts(t, v) ==
  LET of(fd) == LET w == IF v.t = "table" THEN Got(v, fd.name) ELSE NilValue
                IN IF fd.label # "repeated" THEN {w}
                   ELSE IF w.t = "table" THEN ToSet(Elements(w)) ELSE {}
      fields == SelectSeq(Fields[t], LAMBDA fd : fd.kind = "message")
  IN UNION {{[type |-> fields[i].of, v |-> w] : w \in of(fields[i])} : i \in DOMAIN fields}

RECURSIVE HoldsEndless(_, _)
HoldsEndless(t, v) == Endless(t) \/ \E p \in Parts(t, v) : HoldsEndless(p.type, p.v)

\* How deep messages nest, an endless one counted as nothing.
RECURSIVE Levels(_, _)
Levels(t, v) ==
  Max({0} \cup {1 + Levels(p.type, p.v) :
                  p \in {q \in Parts(t, v) : q.v # NilValue \/ ~Endless(q.type)}})

\* A table that was encoded is decoded to what it meant to its type: every
\* field there, at every depth, absent ones with their defaults, lists with all
\* their elements whatever keys they had (PBEncode, PBDecode of
\* scripts/proto_main.lua).
RoundTrip ==
  last.op = "decode" /\ last.out = "ok" => Means(last.type, last.source, last.value)

\* Converting a message to a table ends, unless its type or that of a message in
\* it can hold itself in fields that are not repeated: PushProtobufToLuaTable then
\* follows the default instance into itself until the C stack is gone.  And a
\* conversion, in either direction, needs four slots and three for each level of
\* nesting at most: only tables nested too deep overrun the stack of a C function.
DecodeEnds ==
  /\ last.op = "decode" /\ last.out # "null" => 
       (last.out = "endless" <=> HoldsEndless(last.type, last.source))
  /\ last.out = "overflow" => 4 + 3 * Levels(last.type, last.source) > MinStack

\* A call of PBEncode that succeeds deletes every message it created, those
\* nested in it included, and leaves the stack as it found it.  One that fails
\* leaks no more than the messages it was in the middle of, one for each level.
EncodeIsClean ==
  [][last'.op = "encode" =>
       /\ last'.out = "ok" => leaked' = leaked /\ last'.top = 0
       /\ last'.out \in {"null", "error"} =>
            leaked' - leaked <= 1 + Levels(last'.type, last'.source)]_vars
=============================================================================
