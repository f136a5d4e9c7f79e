------------------------------ MODULE LuaDump -------------------------------
(***************************************************************************)
(* Precompiled chunks: a function written as a sequence of items           *)
(* (ldump.c) and read back (lundump.c).  Nothing in the sequence says what *)
(* an item is: the reader must take the items in the writer's order.       *)
(***************************************************************************)
EXTENDS LuaValues

CONSTANT Header   \* signature, version, format, sizes, LUAC_INT, LUAC_NUM

NoString == ""
Bit(b) == IF b THEN 1 ELSE 0

-----------------------------------------------------------------------------
(* Writing *)

DumpString(s) == IF s = NoString THEN <<0>> ELSE <<Len(s) + 1, s>>
DumpVector(s, DumpOne(_)) == <<Len(s)>> \o FlattenSeq([i \in DOMAIN s |-> DumpOne(s[i])])
DumpConstant(v) == IF v = Nil THEN <<"nil">> ELSE IF v[1] = "bool" THEN <<"bool", Bit(v[2])>> ELSE v
DumpUpvalue(u) == <<Bit(u.instack), u.idx>>
DumpDebug(f, strip) == DumpVector(IF strip THEN << >> ELSE f.ups, LAMBDA u : DumpString(u.name))

RECURSIVE DumpFunction(_, _, _)
DumpFunction(f, psource, strip) ==
  DumpString(IF strip \/ f.source = psource THEN NoString ELSE f.source)
    \o <<f.numparams, Bit(f.vararg), f.maxstack>>
    \o DumpVector(f.code, LAMBDA i : <<i>>)
    \o DumpVector(f.k, DumpConstant)
    \o DumpVector(f.ups, DumpUpvalue)
    \o DumpVector(f.p, LAMBDA p : DumpFunction(p, f.source, strip))
    \o DumpDebug(f, strip)
Dump(f, strip) == Header \o <<Len(f.ups)>> \o DumpFunction(f, NoString, strip)

-----------------------------------------------------------------------------
(* Reading.  S: the items left, the value just read, what is wrong. *)

LoadItem(S) ==
  IF S.err # "" \/ S.z = << >>
  THEN [S EXCEPT !.v = 0, !.err = IF @ = "" THEN "truncated" ELSE @]
  ELSE [S EXCEPT !.v = Head(S.z), !.z = Tail(S.z)]
LoadString(S) ==
  LET size == LoadItem(S)
      s == LoadItem(size)
  IN IF size.v = 0 THEN [size EXCEPT !.v = NoString]
     ELSE [s EXCEPT !.v = IF s.err = "" THEN @ ELSE NoString]
LoadVector(S, LoadOne(_)) ==
  LET n == LoadItem(S)
  IN FoldLeft(LAMBDA T, i : LET r == LoadOne(T) IN [r EXCEPT !.v = Append(T.v, @)],
              [n EXCEPT !.v = << >>], [i \in 1 .. n.v |-> i])
LoadConstant(S) ==
  LET t == LoadItem(S)
      x == LoadItem(t)
  IN IF t.err # "" THEN t
     ELSE IF t.v = "nil" THEN [t EXCEPT !.v = Nil]
     ELSE [x EXCEPT !.v = IF t.v = "bool" THEN Bool(@ = 1) ELSE <<t.v, @>>]
LoadUpvalue(S) ==
  LET instack == LoadItem(S)
      idx == LoadItem(instack)
  IN [idx EXCEPT !.v = [name |-> NoString, instack |-> instack.v = 1, idx |-> @]]

\* Mutant: the parent's source is not inherited.
SourceOfFault(read, psource) == read
\* A nested function without a source has its parent's.
SourceOf(read, psource) == IF read = NoString THEN psource ELSE read

\* The parts of a function, in the order of luaF_LoadFunction.
RECURSIVE LoadFunction(_, _)
LoadPart(S, part, source) ==
  CASE part \in {"numparams", "vararg", "maxstack"} -> LoadItem(S)
    [] part = "code" -> LoadVector(S, LoadItem)
    [] part = "k" -> LoadVector(S, LoadConstant)
    [] part = "ups" -> LoadVector(S, LoadUpvalue)
    [] part = "p" -> LoadVector(S, LAMBDA T : LoadFunction(T, source))
    [] part = "names" -> LoadVector(S, LoadString)
Parts == <<"numparams", "vararg", "maxstack", "code", "k", "ups", "p", "names">>
FunctionOf(part) ==
  [source |-> part.source, code |-> part.code, k |-> part.k, p |-> part.p, maxstack |-> part.maxstack,
   ups |-> [i \in DOMAIN part.ups |->
              IF i <= Len(part.names) THEN [part.ups[i] EXCEPT !.name = part.names[i]] ELSE part.ups[i]],
   numparams |-> part.numparams, vararg |-> part.vararg = 1]
LoadFunction(S, psource) ==
  LET read == LoadString(S)
      whole == FoldLeft(LAMBDA T, part : LET r == LoadPart(T, part, T.v.source)
                                         IN [r EXCEPT !.v = (part :> @) @@ T.v],
                        [read EXCEPT !.v = ("source" :> SourceOf(@, psource))], Parts)
  IN [whole EXCEPT !.v = FunctionOf(@)]

CheckHeader(S) ==
  FoldLeft(LAMBDA T, item : LET r == LoadItem(T)
                            IN IF r.err = "" /\ r.v # item THEN [r EXCEPT !.err = "header"] ELSE r,
           S, Header)
Undump(z) ==
  LET n == LoadItem(CheckHeader([z |-> z, v |-> 0, err |-> ""]))
      f == LoadFunction(n, NoString)
  IN IF f.err = "" /\ Len(f.v.ups) # n.v THEN [f EXCEPT !.err = "upvalues"] ELSE f
=============================================================================
