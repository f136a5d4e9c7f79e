----------------------------- MODULE MCScripts ------------------------------
(* Model checking of the compiler, precompiled chunks and the virtual machine. *)
EXTENDS Scripts

Parser == INSTANCE LuaParser
Texts == INSTANCE LuaPrograms

MCHeader == <<"Lua", 83, 0, "data", 4, 8, 4, 8, 8, 22136, 370>>
\* A program, loaded from its text or from a chunk that lacks its last items.
Script(C, meant, via, missing) ==
  [chunk |-> C.last, sound |-> Parser!Sound(C), meant |-> meant, via |-> via,
   read |-> IF via = "text" THEN Compiled(C.last) ELSE Undumped(C.last, via, missing)]
\* A chunk may be cut at every item.
Missing(f, via) == 0 .. Len(Dump(f, via = "stripped")) - 1
Ways(p, f) ==
  {<<"text", 0>>} \cup
  IF p \notin Texts!Precompiled THEN {}
  ELSE UNION {{via} \X Missing(f, via) : via \in {"dump", "stripped"}}
MCMenu ==
  LET Scripts(p) ==
        UNION {{Script(C, m, w[1], w[2]) : w \in Ways(p, C.last)} :
                 C \in {Parser!Parse(Texts!Source(p), "script")}, m \in {Texts!Meaning(p)}}
  IN UNION {Scripts(p) : p \in Texts!Programs}
=============================================================================
