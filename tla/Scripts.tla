------------------------------ MODULE Scripts -------------------------------
(***************************************************************************)
(* A script on its way through the embedded Lua: the compiled function is  *)
(* loaded, from its text or from a precompiled chunk that may have been    *)
(* cut short, and executed.                                                *)
(***************************************************************************)
EXTENDS LuaVM, LuaDump

\* The scripts: the function the compiler made of each (chunk), whether the
\* assertions of the compiler held (sound), what the script means (meant), how
\* it comes to be loaded (via: "text", "dump" or "stripped"), and what reading
\* it gave (read).
CONSTANT Menu

\* f_parser: a text is compiled, a precompiled chunk is undumped; its last n
\* items may be missing.
Compiled(f) == [v |-> f, err |-> ""]
Undumped(f, via, n) ==
  LET d == Dump(f, via = "stripped")
      S == Undump(SubSeq(d, 1, Max({0, Len(d) - n})))
  IN [v |-> IF S.err = "" THEN S.v ELSE << >>, err |-> S.err]

VARIABLE script
vars == <<vm, script>>

Init == Idle /\ script \in Menu

Load ==
  /\ status = "loading"
  /\ \/ script.read.err = "" /\ Begin(script.read.v)
     \/ script.read.err # "" /\ Raise
  /\ UNCHANGED script
Run == Execute /\ UNCHANGED script
Ended == status \in {"done", "error"}
Rest == Ended /\ UNCHANGED vars

Next == Load \/ Run \/ Rest
Spec == Init /\ [][Next]_vars
\* The machine goes on to the next instruction. One that jumps to itself changes
\* nothing, so that the script stays where it is.
FairSpec == Spec /\ WF_vars(Next)

-----------------------------------------------------------------------------
Loaded == chunk # << >>

\* What a script shows and how it ends are what its text means, whatever
\* registers, jump lists, upvalues and tail calls it was compiled to.
RunsAsWritten == Ended /\ Loaded => out = script.meant.out /\ status = script.meant.status

\* The assertions of lparser.c and lcode.c: temporary registers are released in
\* the order opposite to their reservation, every block leaves the registers it
\* found, and when the main function is closed no local variable, pending goto
\* or label is left behind (luaY_parser).
CompilerAssertionsHold == script.sound

\* What a stripped function has lost: its source and the names of its upvalues.
RECURSIVE Stripped(_)
Stripped(f) == [f EXCEPT !.source = NoString,
                         !.ups = [i \in DOMAIN @ |-> [@[i] EXCEPT !.name = NoString]],
                         !.p = [i \in DOMAIN @ |-> Stripped(@[i])]]
\* A precompiled chunk gives back the function that was dumped, with every
\* constant, nested function, upvalue and inherited source; a chunk cut short
\* at any item is refused before anything of it runs.
LoadedIsWhole == Loaded => chunk = IF script.via = "stripped" THEN Stripped(script.chunk) ELSE script.chunk

\* An open upvalue refers to a variable of a frame that is still active, and
\* closures that share the variable share the upvalue (luaF_findupval,
\* luaF_close): a block or a call left by any way has closed its own.
OpenUpvaluesAreLive ==
  status = "running" =>
    /\ \A u \in DOMAIN upvals :
         upvals[u].at > 0 => /\ \E i \in DOMAIN ci : upvals[u].at \in ci[i].base .. ci[i].top - 1
                             /\ stack[upvals[u].at] # Dead
    /\ \A u, w \in DOMAIN upvals : upvals[u].at > 0 /\ upvals[u].at = upvals[w].at => u = w

\* A register is written before it is read: what no instruction wrote is never
\* stored in a table, kept by a closed upvalue or given to the host, however
\* many values calls, varargs and multiple results provided.
UnwrittenIsNotRead ==
  /\ \A t \in DOMAIN tables : \A k \in DOMAIN tables[t] : k # Dead /\ tables[t][k] # Dead
  /\ \A u \in DOMAIN upvals : upvals[u].v # Dead
  /\ \A i \in DOMAIN out : Dead \notin ToSet(out[i])

\* Every script comes to its end: no jump list, loop or tail call goes round
\* for ever, and no instruction is left that the machine cannot execute.
ScriptsEnd == <>Ended
=============================================================================
