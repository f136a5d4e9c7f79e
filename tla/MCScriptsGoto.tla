--------------------------- MODULE MCScriptsGoto ----------------------------
(* One script: an if whose block begins with a goto and has a label next to it. *)
EXTENDS Scripts

Parser == INSTANCE LuaParser
Texts == INSTANCE LuaPrograms

MCHeader == <<"Lua", 83>>
LabelAfterGoto ==
  <<Texts!Local(<<"x">>, <<Texts!BoolK(TRUE)>>),
    Texts!If(<< <<Texts!N("x"),
      <<Texts!Goto("there"), Texts!LabelS("here"), Texts!Emit(<<Texts!K(2)>>), Texts!Do(<<Texts!Ret(<< >>)>>),
        Texts!LabelS("there"), Texts!Emit(<<Texts!K(3)>>), Texts!Goto("here")>>>> >>, << >>),
    Texts!Emit(<<Texts!K(9)>>)>>
MCMenu ==
  LET tokens == Texts!Source(LabelAfterGoto)
  IN {[chunk |-> C.last, sound |-> Parser!Sound(C), meant |-> Texts!Meaning(LabelAfterGoto),
       via |-> "text", read |-> Compiled(C.last)] : C \in {Parser!Parse(tokens, "script")}}
=============================================================================
