------------------------------ MODULE LuaStack ------------------------------
(***************************************************************************)
(* The part of the Lua C API that LuaWrapper is built on: the window of    *)
(* the Lua stack that one C activation sees, as a sequence whose last      *)
(* element is the top.  Index 1 is the bottom slot, index -1 the top one.  *)
(***************************************************************************)
EXTENDS Integers, Sequences

\* A stack index, absolute or relative to the top, as an absolute one.
AbsIndex(s, idx) == IF idx > 0 THEN idx ELSE Len(s) + idx + 1

\* The index names a slot that holds a value.
IsSlot(s, idx) == AbsIndex(s, idx) \in 1 .. Len(s)

ValueAt(s, idx) == s[AbsIndex(s, idx)]

\* lua_settop to a height the stack has already reached.
SetTop(s, n) == SubSeq(s, 1, n)

Pop(s, n) == SetTop(s, Len(s) - n)

TopOf(s) == ValueAt(s, -1)
=============================================================================
