------------------------------ MODULE MCLuaGC ------------------------------
(***************************************************************************)
(* Small programs for LuaGC, each with its own kinds of objects.           *)
(***************************************************************************)
EXTENDS LuaGC

Uses(kinds, metas, fields) == [kinds |-> kinds, metas |-> metas, fields |-> fields]
Ephemerons == Uses([table |-> 2], {"", "k"}, {"move", "node"})
WeakValues == Uses([table |-> 2], {"", "v"}, {"move", "array"})
WeakStrings == Uses([str |-> 1, table |-> 1], {"kv"}, {"move", "array"})
Finalizers == Uses([udata |-> 2], {"gc"}, {"move", "array"})
Closures == Uses([lcl |-> 2, proto |-> 1], {}, {"move"})
Coroutines == Uses([lcl |-> 1, proto |-> 1, thread |-> 1], {}, {})
Everything == {Ephemerons, WeakValues, WeakStrings, Finalizers, Closures, Coroutines}
OnlyFinalizers == {Finalizers}
Reclaimed == {Finalizers, Closures, WeakValues}
=============================================================================
