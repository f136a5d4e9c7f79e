---------------------------- MODULE MCLuaThread -----------------------------
(***************************************************************************)
(* Two coroutines and the main thread, with every C function that calls.   *)
(***************************************************************************)
EXTENDS LuaThread

AllKinds == {"pcall", "xpcall", "callk", "sort"}
=============================================================================
