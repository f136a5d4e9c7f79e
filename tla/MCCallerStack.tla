--------------------------- MODULE MCCallerStack ---------------------------
(***************************************************************************)
(* Small instances of CallerStack.  The values of a Lua type are taken     *)
(* from the constants of the configuration; a host profile is a set Uses.  *)
(***************************************************************************)
EXTENDS CallerStack, TLC

\* Global variables of the kinds a lookup tells apart: called, or indexed.
AnyGlobal == Functions \cup Tables
TableGlobal == Tables

TableUses  == {"table", "field", "raise"}
Everything == Features

Symmetric == Permutations(Callers) \cup Permutations(Brackets)
=============================================================================
