----------------------------- MODULE MCDebugger -----------------------------
(***************************************************************************)
(* A small instance of Debugger: a host and scripts that do everything.    *)
(***************************************************************************)
EXTENDS Debugger

Everything == Features
=============================================================================
