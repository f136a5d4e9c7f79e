--------------------------- MODULE MCHandlerTable ---------------------------
(***************************************************************************)
(* A small instance of HandlerTable, with clients that check what they     *)
(* register and address it from the bottom of the window.                  *)
(***************************************************************************)
EXTENDS HandlerTable, TLC

Positive == {1, 2}
AnyState == {"main", "coroutine"}
=============================================================================
