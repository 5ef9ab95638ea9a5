--------------------------- MODULE MCOperationQueue ---------------------------
(* A small instance of OperationQueue. *)
EXTENDS OperationQueue
===============================================================================
