----------------------------- MODULE MCModelCall -----------------------------
(* Three attempts: enough for a late body read of the first attempt to     *)
(* meet a third one after a retry that failed in another way.              *)
EXTENDS ModelCall
=============================================================================
