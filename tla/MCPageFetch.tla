----------------------------- MODULE MCPageFetch ------------------------------
(* A small instance of PageFetch: two pages overlap in every way, and one   *)
(* third party comes and goes.                                              *)
EXTENDS PageFetch
===============================================================================
