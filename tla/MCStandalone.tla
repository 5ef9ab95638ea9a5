---------------------------- MODULE MCStandalone -----------------------------
(* A small instance of Standalone.  The user has no document, a broken one, *)
(* one without a credential file, linked or not, or one that names a file   *)
(* and selects models.  Calls are interchangeable, and so are setups.       *)
EXTENDS Standalone, TLC

Doc(form, keyFile, choice, link) ==
  [form |-> form, keyFile |-> keyFile, choice |-> choice, linked |-> link]

MCDocs ==
  {Doc("missing", None, Stock, FALSE), Doc("broken", None, Stock, FALSE),
   Doc("valid", None, "chosen", FALSE), Doc("valid", None, "chosen", TRUE),
   Doc("valid", "custom", "chosen", FALSE)}

MCLaunches ==
  {[key |-> None, codex |-> TRUE], [key |-> None, codex |-> FALSE], [key |-> "spaced", codex |-> TRUE]}

MCSymmetry == Permutations(Calls) \cup Permutations(Setups)
===============================================================================
