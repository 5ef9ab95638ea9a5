----------------------------- MODULE MCCacheStore -----------------------------
(* Small instances of CacheStore.  Runs are interchangeable, and so are     *)
(* folders; TLC uses it in the runs that check no liveness property.        *)
EXTENDS CacheStore, TLC

CONSTANTS e1, s1, q1, q2

OnePath == {q1}
TwoPaths == {q1, q2}
MCExtFiles == {e1}
MCSrcFiles == {s1}

(* Every run extracts one page; its full text is cached or is not, so that *)
(* two runs may write different file sets.                                 *)
MCFileSets == {{e1, s1}, {e1}}
OneFileSet == {{e1, s1}}

RunSymmetry == Permutations(Runs)
===============================================================================
