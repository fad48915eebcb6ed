----------------------------- MODULE MCLocalStore -----------------------------
(***************************************************************************)
(* Instances of LocalStore for TLC.                                        *)
(***************************************************************************)
EXTENDS LocalStore, TLC
CONSTANTS e1, e2, p1, p2, h1, h2
Two == {e1, e2}
TwoWords == {p1, p2}
OneButton == {h1}
TwoButtons == {h1, h2}
Interchangeable == Permutations(Two) \cup Permutations(TwoWords)
===============================================================================
