---------------------------- MODULE MCRecentUse ----------------------------
(***************************************************************************)
(* RecentUse on a small set of keys, which are interchangeable.            *)
(***************************************************************************)
EXTENDS RecentUse, TLC

KeySymmetry == Permutations(Keys)
=============================================================================
