------------------------- MODULE MCTransformService -------------------------
(***************************************************************************)
(* TransformService on small sets of threads and keys.                     *)
(***************************************************************************)
EXTENDS TransformService, TLC

\* Threads and keys are interchangeable where only safety is checked.
ThreadKeySymmetry == Permutations(Keys) \cup Permutations(Threads)
=============================================================================
