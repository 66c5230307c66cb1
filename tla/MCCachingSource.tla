--------------------------- MODULE MCCachingSource ---------------------------
(* CachingSource with interchangeable callers, for the safety run.         *)
EXTENDS CachingSource, TLC

CallerSymmetry == Permutations(Caller)

=============================================================================
