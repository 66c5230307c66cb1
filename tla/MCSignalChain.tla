---------------------------- MODULE MCSignalChain ----------------------------
(* SignalChain with interchangeable requests.                              *)
EXTENDS SignalChain, TLC

RequestSymmetry == Permutations(Request)

=============================================================================
