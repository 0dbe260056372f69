----------------------- MODULE MCCalibrationLifecycle -----------------------
(* CalibrationLifecycle on two tokens, batches of up to two runs, a TTL and *)
(* a cool-down of two ticks each.                                           *)
EXTENDS CalibrationLifecycleProps, TLC

Symmetry == Permutations(Tokens)

=============================================================================
