-------------------------- MODULE MCCalibrationRamp --------------------------
(* CalibrationRamp with one tick for 5 s: steps of four ticks, a read        *)
(* timeout of one, pacing degraded by one tick of lateness.                  *)
EXTENDS CalibrationRampProps

MCSteps == << [interval |-> 2, bound |-> 1], [interval |-> 1, bound |-> 2] >>
MCOffsets == << 0, 0, 1 >>

=============================================================================
