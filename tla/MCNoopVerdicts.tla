--------------------------- MODULE MCNoopVerdicts ---------------------------
(* Two values of one colour key, and one of the other. *)
EXTENDS NoopVerdicts

MCSettings == {[key |-> "color_temp", value |-> 0], [key |-> "color_temp", value |-> 1],
               [key |-> "color", value |-> 0]}
=============================================================================
