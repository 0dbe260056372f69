---------------------------- MODULE MCRawEventLog ----------------------------
(* RawEventLog for TLC: the bounds are all in the configurations. *)
EXTENDS RawEventLog

=============================================================================
