---------------------------- MODULE MCCommandChains ----------------------------
(* One device, two groups of it. *)
EXTENDS CommandChains

MCMembers == [x \in Groups |-> Devices]

=============================================================================
