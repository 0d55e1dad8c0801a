---------------------------- MODULE MCFlowHandoff ----------------------------
(* FlowHandoff for TLC: the two hosts are interchangeable, as are the devices. *)
EXTENDS FlowHandoff, TLC

HostAndDeviceSymmetry == Permutations(Hosts) \cup Permutations(Devices)

=============================================================================
