------------------------ MODULE MCCapabilityApproval ------------------------
(* CapabilityApproval for TLC: requests and tasks are interchangeable.     *)
EXTENDS CapabilityApproval, TLC

Symmetry == Permutations(Ids) \cup Permutations(Tasks)
=============================================================================
