------------------------- MODULE MCApprovalManager -------------------------
(* Three requests, so that two can share a tool_use_id or a fingerprint     *)
(* while a third differs; two sessions, so that keys and cancellation must  *)
(* tell sessions apart.                                                     *)
EXTENDS ApprovalManager, TLC

Symmetry == Permutations(Requests) \cup Permutations(Sessions)
=============================================================================
