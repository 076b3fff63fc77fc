---------------------------- MODULE MCSessionLife -----------------------------
(* One session that changes and may end, one that stays: the reaper must   *)
(* tell them apart.  Two runs of the hub, one sleep of the machine.        *)
(* Liveness, hence no symmetry.                                            *)
EXTENDS SessionLife
=============================================================================
