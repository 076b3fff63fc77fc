--------------------------- MODULE MCHubSessions ---------------------------
(* Two sessions that one actions client may watch together or apart, and a *)
(* request in each: a step that concerns several sessions at once, and      *)
(* liveness, hence no symmetry.  The conversations inside a session are     *)
(* left to MCHubApprovals.                                                  *)
EXTENDS HubApprovals

CONSTANTS s1, s2, main, task, f1, t1

MCRequests == {main, task}
MCToolOf == [r \in MCRequests |-> IF r = main THEN "Bash" ELSE "Edit"]
MCSessions == {s1, s2}
MCAsks == {<<main, s1, f1, t1>>, <<task, s2, f1, None>>}
=============================================================================
