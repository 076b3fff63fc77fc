--------------------------- MODULE MCHubApprovals ---------------------------
(* One session and every kind of event: a main-thread call and a subagent  *)
(* call for the same thing, one with a tool_use_id and one without, two    *)
(* actions clients, two Claude conversations.                              *)
EXTENDS HubApprovals, TLC

CONSTANTS s1, main, task, f1, t1

MCRequests == {main, task}
MCToolOf == [r \in MCRequests |-> IF r = main THEN "Bash" ELSE "Edit"]
MCAsks == {<<main, s1, f1, None>>, <<task, s1, f1, t1>>}
(* What the search for a finished session that runs again is confined to:  *)
(* a request is made in a conversation that was announced.                 *)
AskedInConversation == \A r \in Requests : http[r] = "held" => openedIn[r] # None
Symmetry == Permutations(Clients) \cup Permutations(Children)
=============================================================================
