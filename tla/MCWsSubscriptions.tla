------------------------- MODULE MCWsSubscriptions -------------------------
(* Two actions clients and a viewer without the capability, over two       *)
(* sessions: enough for one client to leave while the other stays, for a   *)
(* session to appear or vanish under an 'all' subscription, and for a      *)
(* socket to drop several sessions at once.                                *)
EXTENDS WsSubscriptions, TLC

CONSTANTS a1, a2, v1

MCClients == {a1, a2, v1}
MCActionsClients == {a1, a2}
Symmetry == Permutations(MCActionsClients) \cup Permutations(Sessions)
=============================================================================
