--------------------------- MODULE WsSubscriptions ---------------------------
(***************************************************************************)
(* Who is subscribed to what on the hub's WebSocket, and the counter the   *)
(* hub keeps of `actions` clients per session (packages/hub/src/ws/        *)
(* connection.ts and server.ts).  The counter is never recomputed: each    *)
(* subscribe, unsubscribe, close and session registration adjusts it by    *)
(* one, and a fall to zero releases the session's pending approvals.       *)
(*                                                                         *)
(* A client subscribes to a set of session ids or to 'all'.  For 'all' the *)
(* code compares with the registry's list at the moment of the message and *)
(* follows later registrations with a listener.                            *)
(***************************************************************************)
EXTENDS Naturals, FiniteSets

CONSTANTS
  Clients,         \* WebSocket connections that identified themselves
  ActionsClients,  \* those that declared the `actions` capability
  Sessions         \* sesshin session ids

ASSUME ClientsAssumption ==
  ActionsClients \subseteq Clients /\ IsFiniteSet(Clients)

VARIABLES
  live,       \* ids in the session registry
  gone,       \* ids that were removed from it; ids are never reused
  connected,  \* clients with an open, identified socket
  allSub,     \* clients whose subscribedTo is 'all'
  sub,        \* the explicit subscribedTo set of every other client
  listening,  \* clients with a session-added listener (allSubAddedListener)
  count       \* actionsBySession; 0 where the map has no entry

vars == <<live, gone, connected, allSub, sub, listening, count>>

Init ==
  /\ live = {}
  /\ gone = {}
  /\ connected = {}
  /\ allSub = {}
  /\ sub = [c \in Clients |-> {}]
  /\ listening = {}
  /\ count = [s \in Sessions |-> 0]

-----------------------------------------------------------------------------

IsSubscribed(c, s) == c \in allSub \/ s \in sub[c]

(* `prev` of the subscribe handler: 'all' stands for the live registry.    *)
Subscribed(c) == IF c \in allSub THEN live ELSE sub[c]

(* Only clients with the capability take part in the counting.             *)
Counted(c, S) == IF c \in ActionsClients THEN S ELSE {}

\* Faulty variant: a client that leaves is never counted down.
BumpedUpOnly(up, down) ==
  [s \in Sessions |-> IF s \in up THEN count[s] + 1 ELSE count[s]]

(* bumpActions(id, +1) for the ids of `up`, bumpActions(id, -1) for `down` *)
Bumped(up, down) ==
  [s \in Sessions |->
     IF s \in up THEN count[s] + 1
     ELSE IF s \in down /\ count[s] > 0 THEN count[s] - 1
     ELSE count[s]]

(* The sessions for which this step is the one that takes the counter from *)
(* above zero to zero: bumpActions calls onLastActionsClientGone for them. *)
LastActionsClientGone == {s \in Sessions : count[s] > 0 /\ count'[s] = 0}

HasSubscribedActionsClient(s) == count[s] > 0

-----------------------------------------------------------------------------
(* Messages and socket events                                              *)

Connect(c) ==
  /\ c \notin connected
  /\ connected' = connected \cup {c}
  /\ UNCHANGED <<live, gone, allSub, sub, listening, count>>

(* subscribe with an explicit list: diff against the previous set, then    *)
(* replace it and stop following new sessions.                             *)
SubscribeTo(c, S) ==
  /\ c \in connected
  /\ count' = Bumped(Counted(c, S \ Subscribed(c)), Counted(c, Subscribed(c) \ S))
  /\ sub' = [sub EXCEPT ![c] = S]
  /\ allSub' = allSub \ {c}
  /\ listening' = listening \ {c}
  /\ UNCHANGED <<live, gone, connected>>

\* Faulty variant: nothing follows the sessions registered later.
SubscribeAllOnce(c) ==
  /\ c \in connected
  /\ count' = Bumped(Counted(c, live \ Subscribed(c)),
                     Counted(c, Subscribed(c) \ live))
  /\ sub' = [sub EXCEPT ![c] = {}]
  /\ allSub' = allSub \cup {c}
  /\ UNCHANGED <<live, gone, connected, listening>>

SubscribeAll(c) ==
  /\ c \in connected
  /\ count' = Bumped(Counted(c, live \ Subscribed(c)),
                     Counted(c, Subscribed(c) \ live))
  /\ sub' = [sub EXCEPT ![c] = {}]
  /\ allSub' = allSub \cup {c}
  /\ listening' = listening \cup Counted(c, {c})
  /\ UNCHANGED <<live, gone, connected>>

(* unsubscribe: 'all' turns into the explicit set of what remains.         *)
Unsubscribe(c, S) ==
  /\ c \in connected
  /\ count' = Bumped({}, Counted(c, Subscribed(c) \cap S))
  /\ sub' = [sub EXCEPT ![c] = Subscribed(c) \ S]
  /\ allSub' = allSub \ {c}
  /\ listening' = IF c \in allSub THEN listening \ {c} ELSE listening
  /\ UNCHANGED <<live, gone, connected>>

\* Faulty variant: every session is counted down, watched by c or not, and
\* without the check against falling below zero.
CloseCountingAll(c) ==
  /\ c \in connected
  /\ count' = [s \in Sessions |-> count[s] - 1]
  /\ connected' = connected \ {c}
  /\ sub' = [sub EXCEPT ![c] = {}]
  /\ allSub' = allSub \ {c}
  /\ listening' = listening \ {c}
  /\ UNCHANGED <<live, gone>>

Close(c) ==
  /\ c \in connected
  /\ count' = Bumped({}, Counted(c, Subscribed(c)))
  /\ connected' = connected \ {c}
  /\ sub' = [sub EXCEPT ![c] = {}]
  /\ allSub' = allSub \ {c}
  /\ listening' = listening \ {c}
  /\ UNCHANGED <<live, gone>>

(* The registry emits session-added; each listener bumps the counter once. *)
RegisterSession(s) ==
  /\ s \notin live \cup gone
  /\ live' = live \cup {s}
  /\ count' = [count EXCEPT ![s] = @ + Cardinality(listening)]
  /\ UNCHANGED <<gone, connected, allSub, sub, listening>>

(* Nothing of the WebSocket layer's bookkeeping reacts to session-removed. *)
RemoveSession(s) ==
  /\ s \in live
  /\ live' = live \ {s}
  /\ gone' = gone \cup {s}
  /\ UNCHANGED <<connected, allSub, sub, listening, count>>

Next ==
  \/ \E c \in Clients :
       \/ Connect(c)
       \/ SubscribeAll(c)
       \/ Close(c)
       \/ \E S \in SUBSET Sessions : SubscribeTo(c, S) \/ Unsubscribe(c, S)
  \/ \E s \in Sessions : RegisterSession(s) \/ RemoveSession(s)

Spec == Init /\ [][Next]_vars

-----------------------------------------------------------------------------
(* Properties                                                              *)

TypeOK ==
  /\ live \subseteq Sessions
  /\ gone \subseteq Sessions
  /\ connected \subseteq Clients
  /\ allSub \subseteq Clients
  /\ sub \in [Clients -> SUBSET Sessions]
  /\ listening \subseteq Clients
  /\ count \in [Sessions -> Nat]

(* The clients an approval of session s could be shown to.                 *)
Watchers(s) == {c \in connected \cap ActionsClients : s \in Subscribed(c)}

\* The incremental counter equals the number of connected actions clients
\* whose subscription covers the session, for every session not yet removed:
\* no order of subscribe, unsubscribe, close and registration makes it drift.
CountExact ==
  \A s \in Sessions \ gone : count[s] = Cardinality(Watchers(s))

\* onLastActionsClientGone fires for a live session exactly on the step that
\* takes its last watcher away: never while somebody still watches (approvals
\* would be released under their eyes), and never omitted.
ReleaseSignalExact ==
  [][\A s \in live \cap live' :
       (count[s] > 0 /\ count'[s] = 0) <=> (Watchers(s) # {} /\ Watchers(s)' = {})
    ]_vars

\* What server.ts:58 says of hasSubscribedActionsClient: true iff at least one
\* connected client with the actions capability is subscribed to the session.
CountedMeansWatched ==
  \A s \in Sessions :
    HasSubscribedActionsClient(s) =>
      \E c \in connected \cap ActionsClients : IsSubscribed(c, s)
=============================================================================
