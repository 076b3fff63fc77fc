-------------------------- MODULE HubClientsProofs --------------------------
(***************************************************************************)
(* What the clients of HubApprovals see, for every set of clients,         *)
(* sessions and requests: the cards on a screen are the requests that      *)
(* wait, and the last client that leaves leaves nothing waiting.           *)
(*                                                                         *)
(* Facts proved of a module cannot be cited of an instance of it, so the   *)
(* counting argument of WsSubscriptionsProofs is made again for WS.        *)
(***************************************************************************)
EXTENDS HubApprovalsProofs, FiniteSetTheorems

-----------------------------------------------------------------------------
(* The subscriptions                                                       *)

\* The instance has its own name for the same operator.
LEMMA SameCardinality == \A S : WS!Cardinality(S) = Cardinality(S)
BY DEF WS!Cardinality, Cardinality

\* What keeps the counting right: removed ids stay removed, a closed socket
\* has no subscription, 'all' replaces the explicit set, and exactly the
\* actions clients on 'all' follow new sessions.
Bookkeeping ==
  /\ live \cap gone = {}
  /\ allSub \subseteq connected
  /\ \A c \in Clients : c \in allSub \/ c \notin connected => sub[c] = {}
  /\ listening = allSub \cap ActionsClients

\* The inductive invariant.
SubscriptionInv == WS!TypeOK /\ Bookkeeping /\ WS!CountExact

\* The watchers of a session can be counted.
LEMMA WatchersFinite ==
  ASSUME NEW s \in Sessions
  PROVE  IsFiniteSet(WS!Watchers(s)) /\ WS!Cardinality(WS!Watchers(s)) \in Nat
<1>1. WS!Watchers(s) \in SUBSET Clients
  BY ClientsAssumption DEF WS!Watchers
<1> QED
  BY SameCardinality, <1>1, ClientsAssumption, FS_Subset, FS_CardinalityType

\* Nobody is connected and nothing is counted at the start.
LEMMA InitSubscriptionInv == WS!Init => SubscriptionInv
<1> SUFFICES ASSUME WS!Init PROVE SubscriptionInv
  OBVIOUS
<1>1. WS!TypeOK /\ Bookkeeping
  BY DEF WS!Init, WS!TypeOK, Bookkeeping
<1>2. \A s \in Sessions : WS!Watchers(s) = {}
  BY DEF WS!Init, WS!Watchers
<1> QED
  BY SameCardinality, <1>1, <1>2, FS_EmptySet DEF WS!Init, SubscriptionInv, WS!CountExact

-----------------------------------------------------------------------------
(* One client moves its subscription from one set of sessions to another   *)

\* Client c now has the subscription A; everybody else has what they had.
Moved(c, A) ==
  /\ connected' \in {connected, connected \ {c}}
  /\ c \notin connected' => A = {}
  /\ WS!Subscribed(c)' = A
  /\ \A d \in Clients \ {c} : WS!Subscribed(d)' = WS!Subscribed(d)

\* The watchers of a session after one client moved.
LEMMA MovedWatchers ==
  ASSUME WS!TypeOK, NEW c \in connected, NEW A \in SUBSET Sessions, Moved(c, A),
         NEW s \in Sessions
  PROVE  WS!Watchers(s)' = IF s \in A /\ c \in ActionsClients
                          THEN WS!Watchers(s) \cup {c} ELSE WS!Watchers(s) \ {c}
BY ClientsAssumption DEF WS!Watchers, Moved, WS!TypeOK

\* Bumping by the difference of the two sets keeps the counter exact.
LEMMA MovedCount ==
  ASSUME SubscriptionInv, NEW c \in connected, NEW A \in SUBSET Sessions,
         Moved(c, A), gone' = gone,
         count' = WS!Bumped(WS!Counted(c, A \ WS!Subscribed(c)),
                         WS!Counted(c, WS!Subscribed(c) \ A))
  PROVE  WS!CountExact'
<1> SUFFICES ASSUME NEW s \in Sessions \ gone
             PROVE  count'[s] = WS!Cardinality(WS!Watchers(s)')
  BY DEF WS!CountExact
<1>1. count[s] = WS!Cardinality(WS!Watchers(s)) /\ count[s] \in Nat
  BY DEF SubscriptionInv, WS!CountExact, WS!TypeOK
<1>2. IsFiniteSet(WS!Watchers(s))
  BY WatchersFinite
<1>3. c \in WS!Watchers(s) <=> c \in ActionsClients /\ s \in WS!Subscribed(c)
  BY DEF WS!Watchers
<1>4. WS!Watchers(s)' = IF s \in A /\ c \in ActionsClients
                       THEN WS!Watchers(s) \cup {c} ELSE WS!Watchers(s) \ {c}
  BY MovedWatchers DEF SubscriptionInv
<1>5. CASE s \in A /\ c \in ActionsClients
  <2>1. count'[s] = IF c \in WS!Watchers(s) THEN count[s] ELSE count[s] + 1
    BY <1>3, <1>5 DEF WS!Bumped, WS!Counted
  <2>2. WS!Cardinality(WS!Watchers(s)') =
          IF c \in WS!Watchers(s) THEN count[s] ELSE count[s] + 1
    <3>1. WS!Watchers(s)' = WS!Watchers(s) \cup {c}
      BY <1>4, <1>5
    <3> QED
      BY SameCardinality, <1>1, <1>2, <3>1, FS_AddElement
  <2> QED
    BY <2>1, <2>2
<1>6. CASE ~ (s \in A /\ c \in ActionsClients)
  <2>1. WS!Cardinality(WS!Watchers(s)') =
          IF c \in WS!Watchers(s) THEN count[s] - 1 ELSE count[s]
    BY SameCardinality, <1>1, <1>2, <1>4, <1>6, FS_RemoveElement
  <2>2. c \in WS!Watchers(s) => count[s] > 0
    BY SameCardinality, <1>1, <1>2, FS_EmptySet
  <2>3. count'[s] = IF c \in WS!Watchers(s) THEN count[s] - 1 ELSE count[s]
    BY <1>3, <1>6, <2>2 DEF WS!Bumped, WS!Counted
  <2> QED
    BY <2>1, <2>3
<1> QED
  BY <1>5, <1>6

\* The counter stays a natural number for every session.
LEMMA BumpedType ==
  ASSUME WS!TypeOK, NEW up, NEW down
  PROVE  WS!Bumped(up, down) \in [Sessions -> Nat]
BY DEF WS!Bumped, WS!TypeOK

\* An explicit list replaces what the client had.
LEMMA SubscribeToInv ==
  ASSUME SubscriptionInv, NEW c \in Clients, NEW S \in SUBSET Sessions,
         WS!SubscribeTo(c, S)
  PROVE  SubscriptionInv'
<1> USE DEF SubscriptionInv, WS!SubscribeTo
<1>1. WS!TypeOK'
  BY BumpedType DEF WS!TypeOK
<1>2. Bookkeeping'
  BY DEF Bookkeeping, WS!TypeOK
<1>3. Moved(c, S)
  BY DEF Moved, WS!Subscribed, WS!TypeOK
<1> QED
  BY <1>1, <1>2, <1>3, MovedCount

\* 'all' stands for the sessions registered now; later ones are the listener's.
LEMMA SubscribeAllInv ==
  ASSUME SubscriptionInv, NEW c \in Clients, WS!SubscribeAll(c)
  PROVE  SubscriptionInv'
<1> USE DEF SubscriptionInv, WS!SubscribeAll
<1>1. WS!TypeOK'
  BY BumpedType, ClientsAssumption DEF WS!TypeOK, WS!Counted
<1>2. Bookkeeping'
  BY DEF Bookkeeping, WS!TypeOK, WS!Counted
<1>3. Moved(c, live)
  BY DEF Moved, WS!Subscribed, WS!TypeOK
<1>4. live \in SUBSET Sessions
  BY DEF WS!TypeOK
<1> QED
  BY <1>1, <1>2, <1>3, <1>4, MovedCount

\* Unsubscribing from 'all' leaves the explicit rest and stops following.
LEMMA UnsubscribeInv ==
  ASSUME SubscriptionInv, NEW c \in Clients, NEW S \in SUBSET Sessions,
         WS!Unsubscribe(c, S)
  PROVE  SubscriptionInv'
<1> DEFINE A == WS!Subscribed(c) \ S
<1>1. WS!Subscribed(c) \in SUBSET Sessions
  BY DEF SubscriptionInv, WS!Subscribed, WS!TypeOK
<1>2. WS!TypeOK'
  BY <1>1, BumpedType DEF SubscriptionInv, WS!Unsubscribe, WS!TypeOK
<1>3. Bookkeeping'
  BY DEF SubscriptionInv, WS!Unsubscribe, Bookkeeping, WS!TypeOK
<1>4. Moved(c, A)
  BY DEF Moved, WS!Subscribed, SubscriptionInv, WS!Unsubscribe, WS!TypeOK
<1>5. WS!Counted(c, A \ WS!Subscribed(c)) = {}
      /\ WS!Subscribed(c) \ A = WS!Subscribed(c) \cap S
  BY DEF WS!Counted
<1>6. count' = WS!Bumped(WS!Counted(c, A \ WS!Subscribed(c)), WS!Counted(c, WS!Subscribed(c) \ A))
  BY <1>5 DEF WS!Unsubscribe
<1> QED
  BY <1>1, <1>2, <1>3, <1>4, <1>6, MovedCount DEF SubscriptionInv, WS!Unsubscribe

\* A closing socket takes its whole subscription with it.
LEMMA CloseInv ==
  ASSUME SubscriptionInv, NEW c \in Clients, WS!Close(c)
  PROVE  SubscriptionInv'
<1>1. WS!TypeOK'
  BY BumpedType DEF SubscriptionInv, WS!Close, WS!TypeOK
<1>2. Bookkeeping'
  BY DEF SubscriptionInv, WS!Close, Bookkeeping, WS!TypeOK
<1>3. Moved(c, {})
  BY DEF Moved, WS!Subscribed, SubscriptionInv, WS!Close, WS!TypeOK
<1>4. WS!Counted(c, {} \ WS!Subscribed(c)) = {} /\ WS!Subscribed(c) \ {} = WS!Subscribed(c)
  BY DEF WS!Counted
<1>5. count' = WS!Bumped(WS!Counted(c, {} \ WS!Subscribed(c)), WS!Counted(c, WS!Subscribed(c) \ {}))
  BY <1>4 DEF WS!Close
<1> QED
  BY <1>1, <1>2, <1>3, <1>5, MovedCount DEF SubscriptionInv, WS!Close

\* A new socket is subscribed to nothing, so it watches nothing yet.
LEMMA ConnectInv ==
  ASSUME SubscriptionInv, NEW c \in Clients, WS!Connect(c)
  PROVE  SubscriptionInv'
<1>1. WS!TypeOK' /\ Bookkeeping'
  BY DEF SubscriptionInv, WS!Connect, WS!TypeOK, Bookkeeping
<1>2. WS!Subscribed(c) = {}
  BY DEF SubscriptionInv, WS!Connect, Bookkeeping, WS!Subscribed
<1>3. \A s \in Sessions : WS!Watchers(s)' = WS!Watchers(s)
  BY <1>2 DEF WS!Connect, WS!Watchers, WS!Subscribed
<1> QED
  BY <1>1, <1>3 DEF SubscriptionInv, WS!CountExact, WS!Connect

\* The listeners are the clients on 'all', none of whom counted for a session
\* that was not registered.
LEMMA RegisterSessionInv ==
  ASSUME SubscriptionInv, NEW s \in Sessions, WS!RegisterSession(s)
  PROVE  SubscriptionInv'
<1>1. IsFiniteSet(listening) /\ WS!Cardinality(listening) \in Nat
  BY SameCardinality, ClientsAssumption, FS_Subset, FS_CardinalityType DEF SubscriptionInv, WS!TypeOK
<1>2. WS!TypeOK' /\ Bookkeeping'
  BY <1>1 DEF SubscriptionInv, WS!RegisterSession, WS!TypeOK, Bookkeeping
<1>3. ASSUME NEW z \in Sessions \ gone
      PROVE  count'[z] = WS!Cardinality(WS!Watchers(z)')
  <2>1. count[z] = WS!Cardinality(WS!Watchers(z)) /\ count[z] \in Nat
    BY DEF SubscriptionInv, WS!CountExact, WS!TypeOK
  <2>2. CASE z = s
    <3>1. WS!Watchers(z)' = WS!Watchers(z) \cup listening
      BY <2>2
      DEF SubscriptionInv, WS!RegisterSession, Bookkeeping, WS!TypeOK, WS!Watchers, WS!Subscribed
    <3>2. WS!Watchers(z) \cap listening = {}
      BY <2>2
      DEF SubscriptionInv, WS!RegisterSession, Bookkeeping, WS!Watchers, WS!Subscribed
    <3>3. WS!Cardinality(WS!Watchers(z) \cup listening) =
            WS!Cardinality(WS!Watchers(z)) + WS!Cardinality(listening)
      <4>1. IsFiniteSet(WS!Watchers(z))
        BY WatchersFinite
      <4>2. WS!Cardinality(WS!Watchers(z) \cup listening) =
              WS!Cardinality(WS!Watchers(z)) + WS!Cardinality(listening)
                - WS!Cardinality(WS!Watchers(z) \cap listening)
        BY SameCardinality, <1>1, <4>1, FS_Union
      <4>3. WS!Cardinality(WS!Watchers(z) \cap listening) = 0
        BY SameCardinality, <3>2, FS_EmptySet
      <4> QED
        BY <1>1, <2>1, <4>2, <4>3
    <3>4. count'[z] = count[z] + WS!Cardinality(listening)
      BY <2>2 DEF WS!RegisterSession, SubscriptionInv, WS!TypeOK
    <3> QED
      BY <2>1, <3>1, <3>3, <3>4
  <2>3. CASE z # s
    <3>1. WS!Watchers(z)' = WS!Watchers(z)
      BY <2>3 DEF WS!RegisterSession, WS!Watchers, WS!Subscribed
    <3> QED
      BY <2>1, <2>3, <3>1 DEF WS!RegisterSession, SubscriptionInv, WS!TypeOK
  <2> QED
    BY <2>2, <2>3
<1> QED
  BY <1>2, <1>3 DEF SubscriptionInv, WS!CountExact, WS!RegisterSession

\* Nothing is said of the counter of a session that is gone.
LEMMA RemoveSessionInv ==
  ASSUME SubscriptionInv, NEW s \in Sessions, WS!RemoveSession(s)
  PROVE  SubscriptionInv'
<1>1. WS!TypeOK' /\ Bookkeeping'
  BY DEF SubscriptionInv, WS!RemoveSession, WS!TypeOK, Bookkeeping
<1>2. \A z \in Sessions \ {s} : WS!Watchers(z)' = WS!Watchers(z)
  BY DEF WS!RemoveSession, WS!Watchers, WS!Subscribed
<1> QED
  BY <1>1, <1>2 DEF SubscriptionInv, WS!CountExact, WS!RemoveSession

-----------------------------------------------------------------------------
(* The steps of the hub                                                    *)

\* The messages of one client that change what it is subscribed to.
ClientMoves(c, A) ==
  \/ SubscribeTo(c, A)
  \/ SubscribeAll(c) /\ A = live
  \/ \E S \in SUBSET Sessions : Unsubscribe(c, S) /\ A = WS!Subscribed(c) \ S
  \/ Close(c) /\ A = {}

\* What such a message means: the subscription moves, the counter follows the
\* difference, the released sessions are cancelled and the cards adjusted.
MoveEffect(c, A) ==
  /\ c \in connected /\ Moved(c, A) /\ UNCHANGED <<live, gone>>
  /\ \A d \in Clients \ {c}, s \in Sessions :
       WS!IsSubscribed(d, s)' <=> WS!IsSubscribed(d, s)
  /\ c \in connected' => \A s \in live : WS!IsSubscribed(c, s)' <=> s \in A
  /\ count' = WS!Bumped(WS!Counted(c, A \ WS!Subscribed(c)),
                       WS!Counted(c, WS!Subscribed(c) \ A))
  /\ CancelPending(WS!LastActionsClientGone) /\ Resubscribed(c, A)
  /\ UNCHANGED sessionVars /\ SubscriptionInv'

LEMMA MoveMeans ==
  ASSUME SubscriptionInv, NEW c \in Clients, NEW A \in SUBSET Sessions, ClientMoves(c, A)
  PROVE  MoveEffect(c, A)
<1> USE DEF ClientMoves, MoveEffect
<1>0. /\ live \in SUBSET Sessions /\ WS!Subscribed(c) \in SUBSET Sessions
      /\ sub \in [Clients -> SUBSET Sessions]
  BY DEF SubscriptionInv, WS!TypeOK, WS!Subscribed
<1>1. CASE SubscribeTo(c, A)
  <2>1. WS!SubscribeTo(c, A)
    BY <1>1 DEF SubscribeTo
  <2>2. Moved(c, A)
    BY <2>1 DEF Moved, WS!Subscribed, SubscriptionInv, WS!SubscribeTo, WS!TypeOK
  <2>3. SubscriptionInv'
    BY <2>1, SubscribeToInv
  <2> QED
    BY <1>0, <1>1, <2>1, <2>2, <2>3 DEF SubscribeTo, WS!SubscribeTo, WS!IsSubscribed
<1>2. CASE SubscribeAll(c) /\ A = live
  <2>1. WS!SubscribeAll(c)
    BY <1>2 DEF SubscribeAll
  <2>2. Moved(c, A)
    BY <1>2, <2>1 DEF Moved, WS!Subscribed, SubscriptionInv, WS!SubscribeAll, WS!TypeOK
  <2>3. SubscriptionInv'
    BY <2>1, SubscribeAllInv
  <2> QED
    BY <1>0, <1>2, <2>1, <2>2, <2>3 DEF SubscribeAll, WS!SubscribeAll, WS!IsSubscribed
<1>3. ASSUME NEW S \in SUBSET Sessions, Unsubscribe(c, S), A = WS!Subscribed(c) \ S
      PROVE  MoveEffect(c, A)
  <2>1. WS!Unsubscribe(c, S)
    BY <1>3 DEF Unsubscribe
  <2>2. Moved(c, A)
    BY <1>3, <2>1 DEF Moved, WS!Subscribed, SubscriptionInv, WS!Unsubscribe, WS!TypeOK
  <2>3. SubscriptionInv'
    BY <2>1, UnsubscribeInv
  <2>4. WS!Counted(c, A \ WS!Subscribed(c)) = {}
        /\ WS!Subscribed(c) \ A = WS!Subscribed(c) \cap S
    BY <1>3 DEF WS!Counted
  <2>5. count' = WS!Bumped(WS!Counted(c, A \ WS!Subscribed(c)),
                          WS!Counted(c, WS!Subscribed(c) \ A))
    BY <2>1, <2>4 DEF WS!Unsubscribe
  <2> QED
    BY <1>0, <1>3, <2>1, <2>2, <2>3, <2>5 DEF Unsubscribe, WS!Unsubscribe, WS!IsSubscribed
<1>4. CASE Close(c) /\ A = {}
  <2>1. WS!Close(c)
    BY <1>4 DEF Close
  <2>2. Moved(c, A)
    BY <1>4, <2>1 DEF Moved, WS!Subscribed, SubscriptionInv, WS!Close, WS!TypeOK
  <2>3. SubscriptionInv'
    BY <2>1, CloseInv
  <2>4. WS!Counted(c, A \ WS!Subscribed(c)) = {} /\ WS!Subscribed(c) \ A = WS!Subscribed(c)
    BY <1>4 DEF WS!Counted
  <2>5. count' = WS!Bumped(WS!Counted(c, A \ WS!Subscribed(c)),
                          WS!Counted(c, WS!Subscribed(c) \ A))
    BY <2>1, <2>4 DEF WS!Close
  <2> QED
    BY <1>0, <1>4, <2>1, <2>2, <2>3, <2>5 DEF Close, WS!Close, WS!IsSubscribed
<1> QED
  BY <1>1, <1>2, <1>3, <1>4

\* What a step of the hub does to the clients' side.
ClientsStep ==
  \/ UNCHANGED clientVars
  \/ \E c \in Clients : Connect(c)
  \/ \E c \in Clients, A \in SUBSET Sessions : ClientMoves(c, A)
  \/ \E s \in Sessions : RegisterSession(s) \/ RemoveSession(s)

\* Every step of the hub is one of these for the clients' side.
LEMMA ClientsSteps ==
  ASSUME SubscriptionInv, [Next]_vars
  PROVE  ClientsStep
<1>0. \A c \in Clients : live \in SUBSET Sessions /\ WS!Subscribed(c) \in SUBSET Sessions
  BY DEF SubscriptionInv, WS!TypeOK, WS!Subscribed
<1>1. CASE ClientStep
  <2>1. PICK c \in Clients :
          \/ Connect(c) \/ SubscribeAll(c) \/ Close(c)
          \/ \E S \in SUBSET Sessions : SubscribeTo(c, S) \/ Unsubscribe(c, S)
          \/ \E r \in Requests :
               \E a \in Handlers!PossibleDecisions(ToolOf[r]) : ClientAnswer(c, r, a)
    BY <1>1 DEF ClientStep
  <2>2. CASE \E r \in Requests :
               \E a \in Handlers!PossibleDecisions(ToolOf[r]) : ClientAnswer(c, r, a)
    BY <2>2 DEF ClientsStep, ClientAnswer
  <2>3. CASE Connect(c)
    BY <2>3 DEF ClientsStep
  <2>4. CASE SubscribeAll(c)
    <3>1. ClientMoves(c, live)
      BY <2>4 DEF ClientMoves
    <3> QED
      BY <1>0, <3>1 DEF ClientsStep
  <2>5. CASE Close(c)
    <3>1. ClientMoves(c, {})
      BY <2>5 DEF ClientMoves
    <3> QED
      BY <3>1 DEF ClientsStep
  <2>6. ASSUME NEW S \in SUBSET Sessions, SubscribeTo(c, S)
        PROVE  ClientsStep
    BY <2>6 DEF ClientMoves, ClientsStep
  <2>7. ASSUME NEW S \in SUBSET Sessions, Unsubscribe(c, S)
        PROVE  ClientsStep
    <3>1. ClientMoves(c, WS!Subscribed(c) \ S) /\ WS!Subscribed(c) \ S \in SUBSET Sessions
      BY <1>0, <2>7 DEF ClientMoves
    <3> QED
      BY <3>1 DEF ClientsStep
  <2>8. CASE \E S \in SUBSET Sessions : SubscribeTo(c, S) \/ Unsubscribe(c, S)
    BY <2>6, <2>7, <2>8
  <2> QED
    BY <2>1, <2>2, <2>3, <2>4, <2>5, <2>8
<1>2. CASE ClaudeStep
  BY <1>2 DEF ClaudeStep, ClientsStep, Refuse, Request, SessionStart, SessionEnd,
              Stop, ToolDone, BusEvent
<1>3. CASE HubStep
  BY <1>3 DEF HubStep, ClientsStep, Resume, Expire, PtyIdle, SummaryNeedsDecision
<1>4. CASE UNCHANGED vars
  BY <1>4 DEF vars, ClientsStep
<1> QED
  BY <1>1, <1>2, <1>3, <1>4 DEF Next

\* The subscriptions stay right whatever else the hub does.
LEMMA SubscriptionStep ==
  ASSUME SubscriptionInv, [Next]_vars
  PROVE  SubscriptionInv'
<1>1. CASE UNCHANGED clientVars
  BY <1>1 DEF clientVars, SubscriptionInv, WS!TypeOK, Bookkeeping, WS!CountExact,
              WS!Watchers, WS!Subscribed
<1>2. ASSUME NEW c \in Clients, Connect(c)
      PROVE  SubscriptionInv'
  BY <1>2, ConnectInv DEF Connect
<1>3. ASSUME NEW c \in Clients, NEW A \in SUBSET Sessions, ClientMoves(c, A)
      PROVE  SubscriptionInv'
  BY <1>3, MoveMeans DEF MoveEffect
<1>4. ASSUME NEW s \in Sessions, RegisterSession(s) \/ RemoveSession(s)
      PROVE  SubscriptionInv'
  BY <1>4, RegisterSessionInv, RemoveSessionInv DEF RegisterSession, RemoveSession
<1> QED
  BY <1>1, <1>2, <1>3, <1>4, ClientsSteps DEF ClientsStep

-----------------------------------------------------------------------------
(* The cards                                                               *)

CardTypes == told \in [Clients -> SUBSET Requests]

ClosedHasNoCard == \A c \in Clients \ connected : told[c] = {}

ClientInv ==
  SessionInv /\ SubscriptionInv /\ CardTypes /\ ClosedHasNoCard /\ LiveCards

CardsRight == CardTypes /\ ClosedHasNoCard /\ LiveCards

\* A step that ends the requests of R and tells their receivers.
LEMMA EndingCards ==
  ASSUME ClientInv, NEW R \in SUBSET pending, pending' = pending \ R,
         told' = Withdrawn(R), UNCHANGED <<call, connected, allSub, sub>>
  PROVE  CardsRight'
<1>0. /\ told \in [Clients -> SUBSET Requests] /\ ActionsClients \subseteq Clients
      /\ connected \subseteq Clients
  BY ClientsAssumption DEF ClientInv, CardTypes, SubscriptionInv, WS!TypeOK
<1>1. \A c \in Clients :
        told'[c] = {r \in told[c] : ~ (r \in R /\ c \in Receivers(call[r].session))}
  BY DEF Withdrawn
<1>2. CardTypes'
  BY <1>0 DEF CardTypes, Withdrawn
<1>3. ClosedHasNoCard'
  BY <1>1 DEF ClientInv, ClosedHasNoCard
<1>4. ASSUME NEW c \in connected \cap ActionsClients
      PROVE  told'[c] = {r \in pending' : WS!IsSubscribed(c, call[r].session)}
  <2>1. told[c] = {r \in pending : WS!IsSubscribed(c, call[r].session)}
    BY DEF ClientInv, LiveCards
  <2>2. \A r \in told[c] : c \in Receivers(call[r].session)
    BY <2>1 DEF Receivers
  <2> QED
    BY <1>0, <1>1, <2>1, <2>2
<1>5. LiveCards'
  BY <1>4 DEF LiveCards, WS!IsSubscribed
<1> QED
  BY <1>2, <1>3, <1>5 DEF CardsRight

\* A step that concerns neither requests nor subscriptions.
LEMMA StillCards ==
  ASSUME ClientInv, UNCHANGED <<pending, told, call, connected, allSub, sub>>
  PROVE  CardsRight'
BY DEF ClientInv, CardsRight, CardTypes, ClosedHasNoCard, LiveCards, WS!IsSubscribed

\* What CancelPending and StaleCleanup do to the table.
LEMMA CancelTable ==
  ASSUME RequestInv, NEW S, CancelPending(S)
  PROVE  pending' = pending \ PendingOf(S) /\ call' = call
BY DEF CancelPending, PendingOf, AM!CancelForSessions, AM!Settle, tableVars

LEMMA CleanupTable ==
  ASSUME RequestInv, NEW s, NEW f, NEW t, NEW isStop, StaleCleanup(s, f, t, isStop)
  PROVE  \E R \in SUBSET pending :
           pending' = pending \ R /\ call' = call /\ told' = Withdrawn(R)
<1> DEFINE R == StaleMatch(s, f, t, isStop)
<1>1. R \in SUBSET pending
  BY StaleMatchSingle
<1>2. pending' = pending \ R /\ call' = call /\ told' = Withdrawn(R)
  BY DEF StaleCleanup, AM!Settle, tableVars
<1> QED
  BY <1>1, <1>2

\* A message that moves a subscription replays, keeps, drops and withdraws the
\* right cards; what it replays is never what it releases.
LEMMA MoveCards ==
  ASSUME ClientInv, NEW c \in Clients, NEW A \in SUBSET Sessions, ClientMoves(c, A)
  PROVE  CardsRight'
<1> DEFINE L == WS!LastActionsClientGone
<1>0. /\ told \in [Clients -> SUBSET Requests] /\ ActionsClients \subseteq Clients
      /\ connected \subseteq Clients /\ pending \subseteq Requests
      /\ count \in [Sessions -> Nat] /\ SubscriptionInv /\ RequestInv
      /\ connected' \subseteq connected
  <2>1. connected' \subseteq connected
    BY DEF ClientMoves, SubscribeTo, SubscribeAll, Unsubscribe, Close, WS!SubscribeTo,
           WS!SubscribeAll, WS!Unsubscribe, WS!Close
  <2> QED
    BY <2>1, ClientsAssumption
       DEF ClientInv, CardTypes, SubscriptionInv, WS!TypeOK, SessionInv, RequestInv,
           RequestTypes
<1>1. /\ c \in connected /\ CancelPending(L) /\ Resubscribed(c, A)
      /\ \A d \in Clients \ {c}, s \in Sessions :
              WS!IsSubscribed(d, s)' <=> WS!IsSubscribed(d, s)
      /\ c \in connected' => \A s \in live : WS!IsSubscribed(c, s)' <=> s \in A
      /\ connected' \in {connected, connected \ {c}} /\ (c \notin connected' => A = {})
      /\ count' = WS!Bumped(WS!Counted(c, A \ WS!Subscribed(c)),
                           WS!Counted(c, WS!Subscribed(c) \ A))
  BY <1>0, MoveMeans DEF MoveEffect, Moved
<1>2. pending' = pending \ Released /\ call' = call
  BY <1>0, <1>1, CancelTable DEF Released
<1>3. \A r \in pending : call[r].session \in live /\ call[r].session \in Sessions
  BY SessionOfRequest DEF ClientInv, SessionInv, PendingBelongs
<1>4. \A d \in Clients :
        Withdrawn(Released)[d] =
          {r \in told[d] : ~ (r \in Released /\ d \in Receivers(call[r].session))}
  BY DEF Withdrawn
<1>5. \A d \in Clients \ {c} : told'[d] = Withdrawn(Released)[d]
  BY <1>1 DEF Resubscribed, Withdrawn
<1>6. told'[c] =
        {r \in Withdrawn(Released)[c] : call[r].session \in A}
          \cup (IF c \in ActionsClients THEN PendingOf(A \ WS!Subscribed(c)) ELSE {})
  BY <1>1 DEF Resubscribed, Withdrawn
<1>7. CardTypes'
  <2>1. \A d \in Clients : Withdrawn(Released)[d] \in SUBSET Requests
    BY <1>0, <1>4
  <2>2. told'[c] \in SUBSET Requests
    BY <1>0, <1>6, <2>1 DEF PendingOf
  <2>3. \A d \in Clients : told'[d] \in SUBSET Requests
    BY <1>5, <2>1, <2>2
  <2>4. told' = [d \in Clients |-> told'[d]]
    BY <1>1 DEF Resubscribed, Withdrawn
  <2> QED
    BY <2>3, <2>4 DEF CardTypes
<1>8. ClosedHasNoCard'
  <2>1. \A d \in Clients \ {c} : d \notin connected' => told'[d] = {}
    BY <1>1, <1>4, <1>5 DEF ClientInv, ClosedHasNoCard
  <2>2. c \notin connected' => told'[c] = {}
    BY <1>1, <1>6 DEF PendingOf
  <2> QED
    BY <2>1, <2>2 DEF ClosedHasNoCard
<1>9. \A d \in connected \cap ActionsClients :
        /\ told[d] = {r \in pending : WS!IsSubscribed(d, call[r].session)}
        /\ Withdrawn(Released)[d] = told[d] \ Released
  <2> SUFFICES ASSUME NEW d \in connected \cap ActionsClients
               PROVE  /\ told[d] = {r \in pending : WS!IsSubscribed(d, call[r].session)}
                      /\ Withdrawn(Released)[d] = told[d] \ Released
    OBVIOUS
  <2>1. told[d] = {r \in pending : WS!IsSubscribed(d, call[r].session)}
    BY DEF ClientInv, LiveCards
  <2>2. \A r \in told[d] : d \in Receivers(call[r].session)
    BY <2>1 DEF Receivers
  <2> QED
    BY <1>0, <1>4, <2>1, <2>2
<1>10. ASSUME NEW d \in connected' \cap ActionsClients, d # c
       PROVE  told'[d] = {r \in pending' : WS!IsSubscribed(d, call[r].session)'}
  BY <1>0, <1>1, <1>2, <1>3, <1>5, <1>9, <1>10
<1>11. ASSUME c \in connected' \cap ActionsClients
       PROVE  told'[c] = {r \in pending' : WS!IsSubscribed(c, call[r].session)'}
  <2>1. \A s \in A \ WS!Subscribed(c) : s \notin L
    BY <1>0, <1>1, <1>11 DEF WS!LastActionsClientGone, WS!Bumped, WS!Counted
  <2>2. PendingOf(A \ WS!Subscribed(c)) \cap Released = {}
    BY <2>1 DEF PendingOf, Released
  <2>3. \A r \in pending : call[r].session \in WS!Subscribed(c) => r \in told[c]
    BY <1>0, <1>1, <1>9, <1>11 DEF WS!Subscribed, WS!IsSubscribed
  <2>4. told'[c] = {r \in pending \ Released : call[r].session \in A}
    BY <1>1, <1>6, <1>9, <1>11, <2>2, <2>3 DEF PendingOf
  <2> QED
    BY <1>1, <1>2, <1>3, <1>11, <2>4
<1>12. LiveCards'
  BY <1>2, <1>10, <1>11 DEF LiveCards
<1> QED
  BY <1>7, <1>8, <1>12 DEF CardsRight

\* No step of the hub leaves a card missing or a dead one behind.
LEMMA NextCards ==
  ASSUME ClientInv, [Next]_vars
  PROVE  CardsRight'
<1>0. SubscriptionInv /\ RequestInv /\ told = Withdrawn({}) /\ ClientInv
  <2>1. told \in [Clients -> SUBSET Requests]
    BY DEF ClientInv, CardTypes
  <2>2. \A c \in Clients : told[c] = {r \in told[c] : ~ (r \in {} /\ c \in Receivers(call[r].session))}
    OBVIOUS
  <2>3. told = Withdrawn({})
    BY <2>1, <2>2 DEF Withdrawn
  <2> QED
    BY <2>3 DEF ClientInv, SessionInv
<1>1. ASSUME NEW R \in SUBSET pending, pending' = pending \ R, call' = call,
             told' = Withdrawn(R), UNCHANGED clientVars
      PROVE  CardsRight'
  BY <1>0, <1>1, EndingCards DEF clientVars
<1>2. ASSUME UNCHANGED <<pending, told, call>>, UNCHANGED clientVars
      PROVE  CardsRight'
  BY <1>0, <1>2, StillCards DEF clientVars
<1>3. CASE ClientStep
  <2>1. ASSUME NEW c \in Clients, NEW A \in SUBSET Sessions, ClientMoves(c, A)
        PROVE  CardsRight'
    BY <1>0, <2>1, MoveCards
  <2>2. ASSUME NEW c \in Clients, Connect(c)
        PROVE  CardsRight'
    <3>1. /\ UNCHANGED <<pending, told, call, allSub, sub>>
          /\ connected' = connected \cup {c} /\ c \notin connected
      BY <2>2 DEF Connect, WS!Connect, requestVars, tableVars
    <3>2. c \notin allSub /\ sub[c] = {} /\ told[c] = {}
      BY <1>0, <3>1 DEF ClientInv, SubscriptionInv, Bookkeeping, ClosedHasNoCard
    <3> QED
      BY <1>0, <3>1, <3>2
         DEF ClientInv, CardsRight, CardTypes, ClosedHasNoCard, LiveCards, WS!IsSubscribed
  <2>3. ASSUME NEW c \in Clients, NEW r \in Requests, NEW a, ClientAnswer(c, r, a)
        PROVE  CardsRight'
    <3>1. CASE r \in pending
      <4>1. /\ pending' = pending \ {r} /\ call' = call /\ told' = Withdrawn({r})
            /\ UNCHANGED clientVars
        BY <2>3, <3>1 DEF ClientAnswer, AM!Decide, AM!Settle
      <4> QED
        BY <1>1, <3>1, <4>1
    <3>2. CASE r \notin pending
      BY <1>2, <2>3, <3>2 DEF ClientAnswer, tableVars
    <3> QED
      BY <3>1, <3>2
  <2>5. PICK c \in Clients :
          \/ Connect(c) \/ SubscribeAll(c) \/ Close(c)
          \/ \E S \in SUBSET Sessions : SubscribeTo(c, S) \/ Unsubscribe(c, S)
          \/ \E r \in Requests :
               \E a \in Handlers!PossibleDecisions(ToolOf[r]) : ClientAnswer(c, r, a)
    BY <1>3 DEF ClientStep
  <2>6. live \in SUBSET Sessions /\ WS!Subscribed(c) \in SUBSET Sessions
    BY <1>0 DEF SubscriptionInv, WS!TypeOK, WS!Subscribed
  <2>7. CASE SubscribeAll(c)
    BY <2>1, <2>6, <2>7 DEF ClientMoves
  <2>8. CASE Close(c)
    BY <2>1, <2>8 DEF ClientMoves
  <2>9. ASSUME NEW S \in SUBSET Sessions, SubscribeTo(c, S) \/ Unsubscribe(c, S)
        PROVE  CardsRight'
    <3>1. CASE SubscribeTo(c, S)
      BY <2>1, <3>1 DEF ClientMoves
    <3>2. CASE Unsubscribe(c, S)
      <4>1. ClientMoves(c, WS!Subscribed(c) \ S) /\ WS!Subscribed(c) \ S \in SUBSET Sessions
        BY <2>6, <3>2 DEF ClientMoves
      <4> QED
        BY <2>1, <4>1
    <3> QED
      BY <2>9, <3>1, <3>2
  <2> QED
    BY <2>2, <2>3, <2>5, <2>7, <2>8, <2>9
<1>4. CASE ClaudeStep
  <2>1. ASSUME NEW r \in Requests, NEW s \in Sessions, Refuse(r, s)
        PROVE  CardsRight'
    BY <1>2, <2>1 DEF Refuse, tableVars
  <2>2. ASSUME NEW ask \in Asks, Request(ask[1], ask[2], ask[3], ask[4])
        PROVE  CardsRight'
    <3> DEFINE r == ask[1]
               s == ask[2]
    <3>0. r \in Requests
      BY AsksAssumption
    <3>1. /\ pending' = pending \cup {r} /\ r \notin pending /\ call'[r].session = s
          /\ (\A q \in Requests \ {r} : call'[q] = call[q]) /\ UNCHANGED clientVars
          /\ told' = [c \in Clients |-> told[c] \cup (IF c \in Receivers(s) THEN {r} ELSE {})]
      <4>1. AM!Open(r, s, ask[3], ask[4])
        BY <2>2 DEF Request
      <4>2. r \notin pending
        BY <1>0, <3>0, <4>1 DEF RequestInv, AM!PendingXorSettled, AM!Open
      <4>3. call' = [call EXCEPT ![r] = [session |-> s, fp |-> ask[3], tuid |-> ask[4]]]
            /\ pending' = pending \cup {r}
        BY <4>1 DEF AM!Open
      <4>4. call \in [Requests -> AM!Calls \cup {None}]
        BY <1>0 DEF RequestInv, RequestTypes
      <4>5. call'[r] = [session |-> s, fp |-> ask[3], tuid |-> ask[4]]
            /\ \A q \in Requests \ {r} : call'[q] = call[q]
        BY <3>0, <4>3, <4>4
      <4> QED
        BY <2>2, <4>2, <4>3, <4>5 DEF Request
    <3>2. CardTypes'
      BY <1>0, <3>0, <3>1 DEF ClientInv, CardTypes
    <3>3. /\ connected' = connected /\ connected \subseteq Clients /\ pending \subseteq Requests
          /\ \A c \in Clients, z \in Sessions : WS!IsSubscribed(c, z)' <=> WS!IsSubscribed(c, z)
          /\ UNCHANGED <<allSub, sub>>
      BY <1>0, <3>1
         DEF clientVars, WS!IsSubscribed, SubscriptionInv, WS!TypeOK, RequestInv, RequestTypes
    <3>4. ClosedHasNoCard'
      BY <1>0, <3>1, <3>3 DEF ClientInv, ClosedHasNoCard, Receivers
    <3>5. LiveCards'
      <4> SUFFICES ASSUME NEW c \in connected \cap ActionsClients
                   PROVE  told'[c] = {q \in pending' : WS!IsSubscribed(c, call'[q].session)}
        BY <3>3 DEF LiveCards, WS!IsSubscribed
      <4>1. told[c] = {q \in pending : WS!IsSubscribed(c, call[q].session)}
        BY <1>0 DEF ClientInv, LiveCards
      <4>2. c \in Receivers(s) <=> WS!IsSubscribed(c, s)
        BY DEF Receivers
      <4>3. \A q \in pending : call'[q] = call[q]
        BY <3>1, <3>3
      <4>4. told'[c] = told[c] \cup (IF c \in Receivers(s) THEN {r} ELSE {})
        BY <3>1, <3>3
      <4> QED
        BY <3>1, <4>1, <4>2, <4>3, <4>4
    <3> QED
      BY <3>2, <3>4, <3>5 DEF CardsRight
  <2>3. ASSUME NEW s \in Sessions, NEW S, CancelPending(S), told' = Withdrawn(PendingOf(S)),
               UNCHANGED clientVars
        PROVE  CardsRight'
    <3>1. PendingOf(S) \in SUBSET pending
      BY DEF PendingOf
    <3> QED
      BY <1>0, <1>1, <2>3, <3>1, CancelTable
  <2>4. ASSUME NEW s \in Sessions, SessionEnd(s) \/ \E k \in Children : SessionStart(s, k)
        PROVE  CardsRight'
    BY <2>3, <2>4 DEF SessionEnd, SessionStart
  <2>5. ASSUME NEW s, NEW f, NEW t, NEW isStop, StaleCleanup(s, f, t, isStop),
               UNCHANGED clientVars
        PROVE  CardsRight'
    BY <1>0, <1>1, <2>5, CleanupTable
  <2>6. ASSUME NEW s \in Sessions,
               \/ Stop(s)
               \/ \E f \in Fingerprints, t \in ToolUseIds \cup {None} : ToolDone(s, f, t)
        PROVE  CardsRight'
    BY <2>5, <2>6 DEF Stop, ToolDone
  <2>7. ASSUME NEW s \in Sessions, NEW e \in BusEvents, BusEvent(s, e)
        PROVE  CardsRight'
    BY <1>2, <2>7 DEF BusEvent, requestVars, tableVars
  <2> QED
    BY <1>4, <2>1, <2>2, <2>4, <2>6, <2>7 DEF ClaudeStep
<1>5. CASE HubStep
  <2>1. ASSUME NEW r \in Requests, Resume(r)
        PROVE  CardsRight'
    BY <1>2, <2>1 DEF Resume, tableVars
  <2>2. ASSUME NEW r \in Requests, Expire(r)
        PROVE  CardsRight'
    <3>1. r \in pending
      BY <1>0, <2>2 DEF Expire, AM!Expire, RequestInv, AM!PendingXorSettled
    <3>2. /\ pending' = pending \ {r} /\ call' = call /\ told' = Withdrawn({r})
          /\ UNCHANGED clientVars
      BY <2>2, <3>1 DEF Expire, AM!Expire, AM!Settle
    <3> QED
      BY <1>1, <3>1, <3>2
  <2>3. ASSUME NEW s \in Sessions, RegisterSession(s)
        PROVE  CardsRight'
    <3>1. UNCHANGED <<pending, told, call, connected, allSub, sub>>
      BY <2>3 DEF RegisterSession, WS!RegisterSession, requestVars, tableVars
    <3> QED
      BY <1>0, <3>1, StillCards
  <2>4. ASSUME NEW s \in Sessions, RemoveSession(s)
        PROVE  CardsRight'
    <3>1. /\ CancelPending({s}) /\ told' = Withdrawn(PendingOf({s}))
          /\ UNCHANGED <<connected, allSub, sub>> /\ PendingOf({s}) \in SUBSET pending
      BY <2>4 DEF RemoveSession, WS!RemoveSession, PendingOf
    <3>2. pending' = pending \ PendingOf({s}) /\ call' = call
      BY <1>0, <3>1, CancelTable
    <3> QED
      BY <1>0, <3>1, <3>2, EndingCards
  <2>5. ASSUME NEW s \in Sessions, PtyIdle(s) \/ SummaryNeedsDecision(s)
        PROVE  CardsRight'
    BY <1>2, <2>5 DEF PtyIdle, SummaryNeedsDecision, requestVars, tableVars
  <2> QED
    BY <1>5, <2>1, <2>2, <2>3, <2>4, <2>5 DEF HubStep
<1>6. CASE UNCHANGED vars
  BY <1>2, <1>6 DEF vars, requestVars, tableVars
<1> QED
  BY <1>3, <1>4, <1>5, <1>6 DEF Next

\* At the start there is no client and no card.
LEMMA ClientInit == Init => ClientInv
<1> SUFFICES ASSUME Init PROVE ClientInv
  OBVIOUS
<1>1. SessionInv /\ SubscriptionInv
  BY InitSessionInv, InitSubscriptionInv DEF Init
<1>2. told = [c \in Clients |-> {}] /\ connected = {}
  BY DEF Init, WS!Init
<1> QED
  BY <1>1, <1>2 DEF ClientInv, CardTypes, ClosedHasNoCard, LiveCards

\* Every step keeps the whole invariant.
LEMMA ClientInvStep == ClientInv /\ [Next]_vars => ClientInv'
<1> SUFFICES ASSUME ClientInv, [Next]_vars PROVE ClientInv'
  OBVIOUS
<1>1. SessionInv' /\ SubscriptionInv'
  BY NextSessionInv, SubscriptionStep DEF ClientInv
<1> QED
  BY <1>1, NextCards DEF ClientInv, CardsRight

-----------------------------------------------------------------------------
(* Types of the table                                                      *)

\* Every operation of the table keeps its types.
LEMMA TableTypes ==
  ASSUME AM!TypeOK, AM!Next
  PROVE  AM!TypeOK'
<1>1. ASSUME NEW r \in Requests, NEW s \in Sessions, NEW f \in Fingerprints,
             NEW t \in ToolUseIds \cup {None}, AM!Open(r, s, f, t)
      PROVE  AM!TypeOK'
  <2>1. [session |-> s, fp |-> f, tuid |-> t] \in AM!Calls
    BY DEF AM!Calls
  <2>2. <<s, f>> \in AM!FingerprintKeys /\ (t # None => <<s, t>> \in AM!ToolUseIdKeys)
    BY DEF AM!FingerprintKeys, AM!ToolUseIdKeys
  <2>3. /\ call' \in [Requests -> AM!Calls \cup {None}] /\ pending' \subseteq Requests
        /\ timers' \subseteq Requests /\ settled' = settled
    BY <1>1, <2>1 DEF AM!Open, AM!TypeOK
  <2>4. byToolUseId' \in [AM!ToolUseIdKeys -> Requests \cup {None}]
    BY <1>1, <2>2 DEF AM!Open, AM!TypeOK
  <2>5. newest' \in [AM!ToolUseIdKeys -> Requests \cup {None}]
    BY <1>1, <2>2 DEF AM!Open, AM!TypeOK
  <2>6. byFingerprint' \in [AM!FingerprintKeys -> SUBSET Requests]
    BY <1>1, <2>2 DEF AM!Open, AM!TypeOK
  <2> QED
    BY <2>3, <2>4, <2>5, <2>6 DEF AM!TypeOK
<1>2. ASSUME NEW R, NEW o \in AM!Outcomes, AM!Settle(R, o)
      PROVE  AM!TypeOK'
  <2>1. byToolUseId' \in [AM!ToolUseIdKeys -> Requests \cup {None}]
    BY <1>2 DEF AM!Settle, AM!CleanToolUseIds, AM!TypeOK
  <2>2. byFingerprint' \in [AM!FingerprintKeys -> SUBSET Requests]
    BY <1>2 DEF AM!Settle, AM!CleanFingerprints, AM!TypeOK
  <2>3. /\ settled' \in [Requests -> AM!Outcomes \cup {None}]
        /\ pending' \subseteq Requests /\ timers' \subseteq Requests
        /\ UNCHANGED <<call, newest>>
    BY <1>2 DEF AM!Settle, AM!TypeOK
  <2> QED
    BY <2>1, <2>2, <2>3 DEF AM!TypeOK
<1>3. ASSUME NEW r \in Requests, AM!Expire(r)
      PROVE  AM!TypeOK'
  <2>1. CASE r \in pending
    <3>1. AM!Settle({r}, "ask") /\ "ask" \in AM!Outcomes
      BY <1>3, <2>1 DEF AM!Expire, AM!Outcomes
    <3> QED
      BY <1>2, <3>1
  <2>2. CASE r \notin pending
    BY <1>3, <2>2 DEF AM!Expire, AM!TypeOK
  <2> QED
    BY <2>1, <2>2
<1>4. ASSUME NEW S \in SUBSET Sessions, AM!CancelForSessions(S)
      PROVE  AM!TypeOK'
  <2>1. "ask" \in AM!Outcomes
    BY DEF AM!Outcomes
  <2> QED
    BY <1>2, <1>4, <2>1 DEF AM!CancelForSessions
<1> QED
  BY <1>1, <1>2, <1>3, <1>4
     DEF AM!Next, AM!Decide, AM!ResolveByToolUseId, AM!ResolveByFingerprint,
         AM!ResolveSingletonForSession

-----------------------------------------------------------------------------
(* Theorems                                                                *)

\* The inductive invariant: requests, sessions, subscriptions and cards.
THEOREM ClientInvariance == Spec => []ClientInv
BY ClientInit, ClientInvStep, PTL DEF Spec

\* The cards of every actions client are the waiting requests of the sessions
\* it is subscribed to (broadcast, replay and withdrawal in wire.ts and
\* ws/connection.ts).
THEOREM CardsCorrect == Spec => []LiveCards
<1>1. ClientInv => LiveCards
  BY DEF ClientInv
<1> QED
  BY <1>1, ClientInvariance, PTL

\* Every variable of the hub keeps its type, the table's through the table's
\* operations.
THEOREM TypeCorrect == Spec => []TypeOK
<1>1. Init => AM!TypeOK
  BY DEF Init, AM!Init, AM!TypeOK
<1>2. ClientInv /\ AM!TypeOK /\ [Next]_vars => AM!TypeOK'
  <2> SUFFICES ASSUME ClientInv, AM!TypeOK, [Next]_vars
               PROVE  AM!TypeOK'
    OBVIOUS
  <2>1. AM!Next \/ UNCHANGED tableVars
    BY NextManager DEF ClientInv, SessionInv
  <2>2. CASE AM!Next
    BY <2>2, TableTypes
  <2>3. CASE UNCHANGED tableVars
    BY <2>3 DEF tableVars, AM!TypeOK
  <2> QED
    BY <2>1, <2>2, <2>3
<1>3. ClientInv /\ AM!TypeOK => TypeOK
  BY DEF ClientInv, CardTypes, SessionInv, SessionTypes, RequestInv, RequestTypes,
         SubscriptionInv, TypeOK
<1> QED
  BY <1>1, <1>2, <1>3, ClientInvariance, PTL DEF Spec

\* The step that takes the last watcher of a session away leaves none of its
\* requests waiting (onLastActionsClientGone, at its callers).
THEOREM LastClientCorrect == Spec => LastClientReleases
<1>1. ClientInv /\ [Next]_vars =>
        [\A s \in live :
           (WS!Watchers(s) # {} /\ WS!Watchers(s)' = {})
             => \A r \in pending' : call[r].session # s]_vars
  <2> SUFFICES ASSUME ClientInv, [Next]_vars, NEW s \in live,
                      WS!Watchers(s) # {}, WS!Watchers(s)' = {}
               PROVE  \A r \in pending' : call[r].session # s
    OBVIOUS
  <2>0. /\ SubscriptionInv /\ SubscriptionInv' /\ RequestInv
        /\ s \in Sessions /\ s \notin gone
    BY SubscriptionStep
       DEF ClientInv, SessionInv, SubscriptionInv, WS!TypeOK, Bookkeeping
  <2>1. CASE UNCHANGED clientVars
    BY <2>1 DEF clientVars, WS!Watchers, WS!Subscribed
  <2>2. ASSUME NEW c \in Clients, Connect(c)
        PROVE  FALSE
    BY <2>2 DEF Connect, WS!Connect, WS!Watchers, WS!Subscribed
  <2>3. ASSUME NEW c \in Clients, NEW A \in SUBSET Sessions, ClientMoves(c, A)
        PROVE  \A r \in pending' : call[r].session # s
    <3>1. /\ CancelPending(WS!LastActionsClientGone) /\ gone' = gone
      BY <2>0, <2>3, MoveMeans DEF MoveEffect
    <3>2. /\ count[s] = WS!Cardinality(WS!Watchers(s)) /\ count[s] \in Nat
          /\ count'[s] = WS!Cardinality(WS!Watchers(s)')
      BY <2>0, <3>1 DEF SubscriptionInv, WS!CountExact, WS!TypeOK
    <3>3. IsFiniteSet(WS!Watchers(s))
      BY <2>0, WatchersFinite
    <3>4. count[s] > 0 /\ count'[s] = 0
      BY <3>2, <3>3, SameCardinality, FS_EmptySet
    <3>5. s \in WS!LastActionsClientGone /\ WS!LastActionsClientGone \in SUBSET Sessions
      BY <2>0, <3>4 DEF WS!LastActionsClientGone
    <3>6. \A r \in pending' : call[r].session \notin WS!LastActionsClientGone
      BY <2>0, <3>1, <3>5, CancelKeepsWaiting
    <3> QED
      BY <3>5, <3>6
  <2>4. ASSUME NEW z \in Sessions, RegisterSession(z)
        PROVE  FALSE
    BY <2>4 DEF RegisterSession, WS!RegisterSession, WS!Watchers, WS!Subscribed
  <2>5. ASSUME NEW z \in Sessions, RemoveSession(z)
        PROVE  \A r \in pending' : call[r].session # s
    <3>1. CASE z = s
      <4>1. \A r \in pending' : call[r].session \notin {s}
        BY <2>0, <2>5, <3>1, CancelKeepsWaiting DEF RemoveSession
      <4> QED
        BY <4>1
    <3>2. CASE z # s
      <4>1. WS!Watchers(s)' = WS!Watchers(s)
        BY <2>5, <3>2 DEF RemoveSession, WS!RemoveSession, WS!Watchers, WS!Subscribed
      <4> QED
        BY <4>1
    <3> QED
      BY <3>1, <3>2
  <2> QED
    BY <2>0, <2>1, <2>2, <2>3, <2>4, <2>5, ClientsSteps DEF ClientsStep
<1> QED
  BY <1>1, ClientInvariance, PTL DEF Spec, LastClientReleases

\* The hub touches subscriptions and counter only through the operations of
\* WsSubscriptions, one at a time, so what holds of that module holds in the
\* hub.
ImplementsSubscriptions == WS!Init /\ [][WS!Next]_clientVars

\* The WebSocket handlers' other work never touches the bookkeeping of
\* subscriptions (ws/connection.ts, ws/server.ts).
THEOREM SubscriptionsImplemented == Spec => ImplementsSubscriptions
<1>1. ASSUME SubscriptionInv, [Next]_vars
      PROVE  [WS!Next]_clientVars
  <2>1. ASSUME NEW c \in Clients, Connect(c)
        PROVE  WS!Next
    BY <2>1 DEF Connect, WS!Next
  <2>2. ASSUME NEW c \in Clients, NEW A \in SUBSET Sessions, ClientMoves(c, A)
        PROVE  WS!Next
    <3>1. CASE SubscribeTo(c, A)
      BY <3>1 DEF SubscribeTo, WS!Next
    <3>2. CASE SubscribeAll(c)
      BY <3>2 DEF SubscribeAll, WS!Next
    <3>3. CASE \E S \in SUBSET Sessions : Unsubscribe(c, S)
      BY <3>3 DEF Unsubscribe, WS!Next
    <3>4. CASE Close(c)
      BY <3>4 DEF Close, WS!Next
    <3> QED
      BY <2>2, <3>1, <3>2, <3>3, <3>4 DEF ClientMoves
  <2>3. ASSUME NEW s \in Sessions, RegisterSession(s) \/ RemoveSession(s)
        PROVE  WS!Next
    BY <2>3 DEF RegisterSession, RemoveSession, WS!Next
  <2> QED
    BY <1>1, <2>1, <2>2, <2>3, ClientsSteps DEF ClientsStep
<1>2. Init => WS!Init
  BY DEF Init
<1>3. ClientInv => SubscriptionInv
  BY DEF ClientInv
<1> QED
  BY <1>1, <1>2, <1>3, ClientInvariance, PTL DEF Spec, ImplementsSubscriptions

=============================================================================
