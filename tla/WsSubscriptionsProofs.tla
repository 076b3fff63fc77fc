------------------------ MODULE WsSubscriptionsProofs ------------------------
(***************************************************************************)
(* Machine-checked proofs about WsSubscriptions, for every set of clients  *)
(* and sessions: the counter that is only ever adjusted by one agrees with *)
(* the subscriptions, and the release signal it gives is exact.            *)
(***************************************************************************)
EXTENDS WsSubscriptions, FiniteSetTheorems, TLAPS

\* What keeps the counting right: removed ids stay removed, a closed socket
\* has no subscription, 'all' replaces the explicit set, and exactly the
\* actions clients on 'all' follow new sessions.
Bookkeeping ==
  /\ live \cap gone = {}
  /\ allSub \subseteq connected
  /\ \A c \in Clients : c \in allSub \/ c \notin connected => sub[c] = {}
  /\ listening = allSub \cap ActionsClients

\* The inductive invariant.
SubscriptionInv == TypeOK /\ Bookkeeping /\ CountExact

\* The watchers of a session can be counted.
LEMMA WatchersFinite ==
  ASSUME NEW s \in Sessions
  PROVE  IsFiniteSet(Watchers(s)) /\ Cardinality(Watchers(s)) \in Nat
<1>1. Watchers(s) \in SUBSET Clients
  BY ClientsAssumption DEF Watchers
<1> QED
  BY <1>1, ClientsAssumption, FS_Subset, FS_CardinalityType

\* Nobody is connected and nothing is counted at the start.
LEMMA InitSubscriptionInv == Init => SubscriptionInv
<1> SUFFICES ASSUME Init PROVE SubscriptionInv
  OBVIOUS
<1>1. TypeOK /\ Bookkeeping
  BY DEF Init, TypeOK, Bookkeeping
<1>2. \A s \in Sessions : Watchers(s) = {}
  BY DEF Init, Watchers
<1> QED
  BY <1>1, <1>2, FS_EmptySet DEF Init, SubscriptionInv, CountExact

-----------------------------------------------------------------------------
(* One client moves its subscription from one set of sessions to another   *)

\* Client c now has the subscription A; everybody else has what they had.
Moved(c, A) ==
  /\ connected' \in {connected, connected \ {c}}
  /\ c \notin connected' => A = {}
  /\ Subscribed(c)' = A
  /\ \A d \in Clients \ {c} : Subscribed(d)' = Subscribed(d)

\* The watchers of a session after one client moved.
LEMMA MovedWatchers ==
  ASSUME TypeOK, NEW c \in connected, NEW A \in SUBSET Sessions, Moved(c, A),
         NEW s \in Sessions
  PROVE  Watchers(s)' = IF s \in A /\ c \in ActionsClients
                          THEN Watchers(s) \cup {c} ELSE Watchers(s) \ {c}
BY ClientsAssumption DEF Watchers, Moved, TypeOK

\* Bumping by the difference of the two sets keeps the counter exact.
LEMMA MovedCount ==
  ASSUME SubscriptionInv, NEW c \in connected, NEW A \in SUBSET Sessions,
         Moved(c, A), gone' = gone,
         count' = Bumped(Counted(c, A \ Subscribed(c)),
                         Counted(c, Subscribed(c) \ A))
  PROVE  CountExact'
<1> SUFFICES ASSUME NEW s \in Sessions \ gone
             PROVE  count'[s] = Cardinality(Watchers(s)')
  BY DEF CountExact
<1>1. count[s] = Cardinality(Watchers(s)) /\ count[s] \in Nat
  BY DEF SubscriptionInv, CountExact, TypeOK
<1>2. IsFiniteSet(Watchers(s))
  BY WatchersFinite
<1>3. c \in Watchers(s) <=> c \in ActionsClients /\ s \in Subscribed(c)
  BY DEF Watchers
<1>4. Watchers(s)' = IF s \in A /\ c \in ActionsClients
                       THEN Watchers(s) \cup {c} ELSE Watchers(s) \ {c}
  BY MovedWatchers DEF SubscriptionInv
<1>5. CASE s \in A /\ c \in ActionsClients
  <2>1. count'[s] = IF c \in Watchers(s) THEN count[s] ELSE count[s] + 1
    BY <1>3, <1>5 DEF Bumped, Counted
  <2>2. Cardinality(Watchers(s)') =
          IF c \in Watchers(s) THEN count[s] ELSE count[s] + 1
    <3>1. Watchers(s)' = Watchers(s) \cup {c}
      BY <1>4, <1>5
    <3> QED
      BY <1>1, <1>2, <3>1, FS_AddElement
  <2> QED
    BY <2>1, <2>2
<1>6. CASE ~ (s \in A /\ c \in ActionsClients)
  <2>1. Cardinality(Watchers(s)') =
          IF c \in Watchers(s) THEN count[s] - 1 ELSE count[s]
    BY <1>1, <1>2, <1>4, <1>6, FS_RemoveElement
  <2>2. c \in Watchers(s) => count[s] > 0
    BY <1>1, <1>2, FS_EmptySet
  <2>3. count'[s] = IF c \in Watchers(s) THEN count[s] - 1 ELSE count[s]
    BY <1>3, <1>6, <2>2 DEF Bumped, Counted
  <2> QED
    BY <2>1, <2>3
<1> QED
  BY <1>5, <1>6

\* The counter stays a natural number for every session.
LEMMA BumpedType ==
  ASSUME TypeOK, NEW up, NEW down
  PROVE  Bumped(up, down) \in [Sessions -> Nat]
BY DEF Bumped, TypeOK

\* An explicit list replaces what the client had.
LEMMA SubscribeToInv ==
  ASSUME SubscriptionInv, NEW c \in Clients, NEW S \in SUBSET Sessions,
         SubscribeTo(c, S)
  PROVE  SubscriptionInv'
<1> USE DEF SubscriptionInv, SubscribeTo
<1>1. TypeOK'
  BY BumpedType DEF TypeOK
<1>2. Bookkeeping'
  BY DEF Bookkeeping, TypeOK
<1>3. Moved(c, S)
  BY DEF Moved, Subscribed, TypeOK
<1> QED
  BY <1>1, <1>2, <1>3, MovedCount

\* 'all' stands for the sessions registered now; later ones are the listener's.
LEMMA SubscribeAllInv ==
  ASSUME SubscriptionInv, NEW c \in Clients, SubscribeAll(c)
  PROVE  SubscriptionInv'
<1> USE DEF SubscriptionInv, SubscribeAll
<1>1. TypeOK'
  BY BumpedType, ClientsAssumption DEF TypeOK, Counted
<1>2. Bookkeeping'
  BY DEF Bookkeeping, TypeOK, Counted
<1>3. Moved(c, live)
  BY DEF Moved, Subscribed, TypeOK
<1>4. live \in SUBSET Sessions
  BY DEF TypeOK
<1> QED
  BY <1>1, <1>2, <1>3, <1>4, MovedCount

\* Unsubscribing from 'all' leaves the explicit rest and stops following.
LEMMA UnsubscribeInv ==
  ASSUME SubscriptionInv, NEW c \in Clients, NEW S \in SUBSET Sessions,
         Unsubscribe(c, S)
  PROVE  SubscriptionInv'
<1> DEFINE A == Subscribed(c) \ S
<1>1. Subscribed(c) \in SUBSET Sessions
  BY DEF SubscriptionInv, Subscribed, TypeOK
<1>2. TypeOK'
  BY <1>1, BumpedType DEF SubscriptionInv, Unsubscribe, TypeOK
<1>3. Bookkeeping'
  BY DEF SubscriptionInv, Unsubscribe, Bookkeeping, TypeOK
<1>4. Moved(c, A)
  BY DEF Moved, Subscribed, SubscriptionInv, Unsubscribe, TypeOK
<1>5. Counted(c, A \ Subscribed(c)) = {}
      /\ Subscribed(c) \ A = Subscribed(c) \cap S
  BY DEF Counted
<1>6. count' = Bumped(Counted(c, A \ Subscribed(c)), Counted(c, Subscribed(c) \ A))
  BY <1>5 DEF Unsubscribe
<1> QED
  BY <1>1, <1>2, <1>3, <1>4, <1>6, MovedCount DEF SubscriptionInv, Unsubscribe

\* A closing socket takes its whole subscription with it.
LEMMA CloseInv ==
  ASSUME SubscriptionInv, NEW c \in Clients, Close(c)
  PROVE  SubscriptionInv'
<1>1. TypeOK'
  BY BumpedType DEF SubscriptionInv, Close, TypeOK
<1>2. Bookkeeping'
  BY DEF SubscriptionInv, Close, Bookkeeping, TypeOK
<1>3. Moved(c, {})
  BY DEF Moved, Subscribed, SubscriptionInv, Close, TypeOK
<1>4. Counted(c, {} \ Subscribed(c)) = {} /\ Subscribed(c) \ {} = Subscribed(c)
  BY DEF Counted
<1>5. count' = Bumped(Counted(c, {} \ Subscribed(c)), Counted(c, Subscribed(c) \ {}))
  BY <1>4 DEF Close
<1> QED
  BY <1>1, <1>2, <1>3, <1>5, MovedCount DEF SubscriptionInv, Close

\* A new socket is subscribed to nothing, so it watches nothing yet.
LEMMA ConnectInv ==
  ASSUME SubscriptionInv, NEW c \in Clients, Connect(c)
  PROVE  SubscriptionInv'
<1>1. TypeOK' /\ Bookkeeping'
  BY DEF SubscriptionInv, Connect, TypeOK, Bookkeeping
<1>2. Subscribed(c) = {}
  BY DEF SubscriptionInv, Connect, Bookkeeping, Subscribed
<1>3. \A s \in Sessions : Watchers(s)' = Watchers(s)
  BY <1>2 DEF Connect, Watchers, Subscribed
<1> QED
  BY <1>1, <1>3 DEF SubscriptionInv, CountExact, Connect

\* The listeners are the clients on 'all', none of whom counted for a session
\* that was not registered.
LEMMA RegisterSessionInv ==
  ASSUME SubscriptionInv, NEW s \in Sessions, RegisterSession(s)
  PROVE  SubscriptionInv'
<1>1. IsFiniteSet(listening) /\ Cardinality(listening) \in Nat
  BY ClientsAssumption, FS_Subset, FS_CardinalityType DEF SubscriptionInv, TypeOK
<1>2. TypeOK' /\ Bookkeeping'
  BY <1>1 DEF SubscriptionInv, RegisterSession, TypeOK, Bookkeeping
<1>3. ASSUME NEW z \in Sessions \ gone
      PROVE  count'[z] = Cardinality(Watchers(z)')
  <2>1. count[z] = Cardinality(Watchers(z)) /\ count[z] \in Nat
    BY DEF SubscriptionInv, CountExact, TypeOK
  <2>2. CASE z = s
    <3>1. Watchers(z)' = Watchers(z) \cup listening
      BY <2>2
      DEF SubscriptionInv, RegisterSession, Bookkeeping, TypeOK, Watchers, Subscribed
    <3>2. Watchers(z) \cap listening = {}
      BY <2>2
      DEF SubscriptionInv, RegisterSession, Bookkeeping, Watchers, Subscribed
    <3>3. Cardinality(Watchers(z) \cup listening) =
            Cardinality(Watchers(z)) + Cardinality(listening)
      <4>1. IsFiniteSet(Watchers(z))
        BY WatchersFinite
      <4>2. Cardinality(Watchers(z) \cup listening) =
              Cardinality(Watchers(z)) + Cardinality(listening)
                - Cardinality(Watchers(z) \cap listening)
        BY <1>1, <4>1, FS_Union
      <4>3. Cardinality(Watchers(z) \cap listening) = 0
        BY <3>2, FS_EmptySet
      <4> QED
        BY <1>1, <2>1, <4>2, <4>3
    <3>4. count'[z] = count[z] + Cardinality(listening)
      BY <2>2 DEF RegisterSession, SubscriptionInv, TypeOK
    <3> QED
      BY <2>1, <3>1, <3>3, <3>4
  <2>3. CASE z # s
    <3>1. Watchers(z)' = Watchers(z)
      BY <2>3 DEF RegisterSession, Watchers, Subscribed
    <3> QED
      BY <2>1, <2>3, <3>1 DEF RegisterSession, SubscriptionInv, TypeOK
  <2> QED
    BY <2>2, <2>3
<1> QED
  BY <1>2, <1>3 DEF SubscriptionInv, CountExact, RegisterSession

\* Nothing is said of the counter of a session that is gone.
LEMMA RemoveSessionInv ==
  ASSUME SubscriptionInv, NEW s \in Sessions, RemoveSession(s)
  PROVE  SubscriptionInv'
<1>1. TypeOK' /\ Bookkeeping'
  BY DEF SubscriptionInv, RemoveSession, TypeOK, Bookkeeping
<1>2. \A z \in Sessions \ {s} : Watchers(z)' = Watchers(z)
  BY DEF RemoveSession, Watchers, Subscribed
<1> QED
  BY <1>1, <1>2 DEF SubscriptionInv, CountExact, RemoveSession

\* Every message, socket event and registry event keeps the invariant.
LEMMA NextSubscriptionInv == SubscriptionInv /\ [Next]_vars => SubscriptionInv'
<1> SUFFICES ASSUME SubscriptionInv, [Next]_vars PROVE SubscriptionInv'
  OBVIOUS
<1>1. CASE Next
  BY <1>1, ConnectInv, SubscribeToInv, SubscribeAllInv, UnsubscribeInv, CloseInv,
     RegisterSessionInv, RemoveSessionInv DEF Next
<1>2. CASE UNCHANGED vars
  BY <1>2 DEF vars, SubscriptionInv, TypeOK, Bookkeeping, CountExact, Watchers,
              Subscribed
<1> QED
  BY <1>1, <1>2

-----------------------------------------------------------------------------
(* Theorems                                                                *)

\* The bookkeeping of subscriptions is right in every reachable state.
THEOREM Invariance == Spec => []SubscriptionInv
BY InitSubscriptionInv, NextSubscriptionInv, PTL DEF Spec

\* The tables keep their types; in particular the counter never goes negative.
THEOREM TypeCorrect == Spec => []TypeOK
<1>1. SubscriptionInv => TypeOK
  BY DEF SubscriptionInv
<1> QED
  BY <1>1, Invariance, PTL

\* The counter of a session that was not removed is the number of its watchers.
THEOREM CountCorrect == Spec => []CountExact
<1>1. SubscriptionInv => CountExact
  BY DEF SubscriptionInv
<1> QED
  BY <1>1, Invariance, PTL

\* The release signal fires on the step that takes the last watcher away, and
\* on no other.
THEOREM ReleaseSignalCorrect == Spec => ReleaseSignalExact
<1>1. SubscriptionInv /\ SubscriptionInv' /\ [Next]_vars =>
        [\A s \in live \cap live' :
           (count[s] > 0 /\ count'[s] = 0)
             <=> (Watchers(s) # {} /\ Watchers(s)' = {})]_vars
  <2> SUFFICES ASSUME SubscriptionInv, SubscriptionInv', NEW s \in live \cap live'
               PROVE  (count[s] > 0 /\ count'[s] = 0)
                        <=> (Watchers(s) # {} /\ Watchers(s)' = {})
    OBVIOUS
  <2>1. s \in Sessions /\ s \notin gone /\ s \notin gone'
    BY DEF SubscriptionInv, TypeOK, Bookkeeping
  <2>2. /\ count[s] = Cardinality(Watchers(s)) /\ count[s] \in Nat
        /\ count'[s] = Cardinality(Watchers(s)')
    BY <2>1 DEF SubscriptionInv, CountExact, TypeOK
  <2>3. IsFiniteSet(Watchers(s)) /\ IsFiniteSet(Watchers(s)')
    <3>1. Watchers(s) \in SUBSET Clients /\ Watchers(s)' \in SUBSET Clients
      BY ClientsAssumption DEF Watchers
    <3> QED
      BY <3>1, ClientsAssumption, FS_Subset
  <2> QED
    BY <2>2, <2>3, FS_EmptySet
<1> QED
  BY <1>1, Invariance, PTL DEF Spec, ReleaseSignalExact
=============================================================================
