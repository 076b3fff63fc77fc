----------------------- MODULE ApprovalManagerProofs -----------------------
(***************************************************************************)
(* Machine-checked proofs about ApprovalManager, for every set of          *)
(* requests, sessions, fingerprints and tool_use_ids.                      *)
(***************************************************************************)
EXTENDS ApprovalManager, TLAPS

\* What the history variable says: it names opened requests, under the key
\* they were opened with.  Without it a fresh request could already be the
\* "newest" one of some key, and ToolUseIdIndexExact is not inductive.
NewestOpened ==
  \A k \in ToolUseIdKeys :
    newest[k] # None => Opened(newest[k]) /\ ToolUseIdKey(newest[k]) = k

\* The inductive invariant.
IInv ==
  /\ TypeOK
  /\ PendingXorSettled
  /\ FingerprintIndexExact
  /\ ToolUseIdIndexExact
  /\ NewestOpened

\* Empty tables agree with each other.
LEMMA InitIInv == Init => IInv
BY NoneAssumption
DEF Init, IInv, TypeOK, PendingXorSettled, FingerprintIndexExact,
    ToolUseIdIndexExact, NewestOpened, Opened, Calls

-----------------------------------------------------------------------------
(* Opening                                                                 *)

\* A fresh request enters the table, the timers and both indexes together.
LEMMA OpenIInv ==
  ASSUME IInv, NEW r \in Requests, NEW s \in Sessions, NEW f \in Fingerprints,
         NEW t \in ToolUseIds \cup {None}, Open(r, s, f, t)
  PROVE  IInv'
<1> DEFINE c == [session |-> s, fp |-> f, tuid |-> t]
<1>1. c \in Calls /\ c # None
  BY NoneAssumption DEF Calls
<1>2. r \notin pending /\ settled[r] = None /\ call[r] = None
  BY DEF IInv, PendingXorSettled, Open, Opened
<1>3. call'[r] = c /\ \A q \in Requests \ {r} : call'[q] = call[q]
  BY DEF IInv, TypeOK, Open
<1>4. <<s, f>> \in FingerprintKeys /\ (t # None => <<s, t>> \in ToolUseIdKeys)
  BY DEF FingerprintKeys, ToolUseIdKeys
<1>5. TypeOK'
  BY <1>1, <1>4 DEF IInv, TypeOK, Open
<1>6. PendingXorSettled'
  BY <1>1, <1>2, <1>3 DEF IInv, TypeOK, PendingXorSettled, Open, Opened
<1>7. FingerprintIndexExact'
  <2> SUFFICES ASSUME NEW k \in FingerprintKeys
               PROVE  byFingerprint'[k] =
                        {q \in pending' : FingerprintKey(q)' = k}
    BY DEF FingerprintIndexExact
  <2>1. FingerprintKey(r)' = <<s, f>>
    BY <1>3 DEF FingerprintKey
  <2>2. \A q \in pending : FingerprintKey(q)' = FingerprintKey(q)
    BY <1>2, <1>3 DEF FingerprintKey, IInv, TypeOK
  <2>3. byFingerprint[k] = {q \in pending : FingerprintKey(q) = k}
    BY DEF IInv, FingerprintIndexExact
  <2>4. pending' = pending \cup {r}
    BY DEF Open
  <2>5. byFingerprint'[k] = IF k = <<s, f>> THEN byFingerprint[k] \cup {r}
                                            ELSE byFingerprint[k]
    BY <1>4 DEF Open, IInv, TypeOK
  <2> QED
    BY <1>2, <2>1, <2>2, <2>3, <2>4, <2>5
<1>8. ToolUseIdIndexExact'
  <2> SUFFICES ASSUME NEW k \in ToolUseIdKeys
               PROVE  byToolUseId'[k] =
                        IF newest'[k] \in pending' THEN newest'[k] ELSE None
    BY DEF ToolUseIdIndexExact
  <2>1. newest[k] # r
    BY <1>2, NoneAssumption DEF IInv, NewestOpened, Opened
  <2>2. CASE t # None /\ k = <<s, t>>
    BY <2>2 DEF Open, IInv, TypeOK
  <2>3. CASE ~(t # None /\ k = <<s, t>>)
    <3>1. byToolUseId'[k] = byToolUseId[k] /\ newest'[k] = newest[k]
      BY <2>3, <1>4 DEF Open, IInv, TypeOK
    <3> QED
      BY <2>1, <3>1 DEF IInv, ToolUseIdIndexExact, Open
  <2> QED
    BY <2>2, <2>3
<1>9. NewestOpened'
  <2> SUFFICES ASSUME NEW k \in ToolUseIdKeys, newest'[k] # None
               PROVE  /\ call'[newest'[k]] # None
                      /\ <<call'[newest'[k]].session, call'[newest'[k]].tuid>> = k
    BY DEF NewestOpened, Opened, ToolUseIdKey
  <2>1. CASE t # None /\ k = <<s, t>>
    <3>1. newest'[k] = r
      BY <2>1 DEF Open, IInv, TypeOK
    <3> QED
      BY <1>1, <1>3, <2>1, <3>1
  <2>2. CASE ~(t # None /\ k = <<s, t>>)
    <3>1. newest'[k] = newest[k]
      BY <2>2, <1>4 DEF Open, IInv, TypeOK
    <3>2. newest[k] \in Requests \ {r}
      BY <1>2, <3>1 DEF IInv, TypeOK, NewestOpened, Opened
    <3> QED
      BY <1>3, <3>1, <3>2 DEF IInv, NewestOpened, Opened, ToolUseIdKey
  <2> QED
    BY <2>1, <2>2
<1> QED
  BY <1>5, <1>6, <1>7, <1>8, <1>9 DEF IInv

-----------------------------------------------------------------------------
(* Settling: one lemma for every path that ends requests                   *)

\* Every path that ends requests takes them out of all tables at once.
LEMMA SettleIInv ==
  ASSUME IInv, NEW R \in SUBSET pending, NEW o \in Outcomes, Settle(R, o)
  PROVE  IInv'
<1>1. o # None
  BY NoneAssumption
<1>2. R \subseteq Requests
  BY DEF IInv, TypeOK
<1>3. TypeOK'
  <2>1. CleanToolUseIds(R) \in [ToolUseIdKeys -> Requests \cup {None}]
    BY DEF CleanToolUseIds, IInv, TypeOK
  <2>2. CleanFingerprints(R) \in [FingerprintKeys -> SUBSET Requests]
    BY DEF CleanFingerprints, IInv, TypeOK
  <2> QED
    BY <2>1, <2>2 DEF Settle, IInv, TypeOK
<1>4. PendingXorSettled'
  BY <1>1, <1>2 DEF IInv, TypeOK, PendingXorSettled, Settle, Opened
<1>5. FingerprintIndexExact'
  <2> SUFFICES ASSUME NEW k \in FingerprintKeys
               PROVE  byFingerprint'[k] =
                        {q \in pending' : FingerprintKey(q)' = k}
    BY DEF FingerprintIndexExact
  <2>1. byFingerprint'[k] = byFingerprint[k] \ {q \in R : FingerprintKey(q) = k}
    BY DEF Settle, CleanFingerprints
  <2>2. byFingerprint[k] = {q \in pending : FingerprintKey(q) = k}
    BY DEF IInv, FingerprintIndexExact
  <2>3. pending' = pending \ R /\ call' = call
    BY DEF Settle
  <2> QED
    BY <2>1, <2>2, <2>3 DEF FingerprintKey
<1>6. ToolUseIdIndexExact'
  <2> SUFFICES ASSUME NEW k \in ToolUseIdKeys
               PROVE  byToolUseId'[k] =
                        IF newest[k] \in pending \ R THEN newest[k] ELSE None
    BY DEF ToolUseIdIndexExact, Settle
  <2>1. byToolUseId[k] = IF newest[k] \in pending THEN newest[k] ELSE None
    BY DEF IInv, ToolUseIdIndexExact
  <2>2. byToolUseId'[k] =
          IF \E q \in R : ToolUseIdKey(q) = k /\ byToolUseId[k] = q
            THEN None ELSE byToolUseId[k]
    BY DEF Settle, CleanToolUseIds
  <2>3. newest[k] \in R => ToolUseIdKey(newest[k]) = k
    BY <1>2, NoneAssumption DEF IInv, NewestOpened
  <2>4. None \notin R
    BY <1>2, NoneAssumption
  <2> QED
    BY <2>1, <2>2, <2>3, <2>4
<1>7. NewestOpened'
  BY DEF Settle, IInv, NewestOpened, Opened, ToolUseIdKey
<1> QED
  BY <1>3, <1>4, <1>5, <1>6, <1>7 DEF IInv

\* Every step opens a request or settles some pending ones, and leaves the
\* rest alone.
LEMMA StepKinds ==
  ASSUME IInv, Next
  PROVE  \/ \E r \in Requests, s \in Sessions, f \in Fingerprints,
               t \in ToolUseIds \cup {None} : Open(r, s, f, t)
         \/ \E R \in SUBSET pending, o \in Outcomes : Settle(R, o)
<1>1. CASE \E r \in Requests, s \in Sessions, f \in Fingerprints,
              t \in ToolUseIds \cup {None} : Open(r, s, f, t)
  BY <1>1
<1>2. CASE \E r \in Requests, o \in Outcomes : Decide(r, o)
  BY <1>2 DEF Decide
<1>3. CASE \E r \in Requests : Expire(r)
  BY <1>3, TimeoutAssumption DEF Expire, IInv, PendingXorSettled
<1>4. CASE \E s \in Sessions, t \in ToolUseIds, o \in Outcomes :
             ResolveByToolUseId(s, t, o)
  BY <1>4 DEF ResolveByToolUseId, Decide
<1>5. CASE \E s \in Sessions, f \in Fingerprints, o \in Outcomes :
             ResolveByFingerprint(s, f, o)
  BY <1>5 DEF ResolveByFingerprint, Decide
<1>6. CASE \E s \in Sessions, o \in Outcomes : ResolveSingletonForSession(s, o)
  BY <1>6 DEF ResolveSingletonForSession, Decide
<1>7. CASE \E S \in SUBSET Sessions : CancelForSessions(S)
  <2>1. PICK S \in SUBSET Sessions : CancelForSessions(S)
    BY <1>7
  <2>2. {r \in pending : call[r].session \in S} \in SUBSET pending
    OBVIOUS
  <2>3. "ask" \in Outcomes
    BY DEF Outcomes
  <2> QED
    BY <2>1, <2>2, <2>3 DEF CancelForSessions
<1> QED
  BY <1>1, <1>2, <1>3, <1>4, <1>5, <1>6, <1>7 DEF Next

\* A step that changes nothing keeps the invariant.
LEMMA StutterIInv == ASSUME IInv, UNCHANGED vars PROVE IInv'
BY DEF vars, IInv, TypeOK, PendingXorSettled, FingerprintIndexExact,
       ToolUseIdIndexExact, NewestOpened, Opened, ToolUseIdKey, FingerprintKey

\* The invariant is kept by every operation.
LEMMA NextIInv == IInv /\ [Next]_vars => IInv'
<1> SUFFICES ASSUME IInv, [Next]_vars PROVE IInv'
  OBVIOUS
<1>1. CASE Next
  BY <1>1, StepKinds, OpenIInv, SettleIInv
<1>2. CASE UNCHANGED vars
  BY <1>2, StutterIInv
<1> QED
  BY <1>1, <1>2

-----------------------------------------------------------------------------
(* Theorems                                                                *)

\* The inductive invariant holds of every reachable state.
THEOREM Invariance == Spec => []IInv
BY InitIInv, NextIInv, PTL DEF Spec

\* Every table of the manager keeps its type.
THEOREM TypeCorrect == Spec => []TypeOK
<1>1. IInv => TypeOK
  BY DEF IInv
<1> QED
  BY <1>1, Invariance, PTL

\* No request is lost or kept after it was settled, and a timer is armed
\* exactly for the pending ones.
THEOREM NoRequestLost == Spec => []PendingXorSettled
<1>1. IInv => PendingXorSettled
  BY DEF IInv
<1> QED
  BY <1>1, Invariance, PTL

\* The fingerprint index agrees with the pending table at every moment.
THEOREM FingerprintIndexCorrect == Spec => []FingerprintIndexExact
<1>1. IInv => FingerprintIndexExact
  BY DEF IInv
<1> QED
  BY <1>1, Invariance, PTL

\* The tool_use_id index names the newest pending request of each key.
THEOREM ToolUseIdIndexCorrect == Spec => []ToolUseIdIndexExact
<1>1. IInv => ToolUseIdIndexExact
  BY DEF IInv
<1> QED
  BY <1>1, Invariance, PTL

\* A decision promise resolves at most once.
THEOREM SettleOnce == Spec => SettledOnce
<1>1. IInv /\ [Next]_vars =>
        [\A r \in Requests : settled[r] # None => settled'[r] = settled[r]]_vars
  <2> SUFFICES ASSUME IInv, Next, NEW r \in Requests, settled[r] # None
               PROVE  settled'[r] = settled[r]
    OBVIOUS
  <2>1. r \notin pending
    BY DEF IInv, PendingXorSettled
  <2>2. CASE \E q \in Requests, s \in Sessions, f \in Fingerprints,
                t \in ToolUseIds \cup {None} : Open(q, s, f, t)
    BY <2>2 DEF Open
  <2>3. CASE \E R \in SUBSET pending, o \in Outcomes : Settle(R, o)
    BY <2>1, <2>3 DEF Settle
  <2> QED
    BY <2>2, <2>3, StepKinds
<1> QED
  BY <1>1, Invariance, PTL DEF Spec, SettledOnce
=============================================================================
