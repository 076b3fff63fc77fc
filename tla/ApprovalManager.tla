-------------------------- MODULE ApprovalManager --------------------------
(***************************************************************************)
(* The hub's in-memory table of permission requests that wait for an       *)
(* answer (packages/hub/src/approval-manager.ts).  A request is opened     *)
(* once, sits in `pending` with an armed timer and up to two index         *)
(* entries, and is settled by exactly one of: a client's decision, the     *)
(* timer, one of three stale-cleanup lookups, or the cancellation of its   *)
(* session.                                                                *)
(*                                                                         *)
(* Every method is synchronous JavaScript, so each is one atomic action.   *)
(* The request id is a fresh UUID: a request of the model is opened at     *)
(* most once.                                                              *)
(***************************************************************************)
CONSTANTS
  Requests,         \* request ids (randomUUID)
  Sessions,         \* sesshin session ids
  Fingerprints,     \* one per (tool name, fingerprint of the tool input)
  ToolUseIds,       \* Claude's tool_use_id values
  TimeoutDecision,  \* opts.timeoutDecision
  None              \* undefined / absent

Outcomes == {"allow", "deny", "ask"}

Calls == [session : Sessions, fp : Fingerprints, tuid : ToolUseIds \cup {None}]

ASSUME TimeoutAssumption == TimeoutDecision \in Outcomes
ASSUME NoneAssumption ==
  None \notin Requests \cup ToolUseIds \cup Calls \cup Outcomes

VARIABLES
  call,           \* what each request asked for; None before open()
  pending,        \* keys of the `pending` map
  timers,         \* requests whose setTimeout is armed
  byToolUseId,    \* (session, tool_use_id) -> request id, None if absent
  byFingerprint,  \* (session, fingerprint) -> set of request ids
  settled,        \* what the decision promise resolved to; None before
  newest          \* history: the last request opened with each tool_use_id

vars == <<call, pending, timers, byToolUseId, byFingerprint, settled, newest>>

ToolUseIdKeys == Sessions \X ToolUseIds
FingerprintKeys == Sessions \X Fingerprints

Init ==
  /\ call = [r \in Requests |-> None]
  /\ pending = {}
  /\ timers = {}
  /\ byToolUseId = [k \in ToolUseIdKeys |-> None]
  /\ byFingerprint = [k \in FingerprintKeys |-> {}]
  /\ settled = [r \in Requests |-> None]
  /\ newest = [k \in ToolUseIdKeys |-> None]

-----------------------------------------------------------------------------
(* Keys and lookups                                                        *)

Opened(r) == call[r] # None
ToolUseIdKey(r) == <<call[r].session, call[r].tuid>>
FingerprintKey(r) == <<call[r].session, call[r].fp>>

PendingForSession(s) == {r \in pending : call[r].session = s}

(* What the stale-cleanup lookups find: at most one request each.          *)
MatchToolUseId(s, t) == {r \in pending : byToolUseId[<<s, t>>] = r}

MatchFingerprint(s, f) ==
  {r \in pending : byFingerprint[<<s, f>>] = {r} /\ call[r].tuid = None}

MatchSingleton(s) == {r \in pending : PendingForSession(s) = {r}}

-----------------------------------------------------------------------------
\* Faulty variants of cleanupIndexes and of the common settling path.
ForgetAnyHolder(R) ==
  [k \in ToolUseIdKeys |->
     IF \E r \in R : ToolUseIdKey(r) = k THEN None ELSE byToolUseId[k]]

ForgetNoFingerprint(R) == byFingerprint

SettleWithoutClearTimeout(R, outcome) ==
  /\ pending' = pending \ R
  /\ settled' = [r \in Requests |-> IF r \in R THEN outcome ELSE settled[r]]
  /\ UNCHANGED <<call, timers, byToolUseId, byFingerprint, newest>>

(* cleanupIndexes, for every entry of R: the tool_use_id slot goes only if  *)
(* it still names the entry, since a later open() may have taken it over.  *)

CleanToolUseIds(R) ==
  [k \in ToolUseIdKeys |->
     IF \E r \in R : ToolUseIdKey(r) = k /\ byToolUseId[k] = r
       THEN None ELSE byToolUseId[k]]

CleanFingerprints(R) ==
  [k \in FingerprintKeys |->
     byFingerprint[k] \ {r \in R : FingerprintKey(r) = k}]

(* Every path that ends a request: drop the entry, its timer and its index *)
(* slots, resolve its promise.                                             *)
Settle(R, outcome) ==
  /\ pending' = pending \ R
  /\ timers' = timers \ R
  /\ byToolUseId' = CleanToolUseIds(R)
  /\ byFingerprint' = CleanFingerprints(R)
  /\ settled' = [r \in Requests |-> IF r \in R THEN outcome ELSE settled[r]]
  /\ UNCHANGED <<call, newest>>

-----------------------------------------------------------------------------
(* Operations                                                              *)

Open(r, s, f, t) ==
  /\ ~Opened(r)
  /\ call' = [call EXCEPT ![r] = [session |-> s, fp |-> f, tuid |-> t]]
  /\ pending' = pending \cup {r}
  /\ timers' = timers \cup {r}
  /\ byToolUseId' =
       IF t = None THEN byToolUseId ELSE [byToolUseId EXCEPT ![<<s, t>>] = r]
  /\ newest' = IF t = None THEN newest ELSE [newest EXCEPT ![<<s, t>>] = r]
  /\ byFingerprint' = [byFingerprint EXCEPT ![<<s, f>>] = @ \cup {r}]
  /\ UNCHANGED settled

\* Faulty variant of Decide: the check that the entry exists is missing.
DecideAnyOpened(r, outcome) == Opened(r) /\ Settle({r}, outcome)

Decide(r, outcome) ==
  /\ r \in pending
  /\ Settle({r}, outcome)

\* Faulty variant: the promise resolves to the reason that is broadcast.
ExpireWithReason(r) ==
  /\ r \in timers
  /\ Settle({r}, "timeout")

(* The timer callback.  `existed` is false if something settled the        *)
(* request without clearing the timer; then nothing happens.               *)
Expire(r) ==
  /\ r \in timers
  /\ IF r \in pending
       THEN Settle({r}, TimeoutDecision)
       ELSE /\ timers' = timers \ {r}
            /\ UNCHANGED <<call, pending, byToolUseId, byFingerprint,
                           settled, newest>>

ResolveByToolUseId(s, t, outcome) ==
  \E r \in MatchToolUseId(s, t) : Decide(r, outcome)

ResolveByFingerprint(s, f, outcome) ==
  \E r \in MatchFingerprint(s, f) : Decide(r, outcome)

ResolveSingletonForSession(s, outcome) ==
  \E r \in MatchSingleton(s) : Decide(r, outcome)

(* cancelForSession, for each session of S: a socket that closes may be    *)
(* the last client of several sessions, cancelled in one synchronous loop. *)
CancelForSessions(S) ==
  LET R == {r \in pending : call[r].session \in S}
  IN  R # {} /\ Settle(R, "ask")

Next ==
  \/ \E r \in Requests, s \in Sessions, f \in Fingerprints,
        t \in ToolUseIds \cup {None} : Open(r, s, f, t)
  \/ \E r \in Requests, o \in Outcomes : Decide(r, o)
  \/ \E r \in Requests : Expire(r)
  \/ \E s \in Sessions, t \in ToolUseIds, o \in Outcomes :
        ResolveByToolUseId(s, t, o)
  \/ \E s \in Sessions, f \in Fingerprints, o \in Outcomes :
        ResolveByFingerprint(s, f, o)
  \/ \E s \in Sessions, o \in Outcomes : ResolveSingletonForSession(s, o)
  \/ \E S \in SUBSET Sessions : CancelForSessions(S)

Spec == Init /\ [][Next]_vars

-----------------------------------------------------------------------------
(* Properties                                                              *)

TypeOK ==
  /\ call \in [Requests -> Calls \cup {None}]
  /\ pending \subseteq Requests
  /\ timers \subseteq Requests
  /\ byToolUseId \in [ToolUseIdKeys -> Requests \cup {None}]
  /\ byFingerprint \in [FingerprintKeys -> SUBSET Requests]
  /\ settled \in [Requests -> Outcomes \cup {None}]
  /\ newest \in [ToolUseIdKeys -> Requests \cup {None}]

\* A request that was opened either waits, with its timer armed, or is
\* settled, with no timer left: no path loses a request, leaves a timer
\* behind, or leaves a held request that nothing will ever end.
PendingXorSettled ==
  /\ timers = pending
  /\ \A r \in Requests :
       Opened(r) <=> (r \in pending \/ settled[r] # None)
  /\ \A r \in pending : settled[r] = None

\* The fingerprint index holds exactly the pending requests of each key, so
\* resolveByFingerprint's "size === 1" test counts what is really waiting and
\* no settled request leaks a set.
FingerprintIndexExact ==
  \A k \in FingerprintKeys :
    byFingerprint[k] = {r \in pending : FingerprintKey(r) = k}

\* The tool_use_id index names the last request opened with the key for as
\* long as that request is pending, and nothing afterwards.  In particular
\* settling an older request with the same key does not cut off the newer one
\* (the guard of cleanupIndexes is for that case).
ToolUseIdIndexExact ==
  \A k \in ToolUseIdKeys :
    byToolUseId[k] = IF newest[k] \in pending THEN newest[k] ELSE None

\* The decision promise of a request resolves once: no timer, late answer,
\* cleanup or cancellation changes an outcome already given.
SettledOnce ==
  [][\A r \in Requests : settled[r] # None => settled'[r] = settled[r]]_vars
=============================================================================
