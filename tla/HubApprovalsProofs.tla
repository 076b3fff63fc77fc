------------------------- MODULE HubApprovalsProofs -------------------------
(***************************************************************************)
(* Machine-checked proofs about HubApprovals, for every set of requests,   *)
(* sessions, clients and Claude conversations: the hub keeps its           *)
(* per-request maps in step with the table, uses the table only through    *)
(* its operations, and implements PermissionGate; and the keys that a tool *)
(* handler's card offers are keys that it understands.                     *)
(***************************************************************************)
EXTENDS HubApprovals, TLAPS

-----------------------------------------------------------------------------
(* The inductive invariant                                                 *)

RequestTypes ==
  /\ call \in [Requests -> AM!Calls \cup {None}]
  /\ pending \subseteq Requests
  /\ settled \in [Requests -> AM!Outcomes \cup {None}]
  /\ handlers \subseteq Requests
  /\ updates \subseteq Requests
  /\ ready \subseteq Requests
  /\ http \in [Requests -> {"none", "held"} \cup Gate!Replies]
  /\ answer \in [Requests -> Gate!Answers \cup {None}]

\* The outcome an accepted answer settles its request with.
OutcomeOf(a) == IF a = "allowWith" THEN "allow" ELSE a

\* An accepted answer used up its slot and is what the request was settled
\* with; without the slot no later answer can touch its updates.
AnswerDecided ==
  \A r \in Requests :
    answer[r] # None => r \notin handlers /\ settled[r] = OutcomeOf(answer[r])

\* Until the handler resumes: the request is settled, only an answer settles
\* with `allow`, and the updates are those of the accepted answer.
ReadyDecided ==
  \A r \in ready :
    /\ settled[r] # None
    /\ settled[r] = "allow" => answer[r] # None
    /\ answer[r] # None => (r \in updates <=> answer[r] = "allowWith")

RequestInv ==
  /\ RequestTypes
  /\ AM!PendingXorSettled
  /\ SlotsFollowTable
  /\ HeldIsWaiting
  /\ AnswerDecided
  /\ ReadyDecided

\* The hub starts with empty tables and no call.
LEMMA InitRequestInv == Init => RequestInv
<1> SUFFICES ASSUME Init PROVE RequestInv
  OBVIOUS
<1> USE DEF Init, AM!Init
<1>1. RequestTypes
  BY DEF RequestTypes
<1>2. AM!PendingXorSettled
  BY DEF AM!PendingXorSettled, AM!Opened
<1>3. SlotsFollowTable /\ HeldIsWaiting
  BY DEF SlotsFollowTable, HeldIsWaiting
<1>4. AnswerDecided /\ ReadyDecided
  BY DEF AnswerDecided, ReadyDecided
<1> QED
  BY <1>1, <1>2, <1>3, <1>4 DEF RequestInv

-----------------------------------------------------------------------------
(* What a step does to the requests                                        *)

\* Whatever a client sends, the handler's decision is one the gate knows.
LEMMA DecisionsAreAnswers ==
  \A r \in Requests : Handlers!PossibleDecisions(ToolOf[r]) \subseteq Gate!Answers
<1> SUFFICES ASSUME NEW tool \in Handlers!Tools,
                    NEW key \in Handlers!AllKeys \cup {Handlers!NoKey},
                    NEW scoped \in BOOLEAN
             PROVE  Handlers!Decide(tool, key, scoped) \in Gate!Answers
  BY ToolOfAssumption DEF Handlers!PossibleDecisions
<1>1. Handlers!HandlerOf[tool] \in
        {"bash", "fileEdit", "webFetch", "exitPlanMode", "askUserQuestion",
         "catchAll"}
  BY DEF Handlers!Tools, Handlers!HandlerOf
<1> QED
  BY <1>1 DEF Handlers!Decide, Handlers!Bash, Handlers!FileEdit,
    Handlers!WebFetch, Handlers!ExitPlanMode, Handlers!AskUserQuestion,
    Handlers!CatchAll, Gate!Answers

RequestStep ==
  \/ UNCHANGED requestVars
  \/ \E r \in Requests, s \in Sessions : Refuse(r, s)
  \/ \E ask \in Asks : Request(ask[1], ask[2], ask[3], ask[4])
  \/ \E r \in Requests : Resume(r)
  \/ \E r \in Requests : Expire(r)
  \/ \E c \in Clients, r \in Requests, a \in Gate!Answers : ClientAnswer(c, r, a)
  \/ \E S \in SUBSET Sessions : CancelPending(S)
  \/ \E s \in Sessions, f \in Fingerprints \cup {None},
        t \in ToolUseIds \cup {None}, isStop \in BOOLEAN :
       StaleCleanup(s, f, t, isStop)

\* The handlers that are not about one request reach the table through
\* CancelPending and StaleCleanup only.
LEMMA RequestSteps == [Next]_vars => RequestStep
<1> SUFFICES ASSUME [Next]_vars PROVE RequestStep
  OBVIOUS
<1> USE DEF RequestStep
<1>1. WS!LastActionsClientGone \in SUBSET Sessions
  BY DEF WS!LastActionsClientGone
<1>2. CASE ClientStep
  <2> PICK c \in Clients :
        \/ Connect(c) \/ SubscribeAll(c) \/ Close(c)
        \/ \E S \in SUBSET Sessions : SubscribeTo(c, S) \/ Unsubscribe(c, S)
        \/ \E r \in Requests, a \in Gate!Answers : ClientAnswer(c, r, a)
    BY <1>2, DecisionsAreAnswers DEF ClientStep
  <2>1. CASE Connect(c)
    BY <2>1 DEF Connect
  <2>2. CASE SubscribeAll(c) \/ Close(c)
    BY <1>1, <2>2 DEF SubscribeAll, Close
  <2>3. CASE \E S \in SUBSET Sessions : SubscribeTo(c, S) \/ Unsubscribe(c, S)
    BY <1>1, <2>3 DEF SubscribeTo, Unsubscribe
  <2>4. CASE \E r \in Requests, a \in Gate!Answers : ClientAnswer(c, r, a)
    BY <2>4
  <2> QED
    BY <2>1, <2>2, <2>3, <2>4
<1>3. CASE ClaudeStep
  <2>1. CASE \E r \in Requests, s \in Sessions : Refuse(r, s)
    BY <2>1
  <2>2. CASE \E ask \in Asks : Request(ask[1], ask[2], ask[3], ask[4])
    BY <2>2
  <2>3. CASE \E s \in Sessions, k \in Children : SessionStart(s, k)
    <3> PICK s \in Sessions, k \in Children : SessionStart(s, k)
      BY <2>3
    <3> DEFINE S == IF child[s] = k THEN {} ELSE {s}
    <3>1. S \in SUBSET Sessions /\ CancelPending(S)
      BY DEF SessionStart
    <3> QED
      BY <3>1
  <2>4. CASE \E s \in Sessions : SessionEnd(s)
    <3> PICK s \in Sessions : SessionEnd(s)
      BY <2>4
    <3> DEFINE S == IF child[s] = None THEN {} ELSE {s}
    <3>1. S \in SUBSET Sessions /\ CancelPending(S)
      BY DEF SessionEnd
    <3> QED
      BY <3>1
  <2>5. CASE \E s \in Sessions : Stop(s)
    BY <2>5 DEF Stop
  <2>6. CASE \E s \in Sessions, f \in Fingerprints, t \in ToolUseIds \cup {None} :
               ToolDone(s, f, t)
    BY <2>6 DEF ToolDone
  <2>7. CASE \E s \in Sessions, e \in BusEvents : BusEvent(s, e)
    BY <2>7 DEF BusEvent
  <2> QED
    BY <1>3, <2>1, <2>2, <2>3, <2>4, <2>5, <2>6, <2>7 DEF ClaudeStep
<1>4. CASE HubStep
  <2>1. CASE \E r \in Requests : Resume(r) \/ Expire(r)
    BY <2>1
  <2>2. CASE \E s \in Sessions : RegisterSession(s)
    BY <2>2 DEF RegisterSession
  <2>3. CASE \E s \in Sessions : RemoveSession(s)
    <3> PICK s \in Sessions : RemoveSession(s)
      BY <2>3
    <3>1. {s} \in SUBSET Sessions /\ CancelPending({s})
      BY DEF RemoveSession
    <3> QED
      BY <3>1
  <2>4. CASE \E s \in Sessions : PtyIdle(s) \/ SummaryNeedsDecision(s)
    BY <2>4 DEF PtyIdle, SummaryNeedsDecision
  <2> QED
    BY <1>4, <2>1, <2>2, <2>3, <2>4 DEF HubStep
<1>5. CASE UNCHANGED vars
  BY <1>5 DEF vars
<1> QED
  BY <1>2, <1>3, <1>4, <1>5 DEF Next

-----------------------------------------------------------------------------
(* The request invariant is inductive                                      *)

\* Ending pending requests by the hub's own decision, whichever handler does.
LEMMA EndedRequestInv ==
  ASSUME RequestInv, NEW R \in SUBSET pending, NEW o \in {"ask", "deny"},
         \/ AM!Settle(R, o)
         \/ R = {} /\ UNCHANGED tableVars,
         DropSlots(R), ready' = ready \cup R, UNCHANGED <<http, answer, openedIn>>
  PROVE  RequestInv'
<1>1. /\ pending' = pending \ R
      /\ timers' = timers \ R
      /\ settled' = [r \in Requests |-> IF r \in R THEN o ELSE settled[r]]
      /\ call' = call
  BY DEF AM!Settle, tableVars, RequestInv, RequestTypes, AM!PendingXorSettled
<1>2. o \in AM!Outcomes /\ o # None /\ o # "allow"
  BY NoneAssumption DEF AM!Outcomes
<1>3. \A r \in R : r \in Requests /\ settled[r] = None /\ answer[r] = None
  BY NoneAssumption
  DEF RequestInv, RequestTypes, AM!PendingXorSettled, AnswerDecided, OutcomeOf,
      AM!Outcomes, Gate!Answers
<1>4. RequestTypes'
  BY <1>1, <1>2 DEF RequestInv, RequestTypes, DropSlots
<1>5. AM!PendingXorSettled'
  BY <1>1, <1>2 DEF RequestInv, RequestTypes, AM!PendingXorSettled, AM!Opened
<1>6. SlotsFollowTable'
  BY <1>1 DEF RequestInv, SlotsFollowTable, DropSlots
<1>7. HeldIsWaiting'
  BY <1>1 DEF RequestInv, HeldIsWaiting
<1>8. AnswerDecided'
  BY <1>1, <1>3 DEF RequestInv, AnswerDecided, DropSlots
<1>9. ReadyDecided'
  <2>1. \A r \in R : r \in ready' => settled'[r] = o /\ answer'[r] = None
    BY <1>1, <1>3
  <2>2. \A r \in ready \ R : settled'[r] = settled[r] /\ answer'[r] = answer[r]
                             /\ (r \in updates' <=> r \in updates)
    BY <1>1 DEF RequestInv, RequestTypes, DropSlots
  <2> QED
    BY <1>2, <2>1, <2>2 DEF RequestInv, ReadyDecided
<1> QED
  BY <1>4, <1>5, <1>6, <1>7, <1>8, <1>9 DEF RequestInv

\* Last client gone, session removed, conversation ended.
LEMMA CancelPendingRequestInv ==
  ASSUME RequestInv, NEW S \in SUBSET Sessions, CancelPending(S)
  PROVE  RequestInv'
<1>1. PendingOf(S) \in SUBSET pending
  BY DEF PendingOf
<1>2. \/ AM!Settle(PendingOf(S), "ask")
      \/ PendingOf(S) = {} /\ UNCHANGED tableVars
  BY DEF CancelPending, AM!CancelForSessions, PendingOf
<1> QED
  BY <1>1, <1>2, EndedRequestInv DEF CancelPending

\* Every lookup of ingestHook finds at most one request, a pending one.
LEMMA StaleMatchSingle ==
  ASSUME NEW s, NEW f, NEW t, NEW isStop
  PROVE  /\ StaleMatch(s, f, t, isStop) \subseteq pending
         /\ \A q, r \in StaleMatch(s, f, t, isStop) : q = r
<1>1. \A m : AM!MatchToolUseId(s, m) \subseteq pending
             /\ \A q, r \in AM!MatchToolUseId(s, m) : q = r
  BY DEF AM!MatchToolUseId
<1>2. \A m : AM!MatchFingerprint(s, m) \subseteq pending
             /\ \A q, r \in AM!MatchFingerprint(s, m) : q = r
  BY DEF AM!MatchFingerprint
<1>3. AM!MatchSingleton(s) \subseteq pending
      /\ \A q, r \in AM!MatchSingleton(s) : q = r
  BY DEF AM!MatchSingleton
<1> QED
  BY <1>1, <1>2, <1>3 DEF StaleMatch

\* PostToolUse, PostToolUseFailure and Stop settle at most one request.
LEMMA StaleCleanupRequestInv ==
  ASSUME RequestInv, NEW s, NEW f, NEW t, NEW isStop,
         StaleCleanup(s, f, t, isStop)
  PROVE  RequestInv'
BY StaleMatchSingle, EndedRequestInv DEF StaleCleanup

\* Opening a request takes its slot and its place in the table together.
LEMMA RequestRequestInv ==
  ASSUME RequestInv, NEW ask \in Asks, Request(ask[1], ask[2], ask[3], ask[4])
  PROVE  RequestInv'
<1> DEFINE r == ask[1]
           c == [session |-> ask[2], fp |-> ask[3], tuid |-> ask[4]]
<1>1. r \in Requests /\ c \in AM!Calls /\ c # None
  BY AsksAssumption, NoneAssumption DEF AM!Calls
<1>2. /\ http[r] = "none" /\ call[r] = None
      /\ call' = [call EXCEPT ![r] = c]
      /\ pending' = pending \cup {r}
      /\ timers' = timers \cup {r}
      /\ UNCHANGED <<settled, updates, ready, answer>>
      /\ handlers' = handlers \cup {r}
      /\ http' = [http EXCEPT ![r] = "held"]
  BY DEF Request, AM!Open, AM!Opened
<1>3. r \notin ready /\ settled[r] = None /\ answer[r] = None
  BY <1>1, <1>2, NoneAssumption
  DEF RequestInv, RequestTypes, HeldIsWaiting, AM!PendingXorSettled, AM!Opened,
      AnswerDecided, OutcomeOf, Gate!Answers, AM!Outcomes
<1>4. RequestTypes'
  BY <1>1, <1>2 DEF RequestInv, RequestTypes
<1>5. AM!PendingXorSettled'
  BY <1>1, <1>2, <1>3 DEF RequestInv, RequestTypes, AM!PendingXorSettled, AM!Opened
<1>6. SlotsFollowTable'
  BY <1>2 DEF RequestInv, SlotsFollowTable
<1>7. HeldIsWaiting'
  BY <1>1, <1>2 DEF RequestInv, RequestTypes, HeldIsWaiting
<1>8. AnswerDecided'
  BY <1>2, <1>3 DEF RequestInv, AnswerDecided
<1>9. ReadyDecided'
  BY <1>2 DEF RequestInv, ReadyDecided
<1> QED
  BY <1>4, <1>5, <1>6, <1>7, <1>8, <1>9 DEF RequestInv

\* A call that is refused on the spot touches neither table nor slots.
LEMMA RefuseRequestInv ==
  ASSUME RequestInv, NEW r \in Requests, NEW s, Refuse(r, s)
  PROVE  RequestInv'
<1>1. PICK reply \in {"deny", "invalid", Gate!Passthrough(r)} :
        http' = [http EXCEPT ![r] = reply]
  BY DEF Refuse
<1>2. reply \in Gate!Replies /\ reply # "held"
  BY DEF Gate!Replies, Gate!Passthrough
<1>3. http[r] = "none" /\ UNCHANGED <<tableVars, slotVars, ready, answer>>
  BY DEF Refuse
<1>4. RequestTypes'
  BY <1>1, <1>2, <1>3 DEF RequestInv, RequestTypes, tableVars, slotVars
<1>5. HeldIsWaiting'
  BY <1>1, <1>2, <1>3 DEF RequestInv, RequestTypes, HeldIsWaiting, tableVars
<1> QED
  BY <1>3, <1>4, <1>5
  DEF RequestInv, AM!PendingXorSettled, AM!Opened, SlotsFollowTable,
      AnswerDecided, ReadyDecided, tableVars, slotVars

\* The reply of a handler that resumes is the reply to the accepted answer,
\* or without one what the hub says when it gives up.
LEMMA ReplyForIsReply ==
  ASSUME RequestInv, NEW r \in ready
  PROVE  /\ ReplyFor(r) \in IF answer[r] = None
                              THEN {"deny", Gate!Passthrough(r)}
                              ELSE {Gate!ReplyTo(r, answer[r])}
         /\ ReplyFor(r) \in Gate!Replies
         /\ ReplyFor(r) # "held"
<1>1. r \in Requests /\ settled[r] \in {"allow", "deny", "ask"}
  BY DEF RequestInv, RequestTypes, ReadyDecided, AM!Outcomes
<1>2. Gate!Passthrough(r) \in {"deny", "passthrough"}
  BY DEF Gate!Passthrough
<1>3. CASE answer[r] = None
  BY <1>1, <1>2, <1>3 DEF RequestInv, ReadyDecided, ReplyFor, Gate!Replies
<1>4. CASE answer[r] # None
  <2>1. /\ settled[r] = OutcomeOf(answer[r])
        /\ r \in updates <=> answer[r] = "allowWith"
        /\ answer[r] \in Gate!Answers
    BY <1>1, <1>4 DEF RequestInv, RequestTypes, AnswerDecided, ReadyDecided
  <2> QED
    BY <1>2, <1>4, <2>1
    DEF ReplyFor, Gate!ReplyTo, OutcomeOf, Gate!Answers, Gate!Replies
<1> QED
  BY <1>3, <1>4

\* Resuming a handler gives up its slots and its held call together.
LEMMA ResumeRequestInv ==
  ASSUME RequestInv, NEW r \in Requests, Resume(r)
  PROVE  RequestInv'
<1>1. /\ r \in ready
      /\ ready' = ready \ {r}
      /\ handlers' = handlers \ {r}
      /\ updates' = updates \ {r}
      /\ http' = [http EXCEPT ![r] = ReplyFor(r)]
      /\ UNCHANGED <<tableVars, answer>>
  BY DEF Resume, DropSlots
<1>2. ReplyFor(r) \in Gate!Replies /\ ReplyFor(r) # "held"
  BY <1>1, ReplyForIsReply
<1>3. r \notin pending
  BY <1>1 DEF RequestInv, ReadyDecided, AM!PendingXorSettled
<1>4. RequestTypes'
  BY <1>1, <1>2 DEF RequestInv, RequestTypes, tableVars
<1>5. SlotsFollowTable'
  BY <1>1, <1>3 DEF RequestInv, SlotsFollowTable, tableVars
<1>6. HeldIsWaiting'
  BY <1>1, <1>2, <1>3 DEF RequestInv, RequestTypes, HeldIsWaiting, tableVars
<1>7. AnswerDecided' /\ ReadyDecided'
  BY <1>1 DEF RequestInv, AnswerDecided, ReadyDecided, tableVars
<1>8. AM!PendingXorSettled'
  BY <1>1 DEF RequestInv, AM!PendingXorSettled, AM!Opened, tableVars
<1> QED
  BY <1>4, <1>5, <1>6, <1>7, <1>8 DEF RequestInv

\* A timer fires only for a pending request, which leaves the table with `ask`
\* and waits for its handler; its slot stays until then.
LEMMA ExpireRequestInv ==
  ASSUME RequestInv, NEW r \in Requests, Expire(r)
  PROVE  RequestInv'
<1>1. r \in pending /\ AM!Settle({r}, "ask")
  BY DEF Expire, AM!Expire, RequestInv, AM!PendingXorSettled
<1>2. /\ pending' = pending \ {r}
      /\ timers' = timers \ {r}
      /\ settled' = [q \in Requests |-> IF q = r THEN "ask" ELSE settled[q]]
      /\ ready' = ready \cup {r}
      /\ UNCHANGED <<call, slotVars, http, answer>>
  BY <1>1 DEF Expire, AM!Settle
<1>3. answer[r] = None /\ r \notin ready /\ settled[r] = None
  BY <1>1, NoneAssumption
  DEF RequestInv, RequestTypes, AM!PendingXorSettled, AnswerDecided, OutcomeOf,
      ReadyDecided, AM!Outcomes, Gate!Answers
<1>4. "ask" \in AM!Outcomes /\ "ask" # None
  BY NoneAssumption DEF AM!Outcomes
<1>5. RequestTypes'
  BY <1>2, <1>4 DEF RequestInv, RequestTypes, slotVars
<1>6. AM!PendingXorSettled'
  BY <1>1, <1>2, <1>4 DEF RequestInv, RequestTypes, AM!PendingXorSettled, AM!Opened
<1>7. SlotsFollowTable'
  BY <1>1, <1>2 DEF RequestInv, SlotsFollowTable, slotVars
<1>8. HeldIsWaiting'
  BY <1>1, <1>2 DEF RequestInv, HeldIsWaiting
<1>9. AnswerDecided'
  BY <1>2, <1>3 DEF RequestInv, AnswerDecided, slotVars
<1>10. ReadyDecided'
  BY <1>2, <1>3, <1>4 DEF RequestInv, RequestTypes, ReadyDecided, slotVars
<1> QED
  BY <1>5, <1>6, <1>7, <1>8, <1>9, <1>10 DEF RequestInv

\* An answer settles a pending request; for one that is already settled it
\* only uses up the slot, and its updates are never sent.
LEMMA ClientAnswerRequestInv ==
  ASSUME RequestInv, NEW c, NEW r \in Requests, NEW a \in Gate!Answers,
         ClientAnswer(c, r, a)
  PROVE  RequestInv'
<1>1. /\ r \in handlers
      /\ handlers' = handlers \ {r}
      /\ updates' = IF a = "allowWith" THEN updates \cup {r} ELSE updates
      /\ UNCHANGED http
  BY DEF ClientAnswer
<1>2. answer[r] = None
  BY <1>1 DEF RequestInv, AnswerDecided
<1>3. CASE r \notin pending
  <2>1. r \in ready /\ UNCHANGED <<tableVars, ready, answer>>
    BY <1>1, <1>3 DEF ClientAnswer, RequestInv, SlotsFollowTable
  <2>2. RequestTypes'
    BY <1>1, <2>1 DEF RequestInv, RequestTypes, tableVars
  <2>3. SlotsFollowTable'
    BY <1>1, <1>3, <2>1 DEF RequestInv, SlotsFollowTable, tableVars
  <2>4. AnswerDecided'
    BY <1>1, <2>1 DEF RequestInv, AnswerDecided, tableVars
  <2>5. ReadyDecided'
    BY <1>1, <1>2, <2>1 DEF RequestInv, ReadyDecided, tableVars
  <2> QED
    BY <1>1, <2>1, <2>2, <2>3, <2>4, <2>5
    DEF RequestInv, AM!PendingXorSettled, AM!Opened, HeldIsWaiting, tableVars
<1>4. CASE r \in pending
  <2> DEFINE o == OutcomeOf(a)
  <2>1. AM!Settle({r}, o)
    BY <1>4 DEF ClientAnswer, AM!Decide, OutcomeOf
  <2>2. /\ pending' = pending \ {r}
        /\ timers' = timers \ {r}
        /\ settled' = [q \in Requests |-> IF q = r THEN o ELSE settled[q]]
        /\ ready' = ready \cup {r}
        /\ answer' = [answer EXCEPT ![r] = a]
        /\ call' = call
    BY <1>4, <2>1 DEF ClientAnswer, AM!Settle
  <2>3. o \in AM!Outcomes /\ o # None
    BY NoneAssumption DEF OutcomeOf, AM!Outcomes, Gate!Answers
  <2>4. r \notin ready /\ r \notin updates
    BY <1>4 DEF RequestInv, ReadyDecided, AM!PendingXorSettled, SlotsFollowTable
  <2>5. a # None
    BY NoneAssumption
  <2>6. RequestTypes'
    BY <1>1, <2>2, <2>3 DEF RequestInv, RequestTypes
  <2>7. AM!PendingXorSettled'
    BY <1>4, <2>2, <2>3
    DEF RequestInv, RequestTypes, AM!PendingXorSettled, AM!Opened
  <2>8. SlotsFollowTable'
    BY <1>1, <1>4, <2>2 DEF RequestInv, SlotsFollowTable
  <2>9. HeldIsWaiting'
    BY <1>1, <1>4, <2>2 DEF RequestInv, HeldIsWaiting
  <2>10. AnswerDecided'
    BY <1>1, <2>2 DEF RequestInv, RequestTypes, AnswerDecided
  <2>11. ReadyDecided'
    <3>1. settled'[r] = o /\ answer'[r] = a /\ (r \in updates' <=> a = "allowWith")
      BY <1>1, <2>2, <2>4 DEF RequestInv, RequestTypes
    <3>2. \A q \in ready : /\ settled'[q] = settled[q]
                           /\ answer'[q] = answer[q]
                           /\ (q \in updates' <=> q \in updates)
      BY <1>1, <2>2, <2>4 DEF RequestInv, RequestTypes
    <3>3. \A q \in ready : /\ settled[q] # None
                           /\ settled[q] = "allow" => answer[q] # None
                           /\ answer[q] # None =>
                                (q \in updates <=> answer[q] = "allowWith")
      BY DEF RequestInv, ReadyDecided
    <3> SUFFICES ASSUME NEW q \in ready'
                 PROVE  /\ settled'[q] # None
                        /\ settled'[q] = "allow" => answer'[q] # None
                        /\ answer'[q] # None =>
                             (q \in updates' <=> answer'[q] = "allowWith")
      BY DEF ReadyDecided
    <3>4. CASE q = r
      BY <2>3, <2>5, <3>1, <3>4
    <3>5. CASE q \in ready
      BY <3>2, <3>3, <3>5
    <3> QED
      BY <2>2, <3>4, <3>5
  <2> QED
    BY <2>6, <2>7, <2>8, <2>9, <2>10, <2>11 DEF RequestInv
<1> QED
  BY <1>3, <1>4

\* The request invariant is kept by every step of the hub.
LEMMA NextRequestInv == RequestInv /\ [Next]_vars => RequestInv'
<1> SUFFICES ASSUME RequestInv, RequestStep PROVE RequestInv'
  BY RequestSteps
<1>1. CASE UNCHANGED requestVars
  BY <1>1
  DEF requestVars, tableVars, slotVars, RequestInv, RequestTypes,
      AM!PendingXorSettled, AM!Opened, SlotsFollowTable, HeldIsWaiting,
      AnswerDecided, ReadyDecided
<1>2. CASE \E r \in Requests, s \in Sessions : Refuse(r, s)
  BY <1>2, RefuseRequestInv
<1>3. CASE \E ask \in Asks : Request(ask[1], ask[2], ask[3], ask[4])
  BY <1>3, RequestRequestInv
<1>4. CASE \E r \in Requests : Resume(r)
  BY <1>4, ResumeRequestInv
<1>5. CASE \E r \in Requests : Expire(r)
  BY <1>5, ExpireRequestInv
<1>6. CASE \E c \in Clients, r \in Requests, a \in Gate!Answers :
             ClientAnswer(c, r, a)
  BY <1>6, ClientAnswerRequestInv
<1>7. CASE \E S \in SUBSET Sessions : CancelPending(S)
  BY <1>7, CancelPendingRequestInv
<1>8. CASE \E s \in Sessions, f \in Fingerprints \cup {None},
              t \in ToolUseIds \cup {None}, isStop \in BOOLEAN :
             StaleCleanup(s, f, t, isStop)
  BY <1>8, StaleCleanupRequestInv
<1> QED
  BY <1>1, <1>2, <1>3, <1>4, <1>5, <1>6, <1>7, <1>8 DEF RequestStep

\* The request invariant holds of every reachable state.
THEOREM RequestInvariance == Spec => []RequestInv
BY InitRequestInv, NextRequestInv, PTL DEF Spec

\* The per-request maps of wire.ts follow the table (AM!PendingXorSettled with
\* them: no timer without an entry, no entry without a timer).
THEOREM SlotsCorrect == Spec => []SlotsFollowTable
<1>1. RequestInv => SlotsFollowTable
  BY DEF RequestInv
<1> QED
  BY <1>1, RequestInvariance, PTL

\* Exactly the calls that are pending or about to resume are held open.
THEOREM HeldCorrect == Spec => []HeldIsWaiting
<1>1. RequestInv => HeldIsWaiting
  BY DEF RequestInv
<1> QED
  BY <1>1, RequestInvariance, PTL

-----------------------------------------------------------------------------
(* Refinement                                                              *)

\* No call and no answer at the start.
LEMMA InitGate == Init => Gate!Init
BY DEF Init, Gate!Init

\* A step that does not write http and answer is a stutter of the gate; the
\* others are one step of one call.
LEMMA NextGate == RequestInv /\ [Next]_vars => [Gate!Next]_Gate!gateVars
<1> SUFFICES ASSUME RequestInv, RequestStep PROVE [Gate!Next]_Gate!gateVars
  BY RequestSteps
<1> USE DEF Gate!gateVars
<1>1. CASE UNCHANGED requestVars
  BY <1>1 DEF requestVars
<1>2. CASE \E r \in Requests, s \in Sessions : Refuse(r, s)
  <2> PICK r \in Requests, s \in Sessions : Refuse(r, s)
    BY <1>2
  <2>1. Gate!Refuse(r)
    BY DEF Refuse, Gate!Refuse
  <2> QED
    BY <2>1 DEF Gate!Next
<1>3. CASE \E ask \in Asks : Request(ask[1], ask[2], ask[3], ask[4])
  <2> PICK ask \in Asks : Request(ask[1], ask[2], ask[3], ask[4])
    BY <1>3
  <2>1. ask[1] \in Requests
    BY AsksAssumption
  <2>2. Gate!Hold(ask[1])
    BY DEF Request, Gate!Hold
  <2> QED
    BY <2>1, <2>2 DEF Gate!Next
<1>4. CASE \E r \in Requests : Resume(r)
  <2> PICK r \in Requests : Resume(r)
    BY <1>4
  <2>1. r \in ready /\ http[r] = "held"
    BY DEF Resume, RequestInv, HeldIsWaiting
  <2>2. http' = [http EXCEPT ![r] = ReplyFor(r)] /\ UNCHANGED answer
    BY DEF Resume
  <2>3. Gate!Reply(r)
    BY <2>1, <2>2, ReplyForIsReply DEF Gate!Reply
  <2> QED
    BY <2>3 DEF Gate!Next
<1>5. CASE \E r \in Requests : Expire(r)
  BY <1>5 DEF Expire
<1>6. CASE \E c \in Clients, r \in Requests, a \in Gate!Answers :
             ClientAnswer(c, r, a)
  <2> PICK c \in Clients, r \in Requests, a \in Gate!Answers :
             ClientAnswer(c, r, a)
    BY <1>6
  <2>1. CASE r \notin pending
    BY <2>1 DEF ClientAnswer
  <2>2. CASE r \in pending
    <3>1. http[r] = "held" /\ answer[r] = None
      BY <2>2 DEF ClientAnswer, RequestInv, HeldIsWaiting, AnswerDecided
    <3>2. Gate!Answer(r)
      BY <2>2, <3>1 DEF ClientAnswer, Gate!Answer
    <3> QED
      BY <3>2 DEF Gate!Next
  <2> QED
    BY <2>1, <2>2
<1>7. CASE \E S \in SUBSET Sessions : CancelPending(S)
  BY <1>7 DEF CancelPending
<1>8. CASE \E s \in Sessions, f \in Fingerprints \cup {None},
              t \in ToolUseIds \cup {None}, isStop \in BOOLEAN :
             StaleCleanup(s, f, t, isStop)
  BY <1>8 DEF StaleCleanup
<1> QED
  BY <1>1, <1>2, <1>3, <1>4, <1>5, <1>6, <1>7, <1>8 DEF RequestStep

\* The hub implements PermissionGate: Claude is told `allow` only if a person
\* said so, the accepted answer is the one Claude gets, and every call gets at
\* most one reply.
THEOREM GateImplemented == Spec => ImplementsGate
BY InitGate, NextGate, RequestInvariance, PTL DEF Spec, ImplementsGate, Gate!Spec

\* What every step does to the table is one of the table's operations.
LEMMA NextManager == RequestInv /\ [Next]_vars => [AM!Next]_tableVars
<1> SUFFICES ASSUME RequestInv, RequestStep PROVE [AM!Next]_tableVars
  BY RequestSteps
<1> USE DEF AM!Next
<1>1. CASE UNCHANGED requestVars
  BY <1>1 DEF requestVars
<1>2. CASE \/ \E r \in Requests, s \in Sessions : Refuse(r, s)
           \/ \E r \in Requests : Resume(r)
  BY <1>2 DEF Refuse, Resume
<1>3. CASE \E ask \in Asks : Request(ask[1], ask[2], ask[3], ask[4])
  <2> PICK ask \in Asks : Request(ask[1], ask[2], ask[3], ask[4])
    BY <1>3
  <2>1. /\ ask[1] \in Requests /\ ask[2] \in Sessions /\ ask[3] \in Fingerprints
        /\ ask[4] \in ToolUseIds \cup {None}
    BY AsksAssumption
  <2> QED
    BY <2>1 DEF Request
<1>4. CASE \E r \in Requests : Expire(r)
  BY <1>4 DEF Expire
<1>5. CASE \E c \in Clients, r \in Requests, a \in Gate!Answers :
             ClientAnswer(c, r, a)
  <2> PICK c \in Clients, r \in Requests, a \in Gate!Answers :
             ClientAnswer(c, r, a)
    BY <1>5
  <2>1. OutcomeOf(a) \in AM!Outcomes
    BY DEF OutcomeOf, AM!Outcomes, Gate!Answers
  <2>2. UNCHANGED tableVars \/ AM!Decide(r, OutcomeOf(a))
    BY DEF ClientAnswer, OutcomeOf
  <2> QED
    BY <2>1, <2>2
<1>6. CASE \E S \in SUBSET Sessions : CancelPending(S)
  BY <1>6 DEF CancelPending
<1>7. CASE \E s \in Sessions, f \in Fingerprints \cup {None},
              t \in ToolUseIds \cup {None}, isStop \in BOOLEAN :
             StaleCleanup(s, f, t, isStop)
  <2> PICK s \in Sessions, f \in Fingerprints \cup {None},
           t \in ToolUseIds \cup {None}, isStop \in BOOLEAN :
             StaleCleanup(s, f, t, isStop)
    BY <1>7
  <2> DEFINE R == StaleMatch(s, f, t, isStop)
  <2>1. CASE R = {}
    BY <2>1 DEF StaleCleanup
  <2>2. CASE R # {}
    <3>1. PICK r : r \in pending /\ R = {r}
      BY <2>2, StaleMatchSingle
    <3>2. AM!Decide(r, "deny")
      BY <3>1 DEF StaleCleanup, AM!Decide
    <3>3. r \in Requests /\ "deny" \in AM!Outcomes
      BY <3>1 DEF RequestInv, RequestTypes, AM!Outcomes
    <3> QED
      BY <3>2, <3>3
  <2> QED
    BY <2>1, <2>2
<1> QED
  BY <1>1, <1>2, <1>3, <1>4, <1>5, <1>6, <1>7 DEF RequestStep

\* The hub drives its table only through the table's operations, so the
\* theorems of ApprovalManagerProofs hold of the table inside the hub.
THEOREM ManagerImplemented == Spec => ImplementsManager
<1>1. Init => AM!Init
  BY DEF Init
<1> QED
  BY <1>1, NextManager, RequestInvariance, PTL DEF Spec, ImplementsManager

-----------------------------------------------------------------------------
(* Requests and the session they belong to                                 *)

SessionTypes ==
  /\ state \in [Sessions -> States \cup {None}]
  /\ child \in [Sessions -> Children \cup {None}]
  /\ openedIn \in [Requests -> Children \cup {None}]

OnlyLiveHasState == \A s \in Sessions \ live : state[s] = None

SessionInv ==
  /\ RequestInv
  /\ SessionTypes
  /\ OnlyLiveHasState
  /\ PendingBelongs
  /\ AwaitingHasRequest

\* The steps that neither open a request nor resume one: nothing that waits is
\* lost, what stays pending keeps its session and its conversation, and no
\* session becomes awaiting-confirmation.
KeepsWaiting ==
  /\ pending' \subseteq pending
  /\ pending \cup ready \subseteq pending' \cup ready'
  /\ UNCHANGED <<call, openedIn>>

KeepsBelonging ==
  \A r \in pending' :
    LET s == call[r].session
    IN  (s \in live => s \in live') /\ child'[s] = child[s]

NoneBecomesAwaiting ==
  \A s \in Sessions :
    state'[s] = "awaiting-confirmation" => state[s] = "awaiting-confirmation"

QuietStep ==
  /\ KeepsWaiting /\ KeepsBelonging /\ NoneBecomesAwaiting
  /\ SessionTypes' /\ OnlyLiveHasState'

\* A request that leaves the table becomes ready in the same step.
LEMMA EndingKeepsWaiting ==
  ASSUME RequestInv, NEW R \in SUBSET pending, NEW o,
         \/ AM!Settle(R, o)
         \/ R = {} /\ UNCHANGED tableVars,
         ready' = ready \cup R, UNCHANGED openedIn
  PROVE  KeepsWaiting /\ pending' = pending \ R
BY DEF AM!Settle, tableVars, KeepsWaiting

\* After a cancellation nothing of the cancelled sessions is pending.
LEMMA CancelKeepsWaiting ==
  ASSUME RequestInv, NEW S \in SUBSET Sessions, CancelPending(S)
  PROVE  KeepsWaiting /\ \A r \in pending' : call[r].session \notin S
<1>1. PendingOf(S) \in SUBSET pending
  BY DEF PendingOf
<1>2. \/ AM!Settle(PendingOf(S), "ask")
      \/ PendingOf(S) = {} /\ UNCHANGED tableVars
  BY DEF CancelPending, AM!CancelForSessions, PendingOf
<1>3. KeepsWaiting /\ pending' = pending \ PendingOf(S)
  BY <1>1, <1>2, EndingKeepsWaiting DEF CancelPending
<1> QED
  BY <1>3 DEF PendingOf

\* The same for stale cleanup.
LEMMA CleanupKeepsWaiting ==
  ASSUME RequestInv, NEW s, NEW f, NEW t, NEW isStop,
         StaleCleanup(s, f, t, isStop)
  PROVE  KeepsWaiting
BY StaleMatchSingle, EndingKeepsWaiting DEF StaleCleanup

\* The transition table never leads to awaiting-confirmation, and a state of
\* the table is a state.
LEMMA TransitionTable ==
  ASSUME NEW st, NEW e
  PROVE  /\ TransitionFor(st, e) = "awaiting-confirmation"
              => st = "awaiting-confirmation"
         /\ st \in States \cup {None} => TransitionFor(st, e) \in States \cup {None}
BY DEF TransitionFor, States

\* Moving the state of one session along the table, or to a state that is not
\* awaiting-confirmation.
LEMMA UpdateStateQuiet ==
  ASSUME SessionInv, NEW s \in Sessions, NEW st \in States \cup {None},
         st = "awaiting-confirmation" => state[s] = "awaiting-confirmation",
         UpdateState(s, st)
  PROVE  /\ state' \in [Sessions -> States \cup {None}]
         /\ NoneBecomesAwaiting
         /\ \A z \in Sessions \ live : state'[z] = None
BY DEF SessionInv, SessionTypes, OnlyLiveHasState, UpdateState, NoneBecomesAwaiting

\* The same for an event that the state machine sees or the deduplicator drops.
LEMMA TransitionQuiet ==
  ASSUME SessionInv, NEW s \in Sessions, NEW e,
         \/ UpdateState(s, TransitionFor(state[s], e))
         \/ UNCHANGED state
  PROVE  /\ state' \in [Sessions -> States \cup {None}]
         /\ NoneBecomesAwaiting
         /\ \A z \in Sessions \ live : state'[z] = None
<1>1. state[s] \in States \cup {None}
  BY DEF SessionInv, SessionTypes
<1>2. CASE UpdateState(s, TransitionFor(state[s], e))
  BY <1>1, <1>2, TransitionTable, UpdateStateQuiet
<1>3. CASE UNCHANGED state
  BY <1>3 DEF SessionInv, SessionTypes, OnlyLiveHasState, NoneBecomesAwaiting
<1> QED
  BY <1>2, <1>3

\* The client steps that open, resume or answer nothing.
LEMMA ClientQuiet ==
  ASSUME SessionInv, NEW c \in Clients, NEW S \in SUBSET Sessions,
         \/ Connect(c) \/ SubscribeAll(c) \/ Close(c)
         \/ SubscribeTo(c, S) \/ Unsubscribe(c, S)
  PROVE  QuietStep
<1>1. UNCHANGED <<state, child, live, openedIn>>
  BY DEF Connect, SubscribeAll, Close, SubscribeTo, Unsubscribe, WS!Connect,
         WS!SubscribeAll, WS!Close, WS!SubscribeTo, WS!Unsubscribe, sessionVars,
         requestVars, CancelPending
<1>2. CASE Connect(c)
  BY <1>1, <1>2
  DEF Connect, requestVars, tableVars, QuietStep, KeepsWaiting, KeepsBelonging,
      NoneBecomesAwaiting, SessionInv, SessionTypes, OnlyLiveHasState
<1>3. CASE ~ Connect(c)
  <2>1. WS!LastActionsClientGone \in SUBSET Sessions
    BY DEF WS!LastActionsClientGone
  <2>2. CancelPending(WS!LastActionsClientGone)
    BY <1>3 DEF SubscribeAll, Close, SubscribeTo, Unsubscribe
  <2>3. KeepsWaiting
    BY <2>1, <2>2, CancelKeepsWaiting DEF SessionInv
  <2> QED
    BY <1>1, <2>3
    DEF QuietStep, KeepsBelonging, NoneBecomesAwaiting, SessionInv,
        SessionTypes, OnlyLiveHasState
<1> QED
  BY <1>2, <1>3

\* An answer or a timer ends at most the request it is about.
LEMMA EndQuiet ==
  ASSUME SessionInv, NEW r \in Requests,
         \/ Expire(r)
         \/ \E s \in Sessions : Refuse(r, s)
         \/ \E c \in Clients, a \in Gate!Answers : ClientAnswer(c, r, a)
  PROVE  QuietStep
<1>1. UNCHANGED <<state, child, live, openedIn>>
  BY DEF Expire, ClientAnswer, Refuse, sessionVars, clientVars
<1>2. KeepsWaiting
  BY DEF Expire, ClientAnswer, Refuse, AM!Expire, AM!Decide, AM!Settle,
         KeepsWaiting, tableVars
<1> QED
  BY <1>1, <1>2
  DEF QuietStep, KeepsBelonging, NoneBecomesAwaiting, SessionInv, SessionTypes,
      OnlyLiveHasState

\* A hook, a transcript line, a quiet PTY, a summary: the state moves, the
\* conversation does not.
LEMMA EventQuiet ==
  ASSUME SessionInv, NEW s \in Sessions,
         \/ Stop(s)
         \/ \E f \in Fingerprints, t \in ToolUseIds \cup {None} : ToolDone(s, f, t)
         \/ \E e \in BusEvents : BusEvent(s, e)
         \/ PtyIdle(s) \/ SummaryNeedsDecision(s)
  PROVE  QuietStep
<1>1. UNCHANGED <<child, live, openedIn>>
  BY DEF Stop, ToolDone, BusEvent, PtyIdle, SummaryNeedsDecision, StaleCleanup,
         clientVars, requestVars
<1>2. KeepsWaiting
  <2>1. CASE Stop(s) \/ \E f \in Fingerprints, t \in ToolUseIds \cup {None} :
                          ToolDone(s, f, t)
    BY <2>1, CleanupKeepsWaiting DEF Stop, ToolDone, SessionInv
  <2>2. CASE UNCHANGED requestVars
    BY <2>2 DEF requestVars, tableVars, KeepsWaiting
  <2> QED
    BY <2>1, <2>2 DEF BusEvent, PtyIdle, SummaryNeedsDecision
<1>3. /\ state' \in [Sessions -> States \cup {None}]
      /\ NoneBecomesAwaiting
      /\ \A z \in Sessions \ live : state'[z] = None
  <2>1. CASE PtyIdle(s) \/ SummaryNeedsDecision(s)
    <3>1. "idle" \in States /\ "awaiting-input" \in States
      BY DEF States
    <3> QED
      BY <2>1, <3>1, UpdateStateQuiet DEF PtyIdle, SummaryNeedsDecision
  <2>2. CASE \E e : SeenByStateMachine(s, e)
    BY <2>2, TransitionQuiet DEF SeenByStateMachine
  <2> QED
    BY <2>1, <2>2 DEF Stop, ToolDone, BusEvent
<1> QED
  BY <1>1, <1>2, <1>3
  DEF QuietStep, KeepsBelonging, SessionInv, SessionTypes, OnlyLiveHasState

\* Registration, removal and the boundaries of a conversation cancel what would
\* otherwise outlive them.
LEMMA LifeQuiet ==
  ASSUME SessionInv, NEW s \in Sessions,
         \/ RegisterSession(s) \/ RemoveSession(s) \/ SessionEnd(s)
         \/ \E k \in Children : SessionStart(s, k)
  PROVE  QuietStep
<1>1. CASE RegisterSession(s)
  <2>1. live' = live \cup {s} /\ state' = [state EXCEPT ![s] = "starting"]
        /\ UNCHANGED <<requestVars, child>>
    BY <1>1 DEF RegisterSession, WS!RegisterSession
  <2>2. "starting" \in States
    BY DEF States
  <2> QED
    BY <2>1, <2>2
    DEF requestVars, tableVars, QuietStep, KeepsWaiting, KeepsBelonging,
        NoneBecomesAwaiting, SessionInv, SessionTypes, OnlyLiveHasState
<1>2. CASE RemoveSession(s)
  <2>1. /\ live' = live \ {s} /\ CancelPending({s})
        /\ state' = [state EXCEPT ![s] = None]
        /\ child' = [child EXCEPT ![s] = None]
        /\ UNCHANGED openedIn
    BY <1>2 DEF RemoveSession, WS!RemoveSession, CancelPending
  <2>2. KeepsWaiting /\ \A r \in pending' : call[r].session # s
    BY <2>1, CancelKeepsWaiting DEF SessionInv
  <2>3. KeepsBelonging
    BY <2>1, <2>2 DEF KeepsBelonging, SessionInv, SessionTypes
  <2>4. NoneBecomesAwaiting /\ SessionTypes' /\ OnlyLiveHasState'
    BY <2>1, ChildrenAssumption
    DEF SessionInv, SessionTypes, OnlyLiveHasState, NoneBecomesAwaiting, States
  <2> QED
    BY <2>2, <2>3, <2>4 DEF QuietStep
<1>3. CASE SessionEnd(s) \/ \E k \in Children : SessionStart(s, k)
  <2>1. PICK S \in SUBSET {s}, k \in Children \cup {None} :
          /\ CancelPending(S)
          /\ S = {} => child[s] = k
          /\ child' = [child EXCEPT ![s] = k]
    <3>1. CASE SessionEnd(s)
      <4> DEFINE S == IF child[s] = None THEN {} ELSE {s}
      <4>1. S \in SUBSET {s} /\ CancelPending(S) /\ (S = {} => child[s] = None)
        BY <3>1 DEF SessionEnd
      <4> QED
        BY <3>1, <4>1 DEF SessionEnd
    <3>2. CASE \E k \in Children : SessionStart(s, k)
      <4> PICK k \in Children : SessionStart(s, k)
        BY <3>2
      <4> DEFINE S == IF child[s] = k THEN {} ELSE {s}
      <4>1. S \in SUBSET {s} /\ CancelPending(S) /\ (S = {} => child[s] = k)
        BY DEF SessionStart
      <4> QED
        BY <4>1 DEF SessionStart
    <3> QED
      BY <1>3, <3>1, <3>2
  <2>2. UNCHANGED <<live, openedIn>>
    BY <1>3, <2>1 DEF SessionEnd, SessionStart, clientVars, CancelPending
  <2>3. KeepsWaiting /\ \A r \in pending' : call[r].session \notin S
    BY <2>1, CancelKeepsWaiting DEF SessionInv
  <2>4. KeepsBelonging
    BY <2>1, <2>2, <2>3 DEF KeepsBelonging, SessionInv, SessionTypes
  <2>5. \E e : UpdateState(s, TransitionFor(state[s], e))
    BY <1>3 DEF SessionEnd, SessionStart
  <2>6. /\ state' \in [Sessions -> States \cup {None}]
        /\ NoneBecomesAwaiting
        /\ \A z \in Sessions \ live : state'[z] = None
    BY <2>5, TransitionQuiet
  <2> QED
    BY <2>1, <2>2, <2>3, <2>4, <2>6
    DEF QuietStep, SessionInv, SessionTypes, OnlyLiveHasState
<1> QED
  BY <1>1, <1>2, <1>3

\* Every step of the hub is quiet, opens a request or resumes a handler.
LEMMA SessionSteps ==
  ASSUME SessionInv, [Next]_vars
  PROVE  \/ QuietStep
         \/ \E ask \in Asks : Request(ask[1], ask[2], ask[3], ask[4])
         \/ \E r \in Requests : Resume(r)
<1>1. CASE ClientStep
  BY <1>1, ClientQuiet, EndQuiet, DecisionsAreAnswers DEF ClientStep
<1>2. CASE ClaudeStep
  BY <1>2, EndQuiet, EventQuiet, LifeQuiet DEF ClaudeStep
<1>3. CASE HubStep
  BY <1>3, EndQuiet, EventQuiet, LifeQuiet DEF HubStep
<1>4. CASE UNCHANGED vars
  BY <1>4
  DEF vars, requestVars, tableVars, clientVars, sessionVars, QuietStep,
      KeepsWaiting, KeepsBelonging, NoneBecomesAwaiting, SessionInv,
      SessionTypes, OnlyLiveHasState
<1> QED
  BY <1>1, <1>2, <1>3, <1>4 DEF Next

\* No session and no request at the start.
LEMMA InitSessionInv == Init => SessionInv
BY InitRequestInv, ChildrenAssumption
DEF Init, AM!Init, SessionInv, SessionTypes, OnlyLiveHasState, PendingBelongs,
    AwaitingHasRequest, States

\* A request that waits has a session.
LEMMA SessionOfRequest ==
  ASSUME RequestInv, NEW r \in pending \cup ready
  PROVE  r \in Requests /\ call[r] \in AM!Calls /\ call[r].session \in Sessions
<1>1. r \in Requests /\ call[r] # None
  BY DEF RequestInv, RequestTypes, ReadyDecided, AM!PendingXorSettled, AM!Opened
<1>2. call[r] \in AM!Calls
  BY <1>1 DEF RequestInv, RequestTypes
<1> QED
  BY <1>1, <1>2 DEF AM!Calls

\* Quiet steps keep both properties.
LEMMA QuietBelongs ==
  ASSUME SessionInv, QuietStep
  PROVE  PendingBelongs' /\ AwaitingHasRequest'
<1>1. PendingBelongs'
  BY DEF SessionInv, QuietStep, KeepsWaiting, KeepsBelonging, PendingBelongs
<1>2. AwaitingHasRequest'
  BY DEF SessionInv, QuietStep, KeepsWaiting, NoneBecomesAwaiting,
         AwaitingHasRequest
<1> QED
  BY <1>1, <1>2

\* A request is opened in a live session, in its current conversation.
LEMMA RequestSessionInv ==
  ASSUME SessionInv, RequestInv', NEW ask \in Asks,
         Request(ask[1], ask[2], ask[3], ask[4])
  PROVE  SessionInv'
<1> DEFINE r == ask[1]
           s == ask[2]
<1>1. r \in Requests /\ s \in Sessions
  BY AsksAssumption
<1>2. /\ s \in live
      /\ call' = [call EXCEPT ![r] = [session |-> s, fp |-> ask[3], tuid |-> ask[4]]]
      /\ pending' = pending \cup {r}
      /\ openedIn' = [openedIn EXCEPT ![r] = child[s]]
      /\ state' = [state EXCEPT ![s] = "awaiting-confirmation"]
      /\ UNCHANGED <<ready, child, live>>
  BY DEF Request, AM!Open, UpdateState, clientVars
<1>3. call'[r].session = s
  BY <1>1, <1>2 DEF SessionInv, RequestInv, RequestTypes
<1>4. r \notin pending \cup ready
      /\ \A q \in pending \cup ready : call'[q] = call[q]
  <2>1. r \notin pending \cup ready
    BY <1>1, <1>2 DEF Request, SessionInv, RequestInv, HeldIsWaiting
  <2> QED
    BY <1>1, <1>2, <2>1 DEF SessionInv, RequestInv, RequestTypes
<1>5. SessionTypes'
  BY <1>1, <1>2 DEF SessionInv, SessionTypes, States
<1>6. OnlyLiveHasState'
  BY <1>2 DEF SessionInv, OnlyLiveHasState, SessionTypes
<1>7. PendingBelongs'
  <2>1. openedIn'[r] = child[s]
    BY <1>1, <1>2 DEF SessionInv, SessionTypes
  <2>2. \A q \in pending : openedIn'[q] = openedIn[q]
    BY <1>2, <1>4 DEF SessionInv, SessionTypes, RequestInv, RequestTypes
  <2> QED
    BY <1>2, <1>3, <1>4, <2>1, <2>2 DEF SessionInv, PendingBelongs
<1>8. AwaitingHasRequest'
  <2> SUFFICES ASSUME NEW z \in Sessions, state'[z] = "awaiting-confirmation"
               PROVE  \E q \in pending' \cup ready' : call'[q].session = z
    BY DEF AwaitingHasRequest
  <2>1. CASE z = s
    BY <1>2, <1>3, <2>1
  <2>2. CASE z # s
    <3>1. state[z] = "awaiting-confirmation"
      BY <1>2, <2>2 DEF SessionInv, SessionTypes
    <3>2. PICK q \in pending \cup ready : call[q].session = z
      BY <3>1 DEF SessionInv, AwaitingHasRequest
    <3> QED
      BY <1>2, <1>4, <3>2
  <2> QED
    BY <2>1, <2>2
<1> QED
  BY <1>5, <1>6, <1>7, <1>8 DEF SessionInv

\* The session of a handler that resumes leaves awaiting-confirmation, even if
\* another of its requests is still pending, so no other session loses its
\* witness.
LEMMA ResumeSessionInv ==
  ASSUME SessionInv, RequestInv', NEW r \in Requests, Resume(r)
  PROVE  SessionInv'
<1> DEFINE s == call[r].session
<1>1. /\ r \in ready
      /\ ready' = ready \ {r}
      /\ UpdateState(s, "running")
      /\ UNCHANGED <<call, pending, openedIn, child, live>>
  BY DEF Resume, tableVars, clientVars
<1>2. s \in Sessions
  BY <1>1, SessionOfRequest DEF SessionInv
<1>3. "running" \in States /\ "running" # "awaiting-confirmation"
  BY DEF States
<1>4. /\ state' \in [Sessions -> States \cup {None}]
      /\ NoneBecomesAwaiting
      /\ \A z \in Sessions \ live : state'[z] = None
  BY <1>1, <1>2, <1>3, UpdateStateQuiet
<1>5. SessionTypes' /\ OnlyLiveHasState'
  BY <1>1, <1>4 DEF SessionInv, SessionTypes, OnlyLiveHasState
<1>6. PendingBelongs'
  BY <1>1 DEF SessionInv, PendingBelongs
<1>7. AwaitingHasRequest'
  <2> SUFFICES ASSUME NEW z \in Sessions, state'[z] = "awaiting-confirmation"
               PROVE  \E q \in pending' \cup ready' : call'[q].session = z
    BY DEF AwaitingHasRequest
  <2>1. state[z] = "awaiting-confirmation"
    BY <1>4 DEF NoneBecomesAwaiting
  <2>2. z # s
    <3>1. CASE s \in live
      BY <1>1, <1>2, <3>1 DEF UpdateState, SessionInv, SessionTypes
    <3>2. CASE s \notin live
      BY <1>2, <2>1, <3>2, ChildrenAssumption
      DEF SessionInv, OnlyLiveHasState, States
    <3> QED
      BY <3>1, <3>2
  <2>3. PICK q \in pending \cup ready : call[q].session = z
    BY <2>1 DEF SessionInv, AwaitingHasRequest
  <2> QED
    BY <1>1, <2>2, <2>3
<1> QED
  BY <1>5, <1>6, <1>7 DEF SessionInv

\* The invariant of requests and sessions is kept by every step of the hub.
LEMMA NextSessionInv == SessionInv /\ [Next]_vars => SessionInv'
<1> SUFFICES ASSUME SessionInv, [Next]_vars PROVE SessionInv'
  OBVIOUS
<1>1. RequestInv'
  BY NextRequestInv DEF SessionInv
<1>2. CASE QuietStep
  BY <1>1, <1>2, QuietBelongs DEF SessionInv, QuietStep
<1>3. CASE \E ask \in Asks : Request(ask[1], ask[2], ask[3], ask[4])
  BY <1>1, <1>3, RequestSessionInv
<1>4. CASE \E r \in Requests : Resume(r)
  BY <1>1, <1>4, ResumeSessionInv
<1> QED
  BY <1>2, <1>3, <1>4, SessionSteps

\* The invariant of requests and sessions holds of every reachable state.
THEOREM SessionInvariance == Spec => []SessionInv
BY InitSessionInv, NextSessionInv, PTL DEF Spec

\* No request outlives its session or the Claude conversation it came from.
THEOREM PendingBelongsCorrect == Spec => []PendingBelongs
<1>1. SessionInv => PendingBelongs
  BY DEF SessionInv
<1> QED
  BY <1>1, SessionInvariance, PTL

\* A session shown as awaiting-confirmation has a request that waits.
THEOREM AwaitingCorrect == Spec => []AwaitingHasRequest
<1>1. SessionInv => AwaitingHasRequest
  BY DEF SessionInv
<1> QED
  BY <1>1, SessionInvariance, PTL

-----------------------------------------------------------------------------
(* The two halves of a tool handler                                        *)

LEMMA HandlerTable ==
  /\ Handlers!Tools = {"Bash", "PowerShell", "Edit", "Write", "MultiEdit",
                       "NotebookEdit", "WebFetch", "AskUserQuestion",
                       "ExitPlanMode", "Other"}
  /\ \A tool \in Handlers!Tools :
       Handlers!HandlerOf[tool] \in
         {"bash", "fileEdit", "webFetch", "exitPlanMode", "askUserQuestion",
          "catchAll"}
BY DEF Handlers!Tools, Handlers!HandlerOf

\* A person who picks an option of a card is never sent back to Claude's own
\* dialog: each key a card offers is decided one way or the other, and the
\* only keys that refuse are the cards' last ones.
THEOREM OfferedKeysAreDecided ==
  \A tool \in Handlers!Tools, scoped \in BOOLEAN :
    \A key \in Handlers!Offered(tool) :
      /\ Handlers!Decide(tool, key, scoped) \in Handlers!Decisions \ {"ask"}
      /\ Handlers!Decide(tool, key, scoped) = "deny" <=> key \in {"no", "deny"}
<1> SUFFICES ASSUME NEW tool \in Handlers!Tools, NEW scoped \in BOOLEAN,
                    NEW key \in Handlers!Offered(tool)
             PROVE  /\ Handlers!Decide(tool, key, scoped)
                          \in Handlers!Decisions \ {"ask"}
                    /\ Handlers!Decide(tool, key, scoped) = "deny"
                         <=> key \in {"no", "deny"}
  OBVIOUS
<1> USE DEF Handlers!Decide, Handlers!Decisions, Handlers!Offered, Handlers!KeysOf
<1>1. CASE Handlers!HandlerOf[tool] = "bash"
  BY <1>1 DEF Handlers!Bash, Handlers!BashKeys
<1>2. CASE Handlers!HandlerOf[tool] = "fileEdit"
  BY <1>2 DEF Handlers!FileEdit, Handlers!FileEditKeys
<1>3. CASE Handlers!HandlerOf[tool] = "webFetch"
  BY <1>3 DEF Handlers!WebFetch, Handlers!WebFetchKeys
<1>4. CASE Handlers!HandlerOf[tool] = "exitPlanMode"
  BY <1>4 DEF Handlers!ExitPlanMode, Handlers!ExitPlanModeKeys
<1>5. CASE Handlers!HandlerOf[tool] = "askUserQuestion"
  <2>1. Handlers!Decide(tool, key, scoped) = "allowWith"
    BY <1>5 DEF Handlers!AskUserQuestion
  <2>2. key = "option"
    BY <1>5 DEF Handlers!AskUserQuestionKeys
  <2> QED
    BY <2>1, <2>2
<1>6. CASE Handlers!HandlerOf[tool] = "catchAll"
  BY <1>6 DEF Handlers!CatchAll, Handlers!CatchAllKeys
<1> QED
  BY <1>1, <1>2, <1>3, <1>4, <1>5, <1>6, HandlerTable

=============================================================================
