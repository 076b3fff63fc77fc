---------------------------- MODULE HubApprovals ----------------------------
(***************************************************************************)
(* Remote approval end to end inside the hub: Claude's PermissionRequest   *)
(* calls (rest/permission.ts), the table they wait in (ApprovalManager),   *)
(* the clients that see and answer them (WsSubscriptions), the hook events *)
(* that make them stale (rest/server.ts), the Claude conversation they     *)
(* belong to and the session's state, tied together by wire.ts.            *)
(*                                                                         *)
(* A handler runs to completion.  The one suspension is the await on the   *)
(* decision promise: a settled request is `ready`, and Resume runs the     *)
(* rest of its handler, at any later time.  Node runs it before the next   *)
(* event of another socket or timer, but not before the next message of    *)
(* the same WebSocket chunk; the model relies on neither.                  *)
(***************************************************************************)
EXTENDS Naturals, FiniteSets, SessionState

CONSTANTS
  Requests, Sessions, Fingerprints, ToolUseIds, None,
  Clients, ActionsClients,
  Subagents,  \* requests made inside a Task subagent
  ToolOf,     \* the tool each request is for
  Asks,       \* what Claude asks: <<request, session, fingerprint, tool_use_id>>
  Children,   \* Claude's own session ids
  BusEvents   \* kinds of the other events on the bus (hooks, transcript)

ASSUME ClientsAssumption ==
  ActionsClients \subseteq Clients /\ IsFiniteSet(Clients)
ASSUME AsksAssumption ==
  Asks \subseteq
    Requests \X Sessions \X Fingerprints \X (ToolUseIds \cup {None})
ASSUME BusEventsAssumption ==
  BusEvents \subseteq EventKinds \ {"SessionStart", "SessionEnd"}
Handlers == INSTANCE ToolHandlers

ASSUME ToolOfAssumption == ToolOf \in [Requests -> Handlers!Tools]
ASSUME SubagentsAssumption == Subagents \subseteq Requests
ASSUME ChildrenAssumption == None \notin Children \cup States

VARIABLES
  call, pending, timers, byToolUseId, byFingerprint, settled, newest,
  live, gone, connected, allSub, sub, listening, count,
  state,     \* state of each live session; None if not registered
  child,     \* claudeSessionId of each session
  handlers,  \* keys of pendingHandlers
  updates,   \* keys of pendingUpdatedInput and pendingUpdatedPermissions
  ready,     \* settled requests whose handler has not resumed yet
  http,      \* per request: "none", "held", or the response written
  answer,    \* history: the client's answer that onPromptResponse accepted
  told,      \* prompts each actions client was sent and not told are over
  openedIn   \* history: the session's `child` when the request was opened

AM == INSTANCE ApprovalManager WITH TimeoutDecision <- "ask"
WS == INSTANCE WsSubscriptions
Gate == INSTANCE PermissionGate

ASSUME NoneAssumption ==
  None \notin AM!Calls \cup AM!Outcomes \cup Gate!Answers

tableVars == <<call, pending, timers, byToolUseId, byFingerprint, settled,
               newest>>
clientVars == <<live, gone, connected, allSub, sub, listening, count>>
slotVars == <<handlers, updates>>
sessionVars == <<state, child>>
requestVars == <<tableVars, slotVars, ready, http, answer, openedIn>>
vars == <<requestVars, clientVars, sessionVars, told>>

Init ==
  /\ AM!Init
  /\ WS!Init
  /\ state = [s \in Sessions |-> None]
  /\ child = [s \in Sessions |-> None]
  /\ handlers = {}
  /\ updates = {}
  /\ ready = {}
  /\ http = [r \in Requests |-> "none"]
  /\ answer = [r \in Requests |-> None]
  /\ told = [c \in Clients |-> {}]
  /\ openedIn = [r \in Requests |-> None]

-----------------------------------------------------------------------------
(* Shared steps                                                            *)

(* registry.updateState: nothing for a session that is gone.               *)
UpdateState(s, st) ==
  state' = IF s \in live THEN [state EXCEPT ![s] = st] ELSE state

(* broadcast filters by capability and by current subscription.            *)
Receivers(s) == {c \in connected \cap ActionsClients : WS!IsSubscribed(c, s)}

(* `told` after session.prompt-request.resolved for the requests of R.     *)
Withdrawn(R) ==
  [c \in Clients |->
     {r \in told[c] : ~ (r \in R /\ c \in Receivers(call[r].session))}]

(* The per-request maps are emptied by whoever settles the request.        *)
DropSlots(R) ==
  /\ handlers' = handlers \ R
  /\ updates' = updates \ R

PendingOf(S) == {r \in pending : call[r].session \in S}

\* Faulty variant: the entries are deleted, their promises never resolved.
CancelWithoutResolving(S) ==
  /\ IF PendingOf(S) = {} THEN UNCHANGED tableVars ELSE AM!CancelForSessions(S)
  /\ DropSlots(PendingOf(S))
  /\ UNCHANGED <<ready, http, answer, openedIn>>

(* onLastActionsClientGone, onSessionRemoved and onClaudeSessionBoundary   *)
(* share this body: drop the slots of what is pending, then cancel it.     *)
CancelPending(S) ==
  /\ IF PendingOf(S) = {} THEN UNCHANGED tableVars ELSE AM!CancelForSessions(S)
  /\ DropSlots(PendingOf(S))
  /\ ready' = ready \cup PendingOf(S)
  /\ UNCHANGED <<http, answer, openedIn>>

-----------------------------------------------------------------------------
(* PermissionRequest                                                       *)

(* Calls answered without being held: too large or not registered, a body  *)
(* that does not parse, a handler whose render() throws.                   *)
Refuse(r, s) ==
  /\ http[r] = "none"
  /\ \E reply \in {"deny"} \cup
                  (IF s \in live THEN {"invalid", Gate!Passthrough(r)} ELSE {}) :
       http' = [http EXCEPT ![r] = reply]
  /\ UNCHANGED <<tableVars, slotVars, ready, answer, openedIn, clientVars,
                 sessionVars, told>>

Request(r, s, f, t) ==
  /\ http[r] = "none" /\ s \in live
  /\ AM!Open(r, s, f, t)
  /\ UpdateState(s, "awaiting-confirmation")
  /\ told' = [c \in Clients |->
                told[c] \cup (IF c \in Receivers(s) THEN {r} ELSE {})]
  /\ handlers' = handlers \cup {r}
  /\ http' = [http EXCEPT ![r] = "held"]
  /\ openedIn' = [openedIn EXCEPT ![r] = child[s]]
  /\ UNCHANGED <<updates, ready, answer, child, clientVars>>

\* Faulty variant: a subagent gets the 204 of the main thread.
ReplyIgnoringSubagent(r) ==
  CASE settled[r] = "allow" -> IF r \in updates THEN "allowWith" ELSE "allow"
    [] settled[r] = "deny" -> "deny"
    [] settled[r] = "ask" -> "passthrough"

(* What the outcome becomes on the wire; `ask` is a passthrough.           *)
ReplyFor(r) ==
  CASE settled[r] = "allow" -> IF r \in updates THEN "allowWith" ELSE "allow"
    [] settled[r] = "deny" -> "deny"
    [] settled[r] = "ask" -> Gate!Passthrough(r)

\* Faulty variants of Resume: an exit without the finally block, and one
\* that leaves the session's state alone.
ResumeWithoutFinally(r) ==
  /\ r \in ready
  /\ ready' = ready \ {r}
  /\ UpdateState(call[r].session, "running")
  /\ http' = [http EXCEPT ![r] = ReplyFor(r)]
  /\ UNCHANGED <<tableVars, slotVars, answer, openedIn, child, clientVars, told>>

ResumeWithoutState(r) ==
  /\ r \in ready
  /\ ready' = ready \ {r}
  /\ DropSlots({r})
  /\ http' = [http EXCEPT ![r] = ReplyFor(r)]
  /\ UNCHANGED <<tableVars, answer, openedIn, sessionVars, clientVars, told>>

(* The handler after `await decision`: the maps are read and emptied.      *)
Resume(r) ==
  /\ r \in ready
  /\ ready' = ready \ {r}
  /\ UpdateState(call[r].session, "running")
  /\ DropSlots({r})
  /\ http' = [http EXCEPT ![r] = ReplyFor(r)]
  /\ UNCHANGED <<tableVars, answer, openedIn, child, clientVars, told>>

\* Faulty variants: nobody is told; the promise is not resolved.
ExpireSilently(r) ==
  /\ AM!Expire(r)
  /\ ready' = ready \cup ({r} \cap pending)
  /\ UNCHANGED <<slotVars, http, answer, openedIn, sessionVars, clientVars, told>>

ExpireUnresolved(r) ==
  /\ AM!Expire(r)
  /\ told' = Withdrawn({r})
  /\ UNCHANGED <<slotVars, ready, http, answer, openedIn, sessionVars, clientVars>>

(* The timer's onExpire only broadcasts; Resume drops the slots.           *)
Expire(r) ==
  /\ AM!Expire(r)
  /\ IF r \in pending
       THEN ready' = ready \cup {r} /\ told' = Withdrawn({r})
       ELSE UNCHANGED <<ready, told>>
  /\ UNCHANGED <<slotVars, http, answer, openedIn, sessionVars, clientVars>>

-----------------------------------------------------------------------------
(* Clients                                                                 *)

\* Faulty variant: a slot that is left over is taken for a pending request.
ClientAnswerTwice(c, r, a) ==
  /\ c \in connected
  /\ r \in handlers
  /\ handlers' = handlers \ {r}
  /\ updates' = IF a = "allowWith" THEN updates \cup {r} ELSE updates
  /\ AM!Settle({r}, IF a = "allowWith" THEN "allow" ELSE a)
  /\ ready' = ready \cup {r}
  /\ told' = Withdrawn({r})
  /\ answer' = [answer EXCEPT ![r] = a]
  /\ UNCHANGED <<http, openedIn, sessionVars, clientVars>>

(* onPromptResponse; `a` is what the slot's handler decides.  No capability *)
(* or subscription is asked of the client that answers.  An answer to a    *)
(* request that just settled finds the slot still there and is turned down *)
(* by decide().                                                            *)
ClientAnswer(c, r, a) ==
  /\ c \in connected
  /\ r \in handlers
  /\ handlers' = handlers \ {r}
  /\ updates' = IF a = "allowWith" THEN updates \cup {r} ELSE updates
  /\ IF r \in pending
       THEN /\ AM!Decide(r, IF a = "allowWith" THEN "allow" ELSE a)
            /\ ready' = ready \cup {r}
            /\ told' = Withdrawn({r})
            /\ answer' = [answer EXCEPT ![r] = a]
       ELSE UNCHANGED <<tableVars, ready, told, answer>>
  /\ UNCHANGED <<http, openedIn, sessionVars, clientVars>>

Connect(c) ==
  /\ WS!Connect(c)
  /\ UNCHANGED <<requestVars, sessionVars, told>>

(* A step of client c that changes its subscription from `before` to       *)
(* `after`: bumpActions may find that c was the last client of some        *)
(* sessions, whose requests are released; the requests of new sessions are *)
(* replayed to c; c forgets the prompts of the sessions it left.           *)
Released == PendingOf(WS!LastActionsClientGone)

\* Faulty variant: the added sessions are computed from the new subscription.
ResubscribedLate(c, after) ==
  told' = [Withdrawn(Released) EXCEPT
             ![c] = {r \in @ : call[r].session \in after}]

Resubscribed(c, after) ==
  LET kept == {r \in Withdrawn(Released)[c] : call[r].session \in after}
      replayed == IF c \in ActionsClients
                    THEN PendingOf(after \ WS!Subscribed(c)) ELSE {}
  IN  told' = [Withdrawn(Released) EXCEPT ![c] = kept \cup replayed]

\* Faulty variant: only a closing socket releases requests.
SubscribeToKeeping(c, S) ==
  /\ WS!SubscribeTo(c, S)
  /\ Resubscribed(c, S)
  /\ UNCHANGED <<requestVars, sessionVars>>

SubscribeTo(c, S) ==
  /\ WS!SubscribeTo(c, S)
  /\ CancelPending(WS!LastActionsClientGone)
  /\ Resubscribed(c, S)
  /\ UNCHANGED sessionVars

SubscribeAll(c) ==
  /\ WS!SubscribeAll(c)
  /\ CancelPending(WS!LastActionsClientGone)
  /\ Resubscribed(c, live)
  /\ UNCHANGED sessionVars

Unsubscribe(c, S) ==
  /\ WS!Unsubscribe(c, S)
  /\ CancelPending(WS!LastActionsClientGone)
  /\ Resubscribed(c, WS!Subscribed(c) \ S)
  /\ UNCHANGED sessionVars

Close(c) ==
  /\ WS!Close(c)
  /\ CancelPending(WS!LastActionsClientGone)
  /\ Resubscribed(c, {})
  /\ UNCHANGED sessionVars

-----------------------------------------------------------------------------
(* Hook events and the session's life                                      *)

RegisterSession(s) ==
  /\ WS!RegisterSession(s)
  /\ state' = [state EXCEPT ![s] = "starting"]
  /\ UNCHANGED <<requestVars, child, told>>

(* unregister, by the CLI's DELETE or by the reaper.                       *)
RemoveSession(s) ==
  /\ WS!RemoveSession(s)
  /\ CancelPending({s})
  /\ told' = Withdrawn(PendingOf({s}))
  /\ state' = [state EXCEPT ![s] = None]
  /\ child' = [child EXCEPT ![s] = None]

(* A SessionStart with another Claude session id is a boundary (/clear,    *)
(* --resume, startup); with the same id (/compact) it is not.              *)
SessionStart(s, k) ==
  /\ s \in live
  /\ LET outgoing == IF child[s] = k THEN {} ELSE {s}
     IN  /\ CancelPending(outgoing)
         /\ told' = Withdrawn(PendingOf(outgoing))
  /\ child' = [child EXCEPT ![s] = k]
  /\ UpdateState(s, TransitionFor(state[s], "SessionStart"))
  /\ UNCHANGED clientVars

\* Faulty variant: what docs/state-machine.md:194-197 says of SessionEnd.
SessionEndAsDocumented(s) ==
  /\ s \in live
  /\ child' = [child EXCEPT ![s] = None]
  /\ UpdateState(s, TransitionFor(state[s], "SessionEnd"))
  /\ UNCHANGED <<requestVars, clientVars, told>>

(* Nothing is cancelled if no child was ever announced.                    *)
SessionEnd(s) ==
  /\ s \in live
  /\ LET outgoing == IF child[s] = None THEN {} ELSE {s}
     IN  /\ CancelPending(outgoing)
         /\ told' = Withdrawn(PendingOf(outgoing))
  /\ child' = [child EXCEPT ![s] = None]
  /\ UpdateState(s, TransitionFor(state[s], "SessionEnd"))
  /\ UNCHANGED clientVars

(* The lookups of ingestHook, in its order: by tool_use_id, else by        *)
(* fingerprint, else (Stop) the session's only request.  At most one.      *)
StaleMatch(s, f, t, isStop) ==
  LET exact == AM!MatchToolUseId(s, t)
      byFp  == IF f = None THEN {} ELSE AM!MatchFingerprint(s, f)
  IN  CASE t # None /\ exact # {} -> exact
        [] (t = None \/ exact = {}) /\ byFp # {} -> byFp
        [] OTHER -> IF isStop THEN AM!MatchSingleton(s) ELSE {}

StaleCleanup(s, f, t, isStop) ==
  LET R == StaleMatch(s, f, t, isStop)
  IN  /\ IF R = {} THEN UNCHANGED tableVars ELSE AM!Settle(R, "deny")
      /\ DropSlots(R)
      /\ ready' = ready \cup R
      /\ told' = Withdrawn(R)
      /\ UNCHANGED <<http, answer, openedIn>>

(* The deduplicator in front of the state machine may drop an event of a   *)
(* kind it has just seen; never agent-internal or agent-output.            *)
SeenByStateMachine(s, e) ==
  \/ UpdateState(s, TransitionFor(state[s], e))
  \/ e \notin {"agent-internal", "agent-output"} /\ UNCHANGED state

(* PostToolUse and PostToolUseFailure, then Stop: the event reaches the    *)
(* state machine first, the stale requests are cleaned up after.           *)
ToolDone(s, f, t) ==
  /\ s \in live
  /\ SeenByStateMachine(s, "tool-result")
  /\ StaleCleanup(s, f, t, FALSE)
  /\ UNCHANGED <<child, clientVars>>

Stop(s) ==
  /\ s \in live
  /\ SeenByStateMachine(s, "agent-output")
  /\ StaleCleanup(s, None, None, TRUE)
  /\ UNCHANGED <<child, clientVars>>

(* Every other event: hooks without cleanup, transcript lines.             *)
BusEvent(s, e) ==
  /\ s \in live
  /\ SeenByStateMachine(s, e)
  /\ UNCHANGED <<requestVars, clientVars, child, told>>

(* The PTY went quiet: an aborted turn sends no hook.                      *)
PtyIdle(s) ==
  /\ s \in live /\ state[s] = "running"
  /\ UpdateState(s, "idle")
  /\ UNCHANGED <<requestVars, clientVars, child, told>>

(* A summary that asks for a decision arrives after its await, whatever    *)
(* the session does by then.                                               *)
SummaryNeedsDecision(s) ==
  /\ s \in live
  /\ UpdateState(s, "awaiting-input")
  /\ UNCHANGED <<requestVars, clientVars, child, told>>

-----------------------------------------------------------------------------
ClientStep ==
  \E c \in Clients :
    \/ Connect(c) \/ SubscribeAll(c) \/ Close(c)
    \/ \E S \in SUBSET Sessions : SubscribeTo(c, S) \/ Unsubscribe(c, S)
    \/ \E r \in Requests :
         \E a \in Handlers!PossibleDecisions(ToolOf[r]) : ClientAnswer(c, r, a)

ClaudeStep ==
  \/ \E r \in Requests, s \in Sessions : Refuse(r, s)
  \/ \E ask \in Asks : Request(ask[1], ask[2], ask[3], ask[4])
  \/ \E s \in Sessions :
       \/ \E k \in Children : SessionStart(s, k)
       \/ SessionEnd(s) \/ Stop(s)
       \/ \E f \in Fingerprints, t \in ToolUseIds \cup {None} :
            ToolDone(s, f, t)
       \/ \E e \in BusEvents : BusEvent(s, e)

HubStep ==
  \/ \E r \in Requests : Resume(r) \/ Expire(r)
  \/ \E s \in Sessions :
       RegisterSession(s) \/ RemoveSession(s) \/ PtyIdle(s)
         \/ SummaryNeedsDecision(s)

Next == ClientStep \/ ClaudeStep \/ HubStep

(* The event loop runs armed timers and settled promises; nothing obliges  *)
(* Claude, a client or the CLI to do anything.                             *)
Fairness == \A r \in Requests : WF_vars(Expire(r)) /\ WF_vars(Resume(r))

Spec == Init /\ [][Next]_vars /\ Fairness

-----------------------------------------------------------------------------
(* Properties                                                              *)

TypeOK ==
  /\ AM!TypeOK /\ WS!TypeOK
  /\ state \in [Sessions -> States \cup {None}]
  /\ child \in [Sessions -> Children \cup {None}]
  /\ handlers \subseteq Requests
  /\ updates \subseteq Requests
  /\ ready \subseteq Requests
  /\ http \in [Requests -> {"none", "held"} \cup Gate!Replies]
  /\ answer \in [Requests -> Gate!Answers \cup {None}]
  /\ told \in [Clients -> SUBSET Requests]
  /\ openedIn \in [Requests -> Children \cup {None}]

\* The per-request maps of wire.ts follow the table: a pending request always
\* has the slot an answer needs, and a slot or an update stays behind a
\* settled one only until its handler resumes.
SlotsFollowTable ==
  /\ pending \subseteq handlers
  /\ handlers \subseteq pending \cup ready
  /\ updates \subseteq ready

\* A response is owed exactly by the requests that are pending or about to
\* resume: none is answered while its entry lives, none is forgotten.
HeldIsWaiting == \A r \in Requests : http[r] = "held" <=> r \in pending \cup ready

\* Every actions client sees, of the sessions it is subscribed to, exactly the
\* requests that wait: broadcasts, replays on subscribe and withdrawals leave
\* no card missing and no dead card, whatever the order of subscriptions,
\* answers, timeouts, cleanups and cancellations.
LiveCards ==
  \A c \in connected \cap ActionsClients :
    told[c] = {r \in pending : WS!IsSubscribed(c, call[r].session)}

\* A request never outlives the session or the Claude conversation it came
\* from: the boundary of /clear and --resume, unregistration, and SessionEnd
\* as wire.ts:428 handles it.  docs/state-machine.md:194 says the opposite of
\* SessionEnd, that pending approvals are not cancelled there.
PendingBelongs ==
  \A r \in pending :
    /\ call[r].session \in live
    /\ openedIn[r] = child[call[r].session]

\* A session shown as awaiting-confirmation has a request to confirm, or one
\* whose handler is about to move the state on.
AwaitingHasRequest ==
  \A s \in Sessions :
    state[s] = "awaiting-confirmation" =>
      \E r \in pending \cup ready : call[r].session = s

\* When the last subscribed actions client of a session leaves, by whatever
\* message or by closing its socket, no request of the session is left waiting
\* for a person who is not there.
LastClientReleases ==
  [][\A s \in live :
       (WS!Watchers(s) # {} /\ WS!Watchers(s)' = {})
         => \A r \in pending' : call[r].session # s]_vars

\* The hub uses its table of requests only through the table's operations, so
\* what holds of ApprovalManager holds in the hub.
ImplementsManager == AM!Init /\ [][AM!Next]_tableVars

\* A held call is eventually answered, if only because its timer runs out.
EveryCallAnswered ==
  \A r \in Requests : http[r] = "held" ~> http[r] \in Gate!Replies

\* What Claude and the person who answers can rely on: PermissionGate.
ImplementsGate == Gate!Spec

-----------------------------------------------------------------------------
(* What the documents say                                                  *)

\* docs/architecture.md:297 and README.md:178: with no actions client
\* subscribed to the session, a PermissionRequest is not held.
NotHeldWithoutClient ==
  [][\A r \in Requests :
       (http[r] = "none" /\ http'[r] = "held")
         => WS!HasSubscribedActionsClient(call'[r].session)]_vars

\* docs/state-machine.md:17: `done` is terminal; a finished session does not
\* go back to running.
DoneIsTerminal ==
  [][\A s \in Sessions : state[s] = "done" => state'[s] # "running"]_vars
=============================================================================
