---------------------------- MODULE SessionActivity ----------------------------
(***************************************************************************)
(* How the hub follows one session's Claude: what Claude does is reported  *)
(* by hooks and by its transcript, which the hub tails; both go through    *)
(* one event bus and a deduplicator to the state machine, to the           *)
(* summarizer's trigger, and to the clients, which ask for what they       *)
(* missed when they reconnect.  An interrupted turn has no hook: the       *)
(* idle watcher ends it when the terminal has been quiet.                  *)
(*                                                                         *)
(* Times are in seconds.  The tail polls every 200 ms and a hook waits     *)
(* 250 ms at most, so no report is under way any more FarGap after the     *)
(* fact: Claude's next fact waits for it (bound on asynchrony).            *)
(*                                                                         *)
(* The hub may be restarted: the checkpoint keeps the state, the rest is   *)
(* lost, and the transcript is read from its beginning again.              *)
(***************************************************************************)
EXTENDS Naturals, Sequences, FiniteSets, Functions, SessionState

CONSTANTS
  Window,       \* the deduplicator's window
  Skew,         \* bound: a hook's time stamp is later by so much
  RingMax,      \* maxPerSession
  ConfirmTicks, \* ticks of low rate until the watcher is sure
  Gaps,         \* bound: seconds between two facts
  MaxFacts,     \* bound: what Claude does
  MaxRestarts,  \* bound: hub restarts
  None

FarGap == Window + Skew

ASSUME SizesAssumption ==
  /\ {Window, Skew} \subseteq Nat /\ Skew < Window
  /\ RingMax \in Nat \ {0} /\ ConfirmTicks \in Nat \ {0}
ASSUME BoundsAssumption ==
  {MaxFacts, MaxRestarts} \subseteq Nat /\ Gaps \subseteq Nat
ASSUME NoneAssumption == None \notin Nat

VARIABLES
  (* Claude *)
  turn,     \* "prompt", "working"
  facts,    \* what it has done, and when
  hooks,    \* hook calls under way, in order
  (* hub *)
  read,     \* how far the tail has read
  last,     \* Dedup.last
  events,   \* history: what the deduplicator passed on
  state,    \* the session's state
  active,   \* hasBeenActive
  cooling,  \* ticks since coolingSince, or None
  buffer,   \* the trigger's buffer
  armed,    \* its timer is set
  calls,    \* the summarizer's calls under way
  (* client *)
  online,   \* it has subscribed
  frames,   \* session.event frames under way
  newest,   \* lastEventId, or None
  (* history *)
  restarts,
  startEvent, startFact  \* events and facts before this run of the hub

claudeVars == <<turn, facts, hooks>>
busVars == <<last, events, state, buffer, armed, frames>>
watchVars == <<active, cooling>>
clientVars == <<online, newest>>
runVars == <<restarts, startEvent, startFact>>
vars == <<claudeVars, read, busVars, watchVars, calls, clientVars, runVars>>

MinOf(a, b) == IF a < b THEN a ELSE b

(* What Claude does, and the hooks and transcript lines it makes of it.    *)
Whats == {"prompt", "tool", "text", "stop", "fail"}
Hooked == {"prompt", "tool", "stop", "fail"}
Written == {"prompt", "tool", "text"}

(* mapEvent and jsonlLineToEvent: UserPromptSubmit and user lines,         *)
(* PostToolUse and tool_result lines, Stop and assistant lines,            *)
(* StopFailure.                                                            *)
KindOf ==
  [prompt |-> "user-prompt", tool |-> "tool-result", text |-> "agent-output",
   stop |-> "agent-output", fail |-> "error"]

Kind(e) == KindOf[facts[e.fact].what]

Event == [fact : 1 .. MaxFacts, source : {"hook", "tail"}]

Init ==
  /\ turn = "prompt" /\ facts = <<>> /\ hooks = <<>>
  /\ read = 0
  /\ last = [k \in {"user-prompt", "tool-result", "error"} |-> None]
  /\ events = <<>> /\ state = "idle"
  /\ active = FALSE /\ cooling = None
  /\ buffer = {} /\ armed = FALSE /\ calls = {}
  /\ online = FALSE /\ frames = <<>> /\ newest = None
  /\ restarts = 0 /\ startEvent = 0 /\ startFact = 0

-----------------------------------------------------------------------------
(* Claude                                                                  *)

Now == IF facts = <<>> THEN 0 ELSE facts[Len(facts)].at

(* The facts that are still to be reported, without those of an earlier    *)
(* run of the hub, which the tail reads again in its own time.             *)
UnderWay == Range(hooks) \cup {f \in 1 .. Len(facts) : f > startFact /\ f > read}

Do(what) ==
  /\ Len(facts) < MaxFacts
  /\ \E gap \in Gaps :
       /\ \A f \in UnderWay : Now + gap < facts[f].at + FarGap
       /\ facts' = Append(facts, [what |-> what, at |-> Now + gap])
  /\ hooks' = IF what \in Hooked THEN Append(hooks, Len(facts')) ELSE hooks
  /\ UNCHANGED <<read, busVars, watchVars, calls, clientVars, runVars>>

Prompt == turn = "prompt" /\ turn' = "working" /\ Do("prompt")
Work == turn = "working" /\ turn' = turn /\ \E w \in {"tool", "text"} : Do(w)
Finish == turn = "working" /\ turn' = "prompt" /\ \E w \in {"stop", "fail"} : Do(w)

(* Esc.                                                                    *)
Interrupt ==
  /\ turn = "working" /\ turn' = "prompt"
  /\ UNCHANGED <<facts, hooks, read, busVars, watchVars, calls, clientVars,
                 runVars>>

-----------------------------------------------------------------------------
(* Event bus                                                               *)

\* Faulty variant: the window is closed on the right.
PassesLate(k, ts) ==
  \/ k = "agent-output"
  \/ last[k] = None
  \/ last[k] + Window < ts

(* Dedup.shouldEmit.                                                       *)
Passes(k, ts) ==
  \/ k = "agent-output"
  \/ last[k] = None
  \/ last[k] + Window <= ts

\* Faulty variant: an error starts no timer.
ArmsOnOutput(k) == k = "agent-output"

Arms(k) == k \in {"agent-output", "error"}

(* onEvent: a frame for a client that has subscribed.                      *)
SendEvent(n) == frames' = IF online THEN Append(frames, n) ELSE frames

(* The trigger's listener: an event is kept, an answer or an error (re)sets *)
(* the timer.                                                              *)
Buffered(n, k) == buffer' = buffer \cup {n} /\ armed' = (armed \/ Arms(k))

(* The bus, through the deduplicator: the state machine, the trigger, the  *)
(* clients.                                                                *)
Emit(e, ts) ==
  LET k == Kind(e)
      n == Len(events) + 1
  IN  IF Passes(k, ts)
        THEN /\ last' = IF k = "agent-output" THEN last
                                              ELSE [last EXCEPT ![k] = ts]
             /\ events' = Append(events, e)
             /\ state' = TransitionFor(state, k)
             /\ Buffered(n, k)
             /\ SendEvent(n)
        ELSE UNCHANGED <<last, events, state, buffer, armed, frames>>

(* wireHookIngest.                                                         *)
Hook ==
  /\ hooks # <<>>
  /\ hooks' = Tail(hooks)
  /\ \E late \in 0 .. Skew :
       Emit([fact |-> Head(hooks), source |-> "hook"],
            facts[Head(hooks)].at + late)
  /\ UNCHANGED <<turn, facts, read, watchVars, calls, clientVars, runVars>>

(* The hook's 250 ms are over before the hub has answered.                 *)
HookLost ==
  /\ hooks # <<>>
  /\ hooks' = Tail(hooks)
  /\ UNCHANGED <<turn, facts, read, busVars, watchVars, calls, clientVars,
                 runVars>>

(* tick of the tail: the next line.                                        *)
ReadLine ==
  /\ read < Len(facts)
  /\ read' = read + 1
  /\ IF facts[read'].what \in Written
       THEN Emit([fact |-> read', source |-> "tail"], facts[read'].at)
       ELSE UNCHANGED busVars
  /\ UNCHANGED <<claudeVars, watchVars, calls, clientVars, runVars>>

-----------------------------------------------------------------------------
(* Idle watcher                                                            *)

\* Faulty variant: each evaluation begins the cooling anew.
CooledAnew(tick) == 0

(* coolingSince is set once; tick ticks later it is so much longer ago.    *)
Cooled(tick) ==
  IF cooling = None THEN 0 ELSE MinOf(cooling + tick, ConfirmTicks)

(* evaluate, tick ticks after the last time.  A rate between low and high  *)
(* changes nothing, but the clock goes on.                                 *)
Evaluate(r, tick) ==
  \/ /\ state # "running"
     /\ active' = FALSE /\ cooling' = None /\ UNCHANGED state
  \/ /\ state = "running" /\ r = "high"
     /\ active' = TRUE /\ cooling' = None /\ UNCHANGED state
  \/ /\ state = "running" /\ r = "mid"
     /\ cooling' = IF cooling = None THEN None ELSE Cooled(tick)
     /\ UNCHANGED <<active, state>>
  \/ /\ state = "running" /\ r = "low" /\ ~ active
     /\ UNCHANGED <<active, cooling, state>>
  \/ /\ state = "running" /\ r = "low" /\ active
     /\ IF Cooled(tick) >= ConfirmTicks
          THEN state' = "idle" /\ active' = FALSE /\ cooling' = None
          ELSE cooling' = Cooled(tick) /\ UNCHANGED <<active, state>>

(* The terminal's rate is above the low mark while Claude works: its       *)
(* spinner.  (Typing at the prompt, and the second until the window has    *)
(* slid past a turn's last output, are left out.)                          *)
Busy ==
  /\ turn = "working"
  /\ \E r \in {"mid", "high"} : Evaluate(r, 1)
  /\ UNCHANGED <<claudeVars, read, last, events, buffer, armed, frames,
                 calls, clientVars, runVars>>

(* It is below, at the prompt or in a pause.                               *)
Quiet ==
  /\ Evaluate("low", 1)
  /\ UNCHANGED <<claudeVars, read, last, events, buffer, armed, frames,
                 calls, clientVars, runVars>>

-----------------------------------------------------------------------------
(* Summaries                                                               *)

(* toSummaryEvent: the Stop hook has no text.                              *)
HasText(n) == ~ (Kind(events[n]) = "agent-output" /\ events[n].source = "hook")

(* fire, up to the call.                                                   *)
Fire ==
  /\ armed
  /\ armed' = FALSE /\ buffer' = {}
  /\ LET batch == {n \in buffer : HasText(n)}
     IN  calls' = IF batch = {} THEN calls ELSE calls \cup {batch}
  /\ UNCHANGED <<claudeVars, read, last, events, state, frames,
                 watchVars, clientVars, runVars>>

(* parseSummary: a JSON object, perhaps with prose around it, may say that  *)
(* a decision is needed; prose alone does not.                             *)
Parsed ==
  [object |-> BOOLEAN, objectInProse |-> BOOLEAN, prose |-> {FALSE}]

(* summarize: the first back end that answers, Mode B prime (unless it is  *)
(* not authorised), Mode B, or the heuristic, which cannot fail and never  *)
(* needs a decision.                                                       *)
NeedsDecision ==
  LET model == UNION Range(Parsed)
  IN  [modeBPrime |-> model, modeB |-> model, heuristic |-> {FALSE}]

(* fire, after the call: the state machine is not asked.                   *)
Summarised(batch) ==
  /\ batch \in calls
  /\ calls' = calls \ {batch}
  /\ \E answered \in DOMAIN NeedsDecision :
       \E needed \in NeedsDecision[answered] :
         state' = IF needed THEN "awaiting-input" ELSE state
  /\ UNCHANGED <<claudeVars, read, last, events, buffer, armed, frames,
                 watchVars, clientVars, runVars>>

-----------------------------------------------------------------------------
(* Client                                                                  *)

(* The ring's events.                                                      *)
Ring ==
  {n \in 1 .. Len(events) : n > startEvent /\ n + RingMax > Len(events)}

\* Faulty variant: an id that is not in the ring has nothing after it.
SinceKnown(id) == IF id \in Ring THEN {n \in Ring : n > id} ELSE {}

\* Faulty variant: the client's id is not looked for.
SinceAll(id) == Ring

(* eventsSince.                                                            *)
Since(id) == IF id \in Ring THEN {n \in Ring : n > id} ELSE Ring

Ascending(S) ==
  CHOOSE q \in [1 .. Cardinality(S) -> S] :
    \A i, j \in DOMAIN q : i < j => q[i] < q[j]

(* connect: subscribe, with the newest event the client has.  Without one, *)
(* nothing is sent again.                                                  *)
Subscribe ==
  /\ ~ online
  /\ online' = TRUE
  /\ frames' = IF newest = None THEN <<>> ELSE Ascending(Since(newest))
  /\ UNCHANGED <<claudeVars, read, last, events, state, buffer, armed,
                 watchVars, calls, newest, runVars>>

(* addEvent.                                                               *)
Receive ==
  /\ frames # <<>>
  /\ frames' = Tail(frames)
  /\ newest' = Head(frames)
  /\ UNCHANGED <<claudeVars, read, last, events, state, buffer, armed,
                 watchVars, calls, online, runVars>>

(* The connection breaks; frames under way are lost.                       *)
Cut ==
  /\ online
  /\ online' = FALSE /\ frames' = <<>>
  /\ UNCHANGED <<claudeVars, read, last, events, state, buffer, armed,
                 watchVars, calls, newest, runVars>>

-----------------------------------------------------------------------------
Restart ==
  /\ restarts < MaxRestarts
  /\ restarts' = restarts + 1
  /\ hooks' = <<>>
  /\ read' = 0
  /\ last' = [k \in DOMAIN last |-> None]
  /\ active' = FALSE /\ cooling' = None
  /\ buffer' = {} /\ armed' = FALSE /\ calls' = {}
  /\ online' = FALSE /\ frames' = <<>>
  /\ startEvent' = Len(events) /\ startFact' = Len(facts)
  /\ UNCHANGED <<turn, facts, events, state, newest>>

Next ==
  \/ Prompt \/ Work \/ Finish \/ Interrupt
  \/ Hook \/ HookLost \/ ReadLine
  \/ Busy \/ Quiet
  \/ Fire \/ \E batch \in calls : Summarised(batch)
  \/ Subscribe \/ Receive \/ Cut
  \/ Restart

(* Timers fire, the terminal is quiet at the prompt, the summarizer answers *)
(* (its last resort cannot fail).                                          *)
Fairness ==
  /\ WF_vars(turn = "prompt" /\ Quiet) /\ WF_vars(Fire)
  /\ WF_vars(\E batch \in calls : Summarised(batch))

Spec == Init /\ [][Next]_vars /\ Fairness

-----------------------------------------------------------------------------
(* Properties                                                              *)

Numbers == 1 .. Len(events)

TypeOK ==
  /\ turn \in {"prompt", "working"}
  /\ facts \in Seq([what : Whats, at : Nat]) /\ Len(facts) <= MaxFacts
  /\ hooks \in Seq(1 .. Len(facts)) /\ read \in 0 .. Len(facts)
  /\ last \in [{"user-prompt", "tool-result", "error"} -> Nat \cup {None}]
  /\ events \in Seq(Event) /\ state \in States
  /\ active \in BOOLEAN
  /\ cooling \in 0 .. ConfirmTicks \cup {None}
  /\ buffer \subseteq Numbers /\ armed \in BOOLEAN
  /\ calls \subseteq SUBSET Numbers
  /\ online \in BOOLEAN /\ frames \in Seq(Numbers)
  /\ newest \in Numbers \cup {None}
  /\ restarts \in 0 .. MaxRestarts
  /\ startEvent \in 0 .. Len(events) /\ startFact \in 0 .. Len(facts)

Deduplicated(f) == KindOf[facts[f].what] # "agent-output"

PassedFor(f) == {n \in Numbers : n > startEvent /\ events[n].fact = f}

Spaced(f) ==
  \A g \in 1 .. Len(facts) :
    /\ g # f /\ KindOf[facts[g].what] = KindOf[facts[f].what]
    => \/ facts[f].at >= facts[g].at + FarGap
       \/ facts[g].at >= facts[f].at + FarGap

\* What is reported by a hook and by the transcript moves the state machine
\* once, whichever report comes first or is lost, and is not taken for another
\* event of its kind unless the two are closer than the window and the
\* skew of the two clocks together (FarGap).
ReportedOnce ==
  \A f \in {g \in 1 .. Len(facts) : Deduplicated(g)} :
    /\ Cardinality(PassedFor(f)) <= 1
    /\ f <= read /\ f > startFact /\ facts[f].what \in Written /\ Spaced(f)
       => PassedFor(f) # {}

\* A turn that was interrupted does not stay `running`, once the watcher
\* has seen it work.
InterruptSeen ==
  \A r \in 0 .. MaxRestarts :
    (state = "running" /\ active /\ turn = "prompt" /\ restarts = r) ~>
      (state # "running" \/ turn = "working" \/ restarts > r)

\* No answer and no error of Claude waits for its summary for ever, though
\* each new one puts the summary off.
Waiting ==
  {n \in buffer \cup UNION calls : Kind(events[n]) \in {"agent-output", "error"}}
AnswersSummarised == Waiting # {} ~> Waiting = {}

\* A client that has subscribed has got, or is being sent, everything that is
\* in the ring and newer than the oldest event it has, once and in order,
\* however often it was cut off and whatever the ring has dropped.
FeedComplete ==
  online /\ newest # None =>
    /\ \A i, j \in DOMAIN frames : i < j => frames[i] < frames[j]
    /\ \A i \in DOMAIN frames : frames[i] > newest
    /\ \A n \in Ring : n > newest => n \in Range(frames)

\* What a client of the feed can rely on, over all its connections: EventFeed.
Feed == INSTANCE EventFeed
          WITH size <- Len(events), kept <- Ring, owed <- Range(frames),
               seen <- newest
ImplementsFeed == Feed!Spec
=============================================================================
