----------------------------- MODULE SessionLife -----------------------------
(***************************************************************************)
(* Which sessions exist, according to whom: the `sesshin claude` processes *)
(* (cli), the hub's registry (hub/registry), its checkpoint on disk, and   *)
(* the reaper that compares the registry with the processes.               *)
(*                                                                         *)
(* Time is counted in heartbeat intervals of 10 s, which is also the       *)
(* reaper's interval.  The checkpoint's 100 ms debounce is shorter, so an  *)
(* interval does not end while the checkpoint is dirty.  All three timers  *)
(* stop while the machine sleeps, and are overdue together when it wakes.  *)
(*                                                                         *)
(* The hub may crash or be stopped at any point and is started again by a  *)
(* later `sesshin claude`.  A CLI may be killed at any point.  Process ids *)
(* are reused.                                                             *)
(***************************************************************************)
EXTENDS Naturals, FiniteSets

CONSTANTS
  Sessions,   \* a session is one `sesshin claude` process
  Busy,       \* bound: the sessions whose state and settings change
  Mortal,     \* bound: the sessions whose CLI may end
  Timeout,    \* SESSION_HEARTBEAT_TIMEOUT_MS, in intervals
  Settings,   \* values of what Checkpoint does not listen to: pin, gate, ...
  Progress,   \* values of what it does listen to: state and substate
  MaxStarts,  \* bound on the hub's runs
  MaxSleeps,  \* bound on the machine's sleeps
  None

ASSUME TimeoutAssumption == Timeout \in Nat \ {0}
ASSUME BoundsAssumption == MaxStarts \in Nat /\ MaxSleeps \in Nat

VARIABLES
  cli,      \* "off", "joining", "running", "leaving", "gone"
  taken,    \* ended sessions whose pid a new sesshin or claude process has
  post,     \* registrations in flight
  bye,      \* DELETEs in flight
  due,      \* running CLIs that have not sent this interval's heartbeat
  stage,    \* hub: "down", "starting", "up", "closing"
  reg,      \* registry: per session a record, or None
  dirty,    \* the checkpoint's timer is armed
  sweepDue, \* the reaper has not run in this interval
  disk,     \* sessions.json
  starts, sleeps,
  saved,    \* history: sessions that were once written to disk
  lapse,    \* history: see Lapsed
  resting   \* history: sessions with settings older than this interval

cliVars == <<cli, taken, post, bye>>
hubVars == <<stage, reg, dirty, sweepDue, starts>>
diskVars == <<disk, saved>>
timeVars == <<due, sleeps, lapse, resting>>
vars == <<cliVars, hubVars, diskVars, timeVars>>

MinOf(a, b) == IF a < b THEN a ELSE b

Never == Timeout + 1   \* an age that is past the timeout
Record ==
  [age : 0 .. Never, progress : Progress \cup {"starting"},
   settings : Settings \cup {None}]

ASSUME NoneAssumption == None \notin Settings \cup Record

Alive == {s \in Sessions : cli[s] \in {"joining", "running", "leaving"}}
Registered == {s \in Sessions : reg[s] # None}
Serving == stage \in {"up", "closing"}
Checkpointing == stage \in {"starting", "up"}

Init ==
  /\ cli = [s \in Sessions |-> "off"]
  /\ taken = {} /\ post = {} /\ bye = {} /\ due = {}
  /\ stage = "down"
  /\ reg = [s \in Sessions |-> None]
  /\ dirty = FALSE /\ sweepDue = FALSE
  /\ disk = [s \in Sessions |-> None]
  /\ starts = 0 /\ sleeps = 0
  /\ saved = {}
  /\ lapse = [s \in Sessions |-> 0]
  /\ resting = {}

-----------------------------------------------------------------------------
(* Liveness of a record and the registry's events                          *)

(* process.kill(pid, 0), then the command line: it names sesshin or claude, *)
(* which a process that got the pid later may do, too.                     *)
PidMatches(s) == s \in Alive \cup taken

(* What a request about a session, and the subcommands' requireLiveSession, *)
(* is answered: the hub is there and knows the session.                    *)
LiveSession(s) == Serving /\ reg[s] # None

\* Faulty variants: the boundary is off by one; the pid alone decides.
KeepStrict(s, rec) == PidMatches(s) /\ rec.age < Timeout
KeepByPid(s, rec) == PidMatches(s)

ShouldKeep(s, rec) == PidMatches(s) /\ rec.age <= Timeout

\* Faulty variant: nothing listens to the registry.
NotMarked == dirty' = dirty

(* Checkpoint.markDirty: session-added, session-removed, state-changed and *)
(* substate-changed, while the checkpoint is started.                      *)
MarkDirty == dirty' = (dirty \/ Checkpointing)

-----------------------------------------------------------------------------
(* CLI                                                                     *)

(* ensureHubRunning returns when /api/health answers; it has spawned a hub *)
(* (StartHub) if none did.                                                 *)
EnsureHubRunning == Serving

(* The registration, with the pid of this process.                         *)
Post(s) == post' = post \cup {s}

(* runClaude, up to the registration.                                      *)
Start(s) ==
  /\ cli[s] = "off" /\ EnsureHubRunning
  /\ cli' = [cli EXCEPT ![s] = "joining"]
  /\ Post(s)
  /\ UNCHANGED <<taken, bye, hubVars, diskVars, timeVars>>

\* Faulty variant: a default is missing.
FreshWithoutSettings == [age |-> 0, progress |-> "starting"]

Fresh == [age |-> 0, progress |-> "starting", settings |-> None]

(* registerSession.  Heartbeats start at once.                             *)
Register(s) ==
  /\ s \in post /\ Serving
  /\ reg' = [reg EXCEPT ![s] = Fresh]
  /\ MarkDirty
  /\ post' = post \ {s}
  /\ IF cli[s] = "joining"
       THEN cli' = [cli EXCEPT ![s] = "running"] /\ due' = due \cup {s}
       ELSE UNCHANGED <<cli, due>>
  /\ resting' = resting \ {s}
  /\ UNCHANGED <<taken, bye, stage, sweepDue, starts,
                 diskVars, sleeps, lapse>>

(* fetch rejects: runClaude throws, before installCleanup.                 *)
RegisterFails(s) ==
  /\ s \in post /\ ~ Serving
  /\ post' = post \ {s}
  /\ cli' = [cli EXCEPT ![s] = "gone"]
  /\ UNCHANGED <<taken, bye, hubVars, diskVars, timeVars>>

RecordHeartbeat(s) ==
  /\ reg' = [reg EXCEPT ![s].age = 0]
  /\ MarkDirty

(* A heartbeat; 404 and a refused connection are ignored by the CLI, which *)
(* never registers a second time.                                          *)
Beat(s) ==
  /\ s \in due
  /\ due' = due \ {s}
  /\ IF LiveSession(s) THEN RecordHeartbeat(s)
                       ELSE UNCHANGED <<reg, dirty>>
  /\ UNCHANGED <<cliVars, stage, sweepDue, starts, diskVars, sleeps,
                 lapse, resting>>

(* shutdown(): the inner shell exited, or SIGTERM or SIGHUP.               *)
Leave(s) ==
  /\ s \in Mortal /\ cli[s] = "running"
  /\ cli' = [cli EXCEPT ![s] = "leaving"]
  /\ bye' = bye \cup {s}
  /\ due' = due \ {s}
  /\ UNCHANGED <<taken, post, hubVars, diskVars, sleeps, lapse,
                 resting>>

(* unregisterSession.                                                      *)
Delete(s) ==
  /\ s \in bye /\ Serving
  /\ bye' = bye \ {s}
  /\ IF reg[s] # None
       THEN reg' = [reg EXCEPT ![s] = None] /\ MarkDirty
       ELSE UNCHANGED <<reg, dirty>>
  /\ UNCHANGED <<cli, taken, post, stage, sweepDue, starts,
                 diskVars, timeVars>>

(* A DELETE that finds no hub, or whose process ended before it was sent.  *)
DeleteLost(s) ==
  /\ s \in bye /\ (cli[s] = "gone" \/ ~ Serving)
  /\ bye' = bye \ {s}
  /\ UNCHANGED <<cli, taken, post, hubVars, diskVars, timeVars>>

(* process.exit, normally after the DELETE; before it when the shell's     *)
(* exit finds didShutdown set by a signal, or after the 1 s cap of an      *)
(* uncaught exception.                                                     *)
Exit(s) ==
  /\ cli[s] = "leaving"
  /\ cli' = [cli EXCEPT ![s] = "gone"]
  /\ UNCHANGED <<taken, post, bye, hubVars, diskVars, timeVars>>

(* SIGKILL.                                                                *)
Kill(s) ==
  /\ s \in Mortal \cap Alive
  /\ cli' = [cli EXCEPT ![s] = "gone"]
  /\ due' = due \ {s}
  /\ UNCHANGED <<taken, post, bye, hubVars, diskVars, sleeps, lapse,
                 resting>>

(* The pid of an ended CLI is given to a new process, for good or until    *)
(* that ends.                                                              *)
PidTaken(s) ==
  /\ cli[s] = "gone"
  /\ taken' = IF s \in taken THEN taken \ {s} ELSE taken \cup {s}
  /\ UNCHANGED <<cli, post, bye, hubVars, diskVars, timeVars>>

-----------------------------------------------------------------------------
(* Hub                                                                     *)

(* setSessionGateOverride, setPin, setQuietUntil, setClaudeSessionId: what *)
(* a restart gives back.  They emit config-changed, which the checkpoint   *)
(* does not listen to.                                                     *)
Set(s, v) ==
  /\ reg[s].settings # v
  /\ reg' = [reg EXCEPT ![s].settings = v]
  /\ resting' = resting \ {s}

(* The gate, pin and quiet routes.                                         *)
Configure(s, v) ==
  /\ s \in Busy /\ LiveSession(s)
  /\ Set(s, v)
  /\ UNCHANGED <<cliVars, stage, dirty, sweepDue, starts, diskVars,
                 due, sleeps, lapse>>

(* updateState, patchSubstate, setPermissionMode.                          *)
Advance(s, w) ==
  /\ s \in Busy /\ reg[s] # None
  /\ reg[s].progress # w
  /\ reg' = [reg EXCEPT ![s].progress = w]
  /\ MarkDirty
  /\ UNCHANGED <<cliVars, stage, sweepDue, starts, diskVars, timeVars>>

Stale == {s \in Registered : ~ ShouldKeep(s, reg[s])}

(* The staleSweep interval.                                                *)
Reap ==
  /\ stage = "up" /\ sweepDue
  /\ sweepDue' = FALSE
  /\ reg' = [s \in Sessions |-> IF s \in Stale THEN None ELSE reg[s]]
  /\ IF Stale = {} THEN UNCHANGED dirty ELSE MarkDirty
  /\ UNCHANGED <<cliVars, stage, starts, diskVars, timeVars>>

(* How long, at most, the disk may have missed a session's heartbeats: the   *)
(* intervals in which there was no hub or the machine slept, and one for    *)
(* each start of a hub, whose predecessor may have lost the last heartbeat. *)
(* A heartbeat that is written by the checkpoint's timer ends the lapse.    *)
Lapsed(n) ==
  [s \in Sessions |->
     IF cli[s] = "running" THEN MinOf(lapse[s] + n, Never) ELSE 0]

(* flushNow: a temporary file and a rename, so a crash leaves the old file *)
(* or the new one.                                                         *)
Flush ==
  /\ dirty
  /\ dirty' = FALSE
  /\ disk' = reg
  /\ saved' = saved \cup Registered
  /\ lapse' = [s \in Sessions |->
                 IF reg[s] # None /\ reg[s].age = 0 THEN 0 ELSE lapse[s]]
  /\ UNCHANGED <<cliVars, stage, reg, sweepDue, starts, due, sleeps, resting>>

\* Faulty variant: the settings are not among the fields assigned.
RestoredWithoutSettings(rec) == [rec EXCEPT !.settings = None]

(* A restored session is registered afresh and gets its fields back, its   *)
(* last heartbeat among them.                                              *)
Restored(rec) ==
  [Fresh EXCEPT !.age = rec.age, !.progress = rec.progress,
                !.settings = rec.settings]

(* startHub up to rest.listen: load, restore what is alive.  The sweep     *)
(* that follows in the same turn finds nothing more to remove.             *)
StartHub ==
  /\ stage = "down" /\ starts < MaxStarts
  /\ stage' = "starting"
  /\ starts' = starts + 1
  /\ reg' = [s \in Sessions |->
               IF disk[s] # None /\ ShouldKeep(s, disk[s])
                 THEN Restored(disk[s]) ELSE None]
  /\ dirty' = FALSE /\ sweepDue' = FALSE
  /\ lapse' = Lapsed(1)
  /\ UNCHANGED <<cliVars, diskVars, due, sleeps, resting>>

Listen ==
  /\ stage = "starting"
  /\ stage' = "up"
  /\ UNCHANGED <<cliVars, reg, dirty, sweepDue, starts, diskVars,
                 timeVars>>

(* shutdown: checkpoint.stop flushes what is dirty; REST still answers     *)
(* until rest.close, and what it changes is not saved.                     *)
StopHub ==
  /\ stage = "up"
  /\ stage' = "closing"
  /\ dirty' = FALSE
  /\ IF dirty
       THEN disk' = reg /\ saved' = saved \cup Registered
       ELSE UNCHANGED diskVars
  /\ UNCHANGED <<cliVars, reg, sweepDue, starts, timeVars>>

HubGone ==
  /\ stage' = "down"
  /\ reg' = [s \in Sessions |-> None]
  /\ dirty' = FALSE /\ sweepDue' = FALSE
  /\ UNCHANGED <<cliVars, starts, diskVars, timeVars>>

Closed == stage = "closing" /\ HubGone

CrashHub == stage # "down" /\ HubGone

-----------------------------------------------------------------------------
(* Time                                                                    *)

Older(rec, n) ==
  IF rec = None THEN None ELSE [rec EXCEPT !.age = MinOf(@ + n, Never)]

(* n intervals pass at once, more than one only while the machine sleeps.  *)
Elapse(n) ==
  /\ reg' = [s \in Sessions |-> Older(reg[s], n)]
  /\ disk' = [s \in Sessions |-> Older(disk[s], n)]
  /\ lapse' = IF stage = "down" \/ n > 1 THEN Lapsed(n) ELSE lapse
  /\ resting' = {s \in Registered : reg[s].settings # None}
  /\ due' = {s \in Sessions : cli[s] = "running"}
  /\ sweepDue' = (stage = "up")
  /\ UNCHANGED <<cliVars, stage, dirty, starts, saved>>

(* A hub that starts or stops does so within an interval.                  *)
Tick ==
  /\ due = {} /\ ~ dirty /\ ~ sweepDue /\ stage \in {"down", "up"}
  /\ Elapse(1) /\ UNCHANGED sleeps

Sleep ==
  /\ sleeps < MaxSleeps
  /\ due = {} /\ ~ dirty /\ ~ sweepDue /\ stage \in {"down", "up"}
  /\ Elapse(Never) /\ sleeps' = sleeps + 1

-----------------------------------------------------------------------------
CliStep(s) ==
  \/ Start(s) \/ Register(s) \/ RegisterFails(s) \/ Beat(s) \/ Leave(s)
  \/ Delete(s) \/ DeleteLost(s) \/ Exit(s) \/ Kill(s) \/ PidTaken(s)

HubStep ==
  \/ \E s \in Sessions :
       \/ \E v \in Settings : Configure(s, v)
       \/ \E w \in Progress : Advance(s, w)
  \/ Reap \/ Flush \/ StartHub \/ Listen \/ StopHub \/ Closed \/ CrashHub

Next == (\E s \in Sessions : CliStep(s)) \/ HubStep \/ Tick \/ Sleep

(* The timers of running processes fire; a hub that starts gets to listen. *)
(* Nobody is obliged to start a hub, to leave, or to stay alive.           *)
Fairness ==
  /\ WF_vars(Tick) /\ WF_vars(Reap) /\ WF_vars(Flush) /\ WF_vars(Listen)
  /\ WF_vars(Closed)
  /\ \A s \in Sessions : WF_vars(Beat(s))

Spec == Init /\ [][Next]_vars /\ Fairness

-----------------------------------------------------------------------------
(* Properties                                                              *)

TypeOK ==
  /\ cli \in [Sessions -> {"off", "joining", "running", "leaving", "gone"}]
  /\ taken \subseteq Sessions /\ post \subseteq Sessions
  /\ bye \subseteq Sessions /\ due \subseteq Sessions
  /\ stage \in {"down", "starting", "up", "closing"}
  /\ reg \in [Sessions -> Record \cup {None}]
  /\ disk \in [Sessions -> Record \cup {None}]
  /\ dirty \in BOOLEAN /\ sweepDue \in BOOLEAN
  /\ starts \in 0 .. MaxStarts /\ sleeps \in 0 .. MaxSleeps
  /\ saved \subseteq Sessions
  /\ lapse \in [Sessions -> 0 .. Never] /\ resting \subseteq Sessions

\* A session whose CLI runs and that was once written to disk is in the
\* registry of every hub that runs, unless the disk may have missed its
\* heartbeats for as long as the timeout: neither the reaper nor a crash, a stop
\* or a restart at a bad moment removes it.
LivingSessionKept ==
  Checkpointing =>
    \A s \in saved :
      cli[s] = "running" /\ lapse[s] < Timeout => reg[s] # None

\* What the checkpoint listens to is on disk when it is not dirty: a crash of
\* an idle hub loses no session, no state and no heartbeat.
CheckpointCurrent ==
  Checkpointing /\ ~ dirty =>
    \A s \in Registered :
      /\ disk[s] # None
      /\ disk[s].age = reg[s].age
      /\ disk[s].progress = reg[s].progress

\* A setting (pin, gate, quiet, Claude session id) is not saved when it
\* changes; the next heartbeat saves it with everything else, and from then on
\* it survives a crash.
SettingsSavedByHeartbeat ==
  stage = "up" /\ ~ dirty =>
    \A s \in Registered :
      cli[s] = "running" /\ s \in resting /\ s \notin due =>
        disk[s].settings = reg[s].settings

\* A session whose process is gone leaves the registry for good: also when
\* its DELETE was lost, when it was killed while registering, when a restart
\* brings it back from an old checkpoint, and when its pid was reused.
DeadSessionForgotten ==
  \A s \in Mortal : cli[s] = "gone" ~> [](reg[s] = None)
=============================================================================
