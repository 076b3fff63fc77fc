------------------------------ MODULE CliStreams ------------------------------
(***************************************************************************)
(* The three links a running `sesshin claude` keeps to the hub, besides    *)
(* its heartbeat:                                                          *)
(*   - the uplink (cli/pty-tap.ts), a chunked POST that never ends and     *)
(*     carries the terminal's output, with a bounded queue in front of it; *)
(*   - the downlink (cli/inject-listener.ts), an NDJSON answer that never  *)
(*     ends and carries the clients' input, the hub's InputBridge behind   *)
(*     it;                                                                 *)
(*   - the reports of the pause monitor (cli/pause-monitor.ts), one POST   *)
(*     each time Claude is suspended or resumed.  Nobody waits for one     *)
(*     before the next is sent, so two may be handled in either order.     *)
(*                                                                         *)
(* They share the hub and the CLI, and nothing else: a behaviour may use   *)
(* some of them and leave the others alone (Uses).                         *)
(*                                                                         *)
(* The hub may crash or be stopped, and be started again, with or without  *)
(* the session in its checkpoint.  It answers 408 to a POST that has not   *)
(* ended after five minutes, which the uplink's never has.  The kernel     *)
(* ends the connections of a dead hub with FIN or with RST.  Delays and    *)
(* their doubling are left out: a timer may fire at any time.              *)
(***************************************************************************)
EXTENDS Naturals, Sequences

CONSTANTS
  QueueMax,     \* chunks the uplink keeps while it cannot send
  Buffer,       \* chunks until req.write answers false
  Uses,         \* bound: the sets of links that are used together
  States,       \* bound: the session states in which input is tried
  MaxChunks,    \* bound: chunks of output
  MaxInputs,    \* bound: accepted inputs
  MaxFlips,     \* bound: suspensions and resumptions
  MaxTimeouts,  \* bound: 408s
  MaxStarts,    \* bound: the hub's runs
  None

ASSUME SizesAssumption == QueueMax \in Nat \ {0} /\ Buffer \in Nat \ {0}
ASSUME BoundsAssumption ==
  /\ {MaxChunks, MaxInputs, MaxFlips, MaxTimeouts} \subseteq Nat
  /\ MaxStarts \in Nat \ {0}
ASSUME NoneAssumption == None \notin BOOLEAN

VARIABLES
  use,       \* the links in use
  cli,       \* "running", or "leaving" once shutdown() has run
  hub,       \* "up", "down"
  starts, timeouts,
  known,     \* the running hub has the session in its registry
  (* uplink *)
  written,   \* chunks the terminal has put out; each is its number
  queue,     \* queue
  req,       \* "none", "connecting", "open": req and connected
  waits,     \* flushQueue listeners for the request's drain event
  timer,     \* reconnectTimer is set
  buf,       \* the request's chunks this process still holds
  pipe,      \* the chunks the kernel holds
  link,      \* the hub's end of the open request
  got,       \* history: the chunks the hub's tap was given
  (* downlink *)
  listener,  \* "connecting", "attached", "retry", "deaf", "closed"
  sink,      \* InputBridge has a sink for the session
  down,      \* inputs written to the sink's response
  inputs,    \* inputs accepted; each is its number
  owed,      \* history: those accepted while the listener was attached, and
             \* not yet typed, by a hub and a CLI that still run
  (* pause reports *)
  suspended, \* the inner shell holds the foreground
  flips,
  reported,  \* lastReported
  reports,   \* POSTs under way: how many say TRUE, and how many FALSE
  paused     \* substate.paused

hubVars == <<use, hub, starts, known>>
sendVars == <<queue, req, waits, timer, buf>>
upVars == <<sendVars, written, pipe, link, got, timeouts>>
downVars == <<listener, sink, down, inputs, owed>>
pauseVars == <<suspended, flips, reported, reports, paused>>
vars == <<cli, hubVars, upVars, downVars, pauseVars>>

NoReports == [v \in BOOLEAN |-> 0]

MinOf(a, b) == IF a < b THEN a ELSE b

(* runClaude after the registration, before any connection is up.          *)
Init ==
  /\ use \in Uses
  /\ cli = "running" /\ hub = "up" /\ known = TRUE
  /\ starts = 1 /\ timeouts = 0
  /\ req = IF "output" \in use THEN "connecting" ELSE "none"
  /\ written = 0 /\ queue = <<>> /\ waits = 0
  /\ timer = FALSE /\ buf = <<>> /\ pipe = <<>> /\ link = FALSE /\ got = <<>>
  /\ listener = IF "input" \in use THEN "connecting" ELSE "closed"
  /\ sink = FALSE
  /\ down = <<>> /\ inputs = 0 /\ owed = {}
  /\ suspended = TRUE /\ flips = 0 /\ reported = None
  /\ reports = NoReports /\ paused = FALSE

-----------------------------------------------------------------------------
(* Uplink                                                                  *)

(* n calls of flushQueue in a row, from a queue q and a request that holds *)
(* b.  A call writes until the queue is empty or write() answers false,    *)
(* which still takes the chunk; each call writes one at least.             *)
Flushed(q, b, n) ==
  LET room == IF Len(b) < Buffer THEN Buffer - Len(b) ELSE 1
      k == MinOf(Len(q), room + n - 1)
  IN  [queue |-> SubSeq(q, k + 1, Len(q)),
       buf   |-> b \o SubSeq(q, 1, k),
       waits |-> IF k < room THEN 0 ELSE k - room + 1]

Flush(q, b, n, before) ==
  /\ queue' = Flushed(q, b, n).queue
  /\ buf' = Flushed(q, b, n).buf
  /\ waits' = before + Flushed(q, b, n).waits

\* Faulty variant: the bound is applied before the chunk is added.
OneTooMany(q) == SubSeq(q, Len(q) - MinOf(Len(q), QueueMax + 1) + 1, Len(q))

(* A full queue drops its oldest chunks.                                   *)
Newest(q) == SubSeq(q, Len(q) - MinOf(Len(q), QueueMax) + 1, Len(q))

\* Faulty variant: a chunk that can be written does not pass the queue.
WriteChunkAround ==
  /\ cli = "running" /\ "output" \in use /\ written < MaxChunks
  /\ written' = written + 1
  /\ IF req = "open"
       THEN buf' = Append(buf, written') /\ UNCHANGED queue
       ELSE queue' = Newest(Append(queue, written')) /\ UNCHANGED buf
  /\ UNCHANGED <<cli, hubVars, req, waits, timer, pipe, link, got, timeouts,
                 downVars, pauseVars>>

(* writeChunk.                                                             *)
WriteChunk ==
  /\ cli = "running" /\ "output" \in use /\ written < MaxChunks
  /\ written' = written + 1
  /\ LET q == Newest(Append(queue, written'))
     IN  IF req = "open"
           THEN Flush(q, buf, 1, waits)
           ELSE queue' = q /\ UNCHANGED <<buf, waits>>
  /\ UNCHANGED <<cli, hubVars, req, timer, pipe, link, got, timeouts,
                 downVars, pauseVars>>

(* The kernel takes a chunk; when it has taken them all, drain.            *)
Send ==
  /\ buf # <<>>
  /\ pipe' = IF link THEN Append(pipe, Head(buf)) ELSE pipe
  /\ IF Len(buf) = 1 /\ req = "open"
       THEN Flush(queue, <<>>, waits, 0)
       ELSE buf' = Tail(buf) /\ UNCHANGED <<queue, waits>>
  /\ UNCHANGED <<cli, hubVars, written, req, timer, link, got, timeouts,
                 downVars, pauseVars>>

(* The raw route: a chunk goes to the tap, or, after a 404, nowhere.       *)
Receive ==
  /\ pipe # <<>>
  /\ pipe' = Tail(pipe)
  /\ got' = IF known THEN Append(got, Head(pipe)) ELSE got
  /\ UNCHANGED <<cli, hubVars, sendVars, written, link, timeouts,
                 downVars, pauseVars>>

\* Faulty variant: what was queued waits for the next chunk.
ConnectOnly ==
  /\ req = "connecting" /\ hub = "up"
  /\ req' = "open" /\ link' = TRUE
  /\ UNCHANGED <<cli, hubVars, queue, buf, waits, timer, written, pipe, got,
                 timeouts, downVars, pauseVars>>

(* onConnect.                                                              *)
Connect ==
  /\ req = "connecting" /\ hub = "up"
  /\ req' = "open" /\ link' = TRUE
  /\ Flush(queue, buf, 1, waits)
  /\ UNCHANGED <<cli, hubVars, written, timer, pipe, got, timeouts,
                 downVars, pauseVars>>

(* teardown, on error or close of the request: refused, or broken.         *)
Teardown ==
  /\ \/ req = "connecting" /\ hub = "down"
     \/ req = "open" /\ ~ link
  /\ req' = "none" /\ timer' = TRUE
  /\ buf' = <<>> /\ waits' = 0
  /\ UNCHANGED <<cli, hubVars, queue, written, pipe, link, got, timeouts,
                 downVars, pauseVars>>

(* The timer of scheduleReconnect, and open().                             *)
Reopen ==
  /\ timer
  /\ timer' = FALSE /\ req' = "connecting"
  /\ UNCHANGED <<cli, hubVars, queue, waits, buf, written, pipe, link, got,
                 timeouts, downVars, pauseVars>>

(* The hub's HTTP server gives up a request that does not end, and what it *)
(* has not read of it.                                                     *)
RequestTimeout ==
  /\ link /\ timeouts < MaxTimeouts
  /\ timeouts' = timeouts + 1
  /\ link' = FALSE /\ pipe' = <<>>
  /\ UNCHANGED <<cli, hubVars, sendVars, written, got, downVars, pauseVars>>

-----------------------------------------------------------------------------
(* Downlink                                                                *)

\* Faulty variant: the request is read, so its close event comes at once.
AttachAndDetach ==
  /\ listener = "connecting" /\ hub = "up"
  /\ IF known
       THEN listener' = "attached" /\ sink' = FALSE
       ELSE listener' = "retry" /\ UNCHANGED sink
  /\ UNCHANGED <<cli, hubVars, upVars, down, inputs, owed, pauseVars>>

(* The sink-stream route.  Nobody reads the request's body, so its close   *)
(* event does not come before the connection's.  A 404 ends, and the       *)
(* listener asks again.                                                    *)
Attach ==
  /\ listener = "connecting" /\ hub = "up"
  /\ IF known
       THEN listener' = "attached" /\ sink' = TRUE
       ELSE listener' = "retry" /\ UNCHANGED sink
  /\ UNCHANGED <<cli, hubVars, upVars, down, inputs, owed, pauseVars>>

AttachFails ==
  /\ listener = "connecting" /\ hub = "down"
  /\ listener' = "retry"
  /\ UNCHANGED <<cli, hubVars, upVars, sink, down, inputs, owed,
                 pauseVars>>

(* open() 500 ms after an answer that ended, 1 s after an error.           *)
Relisten ==
  /\ listener = "retry"
  /\ listener' = "connecting"
  /\ UNCHANGED <<cli, hubVars, upVars, sink, down, inputs, owed,
                 pauseVars>>

(* The close event of a connection the CLI has left.                       *)
Detach ==
  /\ sink /\ listener = "closed"
  /\ sink' = FALSE /\ down' = <<>>
  /\ UNCHANGED <<cli, hubVars, upVars, listener, inputs, owed, pauseVars>>

CanAcceptInput(state) ==
  state \in {"idle", "awaiting-input", "awaiting-confirmation", "starting",
             "error"}

(* The input branch of handleUpstream, up to the decision: text and keys,  *)
(* and the stop action, which interrupts a running turn.                   *)
Accepts(kind, state) ==
  \/ kind = "stop" /\ state = "running"
  \/ CanAcceptInput(state)

(* InputBridge.deliver.  Without a sink, or with the sink of a connection  *)
(* that was closed, the input is lost.                                     *)
Deliver ==
  /\ inputs' = inputs + 1
  /\ IF listener = "attached"
       THEN /\ down' = IF sink THEN Append(down, inputs') ELSE down
            /\ owed' = owed \cup {inputs'}
       ELSE UNCHANGED <<down, owed>>

(* An input of any kind, in any state of the session.  The client is not   *)
(* told what deliver returned.                                             *)
Input(kind, state) ==
  /\ hub = "up" /\ known /\ "input" \in use
  /\ inputs < MaxInputs
  /\ Accepts(kind, state)
  /\ Deliver
  /\ UNCHANGED <<cli, hubVars, upVars, listener, sink, pauseVars>>

(* The inject route, which asks nobody.                                    *)
Inject ==
  /\ hub = "up" /\ known /\ "input" \in use
  /\ inputs < MaxInputs
  /\ Deliver
  /\ UNCHANGED <<cli, hubVars, upVars, listener, sink, pauseVars>>

(* A line of the answer is read and written to the terminal.               *)
Type ==
  /\ listener = "attached" /\ down # <<>>
  /\ down' = Tail(down)
  /\ owed' = owed \ {Head(down)}
  /\ UNCHANGED <<cli, hubVars, upVars, listener, sink, inputs, pauseVars>>

-----------------------------------------------------------------------------
(* Pause reports                                                           *)

(* The shell starts Claude; Ctrl+Z or fg, typed here or sent by a client.  *)
Flip ==
  /\ cli = "running" /\ "pause" \in use /\ flips < MaxFlips
  /\ flips' = flips + 1
  /\ suspended' = ~ suspended
  /\ UNCHANGED <<cli, hubVars, upVars, downVars, reported, reports, paused>>

(* onChange: a fetch that nobody waits for.                                *)
SendReport(v) ==
  reports' = IF hub = "up" THEN [reports EXCEPT ![v] = @ + 1] ELSE reports

\* Faulty variant: only a change from the initial value of the hub's record
\* is reported.
PollSuspension ==
  /\ cli = "running" /\ "pause" \in use
  /\ reported # suspended /\ (suspended \/ reported = None)
  /\ reported' = suspended
  /\ SendReport(suspended)
  /\ UNCHANGED <<cli, hubVars, upVars, downVars, suspended, flips, paused>>

(* poll, which reports a change once; a POST that fails is not repeated.   *)
Poll ==
  /\ cli = "running" /\ "pause" \in use
  /\ reported # suspended
  /\ reported' = suspended
  /\ SendReport(suspended)
  /\ UNCHANGED <<cli, hubVars, upVars, downVars, suspended, flips, paused>>

(* The paused-state route awaits the body, and each POST may be on a       *)
(* socket of its own: any of those under way is the next to be handled.    *)
Report(v) ==
  /\ reports[v] > 0
  /\ reports' = [reports EXCEPT ![v] = @ - 1]
  /\ paused' = IF known THEN v ELSE paused
  /\ UNCHANGED <<cli, hubVars, upVars, downVars, suspended, flips, reported>>

-----------------------------------------------------------------------------
(* shutdown(): the queue is dropped, what the request holds is still sent. *)
Shutdown ==
  /\ cli = "running"
  /\ cli' = "leaving"
  /\ queue' = <<>> /\ timer' = FALSE /\ req' = "none" /\ waits' = 0
  /\ listener' = "closed" /\ owed' = {}
  /\ UNCHANGED <<hubVars, buf, written, pipe, link, got, timeouts,
                 sink, down, inputs, pauseVars>>

(* The hub crashes, or is stopped and closes its connections.  The         *)
(* listener hears of an RST, not of a FIN: a response cut off in the       *)
(* middle has neither an end event nor, for its request, an error.         *)
HubStops ==
  /\ hub = "up"
  /\ hub' = "down"
  /\ link' = FALSE /\ pipe' = <<>>
  /\ sink' = FALSE /\ down' = <<>> /\ owed' = {}
  /\ listener' \in CASE listener = "attached" -> {"deaf", "retry"}
                     [] OTHER -> {listener}
  /\ reports' = NoReports
  /\ UNCHANGED <<use, cli, starts, known, sendVars, written, got, timeouts,
                 inputs, suspended, flips, reported, paused>>

(* The session is restored with its substate, or not at all.               *)
HubStarts ==
  /\ hub = "down" /\ starts < MaxStarts
  /\ hub' = "up" /\ starts' = starts + 1
  /\ known' \in {FALSE, known}
  /\ paused' = (known' /\ paused)
  /\ UNCHANGED <<use, cli, upVars, downVars, suspended, flips, reported,
                 reports>>

LinkStep ==
  \/ WriteChunk \/ Send \/ Receive \/ Connect \/ Teardown \/ Reopen
  \/ RequestTimeout
  \/ Attach \/ AttachFails \/ Relisten \/ Detach \/ Type
  \/ Inject
  \/ \E kind \in {"text", "stop"}, state \in States : Input(kind, state)
  \/ Flip \/ Poll \/ \E v \in BOOLEAN : Report(v)
  \/ Shutdown

Next == LinkStep \/ HubStops \/ HubStarts

(* Sockets and timers make progress.  Nobody has to write, to type, to     *)
(* suspend, to leave, to stop or to start a hub.                           *)
Fairness ==
  /\ WF_vars(Send) /\ WF_vars(Receive) /\ WF_vars(Connect)
  /\ WF_vars(Teardown) /\ WF_vars(Reopen)
  /\ WF_vars(Attach) /\ WF_vars(Relisten) /\ WF_vars(Type)
  /\ WF_vars(Poll) /\ \A v \in BOOLEAN : WF_vars(Report(v))

Spec == Init /\ [][Next]_vars /\ Fairness

-----------------------------------------------------------------------------
(* Properties                                                              *)

Chunks == 1 .. MaxChunks

TypeOK ==
  /\ use \in Uses
  /\ cli \in {"running", "leaving"} /\ hub \in {"up", "down"}
  /\ starts \in 1 .. MaxStarts /\ timeouts \in 0 .. MaxTimeouts
  /\ known \in BOOLEAN
  /\ written \in 0 .. MaxChunks
  /\ queue \in Seq(Chunks) /\ Len(queue) <= QueueMax
  /\ req \in {"none", "connecting", "open"}
  /\ waits \in Nat /\ timer \in BOOLEAN /\ link \in BOOLEAN
  /\ buf \in Seq(Chunks) /\ pipe \in Seq(Chunks) /\ got \in Seq(Chunks)
  /\ listener \in {"connecting", "attached", "retry", "deaf", "closed"}
  /\ sink \in BOOLEAN
  /\ inputs \in 0 .. MaxInputs
  /\ down \in Seq(1 .. inputs) /\ owed \subseteq 1 .. inputs
  /\ suspended \in BOOLEAN /\ flips \in 0 .. MaxFlips
  /\ reported \in BOOLEAN \cup {None}
  /\ reports \in [BOOLEAN -> Nat] /\ paused \in BOOLEAN

\* The hub gets the terminal's output in order and no chunk twice, whatever
\* is dropped by the bounded queue, held back until drain, cut off by a 408 or
\* lost with a hub, and sent again over a new connection.
OutputInOrder ==
  LET all == got \o pipe \o buf \o queue
  IN  \A i, j \in 1 .. Len(all) : i < j => all[i] < all[j]

\* A queued chunk does not stay queued while there is a hub: the uplink
\* reconnects, and flushes, without waiting for more output.
OutputDrains ==
  queue # <<>> ~> (queue = <<>> \/ hub = "down")

\* An input the hub accepts while the listener is attached is typed, by the
\* first hub and by a later one, unless the hub or the CLI ends before.
InputTyped == \A n \in 1 .. MaxInputs : n \in owed ~> n \notin owed

ReportsUnderWay == reports[TRUE] + reports[FALSE]

(* The one report under way says what the last one said.                   *)
LastIsAlone == ReportsUnderWay = 1 /\ reports[reported] = 1

\* Nothing resends a report, so one that overtakes a later one leaves the hub's
\* `paused` flag wrong.  The next report that is sent alone repairs it: from
\* then on, as long as reports go one at a time to the same hub, the flag
\* catches up with the shell, however often it changes between two polls.
PausedCatchesUp ==
  "pause" \in use =>
    ( ([](cli = "running" /\ hub = "up")
        /\ <>(LastIsAlone /\ [](ReportsUnderWay <= 1)))
      => <>[](paused = suspended) )
=============================================================================
