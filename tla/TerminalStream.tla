--------------------------- MODULE TerminalStream ---------------------------
(***************************************************************************)
(* The terminal of one session on its way to the clients: raw PTY chunks   *)
(* from the CLI (rest/server.ts), the tap that numbers them (pty-tap.ts),  *)
(* the headless terminal that renders snapshots (headless-term.ts), the    *)
(* subscriptions (ws/connection.ts, wire.ts) and the web client's          *)
(* terminal view.  Sessions share nothing here, so there is one.           *)
(*                                                                         *)
(* Every sequence number in use is the end of a chunk, so a chunk stands   *)
(* for its bytes and is named by its number.  WebSockets are FIFO; a       *)
(* socket that closes loses what is under way in both directions.          *)
(***************************************************************************)
EXTENDS Naturals, Sequences

CONSTANTS
  Clients,      \* browsers with the `terminal` capability
  MaxChunks,    \* bound: chunks per life of the hub
  MaxRestarts,  \* bound: restarts of the hub
  MaxFrames,    \* bound: frames under way in one direction of a socket
  None

ASSUME BoundsAssumption == {MaxChunks, MaxRestarts, MaxFrames} \subseteq Nat

Seqs == 0 .. MaxChunks

(* A HeadlessTerm: it was given the chunks from `from` to `seq` and has     *)
(* parsed them up to `parsed`.                                             *)
Terminals ==
  [from : 1 .. MaxChunks + 1, seq : Seqs, parsed : Seqs]

ASSUME NoneAssumption == None \notin Nat \cup Terminals

VARIABLES
  phase,       \* "rest": only REST listens; "up": the WebSocket server too
  restarts,
  live,        \* the session: "new", "live", "gone"
  raw,         \* whether the CLI's long-lived POST .../raw is open
  ring,        \* the tap's seq for the session; None if it has no ring
  headless,    \* the HeadlessTerm: [from, seq, parsed], or None
  sock,        \* clients whose WebSocket is open
  subscribed,  \* clients with a terminal subscription (and a tap listener)
  toHub,       \* frames under way to the hub
  inbox,       \* frames under way to the client
  mounted,     \* clients that show the session's TerminalView
  view,        \* chunks written to that client's screen, in order
  ready,       \* readyRef
  seqRef,      \* seqRef
  base         \* history: last chunk that the snapshot on the screen covers
               \* or that came before the hub had a terminal; None before

hubVars == <<phase, restarts, live, raw, ring, headless, subscribed>>
wireVars == <<sock, toHub, inbox>>
viewVars == <<mounted, view, ready, seqRef, base>>
vars == <<hubVars, wireVars, viewVars>>

Init ==
  /\ phase = "up" /\ restarts = 0
  /\ live = "new" /\ raw = FALSE
  /\ ring = None /\ headless = None
  /\ sock = {} /\ subscribed = {}
  /\ toHub = [c \in Clients |-> <<>>]
  /\ inbox = [c \in Clients |-> <<>>]
  /\ mounted = {}
  /\ view = [c \in Clients |-> <<>>]
  /\ ready = [c \in Clients |-> FALSE]
  /\ seqRef = [c \in Clients |-> 0]
  /\ base = [c \in Clients |-> None]

-----------------------------------------------------------------------------
(* Frames                                                                  *)

Frames == {"subscribe", "unsubscribe"}

Snapshot(t) ==
  [kind |-> "snapshot", seq |-> t.seq, from |-> t.from, to |-> t.parsed]

Delta(n) == [kind |-> "delta", seq |-> n]

(* A frame is sent only while the socket is open.                          *)
SendFrame(c, frame) ==
  toHub' = IF c \in sock THEN [toHub EXCEPT ![c] = Append(@, frame)] ELSE toHub

-----------------------------------------------------------------------------
(* The hub: bytes                                                          *)

RingSeq == IF ring = None THEN 0 ELSE ring

(* A terminal sees the chunks that come after it is created; the tap's     *)
(* earlier bytes are not written to it.                                    *)
NewTerminal == [from |-> RingSeq + 1, seq |-> 0, parsed |-> RingSeq]

(* ensureTerminal creates the terminal and, through tap.subscribe, the     *)
(* ring.                                                                   *)
EnsureTerminal ==
  /\ headless' = IF headless = None THEN NewTerminal ELSE headless
  /\ ring' = RingSeq

(* POST .../raw asks once, when it begins, whether the session exists.     *)
RawOpen ==
  /\ live = "live" /\ ~raw
  /\ raw' = TRUE
  /\ UNCHANGED <<phase, restarts, live, ring, headless, subscribed, wireVars,
                 viewVars>>

RawClose ==
  /\ raw
  /\ raw' = FALSE
  /\ UNCHANGED <<phase, restarts, live, ring, headless, subscribed, wireVars,
                 viewVars>>

(* tap.append: number the chunk, hand it to the terminal and to every      *)
(* subscriber.  A ring that was dropped is created again.                  *)
AppendChunk ==
  /\ raw /\ RingSeq < MaxChunks
  /\ \A c \in subscribed : Len(inbox[c]) < MaxFrames
  /\ ring' = RingSeq + 1
  /\ headless' = IF headless = None THEN None ELSE [headless EXCEPT !.seq = ring']
  /\ inbox' = [c \in Clients |->
                 IF c \in subscribed THEN Append(inbox[c], Delta(ring'))
                                     ELSE inbox[c]]
  /\ UNCHANGED <<phase, restarts, live, raw, subscribed, sock, toHub, viewVars>>

(* xterm's write() only queues; it parses later, chunk by chunk.           *)
Parse ==
  /\ headless # None /\ headless.parsed < headless.seq
  /\ headless' = [headless EXCEPT !.parsed = @ + 1]
  /\ UNCHANGED <<phase, restarts, live, raw, ring, subscribed, wireVars,
                 viewVars>>

-----------------------------------------------------------------------------
(* The hub: the session's life and its own                                 *)

(* The session-added listener that creates the terminal is attached once   *)
(* the WebSocket server listens.                                           *)
Register ==
  /\ live = "new"
  /\ live' = "live"
  /\ IF phase = "up" THEN EnsureTerminal ELSE UNCHANGED <<ring, headless>>
  /\ UNCHANGED <<phase, restarts, raw, subscribed, wireVars, viewVars>>

(* Both session-removed listeners: drop the ring and with it its           *)
(* listeners, dispose the terminal.  The clients' entries stay.            *)
Remove ==
  /\ live = "live"
  /\ live' = "gone"
  /\ ring' = None
  /\ headless' = None
  /\ subscribed' = {}
  /\ UNCHANGED <<phase, restarts, raw, wireVars, viewVars>>

(* A restart closes every connection and empties the memory; the session   *)
(* comes back if the checkpoint holds it and its process runs.             *)
Restart ==
  /\ restarts < MaxRestarts
  /\ restarts' = restarts + 1
  /\ phase' = "rest"
  /\ live' \in IF live = "live" THEN {"live", "gone"} ELSE {live}
  /\ raw' = FALSE
  /\ ring' = None /\ headless' = None /\ subscribed' = {}
  /\ sock' = {}
  /\ toHub' = [c \in Clients |-> <<>>]
  /\ inbox' = [c \in Clients |-> <<>>]
  /\ UNCHANGED viewVars

\* Faulty variant: no terminals for the sessions registered before.
StartWsForNewOnly ==
  /\ phase = "rest"
  /\ phase' = "up"
  /\ UNCHANGED <<restarts, live, raw, ring, headless, subscribed, wireVars,
                 viewVars>>

StartWs ==
  /\ phase = "rest"
  /\ phase' = "up"
  /\ IF live = "live" THEN EnsureTerminal ELSE UNCHANGED <<ring, headless>>
  /\ UNCHANGED <<restarts, live, raw, subscribed, wireVars, viewVars>>

-----------------------------------------------------------------------------
(* The hub: frames of the clients                                          *)

\* Faulty variant: the snapshot is sent, the tap is not subscribed.
HubSubscribeOnce(c) ==
  /\ toHub[c] # <<>> /\ Head(toHub[c]) = "subscribe"
  /\ Len(inbox[c]) < MaxFrames
  /\ toHub' = [toHub EXCEPT ![c] = Tail(@)]
  /\ IF live = "live"
       THEN /\ EnsureTerminal
            /\ inbox' = [inbox EXCEPT ![c] = Append(@, Snapshot(headless'))]
       ELSE UNCHANGED <<ring, headless, inbox>>
  /\ subscribed' = subscribed \ {c}
  /\ UNCHANGED <<phase, restarts, live, raw, sock, viewVars>>

(* An existing subscription ends first; then snapshot and subscription     *)
(* follow without a pause.  For a session that is offline the answer is an *)
(* error frame, which the web client ignores.                              *)
HubSubscribe(c) ==
  /\ toHub[c] # <<>> /\ Head(toHub[c]) = "subscribe"
  /\ Len(inbox[c]) < MaxFrames
  /\ toHub' = [toHub EXCEPT ![c] = Tail(@)]
  /\ IF live = "live"
       THEN /\ EnsureTerminal
            /\ inbox' = [inbox EXCEPT ![c] = Append(@, Snapshot(headless'))]
            /\ subscribed' = subscribed \cup {c}
       ELSE /\ subscribed' = subscribed \ {c}
            /\ UNCHANGED <<ring, headless, inbox>>
  /\ UNCHANGED <<phase, restarts, live, raw, sock, viewVars>>

HubUnsubscribe(c) ==
  /\ toHub[c] # <<>> /\ Head(toHub[c]) = "unsubscribe"
  /\ toHub' = [toHub EXCEPT ![c] = Tail(@)]
  /\ subscribed' = subscribed \ {c}
  /\ UNCHANGED <<phase, restarts, live, raw, ring, headless, sock, inbox,
                 viewVars>>

-----------------------------------------------------------------------------
(* The web client                                                          *)

(* The socket opens (again): subscriptions of mounted views are replayed.  *)
Connect(c) ==
  /\ phase = "up" /\ c \notin sock
  /\ sock' = sock \cup {c}
  /\ toHub' = [toHub EXCEPT ![c] = IF c \in mounted THEN <<"subscribe">> ELSE <<>>]
  /\ UNCHANGED <<hubVars, inbox, viewVars>>

\* Faulty variant: the socket closes, the tap keeps its listener.
DisconnectKeeping(c) ==
  /\ c \in sock
  /\ sock' = sock \ {c}
  /\ toHub' = [toHub EXCEPT ![c] = <<>>]
  /\ inbox' = [inbox EXCEPT ![c] = <<>>]
  /\ UNCHANGED <<hubVars, viewVars>>

Disconnect(c) ==
  /\ c \in sock
  /\ sock' = sock \ {c}
  /\ toHub' = [toHub EXCEPT ![c] = <<>>]
  /\ inbox' = [inbox EXCEPT ![c] = <<>>]
  /\ subscribed' = subscribed \ {c}
  /\ UNCHANGED <<phase, restarts, live, raw, ring, headless, viewVars>>

(* A view that is new to the page starts with nothing.  One that showed    *)
(* another session before keeps that session's flag and number: the effect *)
(* that runs again replaces the screen, not the refs.  The page knows only *)
(* sessions that were registered.                                          *)
Mount(c) ==
  /\ live # "new" /\ c \notin mounted /\ Len(toHub[c]) < MaxFrames
  /\ mounted' = mounted \cup {c}
  /\ \E r \in BOOLEAN, n \in 0 .. MaxChunks :
       /\ ready' = [ready EXCEPT ![c] = r]
       /\ seqRef' = [seqRef EXCEPT ![c] = n]
  /\ SendFrame(c, "subscribe")
  /\ UNCHANGED <<hubVars, sock, inbox, view, base>>

Unmount(c) ==
  /\ c \in mounted /\ Len(toHub[c]) < MaxFrames
  /\ mounted' = mounted \ {c}
  /\ view' = [view EXCEPT ![c] = <<>>]
  /\ ready' = [ready EXCEPT ![c] = FALSE]
  /\ seqRef' = [seqRef EXCEPT ![c] = 0]
  /\ base' = [base EXCEPT ![c] = None]
  /\ SendFrame(c, "unsubscribe")
  /\ UNCHANGED <<hubVars, sock, inbox>>

Covered(m) == IF m.seq < m.from THEN m.from - 1 ELSE m.seq

Screen(m) == [i \in 1 .. (m.to + 1 - m.from) |-> m.from + i - 1]

\* Faulty variants: no term.reset(); a number that only ever rises.
ShowSnapshotOnTop(c, m) ==
  /\ view' = [view EXCEPT ![c] = @ \o Screen(m)]
  /\ seqRef' = [seqRef EXCEPT ![c] = m.seq]
  /\ ready' = [ready EXCEPT ![c] = TRUE]
  /\ base' = [base EXCEPT ![c] = Covered(m)]

ShowSnapshotRising(c, m) ==
  /\ view' = [view EXCEPT ![c] = Screen(m)]
  /\ seqRef' = [seqRef EXCEPT ![c] = IF m.seq > @ THEN m.seq ELSE @]
  /\ ready' = [ready EXCEPT ![c] = TRUE]
  /\ base' = [base EXCEPT ![c] = Covered(m)]

ShowSnapshot(c, m) ==
  /\ view' = [view EXCEPT ![c] = Screen(m)]
  /\ seqRef' = [seqRef EXCEPT ![c] = m.seq]
  /\ ready' = [ready EXCEPT ![c] = TRUE]
  /\ base' = [base EXCEPT ![c] = Covered(m)]

(* A chunk that comes before the first snapshot is queued, and the queue   *)
(* is thrown away by the snapshot: it never reaches the screen.            *)
ShowDelta(c, m) ==
  /\ IF m.seq <= seqRef[c]
       THEN UNCHANGED <<view, seqRef>>
       ELSE /\ seqRef' = [seqRef EXCEPT ![c] = m.seq]
            /\ view' = IF ready[c] THEN [view EXCEPT ![c] = Append(@, m.seq)]
                                   ELSE view
  /\ UNCHANGED <<ready, base>>

Receive(c) ==
  /\ inbox[c] # <<>>
  /\ inbox' = [inbox EXCEPT ![c] = Tail(@)]
  /\ LET m == Head(inbox[c])
     IN  IF c \notin mounted
           THEN UNCHANGED <<view, ready, seqRef, base>>
           ELSE IF m.kind = "snapshot" THEN ShowSnapshot(c, m) ELSE ShowDelta(c, m)
  /\ UNCHANGED <<hubVars, sock, toHub, mounted>>

-----------------------------------------------------------------------------
Next ==
  \/ RawOpen \/ RawClose \/ AppendChunk \/ Parse
  \/ Register \/ Remove \/ Restart \/ StartWs
  \/ \E c \in Clients :
       \/ HubSubscribe(c) \/ HubUnsubscribe(c)
       \/ Connect(c) \/ Disconnect(c) \/ Mount(c) \/ Unmount(c) \/ Receive(c)

(* Open sockets deliver, and the hub that started goes on starting.        *)
Fairness ==
  /\ WF_vars(StartWs)
  /\ \A c \in Clients : WF_vars(HubSubscribe(c) \/ HubUnsubscribe(c))
                        /\ WF_vars(Receive(c))

Spec == Init /\ [][Next]_vars /\ Fairness

-----------------------------------------------------------------------------
(* Properties                                                              *)

Messages ==
  [kind : {"snapshot"}, seq : Seqs, from : 1 .. MaxChunks + 1, to : Seqs]
    \cup [kind : {"delta"}, seq : Seqs]

TypeOK ==
  /\ phase \in {"rest", "up"} /\ restarts \in 0 .. MaxRestarts
  /\ live \in {"new", "live", "gone"} /\ raw \in BOOLEAN
  /\ ring \in Seqs \cup {None}
  /\ headless \in Terminals \cup {None}
  /\ sock \subseteq Clients /\ subscribed \subseteq sock
  /\ toHub \in [Clients -> Seq(Frames)] /\ inbox \in [Clients -> Seq(Messages)]
  /\ view \in [Clients -> Seq(Seqs)]
  /\ mounted \subseteq Clients
  /\ ready \in [Clients -> BOOLEAN]
  /\ seqRef \in [Clients -> Seqs] /\ base \in [Clients -> Seqs \cup {None}]

\* No chunk is on a screen twice or out of order, whatever remounts,
\* reconnects, restarts of the numbering and stale deltas come together.
ViewInOrder ==
  \A c \in Clients : \A i, j \in DOMAIN view[c] : i < j => view[c][i] < view[c][j]

\* From the snapshot's number on, the screen has every chunk up to the last
\* one the client accepted: snapshot and subscription leave no gap between
\* them, and a number from before a restart hides no new chunk.  (Chunks that
\* arrive between the start of REST and of the WebSocket server are on no
\* screen.)
NoHoleAfterSnapshot ==
  \A c \in Clients : base[c] # None =>
    \A n \in base[c] + 1 .. seqRef[c] : \E i \in DOMAIN view[c] : view[c][i] = n

\* Once the WebSocket server is up there is a terminal exactly for a registered
\* session, whether it was registered before, during or after the start-up.
TerminalPerSession == phase = "up" => (headless # None <=> live = "live")

\* A view that stays mounted over an open socket catches up with the hub's
\* terminal, whatever was subscribed, unsubscribed or under way before: each
\* chunk is on the screen or covered by a snapshot in the end.
Watching(c) == c \in mounted \cap sock /\ live = "live"

CaughtUp(c, n) == base[c] # None /\ seqRef[c] >= n

ChunksArrive ==
  \A c \in Clients, n \in 1 .. MaxChunks :
    Watching(c) /\ headless # None /\ headless.seq = n
      ~> CaughtUp(c, n) \/ ~ Watching(c)

-----------------------------------------------------------------------------
(* What a comment says                                                     *)

\* headless-term.ts:18-21: a snapshot's seq is that of the last chunk applied
\* to the terminal whose screen it carries.
SnapshotShowsSeq ==
  \A c \in Clients : \A i \in DOMAIN inbox[c] :
    inbox[c][i].kind = "snapshot" => inbox[c][i].to >= inbox[c][i].seq
=============================================================================
