------------------------- MODULE TerminalStreamProofs -------------------------
(***************************************************************************)
(* Proofs about TerminalStream, for any clients and any number of chunks:  *)
(* there is a terminal for each session, and what a browser shows has no   *)
(* chunk twice and, from its snapshot on, no hole.                         *)
(***************************************************************************)
EXTENDS TerminalStream, TLAPS

-----------------------------------------------------------------------------
(* Types                                                                   *)

LEMMA BoundsAreNat == MaxChunks \in Nat /\ MaxRestarts \in Nat
BY BoundsAssumption

LEMMA SeqTypes ==
  ASSUME NEW T
  PROVE  /\ <<>> \in Seq(T)
         /\ \A s \in Seq(T), x \in T : Append(s, x) \in Seq(T)
         /\ \A s \in Seq(T) : s # <<>> => Head(s) \in T /\ Tail(s) \in Seq(T)
OBVIOUS

LEMMA RingSeqType ==
  ASSUME TypeOK
  PROVE  RingSeq \in Seqs
BY BoundsAreNat DEF TypeOK, RingSeq, Seqs

LEMMA EnsureTerminalType ==
  ASSUME TypeOK, EnsureTerminal
  PROVE  headless' \in Terminals /\ headless' # None /\ ring' \in Seqs
<1>1. RingSeq \in Seqs /\ RingSeq + 1 \in 1 .. MaxChunks + 1 /\ 0 \in Seqs
  BY RingSeqType, BoundsAreNat DEF Seqs
<1>2. NewTerminal \in Terminals
  BY <1>1 DEF NewTerminal, Terminals
<1>3. headless' \in Terminals
  BY <1>2 DEF EnsureTerminal, TypeOK
<1> QED
  BY <1>1, <1>3, NoneAssumption DEF EnsureTerminal

LEMMA SnapshotType ==
  ASSUME NEW t \in Terminals
  PROVE  Snapshot(t) \in Messages
BY DEF Snapshot, Messages, Terminals

LEMMA DeltaType ==
  ASSUME NEW n \in Seqs
  PROVE  Delta(n) \in Messages
BY DEF Delta, Messages

LEMMA CoveredType ==
  ASSUME NEW m, m.seq \in Seqs, m.from \in 1 .. MaxChunks + 1
  PROVE  Covered(m) \in Seqs /\ Covered(m) # None
<1>1. Covered(m) \in Seqs
  BY BoundsAreNat DEF Covered, Seqs
<1> QED
  BY <1>1, BoundsAreNat, NoneAssumption DEF Seqs

(* What a terminal has parsed begins where it began, and ends where it was *)
(* written to, or it has parsed nothing.                                   *)
Fine(from, parsed, seq) == from <= parsed + 1 /\ (parsed <= seq \/ parsed < from)

FineMessage(m) == m.kind = "snapshot" => Fine(m.from, m.to, m.seq)

MessagesFine ==
  \A c \in Clients : \A i \in 1 .. Len(inbox[c]) : FineMessage(inbox[c][i])

(* A closed socket carries nothing.                                        *)
ClosedIsEmpty ==
  \A c \in Clients : c \notin sock => toHub[c] = <<>> /\ inbox[c] = <<>>

LEMMA ScreenType ==
  ASSUME NEW m \in Messages, m.kind = "snapshot", FineMessage(m)
  PROVE  /\ Screen(m) \in Seq(Seqs)
         /\ Len(Screen(m)) = m.to + 1 - m.from
         /\ \A i \in 1 .. Len(Screen(m)) : Screen(m)[i] = m.from + i - 1
<1>1. /\ m.from \in 1 .. MaxChunks + 1 /\ m.to \in Seqs /\ m.seq \in Seqs
      /\ m.from <= m.to + 1
  BY DEF Messages, FineMessage, Fine
<1>2. m.to + 1 - m.from \in Nat
  BY <1>1, BoundsAreNat DEF Seqs
<1>3. \A i \in 1 .. m.to + 1 - m.from : m.from + i - 1 \in Seqs
  BY <1>1, BoundsAreNat DEF Seqs
<1> DEFINE n == m.to + 1 - m.from
           f == [i \in 1 .. n |-> m.from + i - 1]
<1>4. f \in [1 .. n -> Seqs]
  BY <1>3
<1>5. f \in Seq(Seqs) /\ Len(f) = n
  BY <1>2, <1>4
<1>6. Screen(m) = f
  BY DEF Screen
<1> QED
  BY <1>5, <1>6

LEMMA HeadFine ==
  ASSUME TypeOK, MessagesFine, NEW c \in Clients, inbox[c] # <<>>
  PROVE  /\ Head(inbox[c]) \in Messages /\ FineMessage(Head(inbox[c]))
         /\ Tail(inbox[c]) \in Seq(Messages)
<1>1. inbox[c] \in Seq(Messages)
  BY DEF TypeOK
<1>2. Head(inbox[c]) = inbox[c][1] /\ 1 \in 1 .. Len(inbox[c])
  BY <1>1
<1> QED
  BY <1>1, <1>2, SeqTypes DEF MessagesFine

LEMMA TypeStep ==
  ASSUME TypeOK, MessagesFine, ClosedIsEmpty, [Next]_vars
  PROVE  TypeOK'
<1>0. RingSeq \in Seqs /\ MaxChunks \in Nat /\ MaxRestarts \in Nat
  BY RingSeqType, BoundsAreNat
<1>1. CASE RawOpen \/ RawClose
  BY <1>1 DEF RawOpen, RawClose, TypeOK, wireVars, viewVars
<1>2. CASE AppendChunk
  <2>1. ring' \in Seqs /\ ring' = RingSeq + 1
    BY <1>0, <1>2 DEF AppendChunk, Seqs
  <2>2. headless' \in Terminals \cup {None}
    BY <1>2, <2>1 DEF AppendChunk, TypeOK, Terminals
  <2>3. Delta(ring') \in Messages
    BY <2>1, DeltaType
  <2>4. \A c \in Clients : Append(inbox[c], Delta(ring')) \in Seq(Messages)
    BY <2>3, SeqTypes DEF TypeOK
  <2>5. inbox' \in [Clients -> Seq(Messages)]
    BY <1>2, <2>4 DEF AppendChunk, TypeOK
  <2> QED
    BY <1>2, <2>1, <2>2, <2>5 DEF AppendChunk, TypeOK, viewVars
<1>3. CASE Parse
  <2>1. headless \in Terminals /\ headless' = [headless EXCEPT !.parsed = @ + 1]
        /\ headless.parsed < headless.seq
    BY <1>3 DEF Parse, TypeOK
  <2>2. headless.parsed + 1 \in Seqs
    BY <1>0, <2>1 DEF Terminals, Seqs
  <2>3. headless' \in Terminals
    BY <2>1, <2>2 DEF Terminals
  <2> QED
    BY <1>3, <2>3 DEF Parse, TypeOK, wireVars, viewVars
<1>4. CASE Register \/ StartWs
  <2>1. /\ headless' \in Terminals \cup {None} /\ ring' \in Seqs \cup {None}
    BY <1>4, EnsureTerminalType DEF Register, StartWs, TypeOK
  <2> QED
    BY <1>4, <2>1 DEF Register, StartWs, TypeOK, wireVars, viewVars
<1>5. CASE Remove
  BY <1>5 DEF Remove, TypeOK, wireVars, viewVars
<1>6. CASE Restart
  <2>1. <<>> \in Seq(Frames) /\ <<>> \in Seq(Messages)
    BY SeqTypes
  <2>2. restarts' \in 0 .. MaxRestarts
    BY <1>0, <1>6 DEF Restart, TypeOK
  <2> QED
    BY <1>6, <2>1, <2>2 DEF Restart, TypeOK, viewVars
<1>7. ASSUME NEW c \in Clients, HubSubscribe(c)
      PROVE  TypeOK'
  <2>1. /\ headless' \in Terminals \cup {None} /\ ring' \in Seqs \cup {None}
        /\ inbox' \in [Clients -> Seq(Messages)]
    <3>1. CASE live = "live"
      <4>1. EnsureTerminal
        BY <1>7, <3>1 DEF HubSubscribe
      <4>2. headless' \in Terminals /\ ring' \in Seqs
        BY <4>1, EnsureTerminalType
      <4>3. Append(inbox[c], Snapshot(headless')) \in Seq(Messages)
        BY <4>2, SnapshotType, SeqTypes DEF TypeOK
      <4> QED
        BY <1>7, <3>1, <4>2, <4>3 DEF HubSubscribe, TypeOK
    <3>2. CASE live # "live"
      BY <1>7, <3>2 DEF HubSubscribe, TypeOK
    <3> QED
      BY <3>1, <3>2
  <2>2. Tail(toHub[c]) \in Seq(Frames) /\ c \in sock
    BY <1>7, SeqTypes DEF HubSubscribe, TypeOK, ClosedIsEmpty
  <2>3. toHub' \in [Clients -> Seq(Frames)] /\ subscribed' \subseteq sock
    BY <1>7, <2>2 DEF HubSubscribe, TypeOK
  <2> QED
    BY <1>7, <2>1, <2>3 DEF HubSubscribe, TypeOK, viewVars
<1>8. ASSUME NEW c \in Clients, HubUnsubscribe(c)
      PROVE  TypeOK'
  <2>1. Tail(toHub[c]) \in Seq(Frames)
    BY <1>8, SeqTypes DEF HubUnsubscribe, TypeOK
  <2> QED
    BY <1>8, <2>1 DEF HubUnsubscribe, TypeOK, viewVars
<1>9. ASSUME NEW c \in Clients, Connect(c) \/ Disconnect(c)
      PROVE  TypeOK'
  <2>1. <<>> \in Seq(Frames) /\ <<"subscribe">> \in Seq(Frames)
        /\ <<>> \in Seq(Messages)
    BY SeqTypes DEF Frames
  <2>2. toHub' \in [Clients -> Seq(Frames)] /\ inbox' \in [Clients -> Seq(Messages)]
    <3>1. CASE Connect(c)
      <4>1. PICK s \in Seq(Frames) : toHub' = [toHub EXCEPT ![c] = s]
        BY <2>1, <3>1 DEF Connect
      <4> QED
        BY <3>1, <4>1 DEF Connect, TypeOK
    <3>2. CASE Disconnect(c)
      BY <2>1, <3>2 DEF Disconnect, TypeOK
    <3> QED
      BY <1>9, <3>1, <3>2
  <2> QED
    BY <1>9, <2>2 DEF Connect, Disconnect, TypeOK, hubVars, viewVars
<1>10. ASSUME NEW c \in Clients, Mount(c) \/ Unmount(c)
       PROVE  TypeOK'
  <2>1. PICK f \in Frames : SendFrame(c, f)
    BY <1>10 DEF Mount, Unmount, Frames
  <2>2. toHub' \in [Clients -> Seq(Frames)]
    <3>1. Append(toHub[c], f) \in Seq(Frames)
      BY SeqTypes DEF TypeOK
    <3> QED
      BY <2>1, <3>1 DEF SendFrame, TypeOK
  <2>3. <<>> \in Seq(Seqs) /\ 0 \in Seqs
    BY <1>0 DEF Seqs
  <2>4. /\ view' \in [Clients -> Seq(Seqs)]
        /\ ready' \in [Clients -> BOOLEAN]
        /\ seqRef' \in [Clients -> Seqs] /\ base' \in [Clients -> Seqs \cup {None}]
    <3>1. CASE Mount(c)
      <4>1. PICK r \in BOOLEAN, n \in 0 .. MaxChunks :
              ready' = [ready EXCEPT ![c] = r] /\ seqRef' = [seqRef EXCEPT ![c] = n]
        BY <3>1 DEF Mount
      <4> QED
        BY <3>1, <4>1 DEF Mount, TypeOK, Seqs
    <3>2. CASE Unmount(c)
      <4>1. /\ view' = [view EXCEPT ![c] = <<>>] /\ ready' = [ready EXCEPT ![c] = FALSE]
            /\ seqRef' = [seqRef EXCEPT ![c] = 0] /\ base' = [base EXCEPT ![c] = None]
        BY <3>2 DEF Unmount
      <4>2. /\ view \in [Clients -> Seq(Seqs)] /\ ready \in [Clients -> BOOLEAN]
            /\ seqRef \in [Clients -> Seqs] /\ base \in [Clients -> Seqs \cup {None}]
        BY DEF TypeOK
      <4>3. view' \in [Clients -> Seq(Seqs)]
        BY <2>3, <4>1, <4>2
      <4>4. seqRef' \in [Clients -> Seqs]
        BY <2>3, <4>1, <4>2
      <4>5. ready' \in [Clients -> BOOLEAN] /\ base' \in [Clients -> Seqs \cup {None}]
        BY <4>1, <4>2
      <4> QED
        BY <4>3, <4>4, <4>5
    <3> QED
      BY <1>10, <3>1, <3>2
  <2>5. UNCHANGED <<hubVars, sock, inbox>> /\ mounted' \subseteq Clients
    BY <1>10 DEF Mount, Unmount, TypeOK
  <2> QED
    BY <2>2, <2>4, <2>5 DEF TypeOK, hubVars
<1>11. ASSUME NEW c \in Clients, Receive(c)
       PROVE  TypeOK'
  <2> DEFINE m == Head(inbox[c])
  <2>1. m \in Messages /\ FineMessage(m) /\ Tail(inbox[c]) \in Seq(Messages)
    BY <1>11, HeadFine DEF Receive
  <2>2. inbox' \in [Clients -> Seq(Messages)]
    BY <1>11, <2>1 DEF Receive, TypeOK
  <2>3. m.seq \in Seqs
    BY <2>1 DEF Messages
  <2>4. /\ view' \in [Clients -> Seq(Seqs)]
        /\ ready' \in [Clients -> BOOLEAN]
        /\ seqRef' \in [Clients -> Seqs] /\ base' \in [Clients -> Seqs \cup {None}]
    <3>1. CASE UNCHANGED <<view, ready, seqRef, base>>
      BY <3>1 DEF TypeOK
    <3>2. CASE m.kind = "snapshot" /\ ShowSnapshot(c, m)
      <4>1. Screen(m) \in Seq(Seqs)
        BY <2>1, <3>2, ScreenType
      <4>2. m.from \in 1 .. MaxChunks + 1
        BY <2>1, <3>2 DEF Messages
      <4>3. Covered(m) \in Seqs
        BY <2>3, <4>2, CoveredType
      <4> QED
        BY <2>3, <3>2, <4>1, <4>3 DEF ShowSnapshot, TypeOK
    <3>3. CASE ShowDelta(c, m)
      <4>1. Append(view[c], m.seq) \in Seq(Seqs)
        BY <2>3, SeqTypes DEF TypeOK
      <4> QED
        BY <2>3, <3>3, <4>1 DEF ShowDelta, TypeOK
    <3> QED
      BY <1>11, <3>1, <3>2, <3>3 DEF Receive
  <2>5. UNCHANGED <<hubVars, sock, toHub, mounted>>
    BY <1>11 DEF Receive
  <2> QED
    BY <2>2, <2>4, <2>5 DEF TypeOK, hubVars
<1>12. CASE UNCHANGED vars
  BY <1>12 DEF vars, hubVars, wireVars, viewVars, TypeOK
<1> QED
  BY <1>1, <1>2, <1>3, <1>4, <1>5, <1>6, <1>7, <1>8, <1>9, <1>10, <1>11,
     <1>12 DEF Next

-----------------------------------------------------------------------------
(* The hub: a terminal has been given exactly the ring's chunks since it    *)
(* began, and while only REST listens there is none.                       *)

TerminalFits ==
  headless # None =>
    /\ Fine(headless.from, headless.parsed, headless.seq)
    /\ Covered(headless) = RingSeq

RestIsEmpty == phase = "rest" => headless = None /\ sock = {}

HubInv ==
  TypeOK /\ MessagesFine /\ ClosedIsEmpty /\ TerminalFits /\ RestIsEmpty
    /\ TerminalPerSession

\* A terminal that is created begins behind the ring.
LEMMA EnsureTerminalFits ==
  ASSUME TypeOK, TerminalFits, EnsureTerminal
  PROVE  /\ TerminalFits' /\ RingSeq' = RingSeq
         /\ headless' \in Terminals /\ headless' # None
<1>1. RingSeq \in Seqs /\ RingSeq \in Nat
  BY RingSeqType, BoundsAreNat DEF Seqs
<1>2. ring' # None /\ RingSeq' = RingSeq
  BY <1>1, NoneAssumption DEF EnsureTerminal, RingSeq
<1>3. headless' \in Terminals /\ headless' # None
  BY EnsureTerminalType
<1>4. Fine(NewTerminal.from, NewTerminal.parsed, NewTerminal.seq)
      /\ Covered(NewTerminal) = RingSeq
  BY <1>1 DEF NewTerminal, Fine, Covered
<1>5. CASE headless = None
  <2>1. headless' = NewTerminal
    BY <1>5 DEF EnsureTerminal
  <2> QED
    BY <1>2, <1>3, <1>4, <2>1 DEF TerminalFits, Covered
<1>6. CASE headless # None
  <2>1. headless' = headless
    BY <1>6 DEF EnsureTerminal
  <2> QED
    BY <1>2, <1>3, <1>6, <2>1 DEF TerminalFits, Covered
<1> QED
  BY <1>5, <1>6

LEMMA AppendFine ==
  ASSUME NEW q \in Seq(Messages), NEW m \in Messages, FineMessage(m),
         \A i \in 1 .. Len(q) : FineMessage(q[i])
  PROVE  \A i \in 1 .. Len(Append(q, m)) : FineMessage(Append(q, m)[i])
<1>1. /\ Len(Append(q, m)) = Len(q) + 1 /\ Append(q, m)[Len(q) + 1] = m
      /\ \A i \in 1 .. Len(q) : Append(q, m)[i] = q[i]
  OBVIOUS
<1> QED
  BY <1>1

LEMMA TailFine ==
  ASSUME NEW q \in Seq(Messages), q # <<>>,
         \A i \in 1 .. Len(q) : FineMessage(q[i])
  PROVE  \A i \in 1 .. Len(Tail(q)) : FineMessage(Tail(q)[i])
<1>1. Len(Tail(q)) = Len(q) - 1 /\ \A i \in 1 .. Len(Tail(q)) : Tail(q)[i] = q[i + 1]
  OBVIOUS
<1>2. \A i \in 1 .. Len(Tail(q)) : i + 1 \in 1 .. Len(q)
  BY <1>1
<1> QED
  BY <1>1, <1>2

\* Frames under way stay well formed, and a closed socket stays empty.
LEMMA MessagesStep ==
  ASSUME HubInv, [Next]_vars
  PROVE  MessagesFine' /\ ClosedIsEmpty'
<1>0. TypeOK /\ MessagesFine /\ ClosedIsEmpty /\ TerminalFits
  BY DEF HubInv
<1>1. CASE UNCHANGED <<sock, toHub, inbox>>
  BY <1>0, <1>1 DEF MessagesFine, ClosedIsEmpty
<1>2. CASE AppendChunk
  <2>1. RingSeq \in Seqs /\ ring' = RingSeq + 1 /\ ring' \in Seqs
    BY <1>0, <1>2, RingSeqType, BoundsAreNat DEF AppendChunk, Seqs
  <2>2. Delta(ring') \in Messages /\ FineMessage(Delta(ring'))
    BY <2>1, DeltaType DEF Delta, FineMessage
  <2>3. \A c \in Clients :
          inbox'[c] = IF c \in subscribed THEN Append(inbox[c], Delta(ring')) ELSE inbox[c]
    BY <1>2 DEF AppendChunk
  <2>4. \A c \in Clients : inbox[c] \in Seq(Messages)
    BY <1>0 DEF TypeOK
  <2>5. MessagesFine'
    BY <1>0, <2>2, <2>3, <2>4, AppendFine DEF MessagesFine
  <2>6. UNCHANGED <<sock, toHub>> /\ subscribed \subseteq sock
    BY <1>0, <1>2 DEF AppendChunk, TypeOK
  <2> QED
    BY <1>0, <2>3, <2>5, <2>6 DEF ClosedIsEmpty
<1>3. CASE Restart
  BY <1>3 DEF Restart, MessagesFine, ClosedIsEmpty
<1>4. ASSUME NEW c \in Clients, HubSubscribe(c)
      PROVE  MessagesFine' /\ ClosedIsEmpty'
  <2>1. c \in sock /\ sock' = sock
    BY <1>0, <1>4 DEF HubSubscribe, ClosedIsEmpty
  <2>2. \A d \in Clients \ {c} : toHub'[d] = toHub[d] /\ inbox'[d] = inbox[d]
    BY <1>0, <1>4 DEF HubSubscribe, TypeOK
  <2>3. ClosedIsEmpty'
    BY <1>0, <2>1, <2>2 DEF ClosedIsEmpty
  <2>4. CASE live = "live"
    <3>1. headless' \in Terminals /\ headless' # None /\ TerminalFits'
      BY <1>0, <1>4, <2>4, EnsureTerminalFits DEF HubSubscribe
    <3>2. Snapshot(headless') \in Messages /\ FineMessage(Snapshot(headless'))
      BY <3>1, SnapshotType DEF TerminalFits, FineMessage, Snapshot
    <3>3. inbox'[c] = Append(inbox[c], Snapshot(headless'))
      BY <1>0, <1>4, <2>4 DEF HubSubscribe, TypeOK
    <3>4. \A d \in Clients : inbox[d] \in Seq(Messages)
      BY <1>0 DEF TypeOK
    <3>5. \A i \in 1 .. Len(inbox'[c]) : FineMessage(inbox'[c][i])
      BY <1>0, <3>2, <3>3, <3>4, AppendFine DEF MessagesFine
    <3> QED
      BY <1>0, <2>2, <2>3, <3>5 DEF MessagesFine
  <2>5. CASE live # "live"
    BY <1>0, <1>4, <2>3, <2>5 DEF HubSubscribe, MessagesFine
  <2> QED
    BY <2>4, <2>5
<1>5. ASSUME NEW c \in Clients, HubUnsubscribe(c)
      PROVE  MessagesFine' /\ ClosedIsEmpty'
  <2>1. c \in sock /\ UNCHANGED <<sock, inbox>>
    BY <1>0, <1>5 DEF HubUnsubscribe, ClosedIsEmpty
  <2>2. \A d \in Clients \ {c} : toHub'[d] = toHub[d]
    BY <1>0, <1>5 DEF HubUnsubscribe, TypeOK
  <2> QED
    BY <1>0, <2>1, <2>2 DEF MessagesFine, ClosedIsEmpty
<1>6. ASSUME NEW c \in Clients, Connect(c)
      PROVE  MessagesFine' /\ ClosedIsEmpty'
  <2>1. sock' = sock \cup {c} /\ inbox' = inbox
    BY <1>6 DEF Connect
  <2>2. \A d \in Clients \ {c} : toHub'[d] = toHub[d]
    BY <1>0, <1>6 DEF Connect, TypeOK
  <2> QED
    BY <1>0, <2>1, <2>2 DEF MessagesFine, ClosedIsEmpty
<1>7. ASSUME NEW c \in Clients, Disconnect(c)
      PROVE  MessagesFine' /\ ClosedIsEmpty'
  <2>1. /\ sock' = sock \ {c} /\ toHub'[c] = <<>> /\ inbox'[c] = <<>>
        /\ \A d \in Clients \ {c} : toHub'[d] = toHub[d] /\ inbox'[d] = inbox[d]
    BY <1>0, <1>7 DEF Disconnect, TypeOK
  <2>2. Len(inbox'[c]) = 0
    BY <2>1
  <2>3. MessagesFine'
    BY <1>0, <2>1, <2>2 DEF MessagesFine
  <2> QED
    BY <1>0, <2>1, <2>3 DEF ClosedIsEmpty
<1>8. ASSUME NEW c \in Clients, Mount(c) \/ Unmount(c)
      PROVE  MessagesFine' /\ ClosedIsEmpty'
  <2>1. UNCHANGED <<sock, inbox>> /\ \E f \in Frames : SendFrame(c, f)
    BY <1>8 DEF Mount, Unmount, Frames
  <2>2. \A d \in Clients : d \notin sock => toHub'[d] = toHub[d]
    BY <1>0, <2>1 DEF SendFrame, TypeOK
  <2> QED
    BY <1>0, <2>1, <2>2 DEF MessagesFine, ClosedIsEmpty
<1>9. ASSUME NEW c \in Clients, Receive(c)
      PROVE  MessagesFine' /\ ClosedIsEmpty'
  <2>1. /\ UNCHANGED <<sock, toHub>> /\ inbox[c] # <<>> /\ inbox[c] \in Seq(Messages)
        /\ inbox'[c] = Tail(inbox[c])
        /\ \A d \in Clients \ {c} : inbox'[d] = inbox[d]
    BY <1>0, <1>9 DEF Receive, TypeOK
  <2>2. \A i \in 1 .. Len(inbox'[c]) : FineMessage(inbox'[c][i])
    BY <1>0, <2>1, TailFine DEF MessagesFine
  <2>3. MessagesFine'
    BY <1>0, <2>1, <2>2 DEF MessagesFine
  <2>4. c \in sock
    BY <1>0, <2>1 DEF ClosedIsEmpty
  <2> QED
    BY <1>0, <2>1, <2>3, <2>4 DEF ClosedIsEmpty
<1> QED
  BY <1>1, <1>2, <1>3, <1>4, <1>5, <1>6, <1>7, <1>8, <1>9
     DEF Next, RawOpen, RawClose, Parse, Register, Remove, StartWs, wireVars, vars

\* The terminal keeps up with the ring, and with the session's life.
LEMMA TerminalStep ==
  ASSUME HubInv, [Next]_vars
  PROVE  TerminalFits' /\ RestIsEmpty' /\ TerminalPerSession'
<1>0. /\ TypeOK /\ ClosedIsEmpty /\ TerminalFits /\ RestIsEmpty /\ TerminalPerSession
      /\ RingSeq \in Nat /\ (headless # None => headless \in Terminals)
  BY RingSeqType, BoundsAreNat DEF HubInv, TypeOK, Seqs
<1>1. CASE UNCHANGED <<phase, live, ring, headless>> /\ sock' \subseteq sock
  BY <1>0, <1>1 DEF TerminalFits, RestIsEmpty, TerminalPerSession, RingSeq
<1>2. CASE AppendChunk
  <2>1. /\ UNCHANGED <<phase, live, sock>> /\ ring' = RingSeq + 1
        /\ headless' = IF headless = None THEN None ELSE [headless EXCEPT !.seq = ring']
    BY <1>2 DEF AppendChunk
  <2>2. ring' # None /\ RingSeq' = RingSeq + 1
    BY <1>0, <2>1, NoneAssumption DEF RingSeq
  <2>3. CASE headless = None
    BY <1>0, <2>1, <2>3 DEF TerminalFits, RestIsEmpty, TerminalPerSession
  <2>4. CASE headless # None
    <3>1. /\ headless \in Terminals /\ headless' = [headless EXCEPT !.seq = ring']
          /\ headless'.from = headless.from /\ headless'.parsed = headless.parsed
          /\ headless'.seq = ring'
      BY <1>0, <2>1, <2>4 DEF Terminals
    <3>2. /\ headless.from \in Nat /\ headless.seq \in Nat /\ headless.parsed \in Nat
      BY <3>1, BoundsAreNat DEF Terminals, Seqs
    <3>3. Fine(headless.from, headless.parsed, headless.seq)
          /\ Covered(headless) = RingSeq
      BY <1>0, <2>4 DEF TerminalFits
    <3>4. Fine(headless.from, headless.parsed, RingSeq + 1) /\ headless.from <= RingSeq + 1
      BY <1>0, <3>2, <3>3 DEF Fine, Covered
    <3>5. Covered(headless') = RingSeq + 1
      BY <1>0, <2>1, <3>1, <3>2, <3>4 DEF Covered
    <3>6. TerminalFits'
      BY <2>1, <2>2, <3>1, <3>4, <3>5 DEF TerminalFits, Covered
    <3>7. headless' # None
      <4>1. ring' \in Seqs
        BY <1>0, <1>2, <2>1, BoundsAreNat DEF AppendChunk, Seqs
      <4>2. headless' \in Terminals
        BY <3>1, <4>1 DEF Terminals
      <4> QED
        BY <4>2, NoneAssumption
    <3> QED
      BY <1>0, <2>1, <2>4, <3>6, <3>7 DEF RestIsEmpty, TerminalPerSession
  <2> QED
    BY <2>3, <2>4
<1>3. CASE Parse
  <2>1. /\ headless # None /\ headless \in Terminals /\ headless.parsed < headless.seq
        /\ headless' = [headless EXCEPT !.parsed = @ + 1]
        /\ UNCHANGED <<phase, live, ring, sock>>
    BY <1>0, <1>3 DEF Parse, wireVars
  <2>2. /\ headless.from \in Nat /\ headless.seq \in Nat /\ headless.parsed \in Nat
        /\ headless.parsed + 1 \in Seqs
    BY <2>1, BoundsAreNat DEF Terminals, Seqs
  <2>3. /\ headless'.from = headless.from /\ headless'.seq = headless.seq
        /\ headless'.parsed = headless.parsed + 1 /\ headless' \in Terminals
    BY <2>1, <2>2 DEF Terminals
  <2>4. Fine(headless.from, headless.parsed + 1, headless.seq)
    BY <1>0, <2>1, <2>2 DEF TerminalFits, Fine
  <2>5. headless' # None
    BY <2>3, NoneAssumption
  <2>6. TerminalFits'
    BY <1>0, <2>1, <2>3, <2>4 DEF TerminalFits, Covered, RingSeq
  <2> QED
    BY <1>0, <2>1, <2>5, <2>6 DEF RestIsEmpty, TerminalPerSession
<1>4. CASE Register
  <2>1. CASE phase = "up"
    <3>1. TerminalFits' /\ headless' # None
      BY <1>0, <1>4, <2>1, EnsureTerminalFits DEF Register
    <3> QED
      BY <1>4, <2>1, <3>1 DEF Register, RestIsEmpty, TerminalPerSession
  <2>2. CASE phase # "up"
    BY <1>0, <1>4, <2>2
       DEF Register, RestIsEmpty, TerminalPerSession, TerminalFits, RingSeq, wireVars
  <2> QED
    BY <2>1, <2>2
<1>5. CASE Remove
  BY <1>0, <1>5 DEF Remove, TerminalFits, RestIsEmpty, TerminalPerSession, wireVars
<1>6. CASE Restart
  BY <1>6 DEF Restart, TerminalFits, RestIsEmpty, TerminalPerSession
<1>7. CASE StartWs
  <2>1. CASE live = "live"
    <3>1. TerminalFits' /\ headless' # None
      BY <1>0, <1>7, <2>1, EnsureTerminalFits DEF StartWs
    <3> QED
      BY <1>7, <2>1, <3>1 DEF StartWs, RestIsEmpty, TerminalPerSession
  <2>2. CASE live # "live"
    BY <1>0, <1>7, <2>2
       DEF StartWs, RestIsEmpty, TerminalPerSession, TerminalFits, RingSeq
  <2> QED
    BY <2>1, <2>2
<1>8. ASSUME NEW c \in Clients, HubSubscribe(c)
      PROVE  TerminalFits' /\ RestIsEmpty' /\ TerminalPerSession'
  <2>1. c \in sock /\ UNCHANGED <<phase, live, sock>>
    BY <1>0, <1>8 DEF HubSubscribe, ClosedIsEmpty
  <2>2. CASE live = "live"
    <3>1. TerminalFits' /\ headless' # None
      BY <1>0, <1>8, <2>2, EnsureTerminalFits DEF HubSubscribe
    <3> QED
      BY <1>0, <2>1, <2>2, <3>1 DEF RestIsEmpty, TerminalPerSession
  <2>3. CASE live # "live"
    BY <1>0, <1>8, <2>1, <2>3
       DEF HubSubscribe, TerminalFits, RestIsEmpty, TerminalPerSession, RingSeq
  <2> QED
    BY <2>2, <2>3
<1>9. ASSUME NEW c \in Clients, Connect(c)
      PROVE  TerminalFits' /\ RestIsEmpty' /\ TerminalPerSession'
  BY <1>0, <1>9
     DEF Connect, hubVars, TerminalFits, RestIsEmpty, TerminalPerSession, RingSeq
<1> QED
  BY <1>1, <1>2, <1>3, <1>4, <1>5, <1>6, <1>7, <1>8, <1>9
     DEF Next, RawOpen, RawClose, HubUnsubscribe, Disconnect, Mount, Unmount, Receive,
         hubVars, wireVars, vars

\* Every step keeps the hub's part of the invariant.
LEMMA HubStep ==
  ASSUME HubInv, [Next]_vars
  PROVE  HubInv'
<1>1. TypeOK'
  BY TypeStep DEF HubInv
<1> QED
  BY <1>1, MessagesStep, TerminalStep DEF HubInv

LEMMA HubInit ==
  ASSUME Init
  PROVE  HubInv
<1>1. <<>> \in Seq(Frames) /\ <<>> \in Seq(Messages) /\ <<>> \in Seq(Seqs) /\ 0 \in Seqs
      /\ 0 \in 0 .. MaxRestarts
  BY SeqTypes, BoundsAreNat DEF Seqs
<1>2. TypeOK
  BY <1>1 DEF Init, TypeOK
<1>3. MessagesFine /\ ClosedIsEmpty
  BY DEF Init, MessagesFine, ClosedIsEmpty
<1> QED
  BY <1>2, <1>3 DEF Init, HubInv, TerminalFits, RestIsEmpty, TerminalPerSession

-----------------------------------------------------------------------------
(* The socket: a delta under way never comes more than one chunk after     *)
(* what the frame before it, or the screen, ends with.                     *)

EndOf(m) == IF m.kind = "snapshot" THEN Covered(m) ELSE m.seq

IsDelta(m) == m.kind = "delta"

Chained(q) ==
  \A i \in 2 .. Len(q) : IsDelta(q[i]) => q[i].seq <= EndOf(q[i - 1]) + 1

Follows(q, p) == q # <<>> => (IsDelta(q[1]) => q[1].seq <= p + 1)

(* What the client has seen of the chunks, once it has shown a snapshot.   *)
Position(c) == IF seqRef[c] < base[c] THEN base[c] ELSE seqRef[c]

(* A subscribed client has everything on its screen or under way.          *)
LinkOk(c) ==
  /\ Chained(inbox[c])
  /\ base[c] # None => Follows(inbox[c], Position(c))
  /\ c \in subscribed =>
       IF inbox[c] = <<>> THEN base[c] # None => RingSeq <= Position(c)
                          ELSE RingSeq <= EndOf(inbox[c][Len(inbox[c])])

LinkInv == \A c \in Clients : LinkOk(c)

LEMMA EndOfType ==
  ASSUME NEW m \in Messages
  PROVE  EndOf(m) \in Nat /\ m.seq \in Nat
<1>1. m.seq \in Seqs /\ (m.kind = "snapshot" => m.from \in 1 .. MaxChunks + 1)
  BY DEF Messages
<1> QED
  BY <1>1, BoundsAreNat DEF EndOf, Covered, Seqs

LEMMA EmptyHasLength ==
  ASSUME NEW q \in Seq(Messages)
  PROVE  Len(q) \in Nat /\ (q = <<>> <=> Len(q) = 0)
OBVIOUS

\* A frame that fits the last one may be sent.
LEMMA ChainedAppend ==
  ASSUME NEW q \in Seq(Messages), NEW m \in Messages, Chained(q),
         q # <<>> => (IsDelta(m) => m.seq <= EndOf(q[Len(q)]) + 1)
  PROVE  /\ Chained(Append(q, m)) /\ Append(q, m) # <<>>
         /\ Append(q, m)[Len(Append(q, m))] = m
         /\ q # <<>> => Append(q, m)[1] = q[1]
         /\ q = <<>> => Append(q, m)[1] = m
<1>1. /\ Len(Append(q, m)) = Len(q) + 1 /\ Append(q, m)[Len(q) + 1] = m
      /\ \A i \in 1 .. Len(q) : Append(q, m)[i] = q[i]
      /\ Append(q, m) # <<>>
  OBVIOUS
<1>0. Len(q) \in Nat /\ (q = <<>> => Len(q) = 0) /\ (q # <<>> => 1 <= Len(q))
  BY EmptyHasLength
<1>2. ASSUME NEW i \in 2 .. Len(Append(q, m)), IsDelta(Append(q, m)[i])
      PROVE  Append(q, m)[i].seq <= EndOf(Append(q, m)[i - 1]) + 1
  <2>1. CASE i = Len(q) + 1
    <3>1. Append(q, m)[i - 1] = q[Len(q)] /\ Append(q, m)[i] = m /\ q # <<>>
      BY <1>0, <1>1, <1>2, <2>1
    <3> QED
      BY <1>2, <3>1
  <2>2. CASE i # Len(q) + 1
    <3>1. i \in 2 .. Len(q) /\ i - 1 \in 1 .. Len(q) /\ i \in 1 .. Len(q)
      BY <1>0, <1>1, <1>2, <2>2
    <3>2. Append(q, m)[i - 1] = q[i - 1] /\ Append(q, m)[i] = q[i]
      BY <1>0, <1>1, <3>1
    <3> QED
      BY <1>2, <3>1, <3>2 DEF Chained
  <2> QED
    BY <2>1, <2>2
<1>3. Chained(Append(q, m))
  BY <1>2 DEF Chained
<1> QED
  BY <1>0, <1>1, <1>3

\* A frame that is received leaves the rest fitting to it.
LEMMA ChainedTail ==
  ASSUME NEW q \in Seq(Messages), q # <<>>, Chained(q)
  PROVE  /\ Chained(Tail(q)) /\ Follows(Tail(q), EndOf(q[1]))
         /\ Tail(q) # <<>> => Tail(q)[Len(Tail(q))] = q[Len(q)]
         /\ Tail(q) = <<>> => q[Len(q)] = q[1]
<1>1. /\ Len(Tail(q)) = Len(q) - 1 /\ Len(q) \in Nat /\ Len(q) >= 1
      /\ \A i \in 1 .. Len(Tail(q)) : Tail(q)[i] = q[i + 1]
      /\ Tail(q) \in Seq(Messages)
  OBVIOUS
<1>2. (Tail(q) # <<>> => Len(Tail(q)) >= 1) /\ (Tail(q) = <<>> => Len(Tail(q)) = 0)
  BY <1>1, EmptyHasLength
<1>3. ASSUME NEW i \in 2 .. Len(Tail(q)), IsDelta(Tail(q)[i])
      PROVE  Tail(q)[i].seq <= EndOf(Tail(q)[i - 1]) + 1
  <2>1. /\ i \in 1 .. Len(Tail(q)) /\ i - 1 \in 1 .. Len(Tail(q))
        /\ i + 1 \in 2 .. Len(q) /\ (i + 1) - 1 = i /\ (i - 1) + 1 = i
    BY <1>1, <1>3
  <2>2. Tail(q)[i] = q[i + 1] /\ Tail(q)[i - 1] = q[i]
    BY <1>1, <2>1
  <2>3. IsDelta(q[i + 1]) => q[i + 1].seq <= EndOf(q[(i + 1) - 1]) + 1
    BY <2>1 DEF Chained
  <2> QED
    BY <1>3, <2>1, <2>2, <2>3
<1>4. Chained(Tail(q))
  BY <1>3 DEF Chained
<1>5. ASSUME Tail(q) # <<>>, IsDelta(Tail(q)[1])
      PROVE  Tail(q)[1].seq <= EndOf(q[1]) + 1
  <2>1. 2 \in 2 .. Len(q) /\ Tail(q)[1] = q[2]
    BY <1>1, <1>2, <1>5
  <2>2. IsDelta(q[2]) => q[2].seq <= EndOf(q[2 - 1]) + 1
    BY <2>1 DEF Chained
  <2> QED
    BY <1>5, <2>1, <2>2
<1>6. Tail(q) # <<>> => Tail(q)[Len(Tail(q))] = q[Len(q)]
  BY <1>1, <1>2
<1>7. Tail(q) = <<>> => q[Len(q)] = q[1]
  BY <1>1, <1>2
<1> QED
  BY <1>4, <1>5, <1>6, <1>7 DEF Follows

-----------------------------------------------------------------------------
(* The screen                                                              *)

Rises(v) == \A i, j \in 1 .. Len(v) : i < j => v[i] < v[j]

ScreenOk(c) ==
  /\ c \notin mounted => view[c] = <<>> /\ base[c] = None
  /\ base[c] # None =>
       /\ ready[c]
       /\ \A n \in base[c] + 1 .. seqRef[c] :
            \E i \in 1 .. Len(view[c]) : view[c][i] = n
  /\ Rises(view[c])
  /\ \A i \in 1 .. Len(view[c]) : view[c][i] <= seqRef[c]

ScreenInv == \A c \in Clients : ScreenOk(c)

\* A chunk later than all that is shown may be appended.
LEMMA AppendView ==
  ASSUME NEW v \in Seq(Seqs), NEW n \in Seqs, Rises(v),
         \A i \in 1 .. Len(v) : v[i] < n
  PROVE  /\ Append(v, n) \in Seq(Seqs) /\ Rises(Append(v, n))
         /\ \A i \in 1 .. Len(Append(v, n)) : Append(v, n)[i] <= n
         /\ \A k : (\E i \in 1 .. Len(v) : v[i] = k)
                     => \E i \in 1 .. Len(Append(v, n)) : Append(v, n)[i] = k
         /\ \E i \in 1 .. Len(Append(v, n)) : Append(v, n)[i] = n
<1>1. /\ Len(Append(v, n)) = Len(v) + 1 /\ Append(v, n)[Len(v) + 1] = n
      /\ \A i \in 1 .. Len(v) : Append(v, n)[i] = v[i]
      /\ Append(v, n) \in Seq(Seqs) /\ Len(v) \in Nat
      /\ \A i \in 1 .. Len(v) : v[i] \in Seqs
  OBVIOUS
<1>2. Rises(Append(v, n))
  <2> SUFFICES ASSUME NEW i \in 1 .. Len(Append(v, n)),
                      NEW j \in 1 .. Len(Append(v, n)), i < j
               PROVE  Append(v, n)[i] < Append(v, n)[j]
    BY DEF Rises
  <2>1. i \in 1 .. Len(v) /\ Append(v, n)[i] = v[i]
    BY <1>1
  <2>2. CASE j = Len(v) + 1
    BY <1>1, <2>1, <2>2
  <2>3. CASE j # Len(v) + 1
    <3>1. j \in 1 .. Len(v) /\ Append(v, n)[j] = v[j]
      BY <1>1, <2>3
    <3> QED
      BY <2>1, <3>1 DEF Rises
  <2> QED
    BY <2>2, <2>3
<1>3. \A i \in 1 .. Len(Append(v, n)) : Append(v, n)[i] <= n
  <2> SUFFICES ASSUME NEW i \in 1 .. Len(Append(v, n))
               PROVE  Append(v, n)[i] <= n
    OBVIOUS
  <2>0. n \in Nat /\ \A k \in 1 .. Len(v) : v[k] \in Nat
    BY <1>1, BoundsAreNat DEF Seqs
  <2>1. CASE i = Len(v) + 1
    BY <1>1, <2>0, <2>1
  <2>2. CASE i # Len(v) + 1
    <3>1. i \in 1 .. Len(v) /\ Append(v, n)[i] = v[i]
      BY <1>1, <2>2
    <3> QED
      BY <2>0, <3>1
  <2> QED
    BY <2>1, <2>2
<1>4. ASSUME NEW k, NEW i \in 1 .. Len(v), v[i] = k
      PROVE  \E l \in 1 .. Len(Append(v, n)) : Append(v, n)[l] = k
  BY <1>1, <1>4
<1>5. Len(v) + 1 \in 1 .. Len(Append(v, n))
  BY <1>1
<1> QED
  BY <1>1, <1>2, <1>3, <1>4, <1>5

(* A snapshot's screen rises to at most its number, and covers everything  *)
(* up to there.                                                            *)
LEMMA ScreenFits ==
  ASSUME NEW m \in Messages, m.kind = "snapshot", FineMessage(m)
  PROVE  /\ Rises(Screen(m))
         /\ \A i \in 1 .. Len(Screen(m)) : Screen(m)[i] <= m.seq
         /\ m.seq <= Covered(m) /\ EndOf(m) = Covered(m)
<1>1. /\ m.from \in Nat /\ m.to \in Nat /\ m.seq \in Nat /\ m.from >= 1
      /\ m.from <= m.to + 1 /\ (m.to <= m.seq \/ m.to < m.from)
  BY BoundsAreNat DEF Messages, FineMessage, Fine, Seqs
<1>2. /\ Len(Screen(m)) = m.to + 1 - m.from
      /\ \A i \in 1 .. Len(Screen(m)) : Screen(m)[i] = m.from + i - 1
  BY ScreenType
<1>3. \A i \in 1 .. Len(Screen(m)) : Screen(m)[i] <= m.seq
  BY <1>1, <1>2
<1>4. Rises(Screen(m))
  <2> SUFFICES ASSUME NEW i \in 1 .. Len(Screen(m)), NEW j \in 1 .. Len(Screen(m)), i < j
               PROVE  Screen(m)[i] < Screen(m)[j]
    BY DEF Rises
  <2>1. Screen(m)[i] = m.from + i - 1 /\ Screen(m)[j] = m.from + j - 1
    BY <1>2
  <2>2. i \in Nat /\ j \in Nat
    BY <1>1, <1>2
  <2> QED
    BY <1>1, <2>1, <2>2
<1> QED
  BY <1>1, <1>3, <1>4 DEF Covered, EndOf

-----------------------------------------------------------------------------
(* Steps                                                                   *)

TerminalStreamInv == HubInv /\ LinkInv /\ ScreenInv

LEMMA ClientTypes ==
  ASSUME TypeOK, NEW c \in Clients
  PROVE  /\ inbox[c] \in Seq(Messages) /\ view[c] \in Seq(Seqs)
         /\ seqRef[c] \in Nat /\ RingSeq \in Nat
         /\ base[c] # None => base[c] \in Nat /\ Position(c) \in Nat
BY RingSeqType, BoundsAreNat DEF TypeOK, Seqs, Position

LEMMA RingKept ==
  ASSUME TypeOK, EnsureTerminal
  PROVE  RingSeq' = RingSeq
<1>1. RingSeq \in Seqs
  BY RingSeqType
<1> QED
  BY <1>1, BoundsAreNat, NoneAssumption DEF EnsureTerminal, RingSeq, Seqs

\* Steps that touch neither frames nor screens.
LEMMA StillLink ==
  ASSUME LinkInv, UNCHANGED <<inbox, base, seqRef>>, RingSeq' = RingSeq,
         subscribed' \subseteq subscribed
  PROVE  LinkInv'
BY DEF LinkInv, LinkOk, Position

\* A new chunk follows what each subscriber has or is being sent.
LEMMA AppendLink ==
  ASSUME TerminalStreamInv, AppendChunk
  PROVE  LinkInv'
<1>0. TypeOK /\ LinkInv
  BY DEF TerminalStreamInv, HubInv
<1>1. /\ ring' = RingSeq + 1 /\ ring' \in Seqs /\ RingSeq' = RingSeq + 1
      /\ UNCHANGED <<base, seqRef, subscribed>>
      /\ \A c \in Clients : inbox'[c] = IF c \in subscribed
                                         THEN Append(inbox[c], Delta(ring'))
                                         ELSE inbox[c]
  <2>1. RingSeq \in Seqs
    BY <1>0, RingSeqType
  <2>2. ring' = RingSeq + 1 /\ ring' \in Seqs
    BY <2>1, BoundsAreNat DEF AppendChunk, Seqs
  <2>3. RingSeq' = ring'
    BY <2>2, BoundsAreNat, NoneAssumption DEF RingSeq, Seqs
  <2> QED
    BY <2>2, <2>3 DEF AppendChunk, viewVars
<1>2. ASSUME NEW c \in Clients, c \in subscribed
      PROVE  /\ Chained(inbox'[c])
             /\ base'[c] # None => Follows(inbox'[c], Position(c)')
             /\ inbox'[c] # <<>> /\ RingSeq' <= EndOf(inbox'[c][Len(inbox'[c])])
  <2> DEFINE q == inbox[c]
             m == Delta(ring')
  <2>1. /\ m \in Messages /\ m.seq = RingSeq + 1 /\ IsDelta(m) /\ EndOf(m) = RingSeq + 1
    BY <1>1, DeltaType DEF Delta, IsDelta, EndOf
  <2>2. /\ q \in Seq(Messages) /\ Chained(q) /\ RingSeq \in Nat
        /\ (base[c] # None => Follows(q, Position(c)) /\ Position(c) \in Nat)
    BY <1>0, ClientTypes DEF LinkInv, LinkOk
  <2>3. (q # <<>> => RingSeq <= EndOf(q[Len(q)]))
        /\ (q = <<>> => (base[c] # None => RingSeq <= Position(c)))
    BY <1>0, <1>2 DEF LinkInv, LinkOk
  <2>4. q # <<>> => m.seq <= EndOf(q[Len(q)]) + 1
    <3>1. q # <<>> => q[Len(q)] \in Messages
      BY <2>2, EmptyHasLength
    <3> QED
      BY <2>1, <2>2, <2>3, <3>1, EndOfType
  <2>5. inbox'[c] = Append(q, m)
    BY <1>1, <1>2
  <2>6. /\ Chained(inbox'[c]) /\ inbox'[c] # <<>> /\ inbox'[c][Len(inbox'[c])] = m
        /\ (q # <<>> => inbox'[c][1] = q[1]) /\ (q = <<>> => inbox'[c][1] = m)
    BY <2>1, <2>2, <2>4, <2>5, ChainedAppend
  <2>7. Position(c)' = Position(c) /\ base'[c] = base[c]
    BY <1>1 DEF Position
  <2>8. base'[c] # None => Follows(inbox'[c], Position(c)')
    BY <2>1, <2>2, <2>3, <2>6, <2>7 DEF Follows
  <2> QED
    BY <1>1, <2>1, <2>2, <2>6, <2>8
<1>3. ASSUME NEW c \in Clients, c \notin subscribed
      PROVE  /\ Chained(inbox'[c])
             /\ base'[c] # None => Follows(inbox'[c], Position(c)')
  BY <1>0, <1>1, <1>3 DEF LinkInv, LinkOk, Position
<1> QED
  BY <1>1, <1>2, <1>3 DEF LinkInv, LinkOk

\* A snapshot ends where the ring ends, so the chunks after it follow it.
LEMMA SubscribeLink ==
  ASSUME TerminalStreamInv, NEW c \in Clients, HubSubscribe(c), live = "live"
  PROVE  LinkInv'
<1>0. TypeOK /\ LinkInv /\ TerminalFits
  BY DEF TerminalStreamInv, HubInv
<1>1. /\ EnsureTerminal /\ subscribed' = subscribed \cup {c}
      /\ UNCHANGED <<base, seqRef>>
      /\ inbox' = [inbox EXCEPT ![c] = Append(@, Snapshot(headless'))]
  BY DEF HubSubscribe, viewVars
<1>2. /\ RingSeq' = RingSeq /\ TerminalFits'
      /\ headless' \in Terminals /\ headless' # None
  BY <1>0, <1>1, EnsureTerminalFits
<1> DEFINE q == inbox[c]
           m == Snapshot(headless')
<1>3. /\ m \in Messages /\ ~ IsDelta(m) /\ EndOf(m) = RingSeq
  <2>1. Covered(headless') = RingSeq
    BY <1>2 DEF TerminalFits
  <2>2. Covered(m) = Covered(headless')
    BY DEF Covered, Snapshot
  <2> QED
    BY <1>2, <2>1, <2>2, SnapshotType DEF IsDelta, EndOf, Snapshot
<1>4. /\ q \in Seq(Messages) /\ Chained(q) /\ RingSeq \in Nat
      /\ (base[c] # None => Follows(q, Position(c)))
  BY <1>0, ClientTypes DEF LinkInv, LinkOk
<1>5. inbox'[c] = Append(q, m) /\ \A d \in Clients \ {c} : inbox'[d] = inbox[d]
  BY <1>0, <1>1 DEF TypeOK
<1>6. /\ Chained(inbox'[c]) /\ inbox'[c] # <<>> /\ inbox'[c][Len(inbox'[c])] = m
      /\ (q # <<>> => inbox'[c][1] = q[1]) /\ (q = <<>> => inbox'[c][1] = m)
  BY <1>3, <1>4, <1>5, ChainedAppend
<1>7. \A d \in Clients : Position(d)' = Position(d) /\ base'[d] = base[d]
  BY <1>1 DEF Position
<1>8. base'[c] # None => Follows(inbox'[c], Position(c)')
  BY <1>3, <1>4, <1>6, <1>7 DEF Follows
<1>9. RingSeq' <= EndOf(inbox'[c][Len(inbox'[c])])
  BY <1>2, <1>3, <1>4, <1>6
<1>10. \A d \in Clients \ {c} : LinkOk(d)'
  BY <1>0, <1>1, <1>2, <1>5, <1>7 DEF LinkInv, LinkOk
<1> QED
  BY <1>6, <1>8, <1>9, <1>10 DEF LinkInv, LinkOk

\* A view that is mounted or unmounted has no snapshot yet.
LEMMA ResetLink ==
  ASSUME TerminalStreamInv, NEW c \in Clients, Mount(c) \/ Unmount(c)
  PROVE  LinkInv' /\ ScreenInv'
<1>0. TypeOK /\ LinkInv /\ ScreenInv
  BY DEF TerminalStreamInv, HubInv
<1>1. UNCHANGED <<ring, subscribed, inbox>>
  BY DEF Mount, Unmount, hubVars
<1>2. /\ base'[c] = None /\ view'[c] = <<>>
      /\ \A d \in Clients \ {c} :
           /\ base'[d] = base[d] /\ view'[d] = view[d] /\ ready'[d] = ready[d]
           /\ seqRef'[d] = seqRef[d] /\ (d \notin mounted' => d \notin mounted)
  <2>1. CASE Mount(c)
    <3>1. PICK r \in BOOLEAN, n \in 0 .. MaxChunks :
            ready' = [ready EXCEPT ![c] = r] /\ seqRef' = [seqRef EXCEPT ![c] = n]
      BY <2>1 DEF Mount
    <3> QED
      BY <1>0, <2>1, <3>1 DEF Mount, ScreenInv, ScreenOk, TypeOK
  <2>2. CASE Unmount(c)
    <3>1. /\ view' = [view EXCEPT ![c] = <<>>] /\ ready' = [ready EXCEPT ![c] = FALSE]
          /\ seqRef' = [seqRef EXCEPT ![c] = 0] /\ base' = [base EXCEPT ![c] = None]
          /\ mounted' = mounted \ {c}
      BY <2>2 DEF Unmount
    <3>2. /\ view \in [Clients -> Seq(Seqs)] /\ ready \in [Clients -> BOOLEAN]
          /\ seqRef \in [Clients -> Seqs] /\ base \in [Clients -> Seqs \cup {None}]
      BY <1>0 DEF TypeOK
    <3>3. \A d \in Clients \ {c} : view'[d] = view[d] /\ ready'[d] = ready[d]
      BY <3>1, <3>2
    <3>4. \A d \in Clients \ {c} : seqRef'[d] = seqRef[d] /\ base'[d] = base[d]
      BY <3>1, <3>2
    <3>5. view'[c] = <<>> /\ base'[c] = None
      BY <3>1, <3>2
    <3> QED
      BY <3>1, <3>3, <3>4, <3>5
  <2> QED
    BY <2>1, <2>2
<1>3. RingSeq' = RingSeq
  BY <1>1 DEF RingSeq
<1>4. LinkInv'
  <2> SUFFICES ASSUME NEW d \in Clients
               PROVE  LinkOk(d)'
    BY DEF LinkInv
  <2>1. CASE d = c
    BY <1>0, <1>1, <1>2, <1>3, <2>1 DEF LinkInv, LinkOk
  <2>2. CASE d # c
    <3>1. Position(d)' = Position(d)
      BY <1>2, <2>2 DEF Position
    <3> QED
      BY <1>0, <1>1, <1>2, <1>3, <2>2, <3>1 DEF LinkInv, LinkOk
  <2> QED
    BY <2>1, <2>2
<1>5. Len(view'[c]) = 0
  BY <1>2
<1>6. ScreenInv'
  <2> SUFFICES ASSUME NEW d \in Clients
               PROVE  ScreenOk(d)'
    BY DEF ScreenInv
  <2>1. CASE d = c
    BY <1>2, <1>5, <2>1 DEF Rises, ScreenOk
  <2>2. CASE d # c
    BY <1>0, <1>2, <2>2 DEF ScreenInv, ScreenOk
  <2> QED
    BY <2>1, <2>2
<1> QED
  BY <1>4, <1>6

\* A snapshot replaces the screen: no chunk of it is missing or twice.
LEMMA SnapshotShown ==
  ASSUME TypeOK, NEW c \in Clients, c \in mounted, mounted' = mounted,
         NEW m \in Messages, m.kind = "snapshot", FineMessage(m), ShowSnapshot(c, m)
  PROVE  /\ ScreenOk(c)' /\ base'[c] # None /\ Position(c)' = EndOf(m)
         /\ \A d \in Clients \ {c} :
              /\ view'[d] = view[d] /\ ready'[d] = ready[d]
              /\ seqRef'[d] = seqRef[d] /\ base'[d] = base[d]
<1>1. /\ view' = [view EXCEPT ![c] = Screen(m)] /\ seqRef' = [seqRef EXCEPT ![c] = m.seq]
      /\ ready' = [ready EXCEPT ![c] = TRUE] /\ base' = [base EXCEPT ![c] = Covered(m)]
  BY DEF ShowSnapshot
<1>2. /\ view \in [Clients -> Seq(Seqs)] /\ ready \in [Clients -> BOOLEAN]
      /\ seqRef \in [Clients -> Seqs] /\ base \in [Clients -> Seqs \cup {None}]
  BY DEF TypeOK
<1>3. view'[c] = Screen(m) /\ \A d \in Clients \ {c} : view'[d] = view[d]
  BY <1>1, <1>2
<1>4. seqRef'[c] = m.seq /\ \A d \in Clients \ {c} : seqRef'[d] = seqRef[d]
  BY <1>1, <1>2
<1>5. ready'[c] = TRUE /\ \A d \in Clients \ {c} : ready'[d] = ready[d]
  BY <1>1, <1>2
<1>6. base'[c] = Covered(m) /\ \A d \in Clients \ {c} : base'[d] = base[d]
  BY <1>1, <1>2
<1>7. m.seq \in Seqs /\ m.from \in 1 .. MaxChunks + 1
  BY DEF Messages
<1>8. Covered(m) \in Seqs /\ Covered(m) # None
  BY <1>7, CoveredType
<1>9. m.seq \in Nat /\ Covered(m) \in Nat
  BY <1>7, <1>8, BoundsAreNat DEF Seqs
<1>10. /\ Rises(Screen(m)) /\ m.seq <= Covered(m) /\ EndOf(m) = Covered(m)
       /\ \A i \in 1 .. Len(Screen(m)) : Screen(m)[i] <= m.seq
  BY ScreenFits
<1>11. Position(c)' = EndOf(m)
  BY <1>4, <1>6, <1>9, <1>10 DEF Position
<1>12. \A n \in base'[c] + 1 .. seqRef'[c] :
         \E i \in 1 .. Len(view'[c]) : view'[c][i] = n
  BY <1>4, <1>6, <1>9, <1>10
<1>13. ScreenOk(c)'
  BY <1>3, <1>4, <1>5, <1>10, <1>12 DEF ScreenOk
<1> QED
  BY <1>3, <1>4, <1>5, <1>6, <1>8, <1>11, <1>13

\* A chunk is dropped or extends the screen by exactly the next one.
LEMMA DeltaShown ==
  ASSUME TypeOK, NEW c \in Clients, c \in mounted, mounted' = mounted, ScreenOk(c),
         NEW m \in Messages, IsDelta(m), ShowDelta(c, m),
         base[c] # None => m.seq <= Position(c) + 1
  PROVE  /\ ScreenOk(c)' /\ base' = base
         /\ base[c] # None => Position(c)' \in Nat /\ m.seq <= Position(c)'
         /\ \A d \in Clients \ {c} :
              /\ view'[d] = view[d] /\ ready'[d] = ready[d] /\ seqRef'[d] = seqRef[d]
<1>1. m.seq \in Seqs /\ m.seq \in Nat
  BY BoundsAreNat DEF Messages, Seqs
<1>2. /\ view[c] \in Seq(Seqs) /\ seqRef[c] \in Nat
      /\ base[c] # None => base[c] \in Nat /\ Position(c) \in Nat
      /\ \A i \in 1 .. Len(view[c]) : view[c][i] \in Nat
  BY ClientTypes, BoundsAreNat DEF Seqs
<1>3. ready' = ready /\ base' = base
  BY DEF ShowDelta
<1>4. CASE m.seq <= seqRef[c]
  <2>1. UNCHANGED <<view, seqRef>>
    BY <1>4 DEF ShowDelta
  <2>2. ScreenOk(c)' /\ Position(c)' = Position(c)
    BY <1>3, <2>1 DEF ScreenOk, Position
  <2>3. base[c] # None => m.seq <= Position(c)
    BY <1>1, <1>2, <1>4 DEF Position
  <2> QED
    BY <1>2, <1>3, <2>1, <2>2, <2>3
<1>5. CASE ~ m.seq <= seqRef[c]
  <2>1. seqRef'[c] = m.seq /\ \A d \in Clients \ {c} : seqRef'[d] = seqRef[d]
    BY <1>5 DEF ShowDelta, TypeOK
  <2>2. \A d \in Clients \ {c} : view'[d] = view[d]
    BY <1>5 DEF ShowDelta, TypeOK
  <2>3. base[c] # None => Position(c)' \in Nat /\ m.seq <= Position(c)'
    BY <1>1, <1>2, <1>3, <2>1 DEF Position
  <2>4. CASE ~ ready[c]
    <3>1. view'[c] = view[c] /\ base[c] = None
      BY <1>5, <2>4 DEF ShowDelta, ScreenOk
    <3>2. \A i \in 1 .. Len(view[c]) : view[c][i] <= m.seq
      BY <1>1, <1>2, <1>5 DEF ScreenOk
    <3>3. ScreenOk(c)'
      BY <1>3, <2>1, <3>1, <3>2 DEF ScreenOk
    <3> QED
      BY <1>3, <2>1, <2>2, <2>3, <3>3
  <2>5. CASE ready[c]
    <3>1. view'[c] = Append(view[c], m.seq)
      BY <1>5, <2>5 DEF ShowDelta, TypeOK
    <3>2. \A i \in 1 .. Len(view[c]) : view[c][i] < m.seq
      BY <1>1, <1>2, <1>5 DEF ScreenOk
    <3>3. /\ Rises(view'[c]) /\ \A i \in 1 .. Len(view'[c]) : view'[c][i] <= m.seq
          /\ \A k : (\E i \in 1 .. Len(view[c]) : view[c][i] = k)
                     => \E i \in 1 .. Len(view'[c]) : view'[c][i] = k
          /\ \E i \in 1 .. Len(view'[c]) : view'[c][i] = m.seq
      <4>1. Rises(view[c]) /\ view[c] \in Seq(Seqs)
        BY <1>2 DEF ScreenOk
      <4>2. /\ Rises(Append(view[c], m.seq))
            /\ \A i \in 1 .. Len(Append(view[c], m.seq)) : Append(view[c], m.seq)[i] <= m.seq
            /\ \A k : (\E i \in 1 .. Len(view[c]) : view[c][i] = k)
                     => \E i \in 1 .. Len(Append(view[c], m.seq)) : Append(view[c], m.seq)[i] = k
            /\ \E i \in 1 .. Len(Append(view[c], m.seq)) : Append(view[c], m.seq)[i] = m.seq
        BY <1>1, <3>2, <4>1, AppendView
      <4> QED
        BY <3>1, <4>2
    <3>4. ASSUME base[c] # None, NEW n \in base[c] + 1 .. m.seq
          PROVE  \E i \in 1 .. Len(view'[c]) : view'[c][i] = n
      <4>1. CASE n = m.seq
        BY <3>3, <4>1
      <4>2. CASE n # m.seq
        <5>1. n \in base[c] + 1 .. seqRef[c]
          BY <1>1, <1>2, <3>4, <4>2 DEF Position
        <5>2. \E i \in 1 .. Len(view[c]) : view[c][i] = n
          BY <3>4, <5>1 DEF ScreenOk
        <5> QED
          BY <3>3, <5>2
      <4> QED
        BY <4>1, <4>2
    <3>5. ScreenOk(c)'
      BY <1>3, <2>1, <2>5, <3>3, <3>4 DEF ScreenOk
    <3> QED
      BY <1>3, <2>1, <2>2, <2>3, <3>5
  <2> QED
    BY <2>4, <2>5
<1> QED
  BY <1>4, <1>5

\* A frame that is received, whether or not the view is mounted.
LEMMA ReceiveStep ==
  ASSUME TerminalStreamInv, NEW c \in Clients, Receive(c)
  PROVE  LinkInv' /\ ScreenInv'
<1>0. TypeOK /\ LinkInv /\ MessagesFine /\ ScreenInv
  BY DEF TerminalStreamInv, HubInv
<1> DEFINE q == inbox[c]
           m == Head(inbox[c])
<1>1. /\ q # <<>> /\ q \in Seq(Messages) /\ inbox'[c] = Tail(q)
      /\ \A d \in Clients \ {c} : inbox'[d] = inbox[d]
      /\ UNCHANGED <<ring, subscribed, mounted>>
  BY <1>0 DEF Receive, TypeOK, hubVars
<1>2. m \in Messages /\ FineMessage(m) /\ m = q[1]
  BY <1>0, <1>1, HeadFine
<1>3. /\ Chained(q) /\ (base[c] # None => Follows(q, Position(c)))
      /\ (c \in subscribed => RingSeq <= EndOf(q[Len(q)]))
  BY <1>0, <1>1 DEF LinkInv, LinkOk
<1>4. /\ Chained(Tail(q)) /\ Follows(Tail(q), EndOf(m))
      /\ (Tail(q) # <<>> => Tail(q)[Len(Tail(q))] = q[Len(q)])
      /\ (Tail(q) = <<>> => q[Len(q)] = m)
  BY <1>1, <1>2, <1>3, ChainedTail
<1>5. RingSeq' = RingSeq /\ RingSeq \in Nat /\ EndOf(m) \in Nat /\ m.seq \in Nat
  BY <1>0, <1>1, <1>2, ClientTypes, EndOfType DEF RingSeq
<1>6. /\ ScreenOk(c)'
      /\ base'[c] # None => Position(c)' \in Nat /\ EndOf(m) <= Position(c)'
      /\ \A d \in Clients \ {c} :
           /\ view'[d] = view[d] /\ ready'[d] = ready[d]
           /\ seqRef'[d] = seqRef[d] /\ base'[d] = base[d]
  <2>1. ScreenOk(c)
    BY <1>0 DEF ScreenInv, ScreenOk
  <2>2. CASE c \notin mounted
    <3>1. UNCHANGED <<view, ready, seqRef, base>>
      BY <2>2 DEF Receive
    <3>2. base[c] = None
      BY <2>1, <2>2 DEF ScreenOk
    <3> QED
      BY <1>1, <2>1, <3>1, <3>2 DEF ScreenOk
  <2>3. CASE c \in mounted /\ m.kind = "snapshot"
    <3>1. ShowSnapshot(c, m)
      BY <2>3 DEF Receive
    <3>2. mounted' = mounted
      BY <1>1
    <3> QED
      BY <1>0, <1>2, <1>5, <2>3, <3>1, <3>2, SnapshotShown
  <2>4. CASE c \in mounted /\ m.kind # "snapshot"
    <3>1. ShowDelta(c, m)
      BY <2>4 DEF Receive
    <3>2. IsDelta(m) /\ EndOf(m) = m.seq
      BY <1>2, <2>4 DEF Messages, IsDelta, EndOf
    <3>3. base[c] # None => m.seq <= Position(c) + 1
      BY <1>1, <1>2, <1>3, <3>2 DEF Follows
    <3>4. mounted' = mounted
      BY <1>1
    <3> QED
      BY <1>0, <1>2, <2>1, <2>4, <3>1, <3>2, <3>3, <3>4, DeltaShown
  <2> QED
    BY <2>2, <2>3, <2>4
<1>7. base'[c] # None => Follows(inbox'[c], Position(c)')
  <2> SUFFICES ASSUME base'[c] # None, Tail(q) # <<>>, IsDelta(Tail(q)[1])
               PROVE  Tail(q)[1].seq <= Position(c)' + 1
    BY <1>1 DEF Follows
  <2>1. Tail(q)[1].seq <= EndOf(m) + 1
    BY <1>4 DEF Follows
  <2>2. Tail(q)[1].seq \in Nat
    <3>1. Tail(q) \in Seq(Messages)
      BY <1>1, SeqTypes
    <3>2. Tail(q)[1] \in Messages
      BY <3>1, EmptyHasLength
    <3> QED
      BY <3>2, EndOfType
  <2> QED
    BY <1>5, <1>6, <2>1, <2>2
<1>8. c \in subscribed' =>
        IF inbox'[c] = <<>> THEN base'[c] # None => RingSeq' <= Position(c)'
                            ELSE RingSeq' <= EndOf(inbox'[c][Len(inbox'[c])])
  BY <1>1, <1>3, <1>4, <1>5, <1>6
<1>9. ASSUME NEW d \in Clients \ {c}
      PROVE  LinkOk(d)'
  <2>1. Position(d)' = Position(d)
    BY <1>6 DEF Position
  <2> QED
    BY <1>0, <1>1, <1>5, <1>6, <2>1 DEF LinkInv, LinkOk
<1>10. LinkInv'
  BY <1>1, <1>4, <1>7, <1>8, <1>9 DEF LinkInv, LinkOk
<1>11. ASSUME NEW d \in Clients
       PROVE  ScreenOk(d)'
  <2>1. CASE d = c
    BY <1>6, <2>1
  <2>2. CASE d # c
    BY <1>0, <1>1, <1>6, <2>2 DEF ScreenInv, ScreenOk
  <2> QED
    BY <2>1, <2>2
<1> QED
  BY <1>10, <1>11 DEF ScreenInv, ScreenOk

\* Every step keeps the sockets' and the screens' part of the invariant.
LEMMA ClientStep ==
  ASSUME TerminalStreamInv, [Next]_vars
  PROVE  LinkInv' /\ ScreenInv'
<1>0. TypeOK /\ LinkInv /\ ScreenInv
  BY DEF TerminalStreamInv, HubInv
<1>1. UNCHANGED viewVars => ScreenInv'
  BY <1>0 DEF viewVars, ScreenInv, ScreenOk
<1>2. CASE RawOpen \/ RawClose \/ Parse \/ UNCHANGED vars
  <2>1. UNCHANGED <<ring, subscribed, inbox, viewVars>>
    BY <1>2 DEF RawOpen, RawClose, Parse, vars, hubVars, wireVars
  <2> QED
    BY <1>0, <1>1, <2>1, StillLink DEF RingSeq, viewVars
<1>3. CASE AppendChunk
  BY <1>1, <1>3, AppendLink DEF AppendChunk
<1>4. CASE Register \/ StartWs
  <2>1. UNCHANGED <<subscribed, inbox, viewVars>> /\ (EnsureTerminal \/ ring' = ring)
    BY <1>4 DEF Register, StartWs, wireVars
  <2>2. RingSeq' = RingSeq
    BY <1>0, <2>1, RingKept DEF RingSeq
  <2> QED
    BY <1>0, <1>1, <2>1, <2>2, StillLink DEF viewVars
<1>5. CASE Remove
  <2>1. UNCHANGED <<inbox, viewVars>> /\ subscribed' = {}
    BY <1>5 DEF Remove, wireVars
  <2> QED
    BY <1>0, <1>1, <2>1 DEF LinkInv, LinkOk, Position, viewVars
<1>6. CASE Restart
  <2>1. /\ UNCHANGED viewVars /\ subscribed' = {}
        /\ \A c \in Clients : inbox'[c] = <<>> /\ Len(inbox'[c]) = 0
    BY <1>6 DEF Restart
  <2> QED
    BY <1>1, <2>1 DEF LinkInv, LinkOk, Chained, Follows
<1>7. ASSUME NEW c \in Clients, HubSubscribe(c)
      PROVE  LinkInv' /\ ScreenInv'
  <2>1. UNCHANGED viewVars
    BY <1>7 DEF HubSubscribe
  <2>2. CASE live = "live"
    BY <1>1, <1>7, <2>1, <2>2, SubscribeLink
  <2>3. CASE live # "live"
    <3>1. UNCHANGED <<ring, inbox>> /\ subscribed' \subseteq subscribed
      BY <1>7, <2>3 DEF HubSubscribe
    <3> QED
      BY <1>0, <1>1, <2>1, <3>1, StillLink DEF RingSeq, viewVars
  <2> QED
    BY <2>2, <2>3
<1>8. ASSUME NEW c \in Clients, HubUnsubscribe(c) \/ Connect(c)
      PROVE  LinkInv' /\ ScreenInv'
  <2>1. UNCHANGED <<ring, inbox, viewVars>> /\ subscribed' \subseteq subscribed
    BY <1>8 DEF HubUnsubscribe, Connect, hubVars
  <2> QED
    BY <1>0, <1>1, <2>1, StillLink DEF RingSeq, viewVars
<1>9. ASSUME NEW c \in Clients, Disconnect(c)
      PROVE  LinkInv' /\ ScreenInv'
  <2>1. /\ UNCHANGED <<ring, viewVars>> /\ subscribed' = subscribed \ {c}
        /\ inbox'[c] = <<>> /\ \A d \in Clients \ {c} : inbox'[d] = inbox[d]
    BY <1>0, <1>9 DEF Disconnect, TypeOK
  <2>2. Len(inbox'[c]) = 0 /\ RingSeq' = RingSeq
    BY <2>1 DEF RingSeq
  <2>3. \A d \in Clients : Position(d)' = Position(d) /\ base'[d] = base[d]
    BY <2>1 DEF viewVars, Position
  <2>4. ASSUME NEW d \in Clients
        PROVE  LinkOk(d)'
    <3>1. CASE d = c
      BY <2>1, <2>2, <3>1 DEF LinkOk, Chained, Follows
    <3>2. CASE d # c
      BY <1>0, <2>1, <2>2, <2>3, <3>2 DEF LinkInv, LinkOk
    <3> QED
      BY <3>1, <3>2
  <2> QED
    BY <1>1, <2>1, <2>4 DEF LinkInv, LinkOk
<1> QED
  BY <1>2, <1>3, <1>4, <1>5, <1>6, <1>7, <1>8, <1>9, ResetLink, ReceiveStep DEF Next

-----------------------------------------------------------------------------
(* Theorems                                                                *)

\* The inductive invariant: what the terminal was given, what is under way and
\* what is on the screens.
THEOREM TerminalStreamInvariant == Spec => []TerminalStreamInv
<1>1. Init => TerminalStreamInv
  <2> SUFFICES ASSUME Init
               PROVE  TerminalStreamInv
    OBVIOUS
  <2>1. \A c \in Clients : /\ inbox[c] = <<>> /\ Len(inbox[c]) = 0 /\ base[c] = None
                            /\ view[c] = <<>> /\ Len(view[c]) = 0 /\ c \notin subscribed
    BY DEF Init
  <2>2. LinkInv /\ ScreenInv
    BY <2>1 DEF LinkInv, LinkOk, ScreenInv, ScreenOk, Chained, Rises
  <2> QED
    BY <2>2, HubInit DEF TerminalStreamInv
<1>2. TerminalStreamInv /\ [Next]_vars => TerminalStreamInv'
  BY HubStep, ClientStep DEF TerminalStreamInv
<1> QED
  BY <1>1, <1>2, PTL DEF Spec

\* Every variable keeps its type; a tap listener belongs to an open socket.
THEOREM TypeCorrect == Spec => []TypeOK
<1>1. TerminalStreamInv => TypeOK
  BY DEF TerminalStreamInv, HubInv
<1> QED
  BY <1>1, TerminalStreamInvariant, PTL

\* Once the WebSocket server is up there is a terminal exactly for a registered
\* session (wire.ts ensureTerminal, at its three callers).
THEOREM TerminalsMatchSessions == Spec => []TerminalPerSession
<1>1. TerminalStreamInv => TerminalPerSession
  BY DEF TerminalStreamInv, HubInv
<1> QED
  BY <1>1, TerminalStreamInvariant, PTL

\* No screen shows a chunk twice or out of order.
THEOREM ScreensInOrder == Spec => []ViewInOrder
<1>1. TerminalStreamInv => ViewInOrder
  <2> SUFFICES ASSUME TerminalStreamInv, NEW c \in Clients
               PROVE  \A i, j \in DOMAIN view[c] : i < j => view[c][i] < view[c][j]
    BY DEF ViewInOrder
  <2>1. Rises(view[c]) /\ view[c] \in Seq(Seqs)
    BY ClientTypes DEF TerminalStreamInv, HubInv, ScreenInv, ScreenOk
  <2>2. DOMAIN view[c] = 1 .. Len(view[c])
    BY <2>1
  <2> QED
    BY <2>1, <2>2 DEF Rises
<1> QED
  BY <1>1, TerminalStreamInvariant, PTL

\* Snapshot and subscription leave no gap: from the snapshot on, the screen has
\* every chunk up to the last one the client accepted, across unsubscribing,
\* reconnecting and restarts of the numbering.
THEOREM ScreensWithoutHole == Spec => []NoHoleAfterSnapshot
<1>1. TerminalStreamInv => NoHoleAfterSnapshot
  <2> SUFFICES ASSUME TerminalStreamInv, NEW c \in Clients, base[c] # None,
                      NEW n \in base[c] + 1 .. seqRef[c]
               PROVE  \E i \in DOMAIN view[c] : view[c][i] = n
    BY DEF NoHoleAfterSnapshot
  <2>1. view[c] \in Seq(Seqs)
    BY ClientTypes DEF TerminalStreamInv, HubInv
  <2>2. DOMAIN view[c] = 1 .. Len(view[c])
    BY <2>1
  <2>3. \E i \in 1 .. Len(view[c]) : view[c][i] = n
    BY DEF TerminalStreamInv, ScreenInv, ScreenOk
  <2> QED
    BY <2>2, <2>3
<1> QED
  BY <1>1, TerminalStreamInvariant, PTL

\* The safety half of ChunksArrive: when nothing is under way to a subscribed
\* client that has shown a snapshot, its screen has every chunk the hub has
\* taken since that snapshot. So a chunk is never left behind for good: what
\* is missing on a screen is on its way to it.
QuietScreenIsCurrent ==
  \A c \in subscribed :
    inbox[c] = <<>> /\ base[c] # None =>
      \A n \in base[c] + 1 .. RingSeq : \E i \in DOMAIN view[c] : view[c][i] = n

\* Nothing is missing on a screen to which nothing is under way.
THEOREM QuietScreensAreCurrent == Spec => []QuietScreenIsCurrent
<1>1. TerminalStreamInv => QuietScreenIsCurrent
  <2> SUFFICES ASSUME TerminalStreamInv, NEW c \in subscribed,
                      inbox[c] = <<>>, base[c] # None,
                      NEW n \in base[c] + 1 .. RingSeq
               PROVE  \E i \in DOMAIN view[c] : view[c][i] = n
    BY DEF QuietScreenIsCurrent
  <2>1. TypeOK /\ c \in Clients
    BY DEF TerminalStreamInv, HubInv, TypeOK
  <2>2. /\ view[c] \in Seq(Seqs) /\ seqRef[c] \in Nat /\ base[c] \in Nat
        /\ RingSeq \in Nat
    BY <2>1, ClientTypes, BoundsAreNat DEF TerminalStreamInv, HubInv, TypeOK, Seqs, RingSeq
  <2>3. RingSeq <= Position(c)
    BY <2>1 DEF TerminalStreamInv, LinkInv, LinkOk
  <2>4. n \in base[c] + 1 .. seqRef[c]
    BY <2>2, <2>3 DEF Position
  <2>5. DOMAIN view[c] = 1 .. Len(view[c])
    BY <2>2
  <2> QED
    BY <2>1, <2>4, <2>5 DEF TerminalStreamInv, ScreenInv, ScreenOk
<1> QED
  BY <1>1, TerminalStreamInvariant, PTL

=============================================================================
