--------------------------- MODULE CliStreamsProofs ---------------------------
(***************************************************************************)
(* Proofs about CliStreams, for any size of the uplink's queue and buffer: *)
(* the output reaches the hub in order, and a queued chunk always has a    *)
(* flush coming; accepted input is on an open connection; a pause report   *)
(* that is sent alone counts.  They hold beside the trackers of            *)
(* ModeTrackers as well, whose steps are steps of CliStreams or leave it   *)
(* alone.                                                                  *)
(***************************************************************************)
EXTENDS ModeTrackers, TLAPS

-----------------------------------------------------------------------------
(* Rising sequences of numbers                                             *)

Ran(s) == {s[i] : i \in 1 .. Len(s)}

Rising(s) == \A i, j \in 1 .. Len(s) : i < j => s[i] < s[j]

Below(a, b) == \A x \in Ran(a), y \in Ran(b) : x < y

LEMMA RanNat ==
  ASSUME NEW s \in Seq(Nat)
  PROVE  Ran(s) \subseteq Nat
BY DEF Ran

LEMMA ConcatRising ==
  ASSUME NEW a \in Seq(Nat), NEW b \in Seq(Nat)
  PROVE  /\ a \o b \in Seq(Nat)
         /\ Ran(a \o b) = Ran(a) \cup Ran(b)
         /\ Rising(a) /\ Rising(b) /\ Below(a, b) => Rising(a \o b)
<1>1. /\ a \o b \in Seq(Nat)
      /\ Len(a \o b) = Len(a) + Len(b)
      /\ \A i \in 1 .. Len(a) : (a \o b)[i] = a[i]
      /\ \A i \in 1 .. Len(b) : (a \o b)[Len(a) + i] = b[i]
  OBVIOUS
<1>2. \A i \in 1 .. Len(a \o b) :
        i \in 1 .. Len(a) \/ \E k \in 1 .. Len(b) : i = Len(a) + k
  <2> TAKE i \in 1 .. Len(a \o b)
  <2>1. CASE i > Len(a)
    <3>1. i - Len(a) \in 1 .. Len(b) /\ i = Len(a) + (i - Len(a))
      BY <1>1, <2>1
    <3> QED
      BY <3>1
  <2>2. CASE i <= Len(a)
    BY <2>2, <1>1
  <2> QED
    BY <1>1, <2>1, <2>2
<1>3. Ran(a \o b) = Ran(a) \cup Ran(b)
  <2>1. \A x \in Ran(a \o b) : x \in Ran(a) \cup Ran(b)
    BY <1>1, <1>2 DEF Ran
  <2>2. \A x \in Ran(a) : x \in Ran(a \o b)
    BY <1>1 DEF Ran
  <2>3. \A x \in Ran(b) : x \in Ran(a \o b)
    <3> TAKE x \in Ran(b)
    <3>1. PICK k \in 1 .. Len(b) : x = b[k]
      BY DEF Ran
    <3>2. Len(a) + k \in 1 .. Len(a \o b) /\ (a \o b)[Len(a) + k] = x
      BY <1>1, <3>1
    <3> QED
      BY <3>2 DEF Ran
  <2> QED
    BY <2>1, <2>2, <2>3
<1>4. ASSUME Rising(a), Rising(b), Below(a, b),
             NEW i \in 1 .. Len(a \o b), NEW j \in 1 .. Len(a \o b), i < j
      PROVE  (a \o b)[i] < (a \o b)[j]
  <2>1. CASE j \in 1 .. Len(a)
    <3>1. i \in 1 .. Len(a)
      BY <1>4, <2>1
    <3> QED
      BY <1>1, <1>4, <2>1, <3>1 DEF Rising
  <2>2. ASSUME NEW l \in 1 .. Len(b), j = Len(a) + l
        PROVE  (a \o b)[i] < (a \o b)[j]
    <3>1. CASE i \in 1 .. Len(a)
      BY <1>1, <1>4, <2>2, <3>1 DEF Below, Ran
    <3>2. ASSUME NEW k \in 1 .. Len(b), i = Len(a) + k
          PROVE  (a \o b)[i] < (a \o b)[j]
      <4>1. k < l
        BY <1>4, <2>2, <3>2
      <4> QED
        BY <1>1, <1>4, <2>2, <3>2, <4>1 DEF Rising
    <3> QED
      BY <1>2, <3>1, <3>2
  <2> QED
    BY <1>2, <2>1, <2>2
<1> QED
  BY <1>1, <1>3, <1>4 DEF Rising

LEMMA SubSeqRising ==
  ASSUME NEW s \in Seq(Nat), NEW m \in 1 .. Len(s) + 1, NEW n \in 0 .. Len(s)
  PROVE  /\ SubSeq(s, m, n) \in Seq(Nat)
         /\ Len(SubSeq(s, m, n)) = IF m <= n THEN n - m + 1 ELSE 0
         /\ Ran(SubSeq(s, m, n)) \subseteq Ran(s)
         /\ Rising(s) => Rising(SubSeq(s, m, n))
<1>1. /\ SubSeq(s, m, n) \in Seq(Nat)
      /\ Len(SubSeq(s, m, n)) = IF m <= n THEN n - m + 1 ELSE 0
      /\ \A i \in 1 .. Len(SubSeq(s, m, n)) :
           /\ m + i - 1 \in 1 .. Len(s)
           /\ SubSeq(s, m, n)[i] = s[m + i - 1]
  OBVIOUS
<1>2. Ran(SubSeq(s, m, n)) \subseteq Ran(s)
  BY <1>1 DEF Ran
<1>3. ASSUME Rising(s),
             NEW i \in 1 .. Len(SubSeq(s, m, n)),
             NEW j \in 1 .. Len(SubSeq(s, m, n)), i < j
      PROVE  SubSeq(s, m, n)[i] < SubSeq(s, m, n)[j]
  <2>1. m + i - 1 < m + j - 1
    BY <1>3
  <2> QED
    BY <1>1, <1>3, <2>1 DEF Rising
<1> QED
  BY <1>1, <1>2, <1>3 DEF Rising

LEMMA SplitBelow ==
  ASSUME NEW s \in Seq(Nat), NEW k \in 0 .. Len(s), Rising(s)
  PROVE  Below(SubSeq(s, 1, k), SubSeq(s, k + 1, Len(s)))
<1>1. \A i \in 1 .. Len(SubSeq(s, 1, k)) :
        i \in 1 .. k /\ SubSeq(s, 1, k)[i] = s[i]
  OBVIOUS
<1>2. \A i \in 1 .. Len(SubSeq(s, k + 1, Len(s))) :
        /\ k + i \in k + 1 .. Len(s)
        /\ SubSeq(s, k + 1, Len(s))[i] = s[k + i]
  OBVIOUS
<1>3. \A x \in Ran(SubSeq(s, 1, k)) : \E i \in 1 .. k : x = s[i]
  BY <1>1 DEF Ran
<1>4. \A x \in Ran(SubSeq(s, k + 1, Len(s))) : \E i \in k + 1 .. Len(s) : x = s[i]
  BY <1>2 DEF Ran
<1> QED
  BY <1>3, <1>4 DEF Below, Rising

LEMMA AppendRising ==
  ASSUME NEW s \in Seq(Nat), NEW n \in Nat
  PROVE  /\ Append(s, n) \in Seq(Nat)
         /\ Ran(Append(s, n)) = Ran(s) \cup {n}
         /\ Rising(s) /\ (\A x \in Ran(s) : x < n) => Rising(Append(s, n))
<1>1. <<n>> \in Seq(Nat) /\ Ran(<<n>>) = {n} /\ Rising(<<n>>)
  BY DEF Ran, Rising
<1>2. Append(s, n) = s \o <<n>>
  OBVIOUS
<1> QED
  BY <1>1, <1>2, ConcatRising DEF Below

LEMMA HeadTail ==
  ASSUME NEW s \in Seq(Nat), s # <<>>
  PROVE  /\ Head(s) \in Ran(s) /\ Head(s) \in Nat
         /\ Tail(s) \in Seq(Nat)
         /\ Ran(Tail(s)) \subseteq Ran(s)
         /\ Rising(s) => /\ Rising(Tail(s))
                         /\ \A x \in Ran(Tail(s)) : Head(s) < x
<1>1. /\ Len(s) \in Nat /\ Len(s) >= 1
      /\ Head(s) = s[1] /\ s[1] \in Nat
      /\ Tail(s) \in Seq(Nat) /\ Len(Tail(s)) = Len(s) - 1
      /\ \A i \in 1 .. Len(Tail(s)) :
           i + 1 \in 2 .. Len(s) /\ Tail(s)[i] = s[i + 1]
  OBVIOUS
<1>2. Head(s) \in Ran(s) /\ Ran(Tail(s)) \subseteq Ran(s)
  BY <1>1 DEF Ran
<1>3. ASSUME Rising(s)
      PROVE  Rising(Tail(s)) /\ \A x \in Ran(Tail(s)) : Head(s) < x
  <2>1. ASSUME NEW i \in 1 .. Len(Tail(s)), NEW j \in 1 .. Len(Tail(s)), i < j
        PROVE  Tail(s)[i] < Tail(s)[j]
    <3>1. i + 1 < j + 1 /\ i + 1 \in 1 .. Len(s) /\ j + 1 \in 1 .. Len(s)
      BY <1>1, <2>1
    <3> QED
      BY <1>1, <1>3, <3>1 DEF Rising
  <2>2. ASSUME NEW i \in 1 .. Len(Tail(s))
        PROVE  s[1] < Tail(s)[i]
    <3>1. 1 < i + 1 /\ i + 1 \in 1 .. Len(s) /\ 1 \in 1 .. Len(s)
      BY <1>1
    <3> QED
      BY <1>1, <1>3, <3>1 DEF Rising
  <2> QED
    BY <1>1, <2>1, <2>2 DEF Rising, Ran
<1> QED
  BY <1>1, <1>2, <1>3

LEMMA EmptyRising ==
  /\ <<>> \in Seq(Nat) /\ Rising(<<>>) /\ Ran(<<>>) = {}
BY DEF Ran, Rising

-----------------------------------------------------------------------------
(* The queue and the request's buffer                                      *)

(* The uplink's two stores: what the buffer holds is older.                *)
Stored(q, b) ==
  /\ q \in Seq(Nat) /\ b \in Seq(Nat)
  /\ Rising(q) /\ Rising(b) /\ Below(b, q)

LEMMA NewestRising ==
  ASSUME NEW q \in Seq(Nat)
  PROVE  /\ Newest(q) \in Seq(Nat)
         /\ Len(Newest(q)) <= QueueMax
         /\ Ran(Newest(q)) \subseteq Ran(q)
         /\ Rising(q) => Rising(Newest(q))
<1>1. /\ Len(q) \in Nat /\ QueueMax \in Nat
      /\ MinOf(Len(q), QueueMax) \in 0 .. Len(q)
      /\ MinOf(Len(q), QueueMax) <= QueueMax
  BY SizesAssumption DEF MinOf
<1>2. /\ Len(q) - MinOf(Len(q), QueueMax) + 1 \in 1 .. Len(q) + 1
      /\ Len(q) \in 0 .. Len(q)
  BY <1>1
<1> QED
  BY <1>1, <1>2, SubSeqRising DEF Newest

(* flushQueue moves the oldest chunks of the queue to the buffer.          *)
LEMMA FlushedStored ==
  ASSUME NEW q, NEW b, Stored(q, b), NEW n \in Nat
  PROVE  LET f == Flushed(q, b, n)
         IN  /\ Stored(f.queue, f.buf)
             /\ Ran(f.queue) \subseteq Ran(q)
             /\ Ran(f.buf) \subseteq Ran(b) \cup Ran(q)
             /\ Len(f.queue) <= Len(q)
             /\ f.waits \in Nat
<1> DEFINE room == IF Len(b) < Buffer THEN Buffer - Len(b) ELSE 1
           k == MinOf(Len(q), room + n - 1)
           front == SubSeq(q, 1, k)
           back == SubSeq(q, k + 1, Len(q))
<1>1. q \in Seq(Nat) /\ b \in Seq(Nat) /\ Rising(q) /\ Rising(b) /\ Below(b, q)
  BY DEF Stored
<1>2. Len(q) \in Nat /\ Len(b) \in Nat /\ room \in Nat /\ room >= 1
  BY <1>1, SizesAssumption
<1> HIDE DEF room
<1>3. k \in 0 .. Len(q)
  BY <1>2 DEF MinOf
<1>4. Flushed(q, b, n) =
        [queue |-> back, buf |-> b \o front,
         waits |-> IF k < room THEN 0 ELSE k - room + 1]
  BY DEF Flushed, room
<1> HIDE DEF k
<1>5. 1 \in 1 .. Len(q) + 1 /\ k + 1 \in 1 .. Len(q) + 1 /\ Len(q) \in 0 .. Len(q)
  BY <1>2, <1>3
<1>6. /\ front \in Seq(Nat) /\ Rising(front) /\ Ran(front) \subseteq Ran(q)
      /\ back \in Seq(Nat) /\ Rising(back) /\ Ran(back) \subseteq Ran(q)
      /\ Len(back) <= Len(q)
      /\ Below(front, back)
  <2>1. front \in Seq(Nat) /\ Rising(front) /\ Ran(front) \subseteq Ran(q)
    BY <1>1, <1>3, <1>5, SubSeqRising
  <2>2. /\ back \in Seq(Nat) /\ Rising(back) /\ Ran(back) \subseteq Ran(q)
        /\ Len(back) = IF k + 1 <= Len(q) THEN Len(q) - (k + 1) + 1 ELSE 0
    BY <1>1, <1>5, SubSeqRising
  <2>3. Below(front, back)
    BY <1>1, <1>3, SplitBelow
  <2> QED
    BY <1>2, <1>3, <2>1, <2>2, <2>3
<1> HIDE DEF front, back
<1>7. /\ b \o front \in Seq(Nat) /\ Ran(b \o front) = Ran(b) \cup Ran(front)
      /\ Rising(b \o front)
      /\ Below(b \o front, back)
  <2>1. Below(b, front)
    BY <1>1, <1>6 DEF Below
  <2>2. /\ b \o front \in Seq(Nat) /\ Ran(b \o front) = Ran(b) \cup Ran(front)
        /\ Rising(b \o front)
    BY <1>1, <1>6, <2>1, ConcatRising
  <2>3. Below(b \o front, back)
    BY <1>1, <1>6, <2>2 DEF Below
  <2> QED
    BY <2>2, <2>3
<1>8. (IF k < room THEN 0 ELSE k - room + 1) \in Nat
  BY <1>2, <1>3
<1> QED
  BY <1>4, <1>6, <1>7, <1>8 DEF Stored

-----------------------------------------------------------------------------
(* The output is in order                                                  *)

(* The four places of a chunk, each in order and older than the next; no   *)
(* chunk is newer than the last one written.                               *)
UplinkInv ==
  /\ written \in Nat /\ waits \in Nat
  /\ got \in Seq(Nat) /\ pipe \in Seq(Nat)
  /\ Rising(got) /\ Rising(pipe) /\ Below(got, pipe)
  /\ Stored(queue, buf)
  /\ \A x \in Ran(got) \cup Ran(pipe) : \A y \in Ran(buf) \cup Ran(queue) : x < y
  /\ \A x \in Ran(got) \cup Ran(pipe) \cup Ran(buf) \cup Ran(queue) : x <= written

LEMMA UplinkInOrder == UplinkInv => OutputInOrder
<1> SUFFICES ASSUME UplinkInv
             PROVE  OutputInOrder
  OBVIOUS
<1> USE DEF UplinkInv, Stored, Below
<1>1. /\ got \o pipe \in Seq(Nat) /\ Rising(got \o pipe)
      /\ Ran(got \o pipe) = Ran(got) \cup Ran(pipe)
  BY ConcatRising
<1>2. /\ got \o pipe \o buf \in Seq(Nat) /\ Rising(got \o pipe \o buf)
      /\ Ran(got \o pipe \o buf) = Ran(got) \cup Ran(pipe) \cup Ran(buf)
  BY <1>1, ConcatRising
<1>3. Rising(got \o pipe \o buf \o queue)
  BY <1>2, ConcatRising
<1> QED
  BY <1>3 DEF OutputInOrder, Rising

(* The CLI changes its queue and its buffer only.                          *)
LEMMA SenderKeepsOrder ==
  ASSUME UplinkInv, got' = got, pipe' = pipe,
         written' \in {written, written + 1}, waits' \in Nat,
         Stored(queue', buf'),
         \A x \in Ran(buf') \cup Ran(queue') :
           x \in Ran(buf) \cup Ran(queue) \/ (x = written + 1 /\ x = written')
  PROVE  UplinkInv'
<1>1. \A x \in Ran(got) \cup Ran(pipe) : x <= written /\ x \in Nat
  BY RanNat DEF UplinkInv
<1>2. \A x \in Ran(buf') \cup Ran(queue') : x <= written' /\ x \in Nat
  <2> TAKE x \in Ran(buf') \cup Ran(queue')
  <2>1. written \in Nat /\ buf' \in Seq(Nat) /\ queue' \in Seq(Nat)
    BY DEF UplinkInv, Stored
  <2>2. x \in Nat
    BY <2>1, RanNat
  <2>3. x <= written \/ x = written'
    BY DEF UplinkInv
  <2> QED
    BY <2>1, <2>2, <2>3
<1>3. \A x \in Ran(got) \cup Ran(pipe), y \in Ran(buf') \cup Ran(queue') : x < y
  BY <1>1 DEF UplinkInv
<1> QED
  BY <1>1, <1>2, <1>3 DEF UplinkInv

(* Nothing but a piece at the end of the way is lost, or all that is there. *)
LEMMA LossKeepsOrder ==
  ASSUME UplinkInv, written' = written, waits' \in Nat, got' = got,
         pipe' \in {pipe, <<>>}, buf' \in {buf, <<>>}, queue' \in {queue, <<>>}
  PROVE  UplinkInv'
<1>1. /\ pipe' \in Seq(Nat) /\ Rising(pipe') /\ Ran(pipe') \subseteq Ran(pipe)
      /\ buf' \in Seq(Nat) /\ Rising(buf') /\ Ran(buf') \subseteq Ran(buf)
      /\ queue' \in Seq(Nat) /\ Rising(queue') /\ Ran(queue') \subseteq Ran(queue)
  BY EmptyRising DEF UplinkInv, Stored
<1> QED
  BY <1>1 DEF UplinkInv, Stored, Below

LEMMA UplinkStep ==
  ASSUME UplinkInv, [Next]_vars
  PROVE  UplinkInv'
<1>1. CASE WriteChunk
  <2> DEFINE q == Newest(Append(queue, written'))
  <2>1. written' = written + 1 /\ got' = got /\ pipe' = pipe
    BY <1>1 DEF WriteChunk
  <2>2. written \in Nat /\ written' \in Nat /\ queue \in Seq(Nat)
        /\ buf \in Seq(Nat) /\ waits \in Nat
    BY <2>1 DEF UplinkInv, Stored
  <2>3. \A x \in Ran(buf) \cup Ran(queue) : x < written' /\ x \in Nat
    BY <2>1, <2>2, RanNat DEF UplinkInv
  <2>4. /\ Append(queue, written') \in Seq(Nat)
        /\ Ran(Append(queue, written')) = Ran(queue) \cup {written'}
        /\ Rising(Append(queue, written'))
    BY <2>2, <2>3, AppendRising DEF UplinkInv, Stored
  <2>5. q \in Seq(Nat) /\ Rising(q) /\ Ran(q) \subseteq Ran(queue) \cup {written'}
    BY <2>4, NewestRising
  <2>6. Stored(q, buf)
    BY <2>2, <2>3, <2>5 DEF UplinkInv, Stored, Below
  <2> HIDE DEF q
  <2>7. CASE req = "open"
    <3>1. /\ queue' = Flushed(q, buf, 1).queue /\ buf' = Flushed(q, buf, 1).buf
          /\ waits' = waits + Flushed(q, buf, 1).waits
      BY <1>1, <2>7 DEF WriteChunk, Flush, q
    <3>2. /\ Stored(queue', buf') /\ waits' \in Nat
          /\ Ran(queue') \subseteq Ran(q) /\ Ran(buf') \subseteq Ran(buf) \cup Ran(q)
      BY <2>2, <2>6, <3>1, FlushedStored
    <3> QED
      BY <2>1, <2>5, <3>2, SenderKeepsOrder
  <2>8. CASE req # "open"
    <3>1. queue' = q /\ buf' = buf /\ waits' = waits
      BY <1>1, <2>8 DEF WriteChunk, q
    <3> QED
      BY <2>1, <2>2, <2>5, <2>6, <3>1, SenderKeepsOrder
  <2> QED
    BY <2>7, <2>8
<1>2. CASE Send
  <2> DEFINE rest == Tail(buf)
             here == IF link THEN Append(pipe, Head(buf)) ELSE pipe
  <2>1. /\ written' = written /\ got' = got /\ buf # <<>>
        /\ pipe' = here
        /\ \/ /\ Len(buf) = 1
              /\ queue' = Flushed(queue, <<>>, waits).queue
              /\ buf' = Flushed(queue, <<>>, waits).buf
              /\ waits' = 0 + Flushed(queue, <<>>, waits).waits
           \/ buf' = rest /\ queue' = queue /\ waits' = waits
    BY <1>2 DEF Send, Flush
  <2>2. /\ Head(buf) \in Ran(buf) /\ Head(buf) \in Nat
        /\ rest \in Seq(Nat) /\ Rising(rest) /\ Ran(rest) \subseteq Ran(buf)
        /\ \A x \in Ran(rest) : Head(buf) < x
    BY <2>1, HeadTail DEF UplinkInv, Stored
  <2>3. /\ here \in Seq(Nat) /\ Rising(here)
        /\ Ran(here) \subseteq Ran(pipe) \cup {Head(buf)}
    BY <2>2, AppendRising DEF UplinkInv
  <2>4. /\ Stored(queue', buf') /\ waits' \in Nat
        /\ Ran(queue') \subseteq Ran(queue)
        /\ Ran(buf') \subseteq Ran(rest) \cup Ran(queue)
    <3>1. CASE buf' = rest /\ queue' = queue /\ waits' = waits
      BY <2>2, <3>1 DEF UplinkInv, Stored, Below
    <3>2. CASE /\ queue' = Flushed(queue, <<>>, waits).queue
               /\ buf' = Flushed(queue, <<>>, waits).buf
               /\ waits' = 0 + Flushed(queue, <<>>, waits).waits
      <4>1. Stored(queue, <<>>) /\ waits \in Nat
        BY EmptyRising DEF UplinkInv, Stored, Below
      <4> QED
        BY <3>2, <4>1, EmptyRising, FlushedStored
    <3> QED
      BY <2>1, <3>1, <3>2
  <2> HIDE DEF rest, here
  <2>5. \A y \in Ran(rest) \cup Ran(queue) :
          Head(buf) < y /\ \A x \in Ran(got) \cup Ran(pipe) : x < y
    BY <2>2 DEF UplinkInv, Stored, Below
  <2>6. \A x \in Ran(got) : x < Head(buf)
    BY <2>2 DEF UplinkInv
  <2>7. Below(got, here)
    BY <2>3, <2>6 DEF UplinkInv, Below
  <2>8. \A x \in Ran(got) \cup Ran(here) : \A y \in Ran(buf') \cup Ran(queue') : x < y
    BY <2>3, <2>4, <2>5
  <2>9. \A x \in Ran(here) \cup Ran(buf') \cup Ran(queue') : x <= written
    BY <2>2, <2>3, <2>4 DEF UplinkInv
  <2> QED
    BY <2>1, <2>3, <2>4, <2>7, <2>8, <2>9 DEF UplinkInv
<1>3. CASE Receive
  <2>1. /\ pipe # <<>> /\ pipe' = Tail(pipe)
        /\ got' = IF known THEN Append(got, Head(pipe)) ELSE got
        /\ UNCHANGED <<written, waits, buf, queue>>
    BY <1>3 DEF Receive, sendVars
  <2>2. /\ Head(pipe) \in Ran(pipe) /\ Head(pipe) \in Nat
        /\ pipe' \in Seq(Nat) /\ Rising(pipe') /\ Ran(pipe') \subseteq Ran(pipe)
        /\ \A x \in Ran(pipe') : Head(pipe) < x
    BY <2>1, HeadTail DEF UplinkInv
  <2>3. /\ got' \in Seq(Nat) /\ Rising(got')
        /\ Ran(got') \subseteq Ran(got) \cup {Head(pipe)}
    BY <2>1, <2>2, AppendRising DEF UplinkInv, Below
  <2> QED
    BY <2>1, <2>2, <2>3 DEF UplinkInv, Below
<1>4. CASE Connect
  <2>1. /\ written' = written /\ got' = got /\ pipe' = pipe
        /\ queue' = Flushed(queue, buf, 1).queue
        /\ buf' = Flushed(queue, buf, 1).buf
        /\ waits' = waits + Flushed(queue, buf, 1).waits
    BY <1>4 DEF Connect, Flush
  <2>2. Stored(queue, buf) /\ waits \in Nat
    BY DEF UplinkInv
  <2>3. /\ Stored(queue', buf') /\ waits' \in Nat
        /\ Ran(queue') \subseteq Ran(queue)
        /\ Ran(buf') \subseteq Ran(buf) \cup Ran(queue)
    BY <2>1, <2>2, FlushedStored
  <2> QED
    BY <2>1, <2>3, SenderKeepsOrder
<1>5. CASE Teardown \/ Reopen \/ RequestTimeout \/ Shutdown \/ HubStops
  <2>1. waits \in Nat
    BY DEF UplinkInv
  <2> QED
    BY <1>5, <2>1, LossKeepsOrder
       DEF Teardown, Reopen, RequestTimeout, Shutdown, HubStops, sendVars
<1>6. CASE UNCHANGED upVars
  BY <1>6 DEF upVars, sendVars, UplinkInv
<1>7. Next \/ UNCHANGED vars =>
        \/ WriteChunk \/ Send \/ Receive \/ Connect
        \/ Teardown \/ Reopen \/ RequestTimeout \/ Shutdown \/ HubStops
        \/ UNCHANGED upVars
  BY DEF Next, LinkStep, vars, Attach, AttachFails, Relisten, Detach, Type,
         Inject, Input, Flip, Poll, Report, HubStarts
<1> QED
  BY <1>1, <1>2, <1>3, <1>4, <1>5, <1>6, <1>7

LEMMA UplinkInit ==
  ASSUME Init
  PROVE  UplinkInv
BY EmptyRising DEF Init, UplinkInv, Stored, Below

(* The hub gets the output in order, and no chunk twice.                   *)
THEOREM OutputArrivesInOrder == Spec => []OutputInOrder
<1>1. Init => UplinkInv
  BY UplinkInit
<1>2. UplinkInv /\ [Next]_vars => UplinkInv'
  BY UplinkStep
<1> QED
  BY <1>1, <1>2, UplinkInOrder, PTL DEF Spec

(* The same with the mode trackers beside the links.                       *)
LEMMA ModeStepIsLinkStep == [ModeNext]_modeTrackerVars => [Next]_vars
BY DEF ModeNext, Next, modeTrackerVars, LoseTrackers, Output, Redraw, Toggle,
       Turn, Observe, IngestHook, ReadModeLine, vars

THEOREM ModeOutputArrivesInOrder == ModeSpec => []OutputInOrder
<1>1. ModeInit => UplinkInv
  BY UplinkInit DEF ModeInit
<1>2. UplinkInv /\ [ModeNext]_modeTrackerVars => UplinkInv'
  BY UplinkStep, ModeStepIsLinkStep
<1> QED
  BY <1>1, <1>2, UplinkInOrder, PTL DEF ModeSpec

-----------------------------------------------------------------------------
(* Type correctness                                                        *)

LEMMA SeqOfMore ==
  ASSUME NEW S, NEW T, S \subseteq T, NEW s \in Seq(S)
  PROVE  s \in Seq(T)
<1>1. Len(s) \in Nat /\ s = [i \in 1 .. Len(s) |-> s[i]]
  OBVIOUS
<1>2. \A i \in 1 .. Len(s) : s[i] \in T
  OBVIOUS
<1> QED
  BY <1>1, <1>2

LEMMA SeqTypes ==
  ASSUME NEW T
  PROVE  /\ <<>> \in Seq(T)
         /\ \A s \in Seq(T), x \in T : Append(s, x) \in Seq(T)
         /\ \A s \in Seq(T) : s # <<>> => Head(s) \in T /\ Tail(s) \in Seq(T)
OBVIOUS

LEMMA NotEmpty ==
  ASSUME NEW s, Len(s) # 0
  PROVE  s # <<>>
<1>1. Len(<<>>) = 0
  OBVIOUS
<1> QED
  BY <1>1, Zenon

LEMMA HeadAndTail ==
  ASSUME NEW T, NEW s \in Seq(T), s # <<>>
  PROVE  /\ Len(s) \in Nat /\ Len(s) >= 1
         /\ Head(s) = s[1]
         /\ Tail(s) \in Seq(T) /\ Len(Tail(s)) = Len(s) - 1
         /\ \A i \in 1 .. Len(Tail(s)) : Tail(s)[i] = s[i + 1]
OBVIOUS

LEMMA FlushedType ==
  ASSUME NEW T, NEW q \in Seq(T), NEW b \in Seq(T), NEW n \in Nat
  PROVE  LET f == Flushed(q, b, n)
         IN  /\ f.queue \in Seq(T) /\ Len(f.queue) <= Len(q)
             /\ f.buf \in Seq(T)
             /\ f.waits \in Nat
<1> DEFINE room == IF Len(b) < Buffer THEN Buffer - Len(b) ELSE 1
           k == MinOf(Len(q), room + n - 1)
<1>1. Len(q) \in Nat /\ Len(b) \in Nat /\ room \in Nat /\ room >= 1
  BY SizesAssumption
<1> HIDE DEF room
<1>2. k \in 0 .. Len(q)
  BY <1>1 DEF MinOf
<1>3. Flushed(q, b, n) =
        [queue |-> SubSeq(q, k + 1, Len(q)), buf |-> b \o SubSeq(q, 1, k),
         waits |-> IF k < room THEN 0 ELSE k - room + 1]
  BY DEF Flushed, room
<1> HIDE DEF k
<1>4. /\ SubSeq(q, k + 1, Len(q)) \in Seq(T)
      /\ Len(SubSeq(q, k + 1, Len(q))) <= Len(q)
      /\ SubSeq(q, 1, k) \in Seq(T)
  BY <1>1, <1>2
<1>5. b \o SubSeq(q, 1, k) \in Seq(T)
  BY <1>4
<1>6. (IF k < room THEN 0 ELSE k - room + 1) \in Nat
  BY <1>1, <1>2
<1> QED
  BY <1>3, <1>4, <1>5, <1>6

LEMMA NewestType ==
  ASSUME NEW T, NEW q \in Seq(T)
  PROVE  Newest(q) \in Seq(T) /\ Len(Newest(q)) <= QueueMax
<1>1. /\ Len(q) \in Nat /\ QueueMax \in Nat
      /\ MinOf(Len(q), QueueMax) \in 0 .. Len(q)
      /\ MinOf(Len(q), QueueMax) <= QueueMax
  BY SizesAssumption DEF MinOf
<1>2. Len(q) - MinOf(Len(q), QueueMax) + 1 \in 1 .. Len(q) + 1
  BY <1>1
<1> QED
  BY <1>1, <1>2 DEF Newest

UplinkType ==
  /\ written \in 0 .. MaxChunks
  /\ queue \in Seq(Chunks) /\ Len(queue) <= QueueMax
  /\ req \in {"none", "connecting", "open"}
  /\ waits \in Nat /\ timer \in BOOLEAN /\ link \in BOOLEAN
  /\ buf \in Seq(Chunks) /\ pipe \in Seq(Chunks) /\ got \in Seq(Chunks)
  /\ timeouts \in 0 .. MaxTimeouts

DownType ==
  /\ listener \in {"connecting", "attached", "retry", "deaf", "closed"}
  /\ sink \in BOOLEAN
  /\ inputs \in 0 .. MaxInputs
  /\ down \in Seq(1 .. inputs) /\ owed \subseteq 1 .. inputs

PauseType ==
  /\ suspended \in BOOLEAN /\ flips \in 0 .. MaxFlips
  /\ reported \in BOOLEAN \cup {None}
  /\ reports \in [BOOLEAN -> Nat] /\ paused \in BOOLEAN

RestType ==
  /\ use \in Uses
  /\ cli \in {"running", "leaving"} /\ hub \in {"up", "down"}
  /\ starts \in 1 .. MaxStarts
  /\ known \in BOOLEAN

LEMMA TypeParts == TypeOK <=> UplinkType /\ DownType /\ PauseType /\ RestType
BY DEF TypeOK, UplinkType, DownType, PauseType, RestType

LEMMA UplinkTypeStep ==
  ASSUME UplinkType, known \in BOOLEAN, [Next]_vars
  PROVE  UplinkType'
<1>0. /\ <<>> \in Seq(Chunks) /\ Len(<<>>) = 0
      /\ QueueMax \in Nat /\ MaxChunks \in Nat /\ MaxTimeouts \in Nat
  BY SizesAssumption, BoundsAssumption
<1>1. CASE WriteChunk
  <2>1. /\ written' = written + 1 /\ written' \in 0 .. MaxChunks
        /\ written' \in Chunks
        /\ UNCHANGED <<req, timer, pipe, link, got, timeouts>>
    BY <1>0, <1>1 DEF WriteChunk, Chunks, UplinkType
  <2>2. /\ Newest(Append(queue, written')) \in Seq(Chunks)
        /\ Len(Newest(Append(queue, written'))) <= QueueMax
    <3>1. Append(queue, written') \in Seq(Chunks)
      BY <2>1 DEF UplinkType
    <3> QED
      BY <3>1, NewestType
  <2>3. /\ queue' \in Seq(Chunks) /\ Len(queue') <= QueueMax
        /\ buf' \in Seq(Chunks) /\ waits' \in Nat
    <3> DEFINE q == Newest(Append(queue, written'))
    <3>1. CASE req = "open"
      <4>1. /\ queue' = Flushed(q, buf, 1).queue
            /\ buf' = Flushed(q, buf, 1).buf
            /\ waits' = waits + Flushed(q, buf, 1).waits
        BY <1>1, <3>1 DEF WriteChunk, Flush
      <4>2. q \in Seq(Chunks) /\ Len(q) <= QueueMax
        BY <2>2
      <4> HIDE DEF q
      <4>3. Len(q) \in Nat /\ QueueMax \in Nat
        BY <4>2, SizesAssumption
      <4>4. /\ Flushed(q, buf, 1).queue \in Seq(Chunks)
            /\ Len(Flushed(q, buf, 1).queue) <= Len(q)
            /\ Flushed(q, buf, 1).buf \in Seq(Chunks)
            /\ Flushed(q, buf, 1).waits \in Nat
        BY <4>2, FlushedType DEF UplinkType
      <4>5. Len(Flushed(q, buf, 1).queue) \in Nat /\ waits \in Nat
        BY <4>4 DEF UplinkType
      <4>6. Len(queue') <= QueueMax
        BY <4>1, <4>2, <4>3, <4>4, <4>5
      <4>7. waits' \in Nat
        BY <4>1, <4>4, <4>5
      <4> QED
        BY <4>1, <4>4, <4>6, <4>7
    <3>2. CASE req # "open"
      BY <1>1, <2>2, <3>2 DEF WriteChunk, UplinkType
    <3> QED
      BY <3>1, <3>2
  <2> QED
    BY <2>1, <2>3 DEF UplinkType
<1>2. CASE Send
  <2>1. /\ UNCHANGED <<written, req, timer, link, got, timeouts>>
        /\ buf # <<>>
        /\ pipe' = IF link THEN Append(pipe, Head(buf)) ELSE pipe
        /\ \/ /\ queue' = Flushed(queue, <<>>, waits).queue
              /\ buf' = Flushed(queue, <<>>, waits).buf
              /\ waits' = 0 + Flushed(queue, <<>>, waits).waits
           \/ buf' = Tail(buf) /\ queue' = queue /\ waits' = waits
    BY <1>2 DEF Send, Flush
  <2>2. pipe' \in Seq(Chunks)
    BY <2>1 DEF UplinkType
  <2>3. Tail(buf) \in Seq(Chunks)
    BY <2>1 DEF UplinkType
  <2>4. /\ Flushed(queue, <<>>, waits).queue \in Seq(Chunks)
        /\ Len(Flushed(queue, <<>>, waits).queue) <= Len(queue)
        /\ Flushed(queue, <<>>, waits).buf \in Seq(Chunks)
        /\ Flushed(queue, <<>>, waits).waits \in Nat
    BY <1>0, FlushedType DEF UplinkType
  <2>5. Len(Flushed(queue, <<>>, waits).queue) <= QueueMax
    <3>1. /\ Len(Flushed(queue, <<>>, waits).queue) \in Nat
          /\ Len(queue) \in Nat /\ Len(queue) <= QueueMax
      BY <2>4 DEF UplinkType
    <3> QED
      BY <1>0, <2>4, <3>1
  <2>6. /\ queue' \in Seq(Chunks) /\ Len(queue') <= QueueMax
        /\ buf' \in Seq(Chunks) /\ waits' \in Nat
    <3>1. CASE buf' = Tail(buf) /\ queue' = queue /\ waits' = waits
      BY <2>3, <3>1 DEF UplinkType
    <3>2. CASE /\ queue' = Flushed(queue, <<>>, waits).queue
               /\ buf' = Flushed(queue, <<>>, waits).buf
               /\ waits' = 0 + Flushed(queue, <<>>, waits).waits
      BY <2>4, <2>5, <3>2
    <3> QED
      BY <2>1, <3>1, <3>2
  <2> QED
    BY <2>1, <2>2, <2>6 DEF UplinkType
<1>3. CASE Receive
  BY <1>3 DEF Receive, sendVars, UplinkType
<1>4. CASE Connect
  <2>1. /\ UNCHANGED <<written, timer, pipe, got, timeouts>>
        /\ req' = "open" /\ link' = TRUE
        /\ queue' = Flushed(queue, buf, 1).queue
        /\ buf' = Flushed(queue, buf, 1).buf
        /\ waits' = waits + Flushed(queue, buf, 1).waits
    BY <1>4 DEF Connect, Flush
  <2>2. /\ Flushed(queue, buf, 1).queue \in Seq(Chunks)
        /\ Len(Flushed(queue, buf, 1).queue) <= Len(queue)
        /\ Flushed(queue, buf, 1).buf \in Seq(Chunks)
        /\ Flushed(queue, buf, 1).waits \in Nat
    BY FlushedType DEF UplinkType
  <2>3. Len(queue') <= QueueMax
    <3>1. /\ Len(Flushed(queue, buf, 1).queue) \in Nat
          /\ Len(queue) \in Nat /\ Len(queue) <= QueueMax
      BY <2>2 DEF UplinkType
    <3> QED
      BY <1>0, <2>1, <2>2, <3>1
  <2>4. waits' \in Nat
    BY <2>1, <2>2 DEF UplinkType
  <2> QED
    BY <2>1, <2>2, <2>3, <2>4 DEF UplinkType
<1>5. CASE Teardown \/ Reopen \/ Shutdown \/ HubStops
  <2>1. /\ queue' \in {queue, <<>>} /\ buf' \in {buf, <<>>}
        /\ pipe' \in {pipe, <<>>} /\ waits' \in {waits, 0}
        /\ req' \in {req, "none", "connecting"}
        /\ UNCHANGED <<written, got, timeouts>>
    BY <1>5 DEF Teardown, Reopen, Shutdown, HubStops, sendVars
  <2>2. Len(queue') <= QueueMax
    BY <1>0, <2>1 DEF UplinkType
  <2>3. timer' \in BOOLEAN /\ link' \in BOOLEAN
    BY <1>5 DEF Teardown, Reopen, Shutdown, HubStops, sendVars, UplinkType
  <2>4. queue' \in Seq(Chunks) /\ buf' \in Seq(Chunks) /\ pipe' \in Seq(Chunks)
    BY <1>0, <2>1 DEF UplinkType
  <2>5. waits' \in Nat /\ req' \in {"none", "connecting", "open"}
    BY <2>1 DEF UplinkType
  <2>6. UplinkType /\ written' = written /\ got' = got /\ timeouts' = timeouts
    BY <2>1
  <2> QED
    BY <2>2, <2>3, <2>4, <2>5, <2>6 DEF UplinkType
<1>6. CASE RequestTimeout
  <2>1. timeouts' \in 0 .. MaxTimeouts
    BY <1>0, <1>6 DEF RequestTimeout, UplinkType
  <2> QED
    BY <1>0, <1>6, <2>1 DEF RequestTimeout, sendVars, UplinkType
<1>7. CASE UNCHANGED upVars
  BY <1>7 DEF upVars, sendVars, UplinkType
<1>8. Next \/ UNCHANGED vars =>
        \/ WriteChunk \/ Send \/ Receive \/ Connect
        \/ Teardown \/ Reopen \/ Shutdown \/ HubStops \/ RequestTimeout
        \/ UNCHANGED upVars
  BY DEF Next, LinkStep, vars, Attach, AttachFails, Relisten, Detach, Type,
         Inject, Input, Flip, Poll, Report, HubStarts
<1> QED
  BY <1>1, <1>2, <1>3, <1>4, <1>5, <1>6, <1>7, <1>8

LEMMA DownTypeStep ==
  ASSUME DownType, [Next]_vars
  PROVE  DownType'
<1>0. MaxInputs \in Nat
  BY BoundsAssumption
<1>1. ASSUME Deliver, inputs < MaxInputs, UNCHANGED <<listener, sink>>
      PROVE  DownType'
  <2>1. /\ inputs' = inputs + 1 /\ inputs' \in 0 .. MaxInputs
        /\ inputs' \in 1 .. inputs' /\ 1 .. inputs \subseteq 1 .. inputs'
    BY <1>0, <1>1 DEF Deliver, DownType
  <2>2. down \in Seq(1 .. inputs')
    BY <2>1, SeqOfMore DEF DownType
  <2>3. down' \in Seq(1 .. inputs')
    BY <1>1, <2>1, <2>2, SeqTypes DEF Deliver
  <2>4. owed' \subseteq 1 .. inputs'
    BY <1>1, <2>1 DEF Deliver, DownType
  <2> QED
    BY <1>1, <2>1, <2>3, <2>4 DEF DownType
<1>2. CASE Inject \/ \E kind \in {"text", "stop"}, state \in States :
             Input(kind, state)
  BY <1>1, <1>2 DEF Inject, Input
<1>3. CASE Type
  <2>1. /\ down # <<>> /\ down' = Tail(down) /\ owed' = owed \ {Head(down)}
        /\ UNCHANGED <<listener, sink, inputs>>
    BY <1>3 DEF Type
  <2>2. down' \in Seq(1 .. inputs)
    BY <2>1 DEF DownType
  <2> QED
    BY <2>1, <2>2 DEF DownType
<1>4. CASE Attach \/ AttachFails \/ Relisten
  BY <1>4 DEF Attach, AttachFails, Relisten, DownType
<1>5. CASE Detach \/ Shutdown \/ HubStops
  <2>1. /\ down' \in {down, <<>>} /\ inputs' = inputs
        /\ owed' \subseteq owed
    BY <1>5 DEF Detach, Shutdown, HubStops
  <2>2. /\ sink' \in BOOLEAN
        /\ listener' \in {"connecting", "attached", "retry", "deaf", "closed"}
    BY <1>5 DEF Detach, Shutdown, HubStops, DownType
  <2>3. down' \in Seq(1 .. inputs)
    BY <2>1, SeqTypes DEF DownType
  <2> QED
    BY <2>1, <2>2, <2>3 DEF DownType
<1>6. CASE UNCHANGED downVars
  BY <1>6 DEF downVars, DownType
<1> QED
  BY <1>2, <1>3, <1>4, <1>5, <1>6
     DEF Next, LinkStep, vars, WriteChunk, Send, Receive, Connect, Teardown,
         Reopen, RequestTimeout, Flip, Poll, Report, HubStarts

LEMMA PauseTypeStep ==
  ASSUME PauseType, known \in BOOLEAN, [Next]_vars
  PROVE  PauseType'
<1>1. CASE Flip
  BY <1>1, BoundsAssumption DEF Flip, PauseType
<1>2. CASE Poll
  <2>1. reports' \in [BOOLEAN -> Nat]
    BY <1>2 DEF Poll, SendReport, PauseType
  <2> QED
    BY <1>2, <2>1 DEF Poll, PauseType
<1>3. CASE \E v \in BOOLEAN : Report(v)
  <2>1. PICK v \in BOOLEAN : Report(v)
    BY <1>3
  <2>2. reports' \in [BOOLEAN -> Nat]
    BY <2>1 DEF Report, PauseType
  <2> QED
    BY <2>1, <2>2 DEF Report, PauseType
<1>4. CASE HubStops
  BY <1>4 DEF HubStops, NoReports, PauseType
<1>5. CASE HubStarts
  BY <1>5 DEF HubStarts, PauseType
<1>6. CASE UNCHANGED pauseVars
  BY <1>6 DEF pauseVars, PauseType
<1>7. Next \/ UNCHANGED vars =>
        \/ Flip \/ Poll \/ (\E v \in BOOLEAN : Report(v))
        \/ HubStops \/ HubStarts \/ UNCHANGED pauseVars
  BY DEF Next, LinkStep, vars, WriteChunk, Send, Receive, Connect, Teardown,
         Reopen, RequestTimeout, Attach, AttachFails, Relisten, Detach, Type,
         Inject, Input, Shutdown
<1> QED
  BY <1>1, <1>2, <1>3, <1>4, <1>5, <1>6, <1>7

LEMMA RestTypeStep ==
  ASSUME RestType, [Next]_vars
  PROVE  RestType'
<1>1. CASE Shutdown
  BY <1>1 DEF Shutdown, hubVars, RestType
<1>2. CASE HubStops
  BY <1>2 DEF HubStops, RestType
<1>3. CASE HubStarts
  <2>1. starts' \in 1 .. MaxStarts
    BY <1>3, BoundsAssumption DEF HubStarts, RestType
  <2> QED
    BY <1>3, <2>1 DEF HubStarts, RestType
<1>4. CASE UNCHANGED <<cli, hubVars>>
  BY <1>4 DEF hubVars, RestType
<1>5. Next \/ UNCHANGED vars =>
        Shutdown \/ HubStops \/ HubStarts \/ UNCHANGED <<cli, hubVars>>
  BY DEF Next, LinkStep, vars, WriteChunk, Send, Receive, Connect, Teardown,
         Reopen, RequestTimeout, Attach, AttachFails, Relisten, Detach, Type,
         Inject, Input, Flip, Poll, Report
<1> QED
  BY <1>1, <1>2, <1>3, <1>4, <1>5

LEMMA LinkTypeStep ==
  ASSUME TypeOK, [Next]_vars
  PROVE  TypeOK'
<1>1. UplinkType /\ DownType /\ PauseType /\ RestType /\ known \in BOOLEAN
  BY TypeParts DEF RestType
<1>2. UplinkType' /\ DownType' /\ PauseType' /\ RestType'
  BY <1>1, UplinkTypeStep, DownTypeStep, PauseTypeStep, RestTypeStep
<1> QED
  BY <1>2 DEF TypeOK, UplinkType, DownType, PauseType, RestType

(* The trackers: what the hub shows is always a mode.                      *)
ModesType ==
  /\ mode \in Modes /\ booted \in BOOLEAN /\ toggles \in 0 .. MaxToggles
  /\ line \in Modes \cup {None}
  /\ chunks \in Seq(Modes \cup {"none", "other"}) /\ hooks \in Seq(Modes)
  /\ screen \in Modes \cup {"none"}
  /\ everSaw \in BOOLEAN /\ lineRead \in BOOLEAN
  /\ seen \in Modes

LEMMA ModesTypeStep ==
  ASSUME ModesType, [ModeNext]_modeTrackerVars
  PROVE  ModesType'
<1>0. /\ Footer(mode) \in Modes \cup {"none", "other"}
      /\ \A m \in Modes : Footer(m) \in Modes \cup {"none", "other"}
      /\ "default" \in Modes /\ MaxToggles \in Nat
  BY ModesAssumption, ModeBoundsAssumption DEF Footer, ModesType
<1>1. CASE Output \/ Redraw
  <2>1. chunks' \in Seq(Modes \cup {"none", "other"})
    <3>1. \E c \in Modes \cup {"none", "other"} : chunks' = Append(chunks, c)
      BY <1>0, <1>1 DEF Output, Redraw, Draw
    <3>2. chunks \in Seq(Modes \cup {"none", "other"})
      BY DEF ModesType
    <3> QED
      BY <3>1, <3>2, SeqTypes
  <2> QED
    BY <1>1, <2>1 DEF Output, Redraw, claudeVars, trackVars, ModesType
<1>2. CASE \E m \in Modes : Toggle(m)
  <2>1. PICK m \in Modes : Toggle(m)
    BY <1>2
  <2>2. toggles' \in 0 .. MaxToggles
    BY <1>0, <2>1 DEF Toggle, ModesType
  <2>3. chunks' \in Seq(Modes \cup {"none", "other"})
    BY <1>0, <2>1 DEF Toggle, Draw, ModesType
  <2> QED
    BY <2>1, <2>2, <2>3 DEF Toggle, trackVars, ModesType
<1>3. CASE Turn
  <2>1. hooks' \in Seq(Modes)
    BY <1>3, SeqTypes DEF Turn, ModesType
  <2>2. line' \in Modes \cup {None} /\ lineRead' \in BOOLEAN
    BY <1>3 DEF Turn, ModesType
  <2> QED
    BY <1>3, <2>1, <2>2 DEF Turn, ModesType
<1>4. CASE Observe
  <2>1. /\ Head(chunks) \in Modes \cup {"none", "other"}
        /\ Tail(chunks) \in Seq(Modes \cup {"none", "other"})
    BY <1>4 DEF Observe, ModesType
  <2>2. screen' \in Modes \cup {"none"}
    BY <1>4, <2>1 DEF Observe, ModesType
  <2>3. seen' \in Modes
    BY <1>0, <1>4, <2>2, NoModeAssumption
       DEF Observe, ApplyDetection, DetectAnchorMode, ModesType
  <2>4. everSaw' \in BOOLEAN
    BY <1>4 DEF Observe, ApplyDetection, ModesType
  <2> QED
    BY <1>4, <2>1, <2>2, <2>3, <2>4 DEF Observe, claudeVars, ModesType
<1>5. CASE IngestHook
  <2>1. Head(hooks) \in Modes /\ Tail(hooks) \in Seq(Modes)
    BY <1>5 DEF IngestHook, ModesType
  <2> QED
    BY <1>5, <2>1 DEF IngestHook, claudeVars, ModesType
<1>6. CASE ReadModeLine
  BY <1>6 DEF ReadModeLine, claudeVars, ModesType
<1>7. CASE LoseTrackers
  <2>1. /\ <<>> \in Seq(Modes \cup {"none", "other"}) /\ <<>> \in Seq(Modes)
    OBVIOUS
  <2> QED
    BY <1>7, <2>1 DEF LoseTrackers, claudeVars, ModesType
<1>8. CASE UNCHANGED modeVars
  BY <1>8 DEF modeVars, claudeVars, trackVars, ModesType
<1> QED
  BY <1>1, <1>2, <1>3, <1>4, <1>5, <1>6, <1>7, <1>8
     DEF ModeNext, modeTrackerVars

(* The links and the trackers keep their types.                            *)
THEOREM ModeTypeCorrect == ModeSpec => []ModeTypeOK
<1>1. ASSUME ModeInit
      PROVE  ModeTypeOK
  <2>1. Init
    BY <1>1 DEF ModeInit
  <2>2. UplinkType
    <3>1. <<>> \in Seq(Chunks) /\ Len(<<>>) <= QueueMax
      BY SizesAssumption
    <3>2. 0 \in 0 .. MaxChunks /\ 0 \in 0 .. MaxTimeouts
      BY BoundsAssumption
    <3> QED
      BY <2>1, <3>1, <3>2 DEF Init, UplinkType
  <2>3. DownType
    <3>1. 0 \in 0 .. MaxInputs /\ <<>> \in Seq(1 .. 0)
      BY BoundsAssumption
    <3> QED
      BY <2>1, <3>1 DEF Init, DownType
  <2>4. PauseType
    <3>1. 0 \in 0 .. MaxFlips
      BY BoundsAssumption
    <3> QED
      BY <2>1, <3>1 DEF Init, NoReports, PauseType
  <2>5. RestType
    BY <2>1, BoundsAssumption DEF Init, RestType
  <2>6. ModesType
    <3>1. \A f, p, u \in Modes \cup {None} : InitialMode(f, p, u) \in Modes
      BY ModesAssumption, NoModeAssumption DEF InitialMode, DefaultMode, FirstOf
    <3>2. 0 \in 0 .. MaxToggles
      BY ModeBoundsAssumption
    <3>3. /\ <<>> \in Seq(Modes \cup {"none", "other"}) /\ <<>> \in Seq(Modes)
      OBVIOUS
    <3> QED
      BY <1>1, <3>1, <3>2, <3>3 DEF ModeInit, ModesType
  <2> QED
    BY <2>2, <2>3, <2>4, <2>5, <2>6, TypeParts DEF ModeTypeOK, ModesType
<1>2. ASSUME ModeTypeOK, [ModeNext]_modeTrackerVars
      PROVE  ModeTypeOK'
  <2>1. TypeOK'
    BY <1>2, LinkTypeStep, ModeStepIsLinkStep DEF ModeTypeOK
  <2>2. ModesType'
    BY <1>2, ModesTypeStep DEF ModeTypeOK, ModesType
  <2> QED
    BY <2>1, <2>2 DEF ModeTypeOK, ModesType
<1> QED
  BY <1>1, <1>2, PTL DEF ModeSpec

-----------------------------------------------------------------------------
(* The uplink is never stuck                                               *)

(* Whoever stops with chunks left has a call of flushQueue waiting, and    *)
(* has given the request something for which drain will come.              *)
LEMMA FlushedWaits ==
  ASSUME NEW q \in Seq(Chunks), NEW b \in Seq(Chunks), NEW n \in Nat,
         n = 0 => q = <<>>
  PROVE  LET f == Flushed(q, b, n)
         IN  /\ f.queue # <<>> => q # <<>> /\ f.waits > 0
             /\ f.waits > 0 => f.buf # <<>>
             /\ b # <<>> => f.buf # <<>>
<1> DEFINE room == IF Len(b) < Buffer THEN Buffer - Len(b) ELSE 1
           k == MinOf(Len(q), room + n - 1)
<1>1. Len(q) \in Nat /\ Len(b) \in Nat /\ room \in Nat /\ room >= 1
  BY SizesAssumption
<1> HIDE DEF room
<1>2. /\ k \in 0 .. Len(q)
      /\ k < Len(q) => k = room + n - 1
  BY <1>1 DEF MinOf
<1>3. Flushed(q, b, n) =
        [queue |-> SubSeq(q, k + 1, Len(q)), buf |-> b \o SubSeq(q, 1, k),
         waits |-> IF k < room THEN 0 ELSE k - room + 1]
  BY DEF Flushed, room
<1> HIDE DEF k
<1>4. /\ SubSeq(q, k + 1, Len(q)) # <<>> => k < Len(q)
      /\ SubSeq(q, 1, k) \in Seq(Chunks) /\ Len(SubSeq(q, 1, k)) = k
      /\ Len(b \o SubSeq(q, 1, k)) = Len(b) + k
  BY <1>1, <1>2
<1>5. ASSUME SubSeq(q, k + 1, Len(q)) # <<>>
      PROVE  q # <<>> /\ (IF k < room THEN 0 ELSE k - room + 1) > 0
  <2>1. k < Len(q) /\ k = room + n - 1
    BY <1>2, <1>4, <1>5
  <2>2. q # <<>>
    BY <1>1, <1>2, <2>1
  <2>3. n >= 1
    BY <2>2
  <2> QED
    BY <1>1, <2>1, <2>2, <2>3
<1>6. ASSUME (IF k < room THEN 0 ELSE k - room + 1) > 0
      PROVE  b \o SubSeq(q, 1, k) # <<>>
  <2>1. k >= 1
    BY <1>1, <1>2, <1>6
  <2>2. Len(b \o SubSeq(q, 1, k)) # 0
    BY <1>1, <1>4, <2>1
  <2> QED
    BY <2>2, NotEmpty
<1>7. ASSUME b # <<>>
      PROVE  b \o SubSeq(q, 1, k) # <<>>
  <2>1. Len(b) >= 1
    BY <1>1, <1>7
  <2>2. Len(b \o SubSeq(q, 1, k)) # 0
    BY <1>1, <1>2, <1>4, <2>1
  <2> QED
    BY <2>2, NotEmpty
<1> QED
  BY <1>3, <1>5, <1>6, <1>7

(* A running CLI has a request or a timer, never both; what is queued on   *)
(* an open request has somebody waiting for drain, and drain comes since   *)
(* the request still holds something.                                      *)
WakeInv ==
  /\ "output" \in use /\ cli = "running" => timer \/ req # "none"
  /\ timer => req = "none"
  /\ queue # <<>> => cli = "running" /\ "output" \in use
  /\ req = "open" /\ queue # <<>> => waits > 0
  /\ waits > 0 => req = "open" /\ buf # <<>>

LEMMA WakeStep ==
  ASSUME TypeOK, WakeInv, [Next]_vars
  PROVE  WakeInv'
<1>0. /\ queue \in Seq(Chunks) /\ buf \in Seq(Chunks) /\ waits \in Nat
      /\ req \in {"none", "connecting", "open"} /\ <<>> \in Seq(Chunks)
  BY DEF TypeOK
<1>1. CASE WriteChunk
  <2> DEFINE q == Newest(Append(queue, written'))
  <2>1. /\ cli' = "running" /\ "output" \in use'
        /\ UNCHANGED <<cli, use, req, timer>>
    BY <1>1 DEF WriteChunk, hubVars
  <2>2. CASE req = "open"
    <3>1. q \in Seq(Chunks)
      <4>1. written' \in Chunks
        BY <1>1, BoundsAssumption DEF WriteChunk, Chunks, TypeOK
      <4>2. Append(queue, written') \in Seq(Chunks)
        BY <1>0, <4>1
      <4> QED
        BY <4>2, NewestType
    <3>2. /\ queue' = Flushed(q, buf, 1).queue /\ buf' = Flushed(q, buf, 1).buf
          /\ waits' = waits + Flushed(q, buf, 1).waits
      BY <1>1, <2>2 DEF WriteChunk, Flush
    <3> HIDE DEF q
    <3>3. /\ Flushed(q, buf, 1).queue # <<>> => Flushed(q, buf, 1).waits > 0
          /\ Flushed(q, buf, 1).waits > 0 => Flushed(q, buf, 1).buf # <<>>
          /\ buf # <<>> => Flushed(q, buf, 1).buf # <<>>
          /\ Flushed(q, buf, 1).waits \in Nat
      BY <1>0, <3>1, FlushedWaits, FlushedType
    <3>4. /\ queue' # <<>> => waits' > 0
          /\ waits' > 0 => waits > 0 \/ Flushed(q, buf, 1).waits > 0
      BY <1>0, <3>2, <3>3
    <3> QED
      BY <2>1, <2>2, <3>2, <3>3, <3>4 DEF WakeInv
  <2>3. CASE req # "open"
    <3>1. buf' = buf /\ waits' = waits
      BY <1>1, <2>3 DEF WriteChunk
    <3> QED
      BY <2>1, <2>3, <3>1 DEF WakeInv
  <2> QED
    BY <2>2, <2>3
<1>2. CASE Send
  <2>1. buf # <<>> /\ UNCHANGED <<cli, use, req, timer>>
    BY <1>2 DEF Send, hubVars
  <2>2. CASE Len(buf) = 1 /\ req = "open"
    <3>1. /\ queue' = Flushed(queue, <<>>, waits).queue
          /\ buf' = Flushed(queue, <<>>, waits).buf
          /\ waits' = 0 + Flushed(queue, <<>>, waits).waits
      BY <1>2, <2>2 DEF Send, Flush
    <3>2. waits = 0 => queue = <<>>
      BY <2>2 DEF WakeInv
    <3>3. /\ Flushed(queue, <<>>, waits).queue # <<>> =>
               queue # <<>> /\ Flushed(queue, <<>>, waits).waits > 0
          /\ Flushed(queue, <<>>, waits).waits > 0 =>
               Flushed(queue, <<>>, waits).buf # <<>>
          /\ Flushed(queue, <<>>, waits).waits \in Nat
      BY <1>0, <3>2, FlushedWaits, FlushedType
    <3>4. waits' = Flushed(queue, <<>>, waits).waits
      BY <3>1, <3>3
    <3> QED
      BY <2>1, <2>2, <3>1, <3>3, <3>4 DEF WakeInv
  <2>3. CASE ~ (Len(buf) = 1 /\ req = "open")
    <3>1. buf' = Tail(buf) /\ queue' = queue /\ waits' = waits
      BY <1>2, <2>3 DEF Send
    <3>2. ASSUME waits > 0
          PROVE  Tail(buf) # <<>>
      <4>1. Len(buf) # 1 /\ Len(buf) \in Nat /\ Len(buf) # 0
        BY <1>0, <2>1, <2>3, <3>2 DEF WakeInv
      <4>2. Len(Tail(buf)) = Len(buf) - 1
        BY <1>0, <2>1
      <4> QED
        BY <4>1, <4>2
    <3> QED
      BY <2>1, <3>1, <3>2 DEF WakeInv
  <2> QED
    BY <2>2, <2>3
<1>3. CASE Connect
  <2>1. /\ req = "connecting" /\ req' = "open"
        /\ UNCHANGED <<cli, use, timer>>
        /\ queue' = Flushed(queue, buf, 1).queue
        /\ buf' = Flushed(queue, buf, 1).buf
        /\ waits' = waits + Flushed(queue, buf, 1).waits
    BY <1>3 DEF Connect, Flush, hubVars
  <2>2. /\ Flushed(queue, buf, 1).queue # <<>> =>
             queue # <<>> /\ Flushed(queue, buf, 1).waits > 0
        /\ Flushed(queue, buf, 1).waits > 0 => Flushed(queue, buf, 1).buf # <<>>
        /\ Flushed(queue, buf, 1).waits \in Nat
    BY <1>0, FlushedWaits, FlushedType
  <2>3. waits' = Flushed(queue, buf, 1).waits
    BY <1>0, <2>1, <2>2 DEF WakeInv
  <2> QED
    BY <2>1, <2>2, <2>3 DEF WakeInv
<1>4. CASE Teardown
  <2>1. waits' = 0 /\ req' = "none" /\ timer'
    BY <1>4 DEF Teardown
  <2> QED
    BY <1>4, <2>1 DEF Teardown, hubVars, WakeInv
<1>5. CASE Reopen
  <2>1. ~ (waits > 0)
    BY <1>5 DEF Reopen, WakeInv
  <2> QED
    BY <1>5, <2>1 DEF Reopen, hubVars, WakeInv
<1>6. CASE Shutdown
  <2>1. waits' = 0 /\ cli' # "running"
    BY <1>6 DEF Shutdown
  <2> QED
    BY <1>6, <2>1 DEF Shutdown, hubVars, WakeInv
<1>7. CASE UNCHANGED <<cli, use, queue, req, waits, timer, buf>>
  BY <1>7 DEF WakeInv
<1>8. Next \/ UNCHANGED vars =>
        \/ WriteChunk \/ Send \/ Connect \/ Teardown \/ Reopen \/ Shutdown
        \/ UNCHANGED <<cli, use, queue, req, waits, timer, buf>>
  BY DEF Next, LinkStep, vars, hubVars, upVars, sendVars, Receive,
         RequestTimeout, Attach, AttachFails, Relisten, Detach, Type,
         Inject, Input, Flip, Poll, Report, HubStops, HubStarts
<1> QED
  BY <1>1, <1>2, <1>3, <1>4, <1>5, <1>6, <1>7, <1>8

(* The safety half of OutputDrains: a queued chunk always has something    *)
(* coming that flushes the queue, the timer of a reconnection, a request   *)
(* that connects or is refused, or the drain event of an open request.     *)
FlushIsComing ==
  queue # <<>> =>
    \/ timer
    \/ req = "connecting"
    \/ req = "open" /\ waits > 0 /\ buf # <<>>

\* No chunk waits in the queue for the terminal's next output, or for ever:
\* scheduleReconnect and drain cover every way in which flushQueue stops.
THEOREM QueueIsFlushed == ModeSpec => []FlushIsComing
<1>1. ModeInit => WakeInv
  BY DEF ModeInit, Init, WakeInv
<1>2. ModeTypeOK /\ WakeInv /\ [ModeNext]_modeTrackerVars => WakeInv'
  BY WakeStep, ModeStepIsLinkStep DEF ModeTypeOK
<1>3. ModeTypeOK /\ WakeInv => FlushIsComing
  BY DEF ModeTypeOK, TypeOK, WakeInv, FlushIsComing
<1> QED
  BY <1>1, <1>2, <1>3, ModeTypeCorrect, PTL DEF ModeSpec

-----------------------------------------------------------------------------
(* Accepted input is on its way                                            *)

(* The hub has a sink whenever the listener takes itself for attached to a *)
(* living connection, and what it owes has gone into that sink.            *)
DownInv ==
  /\ listener = "attached" => sink /\ hub = "up"
  /\ owed # {} => listener = "attached"
  /\ owed \subseteq Ran(down)
  /\ Rising(down) /\ \A x \in Ran(down) : x <= inputs

LEMMA DownStep ==
  ASSUME TypeOK, DownInv, [Next]_vars
  PROVE  DownInv'
<1>0. /\ inputs \in Nat /\ down \in Seq(Nat)
      /\ listener \in {"connecting", "attached", "retry", "deaf", "closed"}
  <2>1. inputs \in Nat /\ 1 .. inputs \subseteq Nat /\ down \in Seq(1 .. inputs)
    BY BoundsAssumption DEF TypeOK
  <2> QED
    BY <2>1, SeqOfMore DEF TypeOK
<1>1. ASSUME Deliver, UNCHANGED <<hub, listener, sink>>
      PROVE  DownInv'
  <2>1. inputs' = inputs + 1 /\ inputs' \in Nat
    BY <1>0, <1>1 DEF Deliver
  <2>2. \A x \in Ran(down) : x \in Nat /\ x < inputs'
    BY <1>0, <2>1, RanNat DEF DownInv
  <2>3. CASE listener = "attached"
    <3>1. down' = Append(down, inputs') /\ owed' = owed \cup {inputs'}
      BY <1>1, <2>3 DEF Deliver, DownInv
    <3>2. Ran(down') = Ran(down) \cup {inputs'} /\ Rising(down')
      BY <1>0, <2>1, <2>2, <3>1, AppendRising DEF DownInv
    <3> QED
      BY <1>1, <2>1, <2>2, <2>3, <3>1, <3>2 DEF DownInv
  <2>4. CASE listener # "attached"
    BY <1>1, <2>1, <2>2, <2>4 DEF Deliver, DownInv
  <2> QED
    BY <2>3, <2>4
<1>2. CASE Inject \/ \E kind \in {"text", "stop"}, state \in States :
             Input(kind, state)
  BY <1>1, <1>2 DEF Inject, Input, hubVars
<1>3. CASE Type
  <2>1. /\ down # <<>> /\ down' = Tail(down) /\ owed' = owed \ {Head(down)}
        /\ UNCHANGED <<hub, listener, sink, inputs>>
    BY <1>3 DEF Type, hubVars
  <2>2. /\ Ran(Tail(down)) \subseteq Ran(down) /\ Rising(Tail(down))
    BY <1>0, <2>1, HeadTail DEF DownInv
  <2>3. \A x \in Ran(down) : x = Head(down) \/ x \in Ran(Tail(down))
    <3> TAKE x \in Ran(down)
    <3>1. PICK i \in 1 .. Len(down) : x = down[i]
      BY DEF Ran
    <3>2. CASE i = 1
      BY <1>0, <2>1, <3>1, <3>2
    <3>3. CASE i # 1
      <4>1. i - 1 \in 1 .. Len(Tail(down)) /\ Tail(down)[i - 1] = down[i]
        BY <1>0, <2>1, <3>3
      <4> QED
        BY <3>1, <4>1 DEF Ran
    <3> QED
      BY <3>2, <3>3
  <2> QED
    BY <2>1, <2>2, <2>3 DEF DownInv
<1>4. CASE Attach \/ AttachFails \/ Relisten
  <2>1. /\ owed = {} /\ UNCHANGED <<hub, down, inputs, owed>>
        /\ listener' = "attached" => sink' /\ hub = "up"
    BY <1>4 DEF Attach, AttachFails, Relisten, hubVars, DownInv
  <2> QED
    BY <2>1 DEF DownInv
<1>5. CASE Detach
  <2>1. owed = {} /\ owed' = owed /\ listener' = "closed" /\ down' = <<>>
    BY <1>5 DEF Detach, DownInv
  <2> QED
    BY <2>1, EmptyRising DEF DownInv
<1>6. CASE Shutdown
  BY <1>6 DEF Shutdown, hubVars, DownInv
<1>7. CASE HubStops
  <2>1. owed' = {} /\ down' = <<>> /\ listener' # "attached"
    BY <1>7 DEF HubStops
  <2> QED
    BY <2>1, EmptyRising DEF DownInv
<1>8. CASE HubStarts
  BY <1>8 DEF HubStarts, downVars, DownInv
<1>9. CASE UNCHANGED <<hub, downVars>>
  BY <1>9 DEF downVars, DownInv
<1>10. Next \/ UNCHANGED vars =>
         \/ Inject
         \/ \E kind \in {"text", "stop"}, state \in States : Input(kind, state)
         \/ Type \/ Attach \/ AttachFails \/ Relisten \/ Detach
         \/ Shutdown \/ HubStops \/ HubStarts
         \/ UNCHANGED <<hub, downVars>>
  BY DEF Next, LinkStep, vars, hubVars, WriteChunk, Send, Receive, Connect,
         Teardown, Reopen, RequestTimeout, Flip, Poll, Report
<1> QED
  BY <1>2, <1>3, <1>4, <1>5, <1>6, <1>7, <1>8, <1>9, <1>10

(* The safety half of InputTyped: an input that was accepted while the     *)
(* listener was attached, and is not typed yet, is on an open connection,  *)
(* behind older ones only.                                                 *)
InputUnderWay ==
  /\ owed # {} => listener = "attached" /\ sink /\ hub = "up"
  /\ owed \subseteq Ran(down)
  /\ Rising(down)

\* While a listener is attached the hub has its sink (setSink, clearSink), so
\* nothing the hub owes it is lost or overtaken before it is typed.
THEOREM InputIsUnderWay == ModeSpec => []InputUnderWay
<1>1. ModeInit => DownInv
  BY EmptyRising DEF ModeInit, Init, DownInv
<1>2. ModeTypeOK /\ DownInv /\ [ModeNext]_modeTrackerVars => DownInv'
  BY DownStep, ModeStepIsLinkStep DEF ModeTypeOK
<1>3. DownInv => InputUnderWay
  BY DEF DownInv, InputUnderWay
<1> QED
  BY <1>1, <1>2, <1>3, ModeTypeCorrect, PTL DEF ModeSpec

-----------------------------------------------------------------------------
(* Pause reports                                                           *)

(* The premise of PausedCatchesUp from a moment on, and its safety half:   *)
(* the report under way, or the flag when there is none, is the last one.  *)
OneAtATime == hub = "up" /\ ReportsUnderWay <= 1

LastReportCounts ==
  /\ known /\ reported # None
  /\ IF ReportsUnderWay = 0 THEN paused = reported ELSE LastIsAlone

(* One more, and one less, of two counts that are at most one together.    *)
LEMMA OneMore ==
  \A a, b, D, R, v, S :
    /\ a # b /\ D = {a, b} /\ R \in [D -> Nat] /\ v \in D
    /\ S = [R EXCEPT ![v] = @ + 1] /\ S[a] + S[b] <= 1
    => S[v] = 1 /\ S[a] + S[b] = 1
<1>1. SUFFICES ASSUME NEW a, NEW b, a # b, NEW R \in [{a, b} -> Nat],
                      NEW v \in {a, b}, NEW S, S = [R EXCEPT ![v] = @ + 1],
                      S[a] + S[b] <= 1
               PROVE  S[v] = 1 /\ S[a] + S[b] = 1
  OBVIOUS
<1>2. R[a] \in Nat /\ R[b] \in Nat
  OBVIOUS
<1>3. CASE v = a
  BY <1>1, <1>2, <1>3
<1>4. CASE v = b
  BY <1>1, <1>2, <1>4
<1> QED
  BY <1>3, <1>4

TakesTheOne(a, b, D, R, v, S) ==
  /\ a # b /\ D = {a, b} /\ R \in [D -> Nat] /\ v \in D
  /\ S = [R EXCEPT ![v] = @ - 1] /\ R[v] > 0 /\ R[a] + R[b] <= 1

NoneIsLeft(a, b, D, R, v, S) ==
  /\ R[a] + R[b] # 0 /\ S[a] + S[b] = 0
  /\ \A u \in D : R[u] = 1 => u = v

LEMMA OneLess ==
  \A a, b, D, R, v, S :
    TakesTheOne(a, b, D, R, v, S) => NoneIsLeft(a, b, D, R, v, S)
<1>1. SUFFICES ASSUME NEW a, NEW b, a # b, NEW R \in [{a, b} -> Nat],
                      NEW v \in {a, b}, NEW S, S = [R EXCEPT ![v] = @ - 1],
                      R[v] > 0, R[a] + R[b] <= 1
               PROVE  /\ R[a] + R[b] # 0 /\ S[a] + S[b] = 0
                      /\ \A u \in {a, b} : R[u] = 1 => u = v
  BY DEF TakesTheOne, NoneIsLeft
<1>2. R[a] \in Nat /\ R[b] \in Nat
  OBVIOUS
<1>3. CASE v = a
  BY <1>1, <1>2, <1>3
<1>4. CASE v = b
  BY <1>1, <1>2, <1>4
<1> QED
  BY <1>3, <1>4

(* The same of the reports under way.                                      *)
LEMMA OneMoreReport ==
  \A R, v, S :
    /\ R \in [BOOLEAN -> Nat] /\ v \in BOOLEAN
    /\ S = [R EXCEPT ![v] = @ + 1] /\ S[TRUE] + S[FALSE] <= 1
    => S[v] = 1 /\ S[TRUE] + S[FALSE] = 1
<1>1. TRUE # FALSE /\ BOOLEAN = {TRUE, FALSE}
  BY Zenon
<1>2. \A D, R, v, S :
        /\ TRUE # FALSE /\ D = {TRUE, FALSE} /\ R \in [D -> Nat] /\ v \in D
        /\ S = [R EXCEPT ![v] = @ + 1] /\ S[TRUE] + S[FALSE] <= 1
        => S[v] = 1 /\ S[TRUE] + S[FALSE] = 1
  BY OneMore, Zenon
<1> QED
  BY <1>1, <1>2, Zenon

LEMMA OneLessReport ==
  ASSUME reports \in [BOOLEAN -> Nat], NEW v \in BOOLEAN, reports[v] > 0,
         reports' = [reports EXCEPT ![v] = @ - 1],
         reports[TRUE] + reports[FALSE] <= 1
  PROVE  /\ reports[TRUE] + reports[FALSE] # 0
         /\ reports'[TRUE] + reports'[FALSE] = 0
         /\ \A u \in BOOLEAN : reports[u] = 1 => u = v
<1>1. TRUE # FALSE /\ BOOLEAN = {TRUE, FALSE}
  BY Zenon
<1>2. \A R, u, S :
        TakesTheOne(TRUE, FALSE, BOOLEAN, R, u, S)
          => NoneIsLeft(TRUE, FALSE, BOOLEAN, R, u, S)
  BY OneLess, Zenon
<1>3. TakesTheOne(TRUE, FALSE, BOOLEAN, reports, v, reports')
  BY <1>1, Zenon DEF TakesTheOne
<1> QED
  BY <1>2, <1>3, Zenon DEF NoneIsLeft

LEMMA ReportStep ==
  ASSUME TypeOK, OneAtATime, OneAtATime', LastReportCounts, [Next]_vars
  PROVE  LastReportCounts'
<1>0. /\ reports \in [BOOLEAN -> Nat] /\ suspended \in BOOLEAN
      /\ reported \in BOOLEAN
  BY DEF TypeOK, LastReportCounts
<1>1. CASE Flip
  BY <1>1 DEF Flip, hubVars, LastReportCounts, ReportsUnderWay, LastIsAlone
<1>2. CASE Poll
  <2>1. /\ reported' = suspended /\ UNCHANGED known
        /\ reports' = [reports EXCEPT ![suspended] = @ + 1]
    BY <1>2 DEF Poll, SendReport, OneAtATime, hubVars
  <2>2. reports'[TRUE] + reports'[FALSE] <= 1
    BY DEF OneAtATime, ReportsUnderWay
  <2>3. reports'[suspended] = 1 /\ reports'[TRUE] + reports'[FALSE] = 1
    BY <1>0, <2>1, <2>2, OneMoreReport, Zenon
  <2>4. known' /\ reported' # None
    BY <1>0, <2>1, NoneAssumption DEF LastReportCounts
  <2>5. 1 # 0
    OBVIOUS
  <2> QED
    BY <2>1, <2>3, <2>4, <2>5, Zenon
       DEF LastReportCounts, ReportsUnderWay, LastIsAlone
<1>3. ASSUME NEW v \in BOOLEAN, Report(v)
      PROVE  LastReportCounts'
  <2>1. /\ reports[v] > 0 /\ reports' = [reports EXCEPT ![v] = @ - 1]
        /\ paused' = v /\ UNCHANGED <<known, reported>>
    BY <1>3 DEF Report, LastReportCounts, hubVars
  <2>2. reports[TRUE] + reports[FALSE] <= 1
    BY Zenon DEF OneAtATime, ReportsUnderWay
  <2>3. /\ reports[TRUE] + reports[FALSE] # 0
        /\ reports'[TRUE] + reports'[FALSE] = 0
        /\ \A u \in BOOLEAN : reports[u] = 1 => u = v
    BY <1>0, <2>1, <2>2, OneLessReport, Zenon
  <2>4. v = reported
    BY <1>0, <2>3, Zenon DEF LastReportCounts, ReportsUnderWay, LastIsAlone
  <2>5. known' /\ reported' # None
    BY <2>1 DEF LastReportCounts
  <2> QED
    BY <2>1, <2>3, <2>4, <2>5, Zenon DEF LastReportCounts, ReportsUnderWay
<1>4. CASE HubStops \/ HubStarts
  BY <1>4 DEF HubStops, HubStarts, OneAtATime
<1>5. CASE UNCHANGED <<hubVars, pauseVars>>
  BY <1>5
     DEF hubVars, pauseVars, LastReportCounts, ReportsUnderWay, LastIsAlone
<1>6. Next \/ UNCHANGED vars =>
        \/ Flip \/ Poll \/ (\E v \in BOOLEAN : Report(v))
        \/ HubStops \/ HubStarts
        \/ UNCHANGED <<hubVars, pauseVars>>
  BY DEF Next, LinkStep, vars, WriteChunk, Send, Receive, Connect, Teardown,
         Reopen, RequestTimeout, Attach, AttachFails, Relisten, Detach, Type,
         Inject, Input, Shutdown
<1> QED
  BY <1>1, <1>2, <1>3, <1>4, <1>5, <1>6

\* Whatever was overtaken before, a pause report that is the only one under way
\* and says what the monitor said last (onChange's un-awaited fetch) counts,
\* and so does each later one, while they go one at a time to the same hub.
THEOREM LoneReportCounts ==
  ModeSpec => [](known /\ reported # None /\ LastIsAlone
                   => ([]OneAtATime => []LastReportCounts))
<1>1. known /\ reported # None /\ LastIsAlone => LastReportCounts
  BY DEF LastReportCounts, LastIsAlone
<1>2. /\ ModeTypeOK /\ OneAtATime /\ OneAtATime' /\ LastReportCounts
      /\ [ModeNext]_modeTrackerVars
      => LastReportCounts'
  BY ReportStep, ModeStepIsLinkStep DEF ModeTypeOK
<1> QED
  BY <1>1, <1>2, ModeTypeCorrect, PTL DEF ModeSpec

-----------------------------------------------------------------------------
(* The links beside the trackers are the links of CliStreams: everything   *)
(* proved or checked of Spec holds of them.                                *)
THEOREM LinksImplemented == ModeSpec => Spec
<1>1. ModeInit => Init
  BY DEF ModeInit
<1>2. [ModeNext]_modeTrackerVars => [Next]_vars
  BY ModeStepIsLinkStep
<1> QED
  BY <1>1, <1>2, PTL DEF ModeSpec, Spec

=============================================================================
