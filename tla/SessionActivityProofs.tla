------------------------- MODULE SessionActivityProofs -------------------------
(***************************************************************************)
(* Proofs about SessionActivity, for any window, skew, size of the ring    *)
(* and number of facts: reports move the state machine once, and the feed  *)
(* of a client has no hole that the ring could have filled.                *)
(***************************************************************************)
EXTENDS SessionActivity, FiniteSetTheorems, TLAPS

-----------------------------------------------------------------------------
(* Sequences and constants                                                 *)

LEMMA BoundsAreNat ==
  /\ Window \in Nat /\ Skew \in Nat /\ Skew < Window /\ FarGap = Window + Skew
  /\ RingMax \in Nat /\ RingMax >= 1 /\ ConfirmTicks \in Nat /\ ConfirmTicks >= 1
  /\ MaxFacts \in Nat /\ MaxRestarts \in Nat /\ Gaps \subseteq Nat
BY SizesAssumption, BoundsAssumption DEF FarGap

LEMMA SeqOfMore ==
  ASSUME NEW S, NEW T, S \subseteq T, NEW s \in Seq(S)
  PROVE  s \in Seq(T)
<1>1. Len(s) \in Nat /\ s = [i \in 1 .. Len(s) |-> s[i]]
  OBVIOUS
<1>2. \A i \in 1 .. Len(s) : s[i] \in T
  OBVIOUS
<1> QED
  BY <1>1, <1>2

LEMMA SeqTypes ==
  ASSUME NEW T
  PROVE  /\ <<>> \in Seq(T) /\ Len(<<>>) = 0
         /\ \A s \in Seq(T), x \in T :
              /\ Append(s, x) \in Seq(T) /\ Len(Append(s, x)) = Len(s) + 1
              /\ \A i \in 1 .. Len(s) : Append(s, x)[i] = s[i]
              /\ Append(s, x)[Len(s) + 1] = x
         /\ \A s \in Seq(T) : s # <<>> =>
              /\ Len(s) >= 1 /\ Head(s) = s[1] /\ Head(s) \in T
              /\ Tail(s) \in Seq(T) /\ Len(Tail(s)) = Len(s) - 1
              /\ \A i \in 1 .. Len(Tail(s)) : Tail(s)[i] = s[i + 1]
OBVIOUS

LEMMA RangeOfSequence ==
  ASSUME NEW T, NEW s \in Seq(T)
  PROVE  Range(s) = {s[i] : i \in 1 .. Len(s)} /\ Range(s) \subseteq T
BY DEF Range

Facts == [what : Whats, at : Nat]
Kinds == {"user-prompt", "tool-result", "error"}

LEMMA KindOfWhat ==
  ASSUME NEW w \in Whats
  PROVE  /\ KindOf[w] \in Kinds \cup {"agent-output"}
         /\ KindOf[w] \in EventKinds
BY DEF Whats, KindOf, Kinds, EventKinds

LEMMA TransitionIsState ==
  ASSUME NEW st \in States, NEW e
  PROVE  TransitionFor(st, e) \in States
BY DEF TransitionFor, States

-----------------------------------------------------------------------------
(* Types                                                                   *)

FactTypes ==
  /\ turn \in {"prompt", "working"}
  /\ facts \in Seq(Facts) /\ Len(facts) <= MaxFacts
  /\ hooks \in Seq(1 .. Len(facts)) /\ read \in 0 .. Len(facts)
  /\ startFact \in 0 .. Len(facts)

BusTypes ==
  /\ last \in [Kinds -> Nat \cup {None}]
  /\ events \in Seq(Event) /\ state \in States
  /\ buffer \subseteq Numbers /\ armed \in BOOLEAN
  /\ calls \subseteq SUBSET Numbers
  /\ frames \in Seq(Numbers)
  /\ newest \in Numbers \cup {None}
  /\ startEvent \in 0 .. Len(events)

RestTypes ==
  /\ active \in BOOLEAN
  /\ cooling \in 0 .. ConfirmTicks \cup {None}
  /\ online \in BOOLEAN
  /\ restarts \in 0 .. MaxRestarts

LEMMA TypeParts == TypeOK <=> FactTypes /\ BusTypes /\ RestTypes
BY DEF TypeOK, FactTypes, BusTypes, RestTypes, Facts, Kinds

\* What Claude does.
LEMMA DoTypes ==
  ASSUME FactTypes, NEW what \in Whats, Do(what)
  PROVE  /\ facts' \in Seq(Facts) /\ Len(facts') = Len(facts) + 1
         /\ Len(facts') <= MaxFacts
         /\ hooks' \in Seq(1 .. Len(facts'))
         /\ \A f \in 1 .. Len(facts) : facts'[f] = facts[f]
         /\ facts'[Len(facts')].at \in Nat /\ facts'[Len(facts')].what = what
         /\ Now \in Nat /\ facts'[Len(facts')].at >= Now
         /\ \A f \in UnderWay : facts'[Len(facts')].at < facts[f].at + FarGap
         /\ UNCHANGED <<read, startFact>>
<1>1. PICK gap \in Gaps :
        /\ \A f \in UnderWay : Now + gap < facts[f].at + FarGap
        /\ facts' = Append(facts, [what |-> what, at |-> Now + gap])
  BY DEF Do
<1>2. gap \in Nat /\ Len(facts) \in Nat /\ MaxFacts \in Nat /\ Len(facts) < MaxFacts
  <2>1. Len(facts) < MaxFacts
    BY DEF Do
  <2>2. Len(facts) \in Nat
    BY DEF FactTypes
  <2> QED
    BY <2>1, <2>2, BoundsAreNat
<1>3. Now \in Nat
  <2>1. CASE facts = <<>>
    BY <2>1 DEF Now
  <2>2. CASE facts # <<>>
    <3>1. Len(facts) \in 1 .. Len(facts)
      BY <2>2, SeqTypes DEF FactTypes
    <3>2. facts[Len(facts)] \in Facts
      BY <3>1 DEF FactTypes
    <3> QED
      BY <2>2, <3>2 DEF Now, Facts
  <2> QED
    BY <2>1, <2>2
<1> DEFINE new == [what |-> what, at |-> Now + gap]
<1>4. new \in Facts
  BY <1>2, <1>3 DEF Facts
<1>5. /\ facts' \in Seq(Facts) /\ Len(facts') = Len(facts) + 1
      /\ \A f \in 1 .. Len(facts) : facts'[f] = facts[f]
      /\ facts'[Len(facts')] = new
  BY <1>1, <1>4, SeqTypes DEF FactTypes
<1>6. hooks' \in Seq(1 .. Len(facts'))
  <2>1. hooks \in Seq(1 .. Len(facts'))
    BY <1>2, <1>5, SeqOfMore DEF FactTypes
  <2>2. Len(facts') \in 1 .. Len(facts')
    BY <1>2, <1>5
  <2>3. Append(hooks, Len(facts')) \in Seq(1 .. Len(facts'))
    BY <2>1, <2>2, SeqTypes
  <2> QED
    BY <2>1, <2>3 DEF Do
<1> QED
  BY <1>1, <1>2, <1>3, <1>5, <1>6 DEF Do, runVars

LEMMA FactsAre ==
  ASSUME FactTypes, NEW f \in 1 .. Len(facts)
  PROVE  facts[f].at \in Nat /\ facts[f].what \in Whats /\ f \in 1 .. MaxFacts
<1>1. facts[f] \in Facts
  BY DEF FactTypes
<1>2. f \in 1 .. MaxFacts
  BY BoundsAreNat DEF FactTypes
<1> QED
  BY <1>1, <1>2 DEF Facts

\* What the event bus does with a report.
LEMMA EmitTypes ==
  ASSUME FactTypes, BusTypes, NEW e \in Event, e.fact <= Len(facts),
         NEW ts \in Nat, Emit(e, ts)
  PROVE  /\ last' \in [Kinds -> Nat \cup {None}]
         /\ events' \in Seq(Event) /\ state' \in States
         /\ Len(events') >= Len(events)
         /\ buffer' \subseteq 1 .. Len(events') /\ armed' \in BOOLEAN
         /\ frames' \in Seq(1 .. Len(events'))
<1> DEFINE k == Kind(e)
           n == Len(events) + 1
<1>1. k \in Kinds \cup {"agent-output"}
  <2>1. e.fact \in 1 .. Len(facts)
    BY BoundsAreNat DEF Event, FactTypes
  <2>2. facts[e.fact].what \in Whats
    BY <2>1, FactsAre
  <2> QED
    BY <2>2, KindOfWhat DEF Kind
<1>2. Len(events) \in Nat /\ Numbers = 1 .. Len(events)
  BY DEF BusTypes, Numbers
<1>3. CASE ~ Passes(k, ts)
  <2>1. UNCHANGED <<last, events, state, buffer, armed, frames>>
    BY <1>3 DEF Emit
  <2> QED
    BY <1>2, <2>1 DEF BusTypes
<1>4. CASE Passes(k, ts)
  <2>1. /\ last' = IF k = "agent-output" THEN last ELSE [last EXCEPT ![k] = ts]
        /\ events' = Append(events, e)
        /\ state' = TransitionFor(state, k)
        /\ buffer' = buffer \cup {n} /\ armed' = (armed \/ Arms(k))
        /\ frames' = IF online THEN Append(frames, n) ELSE frames
    BY <1>4 DEF Emit, Buffered, SendEvent
  <2>2. last' \in [Kinds -> Nat \cup {None}]
    BY <1>1, <2>1 DEF BusTypes
  <2>3. events' \in Seq(Event) /\ Len(events') = n
    BY <2>1, SeqTypes DEF BusTypes
  <2>4. state' \in States
    BY <2>1, TransitionIsState DEF BusTypes
  <2>5. buffer' \subseteq 1 .. Len(events')
    <3>1. buffer \subseteq 1 .. n /\ n \in 1 .. n
      BY <1>2 DEF BusTypes
    <3> QED
      BY <2>1, <2>3, <3>1
  <2>6. armed' \in BOOLEAN
    BY <2>1 DEF Arms, BusTypes
  <2>7. frames' \in Seq(1 .. Len(events'))
    <3>1. frames \in Seq(1 .. n)
      BY <1>2, SeqOfMore DEF BusTypes
    <3>2. Append(frames, n) \in Seq(1 .. n)
      BY <1>2, <3>1, SeqTypes
    <3> QED
      BY <2>1, <2>3, <3>1, <3>2
  <2> QED
    BY <1>2, <2>2, <2>3, <2>4, <2>5, <2>6, <2>7
<1> QED
  BY <1>3, <1>4

\* Which reports the bus is given.
Reports ==
  \E e \in Event, ts \in Nat :
    /\ e.fact <= Len(facts) /\ Emit(e, ts)
    /\ facts[e.fact].at <= ts /\ ts <= facts[e.fact].at + Skew
    /\ e.source = "tail" =>
         read < Len(facts) /\ read' = read + 1 /\ e.fact = read'
           /\ ts = facts[read'].at /\ facts[read'].what \in Written
    /\ e.source = "hook" => read' = read

LEMMA HookReports ==
  ASSUME FactTypes, Hook
  PROVE  /\ Reports
         /\ hooks' \in Seq(1 .. Len(facts))
         /\ UNCHANGED <<turn, facts, read, watchVars, calls, clientVars, runVars>>
<1>1. PICK late \in 0 .. Skew :
        Emit([fact |-> Head(hooks), source |-> "hook"],
             facts[Head(hooks)].at + late)
  BY DEF Hook
<1>2. /\ Head(hooks) \in 1 .. Len(facts) /\ Tail(hooks) \in Seq(1 .. Len(facts))
      /\ hooks' = Tail(hooks)
      /\ UNCHANGED <<turn, facts, read, watchVars, calls, clientVars, runVars>>
  BY SeqTypes DEF Hook, FactTypes
<1>3. facts[Head(hooks)].at \in Nat /\ Head(hooks) \in 1 .. MaxFacts
  BY <1>2, FactsAre
<1> DEFINE e == [fact |-> Head(hooks), source |-> "hook"]
           ts == facts[Head(hooks)].at + late
<1>4. e \in Event /\ ts \in Nat /\ late \in Nat
  BY <1>3, BoundsAreNat DEF Event
<1>5. /\ e.fact <= Len(facts) /\ facts[e.fact].at <= ts
      /\ ts <= facts[e.fact].at + Skew
      /\ e.source = "hook"
  BY <1>2, <1>3, <1>4, BoundsAreNat
<1>6. Reports
  BY <1>1, <1>2, <1>4, <1>5 DEF Reports
<1> QED
  BY <1>2, <1>6

LEMMA ReadLineReports ==
  ASSUME FactTypes, ReadLine
  PROVE  /\ read' = read + 1 /\ read' \in 1 .. Len(facts)
         /\ IF facts[read'].what \in Written THEN Reports ELSE UNCHANGED busVars
         /\ UNCHANGED <<claudeVars, watchVars, calls, clientVars, runVars>>
<1>1. /\ read' = read + 1 /\ read' \in 1 .. Len(facts) /\ read < Len(facts)
      /\ UNCHANGED <<claudeVars, watchVars, calls, clientVars, runVars>>
  BY DEF ReadLine, FactTypes
<1>2. facts[read'].at \in Nat /\ read' \in 1 .. MaxFacts
  BY <1>1, FactsAre
<1>3. ASSUME facts[read'].what \in Written
      PROVE  Reports
  <2> DEFINE e == [fact |-> read', source |-> "tail"]
             ts == facts[read'].at
  <2>1. Emit(e, ts)
    BY <1>3 DEF ReadLine
  <2>2. e \in Event /\ ts \in Nat /\ e.fact = read' /\ e.source = "tail"
    BY <1>2 DEF Event
  <2>3. ts <= facts[e.fact].at + Skew /\ facts[e.fact].at <= ts
        /\ e.fact <= Len(facts)
    BY <1>1, <1>2, <2>2, BoundsAreNat
  <2> QED
    BY <1>1, <1>3, <2>1, <2>2, <2>3 DEF Reports
<1>4. facts[read'].what \notin Written => UNCHANGED busVars
  BY DEF ReadLine
<1> QED
  BY <1>1, <1>3, <1>4

-----------------------------------------------------------------------------
(* The ring, and what a returning client is sent of it                     *)

\* An interval has one ascending enumeration.
LEMMA AscendingInterval ==
  ASSUME NEW lo \in Nat, NEW hi \in Nat
  PROVE  LET q == Ascending(lo + 1 .. hi)
         IN  /\ q \in Seq(lo + 1 .. hi) /\ Range(q) = lo + 1 .. hi
             /\ \A i, j \in DOMAIN q : i < j => q[i] < q[j]
<1> DEFINE S == lo + 1 .. hi
           m == Cardinality(S)
           Rises(q) == \A i, j \in DOMAIN q : i < j => q[i] < q[j]
           q == Ascending(S)
<1>1. /\ IsFiniteSet(S) /\ m = IF lo + 1 > hi THEN 0 ELSE hi - (lo + 1) + 1
      /\ m \in Nat
  <2>1. lo + 1 \in Int /\ hi \in Int
    OBVIOUS
  <2>2. IsFiniteSet(S) /\ m = IF lo + 1 > hi THEN 0 ELSE hi - (lo + 1) + 1
    BY <2>1, FS_Interval
  <2> HIDE DEF m
  <2> QED
    BY <2>2
<1> HIDE DEF m
<1>2. \E r \in [1 .. m -> S] : Rises(r)
  <2> DEFINE r == [i \in 1 .. m |-> lo + i]
  <2>1. r \in [1 .. m -> S] /\ Rises(r)
    BY <1>1
  <2> QED
    BY <2>1
<1>3. q \in [1 .. m -> S] /\ Rises(q)
  BY <1>2 DEF Ascending, m
<1> HIDE DEF q, S
<1>4. q \in Injection(1 .. m, S)
  <2>1. \A i, j \in 1 .. m : q[i] = q[j] => i = j
    <3> TAKE i, j \in 1 .. m
    <3>1. q[i] \in Nat /\ q[j] \in Nat /\ DOMAIN q = 1 .. m
      BY <1>3 DEF S
    <3> QED
      BY <1>1, <1>3, <3>1
  <2> QED
    BY <1>3, <2>1 DEF Injection, IsInjective
<1>5. q \in Surjection(1 .. m, S)
  <2>1. Cardinality(1 .. m) = m
    BY <1>1, FS_Interval
  <2>2. Cardinality(1 .. m) = Cardinality(S)
    BY <2>1 DEF m
  <2> QED
    BY <1>1, <1>4, <2>2, FS_Injection
<1>6. Range(q) = S
  BY <1>3, <1>5 DEF Surjection, Range
<1>7. q \in Seq(S)
  BY <1>1, <1>3
<1> QED
  BY <1>3, <1>6, <1>7 DEF q, S

LEMMA RingIsTail ==
  ASSUME BusTypes
  PROVE  \E lo \in Nat : lo <= Len(events) /\ Ring = lo + 1 .. Len(events)
<1> DEFINE size == Len(events)
           lo == IF startEvent + RingMax > size THEN startEvent ELSE size - RingMax
<1>1. /\ size \in Nat /\ startEvent \in 0 .. size
      /\ RingMax \in Nat /\ RingMax >= 1
  BY BoundsAreNat DEF BusTypes
<1>2. lo \in Nat /\ lo <= size
  BY <1>1
<1>3. Ring = lo + 1 .. size
  BY <1>1 DEF Ring
<1> QED
  BY <1>2, <1>3

\* An id that the ring has dropped is older than all that is in it.
LEMMA SinceIsNewer ==
  ASSUME BusTypes, NEW id \in Numbers
  PROVE  /\ Since(id) = {n \in Ring : n > id}
         /\ \E lo \in Nat : Since(id) = lo + 1 .. Len(events)
<1>1. PICK lo \in Nat : lo <= Len(events) /\ Ring = lo + 1 .. Len(events)
  BY RingIsTail
<1>2. Len(events) \in Nat /\ id \in 1 .. Len(events)
  BY DEF BusTypes, Numbers
<1>3. CASE id \in Ring
  <2>1. Since(id) = {n \in Ring : n > id}
    BY <1>3 DEF Since
  <2>2. {n \in Ring : n > id} = id + 1 .. Len(events)
    BY <1>1, <1>2, <1>3
  <2>3. id \in Nat
    BY <1>2
  <2> QED
    BY <2>1, <2>2, <2>3
<1>4. CASE id \notin Ring
  <2>1. Since(id) = Ring
    BY <1>4 DEF Since
  <2>2. \A n \in Ring : n > id
    BY <1>1, <1>2, <1>4
  <2> QED
    BY <1>1, <2>1, <2>2
<1> QED
  BY <1>3, <1>4

\* What a client that subscribes is sent.
LEMMA SubscribeFrames ==
  ASSUME BusTypes, Subscribe
  PROVE  /\ frames' \in Seq(Numbers)
         /\ Range(frames') = IF newest = None THEN {} ELSE {n \in Ring : n > newest}
         /\ \A i, j \in DOMAIN frames' : i < j => frames'[i] < frames'[j]
<1>1. CASE newest = None
  <2>1. frames' = <<>>
    BY <1>1 DEF Subscribe
  <2> QED
    BY <1>1, <2>1 DEF Range
<1>2. CASE newest # None
  <2>1. frames' = Ascending(Since(newest)) /\ newest \in Numbers
    BY <1>2 DEF Subscribe, BusTypes
  <2>2. PICK lo \in Nat : Since(newest) = lo + 1 .. Len(events)
    BY <2>1, SinceIsNewer
  <2>3. Len(events) \in Nat
    BY DEF BusTypes
  <2>4. /\ frames' \in Seq(lo + 1 .. Len(events))
        /\ Range(frames') = lo + 1 .. Len(events)
        /\ \A i, j \in DOMAIN frames' : i < j => frames'[i] < frames'[j]
    BY <2>1, <2>2, <2>3, AscendingInterval
  <2>5. frames' \in Seq(Numbers)
    <3>1. lo + 1 .. Len(events) \subseteq Numbers
      BY <2>3 DEF Numbers
    <3> QED
      BY <2>4, <3>1, SeqOfMore
  <2> QED
    BY <1>2, <2>1, <2>2, <2>4, <2>5, SinceIsNewer
<1> QED
  BY <1>1, <1>2

-----------------------------------------------------------------------------
(* Type correctness                                                        *)

LEMMA InitTypes == Init => TypeOK
<1> SUFFICES ASSUME Init PROVE TypeOK
  OBVIOUS
<1>1. /\ facts = <<>> /\ hooks = <<>> /\ events = <<>> /\ frames = <<>>
      /\ Len(facts) = 0 /\ Len(events) = 0
      /\ read = 0 /\ startFact = 0 /\ startEvent = 0 /\ restarts = 0
  BY DEF Init
<1>2. FactTypes
  <2>1. <<>> \in Seq(Facts) /\ <<>> \in Seq(1 .. 0)
    BY SeqTypes
  <2>2. turn \in {"prompt", "working"}
    BY DEF Init
  <2> QED
    BY <1>1, <2>1, <2>2, BoundsAreNat DEF FactTypes
<1>3. BusTypes
  <2>1. <<>> \in Seq(Event) /\ <<>> \in Seq(1 .. 0)
    BY SeqTypes
  <2>2. last \in [Kinds -> Nat \cup {None}]
    BY DEF Init, Kinds
  <2>3. /\ state \in States /\ buffer = {} /\ armed \in BOOLEAN /\ calls = {}
        /\ newest = None
    BY DEF Init, States
  <2> QED
    BY <1>1, <2>1, <2>2, <2>3 DEF BusTypes, Numbers
<1>4. RestTypes
  <2>1. active = FALSE /\ cooling = None /\ online = FALSE /\ 0 \in 0 .. MaxRestarts
    BY BoundsAreNat DEF Init
  <2> QED
    BY <1>1, <2>1 DEF RestTypes
<1> QED
  BY <1>2, <1>3, <1>4, TypeParts

\* What leaves a part's variables alone leaves its types alone.
LEMMA PartsKept ==
  /\ FactTypes /\ UNCHANGED <<turn, facts, hooks, read, startFact>>
     => FactTypes'
  /\ /\ BusTypes
     /\ UNCHANGED <<last, events, state, buffer, armed, calls, frames, newest,
                    startEvent>>
     => BusTypes'
  /\ RestTypes /\ UNCHANGED <<active, cooling, online, restarts>> => RestTypes'
<1>1. FactTypes /\ UNCHANGED <<turn, facts, hooks, read, startFact>>
      => FactTypes'
  BY DEF FactTypes
<1>2. /\ BusTypes
      /\ UNCHANGED <<last, events, state, buffer, armed, calls, frames, newest,
                     startEvent>>
      => BusTypes'
  BY DEF BusTypes, Numbers
<1>3. RestTypes /\ UNCHANGED <<active, cooling, online, restarts>> => RestTypes'
  BY DEF RestTypes
<1> QED
  BY <1>1, <1>2, <1>3

\* Claude's steps.
Happens == Prompt \/ Work \/ Finish

LEMMA HappensDo ==
  ASSUME Happens
  PROVE  /\ \E what \in Whats : Do(what)
         /\ turn' \in {"prompt", "working"}
         /\ UNCHANGED <<read, busVars, watchVars, calls, clientVars, runVars>>
<1>1. /\ \E what \in Whats : Do(what)
      /\ turn' \in {"prompt", "working"}
  <2>1. CASE Prompt
    BY <2>1 DEF Prompt, Whats
  <2>2. CASE Work
    BY <2>2 DEF Work, Whats
  <2>3. CASE Finish
    BY <2>3 DEF Finish, Whats
  <2> QED
    BY <2>1, <2>2, <2>3 DEF Happens
<1> QED
  BY <1>1 DEF Do

LEMMA HappensTypes ==
  ASSUME FactTypes, BusTypes, RestTypes, Happens
  PROVE  FactTypes' /\ BusTypes' /\ RestTypes'
<1>1. PICK what \in Whats : Do(what)
  BY HappensDo
<1>2. /\ turn' \in {"prompt", "working"}
      /\ UNCHANGED <<read, busVars, watchVars, calls, clientVars, runVars>>
  BY HappensDo
<1>3. FactTypes'
  <2>1. /\ facts' \in Seq(Facts) /\ Len(facts') = Len(facts) + 1
        /\ Len(facts') <= MaxFacts
        /\ hooks' \in Seq(1 .. Len(facts'))
        /\ UNCHANGED <<read, startFact>>
    BY <1>1, DoTypes
  <2>2. Len(facts) \in Nat /\ read \in 0 .. Len(facts) /\ startFact \in 0 .. Len(facts)
    BY DEF FactTypes
  <2>3. read' \in 0 .. Len(facts') /\ startFact' \in 0 .. Len(facts')
    BY <2>1, <2>2
  <2> QED
    BY <1>2, <2>1, <2>3 DEF FactTypes
<1>4. UNCHANGED <<last, events, state, buffer, armed, calls, frames, newest,
                  startEvent, active, cooling, online, restarts>>
  BY <1>2 DEF busVars, watchVars, clientVars, runVars
<1> QED
  BY <1>3, <1>4, PartsKept

LEMMA EvaluateTypes ==
  ASSUME RestTypes, state \in States, NEW r, NEW tick \in Nat, Evaluate(r, tick)
  PROVE  /\ active' \in BOOLEAN /\ cooling' \in 0 .. ConfirmTicks \cup {None}
         /\ state' \in States
<1>1. cooling # None => cooling \in Nat /\ cooling <= ConfirmTicks
  BY BoundsAreNat DEF RestTypes
<1>2. Cooled(tick) \in 0 .. ConfirmTicks
  <2>1. CASE cooling = None
    BY <2>1, BoundsAreNat DEF Cooled
  <2>2. CASE cooling # None
    BY <1>1, <2>2, BoundsAreNat DEF Cooled, MinOf
  <2> QED
    BY <2>1, <2>2
<1>3. active \in BOOLEAN /\ cooling \in 0 .. ConfirmTicks \cup {None}
  BY DEF RestTypes
<1>4. state' = state \/ state' = "idle"
  BY DEF Evaluate
<1>5. active' = active \/ active' = TRUE \/ active' = FALSE
  BY DEF Evaluate
<1>6. cooling' = cooling \/ cooling' = None \/ cooling' = Cooled(tick)
  BY DEF Evaluate
<1> QED
  BY <1>2, <1>3, <1>4, <1>5, <1>6 DEF States

\* The steps of the watcher, the summarizer and the client, and a hook that
\* is lost.
QuietSteps ==
  \/ Interrupt \/ HookLost \/ Busy \/ Quiet \/ Fire
  \/ (\E batch \in calls : Summarised(batch))
  \/ Subscribe \/ Receive \/ Cut

LEMMA QuietTypes ==
  ASSUME FactTypes, BusTypes, RestTypes, QuietSteps
  PROVE  FactTypes' /\ BusTypes' /\ RestTypes'
<1>1. CASE Interrupt
  <2>1. /\ turn' \in {"prompt", "working"} /\ UNCHANGED <<facts, hooks, read, startFact>>
        /\ UNCHANGED <<last, events, state, buffer, armed, calls, frames, newest,
                       startEvent, active, cooling, online, restarts>>
    BY <1>1 DEF Interrupt, busVars, watchVars, clientVars, runVars
  <2>2. FactTypes'
    BY <2>1 DEF FactTypes
  <2> QED
    BY <2>1, <2>2, PartsKept
<1>2. CASE HookLost
  <2>1. hooks' \in Seq(1 .. Len(facts))
    BY <1>2, SeqTypes DEF HookLost, FactTypes
  <2>2. /\ UNCHANGED <<turn, facts, read, startFact>>
        /\ UNCHANGED <<last, events, state, buffer, armed, calls, frames, newest,
                       startEvent, active, cooling, online, restarts>>
    BY <1>2 DEF HookLost, busVars, watchVars, clientVars, runVars
  <2>3. FactTypes'
    BY <2>1, <2>2 DEF FactTypes
  <2> QED
    BY <2>2, <2>3, PartsKept
<1>3. CASE Busy \/ Quiet
  <2>1. PICK r \in {"low", "mid", "high"} : Evaluate(r, 1)
    BY <1>3 DEF Busy, Quiet
  <2>2. /\ active' \in BOOLEAN /\ cooling' \in 0 .. ConfirmTicks \cup {None}
        /\ state' \in States
    BY <2>1, EvaluateTypes DEF BusTypes
  <2>3. UNCHANGED <<turn, facts, hooks, read, startFact, last, events, buffer,
                    armed, calls, frames, newest, startEvent, online, restarts>>
    BY <1>3 DEF Busy, Quiet, claudeVars, clientVars, runVars
  <2>4. BusTypes'
    BY <2>2, <2>3 DEF BusTypes, Numbers
  <2>5. RestTypes'
    BY <2>2, <2>3 DEF RestTypes
  <2> QED
    BY <2>3, <2>4, <2>5, PartsKept
<1>4. CASE Fire
  <2>1. calls' \subseteq SUBSET Numbers /\ buffer' = {} /\ armed' = FALSE
    BY <1>4 DEF Fire, BusTypes
  <2>2. UNCHANGED <<turn, facts, hooks, read, startFact, last, events, state,
                    frames, newest, startEvent, active, cooling, online, restarts>>
    BY <1>4 DEF Fire, claudeVars, watchVars, clientVars, runVars
  <2>3. BusTypes'
    BY <2>1, <2>2 DEF BusTypes, Numbers
  <2> QED
    BY <2>2, <2>3, PartsKept
<1>5. CASE \E batch \in calls : Summarised(batch)
  <2>1. state' \in States /\ calls' \subseteq calls
    BY <1>5 DEF Summarised, BusTypes, States
  <2>2. UNCHANGED <<turn, facts, hooks, read, startFact, last, events, buffer,
                    armed, frames, newest, startEvent, active, cooling, online,
                    restarts>>
    BY <1>5 DEF Summarised, claudeVars, watchVars, clientVars, runVars
  <2>3. BusTypes'
    BY <2>1, <2>2 DEF BusTypes, Numbers
  <2> QED
    BY <2>2, <2>3, PartsKept
<1>6. CASE Subscribe \/ Receive \/ Cut
  <2>1. frames' \in Seq(Numbers) /\ newest' \in Numbers \cup {None}
    <3>1. CASE Subscribe
      BY <3>1, SubscribeFrames DEF Subscribe, BusTypes
    <3>2. CASE Receive
      BY <3>2, SeqTypes DEF Receive, BusTypes
    <3>3. CASE Cut
      BY <3>3, SeqTypes DEF Cut, BusTypes
    <3> QED
      BY <1>6, <3>1, <3>2, <3>3
  <2>2. /\ UNCHANGED <<turn, facts, hooks, read, startFact, last, events, state,
                       buffer, armed, calls, startEvent, active, cooling, restarts>>
        /\ online' \in BOOLEAN
    BY <1>6 DEF Subscribe, Receive, Cut, claudeVars, watchVars, runVars, RestTypes
  <2>3. BusTypes'
    BY <2>1, <2>2 DEF BusTypes, Numbers
  <2>4. RestTypes'
    BY <2>2 DEF RestTypes
  <2> QED
    BY <2>2, <2>3, <2>4, PartsKept
<1> QED
  BY <1>1, <1>2, <1>3, <1>4, <1>5, <1>6 DEF QuietSteps

LEMMA RestartTypes ==
  ASSUME FactTypes, BusTypes, RestTypes, Restart
  PROVE  FactTypes' /\ BusTypes' /\ RestTypes'
<1>1. /\ restarts' \in 0 .. MaxRestarts /\ online' = FALSE
      /\ active' = FALSE /\ cooling' = None
  BY BoundsAreNat DEF Restart, RestTypes
<1>2. /\ hooks' = <<>> /\ read' = 0 /\ startFact' = Len(facts)
      /\ UNCHANGED <<turn, facts>>
  BY DEF Restart
<1>3. /\ last' = [k \in Kinds |-> None]
      /\ buffer' = {} /\ armed' = FALSE /\ calls' = {} /\ frames' = <<>>
      /\ startEvent' = Len(events) /\ UNCHANGED <<events, state, newest>>
  BY DEF Restart, BusTypes
<1>4. FactTypes'
  BY <1>2, SeqTypes DEF FactTypes
<1>5. BusTypes'
  <2>1. <<>> \in Seq(Numbers) /\ Len(events) \in 0 .. Len(events)
    BY SeqTypes DEF BusTypes
  <2>2. last' \in [Kinds -> Nat \cup {None}]
    BY <1>3
  <2> QED
    BY <1>3, <2>1, <2>2 DEF BusTypes, Numbers
<1>6. RestTypes'
  BY <1>1 DEF RestTypes
<1> QED
  BY <1>4, <1>5, <1>6

LEMMA ReportTypes ==
  ASSUME FactTypes, BusTypes, RestTypes, Hook \/ ReadLine
  PROVE  FactTypes' /\ BusTypes' /\ RestTypes'
<1>1. /\ hooks' \in Seq(1 .. Len(facts)) /\ read' \in 0 .. Len(facts)
      /\ Reports \/ UNCHANGED busVars
      /\ UNCHANGED <<turn, facts, watchVars, calls, clientVars, runVars>>
  <2>1. CASE Hook
    BY <2>1, HookReports DEF FactTypes
  <2>2. CASE ReadLine
    <3>1. read' \in 0 .. Len(facts)
      BY <2>2, ReadLineReports DEF FactTypes
    <3>2. UNCHANGED <<turn, facts, hooks, watchVars, calls, clientVars, runVars>>
      BY <2>2, ReadLineReports DEF claudeVars
    <3> QED
      BY <2>2, <3>1, <3>2, ReadLineReports DEF FactTypes
  <2> QED
    BY <2>1, <2>2
<1>2. UNCHANGED <<turn, facts, calls, newest, online, active, cooling, restarts,
                  startEvent, startFact>>
  BY <1>1 DEF watchVars, clientVars, runVars
<1>3. FactTypes'
  BY <1>1, <1>2 DEF FactTypes
<1>4. BusTypes'
  <2>1. CASE UNCHANGED busVars
    BY <1>2, <2>1, PartsKept DEF busVars
  <2>2. CASE Reports
    <3>1. PICK e \in Event, ts \in Nat : e.fact <= Len(facts) /\ Emit(e, ts)
      BY <2>2 DEF Reports
    <3>2. /\ last' \in [Kinds -> Nat \cup {None}]
          /\ events' \in Seq(Event) /\ state' \in States
          /\ Len(events') >= Len(events)
          /\ buffer' \subseteq 1 .. Len(events') /\ armed' \in BOOLEAN
          /\ frames' \in Seq(1 .. Len(events'))
      BY <3>1, EmitTypes
    <3>3. Len(events) \in Nat /\ Len(events') \in Nat
      BY <3>2 DEF BusTypes
    <3>4. 1 .. Len(events) \subseteq 1 .. Len(events')
      BY <3>2, <3>3
    <3>5. calls' \subseteq SUBSET (1 .. Len(events'))
      BY <1>2, <3>4 DEF BusTypes, Numbers
    <3>6. newest' \in 1 .. Len(events') \cup {None}
      BY <1>2, <3>4 DEF BusTypes, Numbers
    <3>7. startEvent' \in 0 .. Len(events')
      BY <1>2, <3>2, <3>3 DEF BusTypes
    <3> QED
      BY <3>2, <3>5, <3>6, <3>7 DEF BusTypes, Numbers
  <2> QED
    BY <1>1, <2>1, <2>2
<1>5. RestTypes'
  BY <1>2, PartsKept
<1> QED
  BY <1>3, <1>4, <1>5

LEMMA TypeStep == TypeOK /\ [Next]_vars => TypeOK'
<1> SUFFICES ASSUME TypeOK, [Next]_vars PROVE TypeOK'
  OBVIOUS
<1>1. FactTypes /\ BusTypes /\ RestTypes
  BY TypeParts
<1>2. FactTypes' /\ BusTypes' /\ RestTypes'
  <2>1. CASE UNCHANGED vars
    <3>1. UNCHANGED <<turn, facts, hooks, read, startFact, last, events, state,
                      buffer, armed, calls, frames, newest, startEvent, active,
                      cooling, online, restarts>>
      BY <2>1 DEF vars, claudeVars, busVars, watchVars, clientVars, runVars
    <3> QED
      BY <1>1, <3>1, PartsKept
  <2>2. CASE Happens
    BY <1>1, <2>2, HappensTypes
  <2>3. CASE Hook \/ ReadLine
    BY <1>1, <2>3, ReportTypes
  <2>4. CASE QuietSteps
    BY <1>1, <2>4, QuietTypes
  <2>5. CASE Restart
    BY <1>1, <2>5, RestartTypes
  <2> QED
    BY <2>1, <2>2, <2>3, <2>4, <2>5 DEF Next, Happens, QuietSteps
<1> QED
  BY <1>2 DEF TypeOK, FactTypes, BusTypes, RestTypes, Facts, Kinds

\* Every variable keeps its type; what the hub and the client remember are
\* facts and events that there were.
THEOREM TypeCorrect == Spec => []TypeOK
BY InitTypes, TypeStep, PTL DEF Spec

-----------------------------------------------------------------------------
(* Reports                                                                 *)

EventsAreFacts == \A n \in Numbers : events[n].fact \in 1 .. Len(facts)

TimesRise ==
  \A f, g \in 1 .. Len(facts) : f <= g => facts[f].at <= facts[g].at

\* What the tail of this run has not read yet is recent.
TailIsPrompt ==
  \A f, g \in 1 .. Len(facts) :
    f > startFact /\ f > read => facts[g].at < facts[f].at + FarGap

\* The stamp of a kind is not older than any event of the kind...
LastCovers ==
  \A n \in Numbers :
    n > startEvent /\ Deduplicated(events[n].fact)
    => /\ last[Kind(events[n])] # None
       /\ last[Kind(events[n])] >= facts[events[n].fact].at

\* ... and is that of a report of one of them.
LastIsReport ==
  \A k \in Kinds :
    last[k] # None =>
      \E n \in Numbers :
        /\ n > startEvent /\ Kind(events[n]) = k
        /\ last[k] <= facts[events[n].fact].at + Skew

OncePerFact ==
  \A m, n \in Numbers :
    /\ m > startEvent /\ n > startEvent
    /\ events[m].fact = events[n].fact /\ Deduplicated(events[n].fact)
    => m = n

ReadIsReported ==
  \A f \in 1 .. Len(facts) :
    /\ Deduplicated(f) /\ f <= read /\ f > startFact
    /\ facts[f].what \in Written /\ Spaced(f)
    => \E n \in Numbers : n > startEvent /\ events[n].fact = f

ReportInv ==
  /\ EventsAreFacts /\ TimesRise /\ TailIsPrompt
  /\ LastCovers /\ LastIsReport
  /\ OncePerFact /\ ReadIsReported

LEMMA InitReports == Init => ReportInv
<1> SUFFICES ASSUME Init PROVE ReportInv
  OBVIOUS
<1>1. /\ Len(facts) = 0 /\ Len(events) = 0
      /\ last = [k \in Kinds |-> None]
  BY DEF Init, Kinds
<1>2. EventsAreFacts /\ LastCovers /\ OncePerFact
  BY <1>1 DEF EventsAreFacts, LastCovers, OncePerFact, Numbers
<1>3. TimesRise /\ TailIsPrompt /\ ReadIsReported
  BY <1>1 DEF TimesRise, TailIsPrompt, ReadIsReported
<1>4. LastIsReport
  BY <1>1 DEF LastIsReport
<1> QED
  BY <1>2, <1>3, <1>4 DEF ReportInv

\* What leaves these variables alone leaves the invariant alone.
LEMMA ReportsKept ==
  ASSUME ReportInv,
         UNCHANGED <<facts, events, last, read, startEvent, startFact>>
  PROVE  ReportInv'
<1>1. EventsAreFacts' /\ LastCovers' /\ LastIsReport' /\ OncePerFact'
  BY DEF ReportInv, EventsAreFacts, LastCovers, LastIsReport, OncePerFact,
         Numbers, Kind, Deduplicated
<1>2. TimesRise' /\ TailIsPrompt'
  BY DEF ReportInv, TimesRise, TailIsPrompt
<1>3. ReadIsReported'
  BY DEF ReportInv, ReadIsReported, Numbers, Deduplicated, Spaced
<1> QED
  BY <1>1, <1>2, <1>3 DEF ReportInv

\* A new fact is not earlier than the others, and comes before a fact that
\* the tail has not read is old.
LEMMA HappensReports ==
  ASSUME FactTypes, BusTypes, ReportInv, Happens
  PROVE  ReportInv'
<1>1. PICK what \in Whats : Do(what)
  BY HappensDo
<1> DEFINE n == Len(facts)
           at == facts'[n + 1].at
<1>2. /\ facts' \in Seq(Facts) /\ Len(facts') = n + 1 /\ n \in Nat
      /\ \A f \in 1 .. n : facts'[f] = facts[f]
      /\ at \in Nat /\ Now \in Nat /\ at >= Now
      /\ \A f \in UnderWay : at < facts[f].at + FarGap
      /\ UNCHANGED <<read, startFact>>
  BY <1>1, DoTypes DEF FactTypes
<1>3. UNCHANGED <<events, last, startEvent>>
  BY HappensDo DEF busVars, runVars
<1>4. \A f \in 1 .. n : facts[f].at \in Nat /\ facts[f].at <= at
  <2> TAKE f \in 1 .. n
  <2>1. facts # <<>> /\ n \in 1 .. n /\ f <= n
    BY <1>2
  <2>2. facts[f].at <= facts[n].at
    BY <2>1 DEF ReportInv, TimesRise
  <2>3. Now = facts[n].at
    BY <2>1 DEF Now
  <2>4. facts[f].at \in Nat
    BY FactsAre
  <2> QED
    BY <1>2, <2>2, <2>3, <2>4
<1>5. EventsAreFacts' /\ LastCovers' /\ LastIsReport' /\ OncePerFact'
  <2>1. \A m \in Numbers : events[m].fact \in 1 .. n
    BY DEF ReportInv, EventsAreFacts
  <2>2. \A m \in Numbers : facts'[events[m].fact] = facts[events[m].fact]
    BY <1>2, <2>1
  <2>3. EventsAreFacts'
    BY <1>2, <1>3, <2>1 DEF EventsAreFacts, Numbers
  <2>4. LastCovers' /\ OncePerFact'
    BY <1>3, <2>2 DEF ReportInv, LastCovers, OncePerFact, Numbers, Kind, Deduplicated
  <2>5. LastIsReport'
    BY <1>3, <2>2 DEF ReportInv, LastIsReport, Numbers, Kind
  <2> QED
    BY <2>3, <2>4, <2>5
<1>6. TimesRise'
  <2>1. \A f, g \in 1 .. n + 1 : f <= g => facts'[f].at <= facts'[g].at
    <3> SUFFICES ASSUME NEW f \in 1 .. n + 1, NEW g \in 1 .. n + 1, f <= g
                 PROVE  facts'[f].at <= facts'[g].at
      OBVIOUS
    <3>1. CASE g = n + 1
      <4>1. f \in 1 .. n \/ f = n + 1
        BY <1>2
      <4> QED
        BY <1>2, <1>4, <3>1, <4>1
    <3>2. CASE g # n + 1
      <4>1. f \in 1 .. n /\ g \in 1 .. n
        BY <1>2, <3>2
      <4> QED
        BY <1>2, <4>1 DEF ReportInv, TimesRise
    <3> QED
      BY <3>1, <3>2
  <2> QED
    BY <1>2, <2>1 DEF TimesRise
<1>7. TailIsPrompt'
  <2>1. \A f, g \in 1 .. n + 1 :
          f > startFact /\ f > read => facts'[g].at < facts'[f].at + FarGap
    <3> SUFFICES ASSUME NEW f \in 1 .. n + 1, NEW g \in 1 .. n + 1,
                        f > startFact, f > read
                 PROVE  facts'[g].at < facts'[f].at + FarGap
      OBVIOUS
    <3>1. FarGap \in Nat /\ FarGap > 0
      BY BoundsAreNat
    <3>2. CASE f = n + 1
      <4>1. g \in 1 .. n \/ g = n + 1
        BY <1>2
      <4>2. facts'[g].at \in Nat /\ facts'[g].at <= at
        BY <1>2, <1>4, <4>1
      <4> QED
        BY <1>2, <3>1, <3>2, <4>2
    <3>3. CASE f # n + 1
      <4>1. f \in 1 .. n /\ f \in UnderWay
        BY <1>2, <3>3 DEF UnderWay
      <4>2. CASE g = n + 1
        BY <1>2, <4>1, <4>2
      <4>3. CASE g # n + 1
        <5>1. g \in 1 .. n
          BY <1>2, <4>3
        <5> QED
          BY <1>2, <4>1, <5>1 DEF ReportInv, TailIsPrompt
      <4> QED
        BY <4>2, <4>3
    <3> QED
      BY <3>2, <3>3
  <2> QED
    BY <1>2, <2>1 DEF TailIsPrompt
<1>8. ReadIsReported'
  <2> SUFFICES ASSUME NEW f \in 1 .. n + 1,
                      Deduplicated(f)', f <= read', f > startFact',
                      facts'[f].what \in Written, Spaced(f)'
               PROVE  \E m \in Numbers' : m > startEvent' /\ events'[m].fact = f
    BY <1>2 DEF ReadIsReported
  <2>1. f \in 1 .. n
    BY <1>2 DEF FactTypes
  <2>2. /\ Deduplicated(f) /\ f <= read /\ f > startFact
        /\ facts[f].what \in Written
    BY <1>2, <2>1 DEF Deduplicated
  <2>3. Spaced(f)
    BY <1>2, <2>1 DEF Spaced
  <2>4. \E m \in Numbers : m > startEvent /\ events[m].fact = f
    BY <2>1, <2>2, <2>3 DEF ReportInv, ReadIsReported
  <2> QED
    BY <1>3, <2>4 DEF Numbers
<1> QED
  BY <1>5, <1>6, <1>7, <1>8 DEF ReportInv

LEMMA EmitEvents ==
  ASSUME FactTypes, BusTypes, NEW e \in Event, NEW ts, Emit(e, ts)
  PROVE  /\ Len(events) \in Nat /\ Numbers = 1 .. Len(events)
         /\ \/ ~ Passes(Kind(e), ts) /\ UNCHANGED <<last, events, frames>>
            \/ /\ Passes(Kind(e), ts)
               /\ last' = IF Kind(e) = "agent-output" THEN last
                          ELSE [last EXCEPT ![Kind(e)] = ts]
               /\ Len(events') = Len(events) + 1
               /\ Numbers' = Numbers \cup {Len(events) + 1}
               /\ \A n \in Numbers : events'[n] = events[n]
               /\ events'[Len(events) + 1] = e
               /\ frames' = IF online THEN Append(frames, Len(events) + 1)
                                      ELSE frames
<1>1. Len(events) \in Nat /\ Numbers = 1 .. Len(events)
  BY DEF BusTypes, Numbers
<1>2. CASE ~ Passes(Kind(e), ts)
  BY <1>1, <1>2 DEF Emit
<1>3. CASE Passes(Kind(e), ts)
  <2>1. /\ last' = IF Kind(e) = "agent-output" THEN last
                   ELSE [last EXCEPT ![Kind(e)] = ts]
        /\ events' = Append(events, e)
        /\ frames' = IF online THEN Append(frames, Len(events) + 1) ELSE frames
    BY <1>3 DEF Emit, SendEvent
  <2>2. /\ Len(events') = Len(events) + 1
        /\ \A n \in Numbers : events'[n] = events[n]
        /\ events'[Len(events) + 1] = e
    BY <1>1, <2>1, SeqTypes DEF BusTypes
  <2>3. Numbers' = Numbers \cup {Len(events) + 1}
    BY <1>1, <2>2 DEF Numbers
  <2> QED
    BY <1>1, <1>3, <2>1, <2>2, <2>3
<1> QED
  BY <1>2, <1>3

LEMMA EventsAre ==
  ASSUME FactTypes, EventsAreFacts, NEW n \in Numbers
  PROVE  /\ events[n].fact \in 1 .. Len(facts) /\ facts[events[n].fact].at \in Nat
         /\ Kind(events[n]) \in Kinds \cup {"agent-output"}
         /\ Deduplicated(events[n].fact) <=> Kind(events[n]) \in Kinds
<1>1. events[n].fact \in 1 .. Len(facts)
  BY DEF EventsAreFacts
<1>2. facts[events[n].fact].at \in Nat /\ facts[events[n].fact].what \in Whats
  BY <1>1, FactsAre
<1>3. Kind(events[n]) \in Kinds \cup {"agent-output"}
  BY <1>2, KindOfWhat DEF Kind
<1>4. "agent-output" \notin Kinds
  BY DEF Kinds
<1> QED
  BY <1>1, <1>2, <1>3, <1>4 DEF Deduplicated, Kind

\* A report passes only if the last of its kind is older than the window, so
\* the second report of a fact never does.
LEMMA ReportKeeps ==
  ASSUME FactTypes, BusTypes, ReportInv, Reports,
         UNCHANGED <<facts, startEvent>>
  PROVE  /\ EventsAreFacts' /\ LastCovers' /\ LastIsReport' /\ OncePerFact'
         /\ \A n \in Numbers : n \in Numbers' /\ events'[n] = events[n]
<1>0. PICK new : new = Len(events) + 1
  OBVIOUS
<1>1. PICK e \in Event, ts \in Nat :
        /\ e.fact <= Len(facts) /\ Emit(e, ts)
        /\ facts[e.fact].at <= ts /\ ts <= facts[e.fact].at + Skew
  BY DEF Reports
<1> DEFINE k == Kind(e)
<1>2. e.fact \in 1 .. Len(facts) /\ facts[e.fact].at \in Nat
      /\ k \in Kinds \cup {"agent-output"}
      /\ (Deduplicated(e.fact) <=> k \in Kinds)
  <2>1. e.fact \in 1 .. Len(facts)
    BY <1>1, BoundsAreNat DEF Event, FactTypes
  <2>2. facts[e.fact].at \in Nat /\ facts[e.fact].what \in Whats
    BY <2>1, FactsAre
  <2>3. k \in Kinds \cup {"agent-output"}
    BY <2>2, KindOfWhat DEF Kind
  <2> QED
    BY <2>1, <2>2, <2>3 DEF Deduplicated, Kind, Kinds
<1>3. CASE UNCHANGED <<last, events, frames>>
  <2>1. EventsAreFacts' /\ LastCovers' /\ LastIsReport' /\ OncePerFact'
    BY <1>3 DEF ReportInv, EventsAreFacts, LastCovers, LastIsReport, OncePerFact,
         Numbers, Kind, Deduplicated
  <2> QED
    BY <1>3, <2>1 DEF Numbers
<1>4. CASE /\ Passes(k, ts)
           /\ last' = IF k = "agent-output" THEN last ELSE [last EXCEPT ![k] = ts]
           /\ Len(events') = new
           /\ Numbers' = Numbers \cup {new}
           /\ \A n \in Numbers : events'[n] = events[n]
           /\ events'[new] = e
  <2>1. /\ Len(events) \in Nat /\ Numbers = 1 .. Len(events) /\ new \notin Numbers
        /\ new > startEvent /\ new \in Nat
    BY <1>0 DEF BusTypes, Numbers
  <2>2. EventsAreFacts'
    BY <1>2, <1>4 DEF ReportInv, EventsAreFacts
  <2>3. \A n \in Numbers : Kind(events[n])' = Kind(events[n])
    BY <1>4 DEF Kind
  <2>4. Kind(events[new])' = k
    BY <1>4 DEF Kind
  <2>5. \A j \in Kinds : /\ last'[j] = IF j = k THEN ts ELSE last[j]
                         /\ last[j] \in Nat \cup {None}
    BY <1>4, <1>2 DEF BusTypes, Kinds
  <2>6. \A n \in Numbers :
          n > startEvent /\ Kind(events[n]) \in Kinds
          => /\ last[Kind(events[n])] \in Nat
             /\ last[Kind(events[n])] >= facts[events[n].fact].at
    <3> SUFFICES ASSUME NEW n \in Numbers, n > startEvent, Kind(events[n]) \in Kinds
                 PROVE  /\ last[Kind(events[n])] \in Nat
                        /\ last[Kind(events[n])] >= facts[events[n].fact].at
      OBVIOUS
    <3>1. Deduplicated(events[n].fact)
      BY EventsAre DEF ReportInv
    <3> QED
      BY <2>5, <3>1 DEF ReportInv, LastCovers
  <2>7. k \in Kinds => last[k] = None \/ last[k] + Window <= ts
    BY <1>4 DEF Passes, Kinds
  <2>8. LastCovers'
    <3>1. \A n \in Numbers' :
            n > startEvent /\ Kind(events[n])' \in Kinds
            => /\ last'[Kind(events[n])'] # None
               /\ last'[Kind(events[n])'] >= facts[events'[n].fact].at
      <4> SUFFICES ASSUME NEW n \in Numbers', n > startEvent, Kind(events[n])' \in Kinds
                   PROVE  /\ last'[Kind(events[n])'] # None
                          /\ last'[Kind(events[n])'] >= facts[events'[n].fact].at
        OBVIOUS
      <4>1. CASE n = new
        BY <1>1, <1>4, <2>4, <2>5, <4>1, NoneAssumption
      <4>2. CASE n # new
        <5>1. n \in Numbers
          BY <1>4, <4>2
        <5>2. /\ last[Kind(events[n])] \in Nat
              /\ last[Kind(events[n])] >= facts[events[n].fact].at
              /\ facts[events[n].fact].at \in Nat
          BY <2>3, <2>6, <5>1, EventsAre DEF ReportInv
        <5>3. CASE Kind(events[n]) = k
          <6>1. last[k] + Window <= ts /\ ts \in Nat
            BY <2>3, <2>7, <5>1, <5>2, <5>3, NoneAssumption
          <6>2. ts >= facts[events[n].fact].at
            BY <5>2, <5>3, <6>1, BoundsAreNat
          <6> QED
            BY <1>4, <2>3, <2>5, <5>1, <5>3, <6>1, <6>2, NoneAssumption
        <5>4. CASE Kind(events[n]) # k
          BY <1>4, <2>3, <2>5, <5>1, <5>2, <5>4, NoneAssumption
        <5> QED
          BY <5>3, <5>4
      <4> QED
        BY <4>1, <4>2
    <3>2. \A n \in Numbers' :
            Deduplicated(events[n].fact)' => Kind(events[n])' \in Kinds
      <4> SUFFICES ASSUME NEW n \in Numbers', Deduplicated(events[n].fact)'
                   PROVE  Kind(events[n])' \in Kinds
        OBVIOUS
      <4>1. Deduplicated(events'[n].fact)
        BY DEF Deduplicated
      <4>2. CASE n = new
        BY <1>2, <1>4, <2>4, <4>1, <4>2
      <4>3. CASE n # new
        <5>1. n \in Numbers /\ events'[n] = events[n]
          BY <1>4, <4>3
        <5> QED
          BY <2>3, <4>1, <5>1, EventsAre DEF ReportInv
      <4> QED
        BY <4>2, <4>3
    <3> QED
      BY <3>1, <3>2 DEF LastCovers
  <2>9. LastIsReport'
    <3>1. \A j \in Kinds :
            last'[j] # None =>
              \E n \in Numbers' :
                /\ n > startEvent /\ Kind(events[n])' = j
                /\ last'[j] <= facts[events'[n].fact].at + Skew
      <4> SUFFICES ASSUME NEW j \in Kinds, last'[j] # None
                   PROVE  \E n \in Numbers' :
                            /\ n > startEvent /\ Kind(events[n])' = j
                            /\ last'[j] <= facts[events'[n].fact].at + Skew
        OBVIOUS
      <4>1. CASE j = k
        <5>1. new \in Numbers' /\ last'[j] = ts
          BY <1>4, <2>5, <4>1
        <5> QED
          BY <1>1, <1>4, <2>1, <2>4, <4>1, <5>1
      <4>2. CASE j # k
        <5>1. last'[j] = last[j]
          BY <2>5, <4>2
        <5>2. PICK n \in Numbers : /\ n > startEvent /\ Kind(events[n]) = j
                                   /\ last[j] <= facts[events[n].fact].at + Skew
          BY <5>1 DEF ReportInv, LastIsReport
        <5>3. n \in Numbers' /\ events'[n] = events[n]
          BY <1>4
        <5> QED
          BY <2>3, <5>1, <5>2, <5>3
      <4> QED
        BY <4>1, <4>2
    <3> QED
      BY <3>1 DEF LastIsReport
  <2>10. OncePerFact'
    <3>1. \A n \in Numbers :
            n > startEvent /\ Kind(events[n]) \in Kinds => events[n].fact # e.fact
      <4> SUFFICES ASSUME NEW n \in Numbers, n > startEvent,
                          Kind(events[n]) \in Kinds, events[n].fact = e.fact
                   PROVE  FALSE
        OBVIOUS
      <4>1. Kind(events[n]) = k
        BY DEF Kind
      <4>2. last[k] \in Nat /\ last[k] >= facts[e.fact].at
        BY <2>6, <4>1
      <4>3. last[k] + Window <= ts
        BY <2>7, <4>1, <4>2, NoneAssumption
      <4> QED
        BY <1>1, <1>2, <4>2, <4>3, BoundsAreNat
    <3>2. \A m, n \in Numbers' :
            /\ m > startEvent /\ n > startEvent
            /\ events'[m].fact = events'[n].fact /\ Deduplicated(events[n].fact)'
            => m = n
      <4> SUFFICES ASSUME NEW m \in Numbers', NEW n \in Numbers',
                          m > startEvent, n > startEvent,
                          events'[m].fact = events'[n].fact,
                          Deduplicated(events[n].fact)'
                   PROVE  m = n
        OBVIOUS
      <4>5. Deduplicated(events'[n].fact)
        BY DEF Deduplicated
      <4>1. CASE m \in Numbers /\ n \in Numbers
        BY <1>4, <4>5, <4>1 DEF ReportInv, OncePerFact
      <4>2. CASE m = new /\ n = new
        BY <4>2
      <4>3. CASE m = new /\ n \in Numbers
        <5>1. events[n].fact = e.fact /\ Kind(events[n]) \in Kinds
          BY <1>4, <4>5, <4>3, EventsAre DEF ReportInv
        <5> QED
          BY <3>1, <4>3, <5>1
      <4>4. CASE m \in Numbers /\ n = new
        <5>1. events[m].fact = e.fact /\ Deduplicated(events[m].fact)
          BY <1>4, <4>5, <4>4
        <5>2. Kind(events[m]) \in Kinds
          BY <4>4, <5>1, EventsAre DEF ReportInv
        <5> QED
          BY <3>1, <4>4, <5>1, <5>2
      <4> QED
        BY <1>4, <4>1, <4>2, <4>3, <4>4
    <3> QED
      BY <3>2 DEF OncePerFact
  <2> QED
    BY <1>4, <2>2, <2>8, <2>9, <2>10
<1> QED
  BY <1>1, <1>3, <1>4, <1>0, EmitEvents

\* Of two times, one blocked by a stamp that may be late for the other; and
\* two times that are closer than FarGap, either way.
LEMMA BlockedIsClose ==
  ASSUME NEW a \in Nat, NEW b \in Nat, NEW stamp \in Nat,
         ~ (stamp + Window <= a), stamp <= b + Skew
  PROVE  a < b + FarGap
BY BoundsAreNat

LEMMA CloseIsNotSpaced ==
  ASSUME NEW a \in Nat, NEW b \in Nat, a < b + FarGap, b < a + FarGap
  PROVE  ~ (a >= b + FarGap) /\ ~ (b >= a + FarGap)
BY BoundsAreNat

\* A line that is read is reported, unless a report of another fact of its
\* kind blocks it, which has then happened closer than the window.
LEMMA ReadIsReportedStep ==
  ASSUME FactTypes, BusTypes, ReportInv, ReadLine,
         NEW f \in 1 .. Len(facts), f = read', f > startFact,
         Deduplicated(f), facts[f].what \in Written, Spaced(f)
  PROVE  \E n \in Numbers' : n > startEvent /\ events'[n].fact = f
<1>1. f = read + 1
  BY ReadLineReports
<1>2. f > read
  BY <1>1 DEF FactTypes
<1>3. PICK e \in Event, ts \in Nat :
        Emit(e, ts) /\ e.fact = f /\ ts = facts[f].at
  <2>1. Emit([fact |-> f, source |-> "tail"], facts[f].at)
    BY DEF ReadLine
  <2>2. f \in 1 .. MaxFacts /\ facts[f].at \in Nat
    BY FactsAre
  <2>3. [fact |-> f, source |-> "tail"] \in Event
    BY <2>2 DEF Event
  <2> QED
    BY <2>1, <2>2, <2>3
<1>4. /\ Kind(e) \in Kinds /\ Kind(e) = KindOf[facts[f].what]
      /\ facts[f].at \in Nat
  BY <1>3, FactsAre, KindOfWhat DEF Kind, Deduplicated
<1>5. CASE Passes(Kind(e), ts)
  <2>1. /\ Len(events) \in Nat /\ Numbers' = Numbers \cup {Len(events) + 1}
        /\ events'[Len(events) + 1] = e /\ startEvent \in 0 .. Len(events)
    BY <1>3, <1>5, EmitEvents DEF BusTypes
  <2>2. Len(events) + 1 \in Numbers' /\ Len(events) + 1 > startEvent
    BY <2>1
  <2> QED
    BY <1>3, <2>1, <2>2
<1>6. CASE ~ Passes(Kind(e), ts)
  <2>1. UNCHANGED events /\ Numbers' = Numbers
    BY <1>3, <1>6, EmitEvents DEF Numbers
  <2>2. last[Kind(e)] # None /\ ~ (last[Kind(e)] + Window <= ts)
    BY <1>6 DEF Passes
  <2>3. PICK n \in Numbers :
          /\ n > startEvent /\ Kind(events[n]) = Kind(e)
          /\ last[Kind(e)] <= facts[events[n].fact].at + Skew
    BY <1>4, <2>2 DEF ReportInv, LastIsReport
  <2>4. PICK g \in 1 .. Len(facts) : g = events[n].fact /\ facts[g].at \in Nat
    BY EventsAre DEF ReportInv
  <2>5. last[Kind(e)] \in Nat
    BY <1>4, <2>2 DEF BusTypes
  <2>6. facts[f].at < facts[g].at + FarGap
    <3>1. facts[f].at \in Nat /\ ts = facts[f].at
      BY <1>3, <1>4
    <3>2. last[Kind(e)] <= facts[g].at + Skew
      BY <2>3, <2>4
    <3> QED
      BY <2>2, <2>4, <2>5, <3>1, <3>2, BlockedIsClose
  <2>7. facts[g].at < facts[f].at + FarGap
    BY <1>2, <2>4 DEF ReportInv, TailIsPrompt
  <2>8. g = f
    <3>1. KindOf[facts[g].what] = KindOf[facts[f].what]
      BY <1>4, <2>3, <2>4 DEF Kind
    <3>2. /\ ~ (facts[f].at >= facts[g].at + FarGap)
          /\ ~ (facts[g].at >= facts[f].at + FarGap)
      BY <1>4, <2>4, <2>6, <2>7, CloseIsNotSpaced
    <3> QED
      BY <2>4, <3>1, <3>2 DEF Spaced
  <2> QED
    BY <2>1, <2>3, <2>4, <2>8
<1> QED
  BY <1>5, <1>6

LEMMA ReportsReports ==
  ASSUME FactTypes, BusTypes, ReportInv, Hook \/ ReadLine
  PROVE  ReportInv'
<1>1. /\ read \in Nat /\ (read' = read \/ (ReadLine /\ read' = read + 1))
      /\ Reports \/ (ReadLine /\ facts[read'].what \notin Written /\ UNCHANGED busVars)
      /\ UNCHANGED <<facts, startEvent, startFact>>
  <2>1. read \in Nat
    BY DEF FactTypes
  <2>2. CASE Hook
    <3>1. Reports /\ UNCHANGED <<turn, facts, read, watchVars, calls, clientVars, runVars>>
      BY <2>2, HookReports
    <3> QED
      BY <2>1, <3>1 DEF runVars
  <2>3. CASE ReadLine
    <3>1. /\ read' = read + 1
          /\ IF facts[read'].what \in Written THEN Reports ELSE UNCHANGED busVars
          /\ UNCHANGED <<claudeVars, watchVars, calls, clientVars, runVars>>
      BY <2>3, ReadLineReports
    <3> QED
      BY <2>1, <2>3, <3>1 DEF claudeVars, runVars
  <2> QED
    BY <2>2, <2>3
<1>2. /\ EventsAreFacts' /\ LastCovers' /\ LastIsReport' /\ OncePerFact'
      /\ \A n \in Numbers : n \in Numbers' /\ events'[n] = events[n]
  <2>1. CASE Reports
    BY <1>1, <2>1, ReportKeeps
  <2>2. CASE UNCHANGED busVars
    <3>1. UNCHANGED <<last, events>>
      BY <2>2 DEF busVars
    <3>2. EventsAreFacts' /\ LastCovers' /\ LastIsReport' /\ OncePerFact'
      BY <1>1, <3>1 DEF ReportInv, EventsAreFacts, LastCovers, LastIsReport,
           OncePerFact, Numbers, Kind, Deduplicated
    <3> QED
      BY <3>1, <3>2 DEF Numbers
  <2> QED
    BY <1>1, <2>1, <2>2
<1>3. TimesRise'
  BY <1>1 DEF ReportInv, TimesRise
<1>4. TailIsPrompt'
  <2>1. \A f \in 1 .. Len(facts) : f > read' => f > read
    BY <1>1 DEF FactTypes
  <2> QED
    BY <1>1, <2>1 DEF ReportInv, TailIsPrompt
<1>5. ReadIsReported'
  <2> SUFFICES ASSUME NEW f \in 1 .. Len(facts), Deduplicated(f), f <= read',
                      f > startFact, facts[f].what \in Written, Spaced(f)
               PROVE  \E n \in Numbers' : n > startEvent /\ events'[n].fact = f
    BY <1>1 DEF ReadIsReported, Deduplicated, Spaced
  <2>1. CASE f <= read
    <3>1. PICK n \in Numbers : n > startEvent /\ events[n].fact = f
      BY <2>1 DEF ReportInv, ReadIsReported
    <3> QED
      BY <1>2, <3>1
  <2>2. CASE ~ (f <= read)
    <3>1. ReadLine /\ f = read'
      BY <1>1, <2>2 DEF FactTypes
    <3> QED
      BY <3>1, ReadIsReportedStep
  <2> QED
    BY <2>1, <2>2
<1> QED
  BY <1>2, <1>3, <1>4, <1>5 DEF ReportInv

\* A new run of the hub has reported nothing yet.
LEMMA RestartReports ==
  ASSUME FactTypes, BusTypes, ReportInv, Restart
  PROVE  ReportInv'
<1>1. /\ read' = 0 /\ startFact' = Len(facts) /\ startEvent' = Len(events)
      /\ last' = [k \in Kinds |-> None] /\ UNCHANGED <<facts, events>>
      /\ Len(events) \in Nat /\ Len(facts) \in Nat
  BY DEF Restart, BusTypes, FactTypes
<1>2. EventsAreFacts' /\ LastCovers' /\ OncePerFact'
  BY <1>1 DEF ReportInv, EventsAreFacts, LastCovers, OncePerFact, Numbers
<1>3. LastIsReport'
  BY <1>1 DEF LastIsReport
<1>4. TimesRise' /\ TailIsPrompt' /\ ReadIsReported'
  BY <1>1 DEF ReportInv, TimesRise, TailIsPrompt, ReadIsReported
<1> QED
  BY <1>2, <1>3, <1>4 DEF ReportInv

LEMMA ReportStep == TypeOK /\ ReportInv /\ [Next]_vars => ReportInv'
<1> SUFFICES ASSUME TypeOK, ReportInv, [Next]_vars PROVE ReportInv'
  OBVIOUS
<1>1. FactTypes /\ BusTypes
  BY TypeParts
<1>2. CASE UNCHANGED vars \/ QuietSteps
  <2>1. UNCHANGED <<facts, events, last, read, startEvent, startFact>>
    BY <1>2 DEF QuietSteps, Interrupt, HookLost, Busy, Quiet, Fire, Summarised,
         Subscribe, Receive, Cut, vars, claudeVars, busVars, runVars
  <2> QED
    BY <2>1, ReportsKept
<1>3. CASE Happens
  BY <1>1, <1>3, HappensReports
<1>4. CASE Hook \/ ReadLine
  BY <1>1, <1>4, ReportsReports
<1>5. CASE Restart
  BY <1>1, <1>5, RestartReports
<1> QED
  BY <1>2, <1>3, <1>4, <1>5 DEF Next, Happens, QuietSteps

LEMMA ReportInvSuffices == TypeOK /\ ReportInv => ReportedOnce
<1> SUFFICES ASSUME TypeOK, ReportInv,
                    NEW f \in 1 .. Len(facts), Deduplicated(f)
             PROVE  /\ Cardinality(PassedFor(f)) <= 1
                    /\ f <= read /\ f > startFact /\ facts[f].what \in Written
                         /\ Spaced(f)
                       => PassedFor(f) # {}
  BY DEF ReportedOnce
<1>1. Cardinality(PassedFor(f)) <= 1
  <2>1. CASE PassedFor(f) = {}
    BY <2>1, FS_EmptySet
  <2>2. CASE PassedFor(f) # {}
    <3>1. PICK n : n \in PassedFor(f)
      BY <2>2
    <3>2. \A m \in PassedFor(f) : m = n
      <4> SUFFICES ASSUME NEW m \in PassedFor(f) PROVE m = n
        OBVIOUS
      <4>1. /\ m \in Numbers /\ n \in Numbers /\ m > startEvent /\ n > startEvent
            /\ events[m].fact = f /\ events[n].fact = f
        BY <3>1 DEF PassedFor
      <4>2. Deduplicated(events[n].fact)
        BY <4>1
      <4> QED
        BY <4>1, <4>2 DEF ReportInv, OncePerFact
    <3>3. PassedFor(f) = {n}
      BY <3>1, <3>2
    <3>4. Cardinality({n}) = 1
      BY FS_Singleton
    <3> QED
      BY <3>3, <3>4
  <2> QED
    BY <2>1, <2>2
<1>2. f <= read /\ f > startFact /\ facts[f].what \in Written /\ Spaced(f)
      => PassedFor(f) # {}
  BY DEF ReportInv, ReadIsReported, PassedFor
<1> QED
  BY <1>1, <1>2

\* What both a hook and the transcript report moves the state machine once,
\* whichever report comes first or is lost; and it is not taken for another
\* event of its kind that is farther away than the window.
THEOREM OneMovePerFact == Spec => []ReportedOnce
<1>1. Init => TypeOK /\ ReportInv
  BY InitTypes, InitReports
<1>2. TypeOK /\ ReportInv /\ [Next]_vars => (TypeOK /\ ReportInv)'
  BY TypeStep, ReportStep
<1>3. TypeOK /\ ReportInv => ReportedOnce
  BY ReportInvSuffices
<1> QED
  BY <1>1, <1>2, <1>3, PTL DEF Spec

-----------------------------------------------------------------------------
(* The feed                                                                *)

\* What is under way to a client that has an event is what the ring has after
\* it; what is under way to one that has none is all since it connected.
FeedInv ==
  /\ \A i, j \in 1 .. Len(frames) : i < j => frames[i] < frames[j]
  /\ newest # None =>
       /\ \A i \in 1 .. Len(frames) : frames[i] > newest
       /\ online => \A n \in Ring : n > newest => n \in Range(frames)
  /\ frames # <<>> => online /\ \A n \in Ring : n > frames[1] => n \in Range(frames)

Rising(s) == \A i, j \in 1 .. Len(s) : i < j => s[i] < s[j]

LEMMA RangeOfAppend ==
  ASSUME NEW T, NEW s \in Seq(T), NEW x \in T
  PROVE  Range(Append(s, x)) = Range(s) \cup {x}
<1>1. /\ Append(s, x) \in Seq(T) /\ Len(Append(s, x)) = Len(s) + 1
      /\ \A i \in 1 .. Len(s) : Append(s, x)[i] = s[i]
      /\ Append(s, x)[Len(s) + 1] = x /\ Len(s) \in Nat
  BY SeqTypes
<1>2. /\ Range(s) = {s[i] : i \in 1 .. Len(s)}
      /\ Range(Append(s, x)) = {Append(s, x)[i] : i \in 1 .. Len(s) + 1}
  BY <1>1, RangeOfSequence
<1>3. 1 .. Len(s) + 1 = (1 .. Len(s)) \cup {Len(s) + 1}
  BY <1>1
<1> HIDE DEF Range
<1> QED
  BY <1>1, <1>2, <1>3

\* The head of a rising sequence is its least member, and is in it once.
LEMMA RisingTail ==
  ASSUME NEW s \in Seq(Nat), Rising(s), s # <<>>
  PROVE  /\ Head(s) = s[1] /\ s[1] \in Range(s) /\ Head(s) \in Nat
         /\ \A n \in Range(s) : s[1] <= n
         /\ Range(Tail(s)) = Range(s) \ {s[1]}
         /\ Rising(Tail(s))
         /\ \A i \in 1 .. Len(Tail(s)) : Tail(s)[i] > s[1]
<1>1. /\ Len(s) \in Nat /\ Len(s) >= 1 /\ Head(s) = s[1] /\ Head(s) \in Nat
      /\ Tail(s) \in Seq(Nat) /\ Len(Tail(s)) = Len(s) - 1
      /\ \A i \in 1 .. Len(Tail(s)) : Tail(s)[i] = s[i + 1]
  BY SeqTypes
<1>2. /\ Range(s) = {s[i] : i \in 1 .. Len(s)}
      /\ Range(Tail(s)) = {Tail(s)[i] : i \in 1 .. Len(s) - 1}
  BY <1>1, RangeOfSequence
<1>3. \A i \in 1 .. Len(s) : s[i] \in Nat /\ (i # 1 => s[i] > s[1])
  BY <1>1 DEF Rising
<1>4. Rising(Tail(s))
  BY <1>1 DEF Rising
<1>5. \A i \in 1 .. Len(Tail(s)) : Tail(s)[i] > s[1]
  BY <1>1, <1>3
<1>6. s[1] \in Range(s) /\ \A n \in Range(s) : s[1] <= n
  BY <1>1, <1>2, <1>3
<1>7. Range(Tail(s)) = Range(s) \ {s[1]}
  <2>1. Range(Tail(s)) \subseteq Range(s) \ {s[1]}
    BY <1>1, <1>2, <1>3
  <2>2. ASSUME NEW n \in Range(s), n # s[1]
        PROVE  n \in Range(Tail(s))
    <3>1. PICK i \in 1 .. Len(s) : n = s[i]
      BY <1>2
    <3>2. i - 1 \in 1 .. Len(s) - 1 /\ Tail(s)[i - 1] = s[i]
      BY <1>1, <2>2, <3>1
    <3> QED
      BY <1>2, <3>1, <3>2
  <2> QED
    BY <2>1, <2>2
<1> QED
  BY <1>1, <1>4, <1>5, <1>6, <1>7

\* The ring takes a new event; what makes room is older than what is left.
LEMMA RingGrows ==
  ASSUME BusTypes, Len(events') = Len(events) + 1, UNCHANGED startEvent
  PROVE  /\ Len(events') \in Ring' /\ Ring' \subseteq Ring \cup {Len(events')}
         /\ \A m \in Ring \ Ring', n \in Ring' : m < n
<1>1. /\ Len(events) \in Nat /\ startEvent \in 0 .. Len(events)
      /\ RingMax \in Nat /\ RingMax >= 1
  BY BoundsAreNat DEF BusTypes
<1> QED
  BY <1>1 DEF Ring

LEMMA InitFeed == Init => FeedInv /\ Feed!Init
<1> SUFFICES ASSUME Init PROVE FeedInv /\ Feed!Init
  OBVIOUS
<1>1. /\ frames = <<>> /\ Len(frames) = 0 /\ newest = None /\ online = FALSE
      /\ Len(events) = 0
  BY DEF Init
<1>2. Range(frames) = {} /\ Ring = {}
  BY <1>1 DEF Range, Ring
<1> QED
  BY <1>1, <1>2 DEF FeedInv, Feed!Init

\* What the invariant and the abstract feed look at.
LEMMA FeedKept ==
  ASSUME UNCHANGED <<events, startEvent, online, frames, newest>>
  PROVE  (FeedInv => FeedInv') /\ UNCHANGED Feed!feedVars
BY DEF FeedInv, Ring, Feed!feedVars

LEMMA PublishFeed ==
  ASSUME BusTypes, RestTypes, FeedInv, Len(events') = Len(events) + 1,
         frames' = IF online THEN Append(frames, Len(events')) ELSE frames,
         UNCHANGED <<startEvent, online, newest>>
  PROVE  FeedInv' /\ Feed!Publish
<1> DEFINE new == Len(events) + 1
<1>1. /\ new \in Ring' /\ Ring' \subseteq Ring \cup {new}
      /\ \A m \in Ring \ Ring', n \in Ring' : m < n
  BY RingGrows
<1>2. /\ Len(events) \in Nat /\ frames \in Seq(Nat)
      /\ \A i \in 1 .. Len(frames) : frames[i] \in Nat /\ frames[i] < new
      /\ newest # None => newest \in Nat /\ newest < new
  <2>1. Numbers \subseteq Nat /\ Len(events) \in Nat
    BY DEF BusTypes, Numbers
  <2>2. frames \in Seq(Nat)
    BY <2>1, SeqOfMore DEF BusTypes
  <2>3. \A i \in 1 .. Len(frames) : frames[i] \in Numbers
    BY DEF BusTypes
  <2> QED
    BY <2>1, <2>2, <2>3 DEF Numbers, BusTypes
<1>3. CASE online
  <2>1. /\ frames' = Append(frames, new) /\ Len(frames') = Len(frames) + 1
        /\ \A i \in 1 .. Len(frames) : frames'[i] = frames[i]
        /\ frames'[Len(frames) + 1] = new /\ Len(frames) \in Nat
        /\ Range(frames') = Range(frames) \cup {new}
    BY <1>2, <1>3, SeqTypes, RangeOfAppend
  <2>2. \A i, j \in 1 .. Len(frames') : i < j => frames'[i] < frames'[j]
    BY <1>2, <2>1 DEF FeedInv
  <2>3. newest # None =>
          /\ \A i \in 1 .. Len(frames') : frames'[i] > newest
          /\ \A n \in Ring' : n > newest => n \in Range(frames')
    BY <1>1, <1>2, <1>3, <2>1 DEF FeedInv
  <2>4. \A n \in Ring' : n > frames'[1] => n \in Range(frames')
    <3>1. CASE frames = <<>>
      <4>1. frames'[1] = new
        BY <2>1, <3>1
      <4>2. \A n \in Ring' : n <= new
        BY <1>2 DEF Ring
      <4> QED
        BY <1>2, <4>1, <4>2 DEF Ring
    <3>2. CASE frames # <<>>
      <4>1. frames'[1] = frames[1]
        BY <2>1, <3>2, <1>2, SeqTypes
      <4> QED
        BY <1>1, <2>1, <3>2, <4>1 DEF FeedInv
    <3> QED
      BY <3>1, <3>2
  <2>5. FeedInv'
    BY <1>3, <2>2, <2>3, <2>4 DEF FeedInv
  <2> QED
    BY <1>1, <1>3, <2>1, <2>5 DEF Feed!Publish
<1>4. CASE ~ online
  <2>1. frames = <<>> /\ frames' = <<>> /\ Len(frames') = 0
    BY <1>4 DEF FeedInv
  <2>2. FeedInv'
    BY <1>4, <2>1 DEF FeedInv
  <2> QED
    BY <1>1, <1>4, <2>1, <2>2 DEF Feed!Publish
<1> QED
  BY <1>3, <1>4

LEMMA ConnectFeed ==
  ASSUME BusTypes, FeedInv, Subscribe
  PROVE  FeedInv' /\ Feed!Connect
<1>1. /\ ~ online /\ online' = TRUE /\ UNCHANGED <<events, startEvent, newest>>
      /\ frames' \in Seq(Numbers)
      /\ Range(frames') = IF newest = None THEN {} ELSE {n \in Ring : n > newest}
      /\ \A i, j \in DOMAIN frames' : i < j => frames'[i] < frames'[j]
  BY SubscribeFrames DEF Subscribe, runVars
<1>2. UNCHANGED Ring
  BY <1>1 DEF Ring
<1>3. /\ DOMAIN frames' = 1 .. Len(frames')
      /\ Range(frames') = {frames'[i] : i \in 1 .. Len(frames')}
  BY <1>1, RangeOfSequence
<1>4. \A i \in 1 .. Len(frames') :
        /\ newest # None /\ frames'[i] \in Ring /\ frames'[i] > newest
        /\ frames'[i] \in Nat
  <2>1. \A i \in 1 .. Len(frames') : frames'[i] \in Range(frames')
    BY <1>3
  <2>2. \A n \in Range(frames') : newest # None /\ n \in Ring /\ n > newest /\ n \in Nat
    BY <1>1 DEF Ring
  <2> QED
    BY <2>1, <2>2
<1>5. newest # None => newest \in Nat
  BY DEF BusTypes, Numbers
<1>6. FeedInv'
  <2>1. newest # None => \A n \in Ring : n > newest => n \in Range(frames')
    BY <1>1
  <2>2. frames' # <<>> => 1 \in 1 .. Len(frames')
    BY <1>1, SeqTypes
  <2>3. frames' # <<>> => \A n \in Ring : n > frames'[1] => n \in Range(frames')
    <3> SUFFICES ASSUME frames' # <<>>, NEW n \in Ring, n > frames'[1]
                 PROVE  n \in Range(frames')
      OBVIOUS
    <3>1. newest # None /\ frames'[1] > newest /\ frames'[1] \in Nat
      BY <1>4, <2>2
    <3>2. n \in Nat
      BY DEF Ring
    <3> QED
      BY <1>5, <2>1, <3>1, <3>2
  <2> QED
    BY <1>1, <1>2, <1>3, <1>4, <2>1, <2>3 DEF FeedInv
<1> QED
  BY <1>1, <1>2, <1>6 DEF Feed!Connect

LEMMA TakeFeed ==
  ASSUME BusTypes, FeedInv, Receive
  PROVE  FeedInv' /\ Feed!Take
<1>1. /\ frames # <<>> /\ frames' = Tail(frames) /\ newest' = Head(frames)
      /\ UNCHANGED <<events, startEvent, online>>
  BY DEF Receive, runVars
<1>2. frames \in Seq(Nat)
  <2>1. Numbers \subseteq Nat
    BY DEF Numbers
  <2> QED
    BY <2>1, SeqOfMore DEF BusTypes
<1>3. Rising(frames)
  BY DEF FeedInv, Rising
<1>4. /\ newest' = frames[1] /\ frames[1] \in Range(frames) /\ frames[1] \in Nat
      /\ \A n \in Range(frames) : frames[1] <= n
      /\ Range(frames') = Range(frames) \ {frames[1]}
      /\ Rising(frames')
      /\ \A i \in 1 .. Len(frames') : frames'[i] > frames[1]
  BY <1>1, <1>2, <1>3, RisingTail
<1>5. UNCHANGED Ring /\ \A n \in Ring : n \in Nat
  BY <1>1 DEF Ring
<1>6. online /\ \A n \in Ring : n > frames[1] => n \in Range(frames')
  BY <1>1, <1>4, <1>5 DEF FeedInv
<1>7. frames' # <<>> =>
        \A n \in Ring : n > frames'[1] => n \in Range(frames')
  <2> SUFFICES ASSUME frames' # <<>>, NEW n \in Ring, n > frames'[1]
               PROVE  n \in Range(frames')
    OBVIOUS
  <2>1. frames' \in Seq(Nat) /\ 1 \in 1 .. Len(frames') /\ frames'[1] \in Nat
    BY <1>1, <1>2, SeqTypes
  <2>2. frames'[1] > frames[1] /\ n \in Nat
    BY <1>4, <1>5, <2>1
  <2> QED
    BY <1>4, <1>6, <2>1, <2>2
<1>8. FeedInv'
  BY <1>1, <1>4, <1>5, <1>6, <1>7 DEF FeedInv, Rising
<1> QED
  BY <1>1, <1>4, <1>5, <1>8 DEF Feed!Take

LEMMA DisconnectFeed ==
  ASSUME BusTypes, FeedInv, Cut \/ Restart
  PROVE  FeedInv' /\ (Feed!Disconnect \/ Feed!Forget)
<1>1. /\ online' = FALSE /\ frames' = <<>> /\ UNCHANGED <<events, newest>>
      /\ Len(frames') = 0 /\ Len(events) \in Nat
  BY DEF Cut, Restart, BusTypes
<1>2. FeedInv'
  BY <1>1 DEF FeedInv
<1>3. Range(frames') = {}
  BY <1>1 DEF Range
<1>4. CASE Cut
  <2>1. UNCHANGED Ring
    BY <1>4 DEF Cut, runVars, Ring
  <2> QED
    BY <1>1, <1>2, <1>3, <2>1 DEF Feed!Disconnect
<1>5. CASE Restart
  <2>1. startEvent' = Len(events')
    BY <1>1, <1>5 DEF Restart
  <2>2. Ring' = {}
    BY <1>1, <2>1 DEF Ring
  <2> QED
    BY <1>1, <1>2, <1>3, <2>2 DEF Feed!Forget
<1> QED
  BY <1>4, <1>5

LEMMA FeedStep ==
  ASSUME TypeOK, FeedInv, [Next]_vars
  PROVE  FeedInv' /\ [Feed!Next]_(Feed!feedVars)
<1>1. FactTypes /\ BusTypes /\ RestTypes
  BY TypeParts
<1>2. CASE UNCHANGED <<events, startEvent, online, frames, newest>>
  BY <1>2, FeedKept
<1>3. CASE Hook \/ ReadLine
  <2>1. /\ UNCHANGED <<startEvent, online, newest>>
        /\ Reports \/ UNCHANGED busVars
    <3>1. CASE Hook
      BY <1>1, <3>1, HookReports DEF clientVars, runVars
    <3>2. CASE ReadLine
      BY <1>1, <3>2, ReadLineReports DEF clientVars, runVars
    <3> QED
      BY <1>3, <3>1, <3>2
  <2>2. \/ UNCHANGED <<events, frames>>
        \/ /\ Len(events') = Len(events) + 1
           /\ frames' = IF online THEN Append(frames, Len(events')) ELSE frames
    <3>1. CASE Reports
      <4>1. PICK e \in Event, ts \in Nat : Emit(e, ts)
        BY <3>1 DEF Reports
      <4> QED
        BY <1>1, <4>1, EmitEvents
    <3>2. CASE UNCHANGED busVars
      BY <3>2 DEF busVars
    <3> QED
      BY <2>1, <3>1, <3>2
  <2>3. CASE UNCHANGED <<events, frames>>
    BY <1>2, <2>1, <2>3
  <2>4. CASE /\ Len(events') = Len(events) + 1
             /\ frames' = IF online THEN Append(frames, Len(events')) ELSE frames
    BY <1>1, <2>1, <2>4, PublishFeed DEF Feed!Next
  <2> QED
    BY <2>2, <2>3, <2>4
<1>4. CASE Subscribe
  BY <1>1, <1>4, ConnectFeed DEF Feed!Next
<1>5. CASE Receive
  BY <1>1, <1>5, TakeFeed DEF Feed!Next
<1>6. CASE Cut \/ Restart
  BY <1>1, <1>6, DisconnectFeed DEF Feed!Next
<1>7. CASE UNCHANGED vars \/ Happens \/ Interrupt \/ HookLost \/ Busy \/ Quiet
           \/ Fire \/ \E batch \in calls : Summarised(batch)
  <2>1. UNCHANGED <<events, startEvent, online, frames, newest>>
    <3>1. CASE Happens
      BY <3>1, HappensDo DEF busVars, clientVars, runVars
    <3>2. CASE ~ Happens
      BY <1>7, <3>2 DEF Interrupt, HookLost, Busy, Quiet, Fire, Summarised,
           vars, busVars, clientVars, runVars
    <3> QED
      BY <3>1, <3>2
  <2> QED
    BY <1>2, <2>1
<1> QED
  BY <1>3, <1>4, <1>5, <1>6, <1>7 DEF Next, Happens

\* A client that has subscribed has got, or is being sent, everything that is
\* in the ring and newer than the oldest event it has, once and in order.
THEOREM FeedIsComplete == Spec => []FeedComplete
<1>1. Init => TypeOK /\ FeedInv
  BY InitTypes, InitFeed
<1>2. TypeOK /\ FeedInv /\ [Next]_vars => (TypeOK /\ FeedInv)'
  BY TypeStep, FeedStep
<1>3. TypeOK /\ FeedInv => FeedComplete
  <2>1. TypeOK => DOMAIN frames = 1 .. Len(frames)
    BY DEF TypeOK
  <2> QED
    BY <2>1 DEF FeedInv, FeedComplete
<1> QED
  BY <1>1, <1>2, <1>3, PTL DEF Spec

\* The ring, the queue of frames and the deduplicator, through cuts and
\* restarts, give a client the feed that EventFeed promises.
THEOREM FeedImplemented == Spec => ImplementsFeed
<1>1. Init => TypeOK /\ FeedInv /\ Feed!Init
  BY InitTypes, InitFeed
<1>2. TypeOK /\ FeedInv /\ [Next]_vars
      => (TypeOK /\ FeedInv)' /\ [Feed!Next]_(Feed!feedVars)
  BY TypeStep, FeedStep
<1> QED
  BY <1>1, <1>2, PTL DEF Spec, ImplementsFeed, Feed!Spec

-----------------------------------------------------------------------------
(* Summaries                                                               *)

\* The safety half of AnswersSummarised: while the trigger's buffer holds an
\* answer or an error of Claude, its timer is set, whichever events came
\* before or after it and however often the timer was put off.
TimerIsSet ==
  \A n \in buffer : Kind(events[n]) \in {"agent-output", "error"} => armed

\* One report leaves the old entries of the buffer as they are, and sets the
\* timer with an entry that needs it.
LEMMA EmitTimer ==
  ASSUME FactTypes, BusTypes, EventsAreFacts, TimerIsSet,
         NEW e \in Event, NEW ts \in Nat, e.fact <= Len(facts), Emit(e, ts),
         facts' = facts
  PROVE  TimerIsSet'
<1>1. \A n \in buffer : n \in Numbers
  BY DEF BusTypes, Numbers
<1>2. CASE ~ Passes(Kind(e), ts)
  <2>1. UNCHANGED <<events, buffer, armed>>
    BY <1>2 DEF Emit
  <2> QED
    BY <2>1 DEF TimerIsSet, Kind
<1>3. CASE Passes(Kind(e), ts)
  <2>1. /\ buffer' = buffer \cup {Len(events) + 1}
        /\ armed' = (armed \/ Arms(Kind(e)))
    BY <1>3 DEF Emit, Buffered
  <2>2. /\ \A n \in Numbers : events'[n] = events[n]
        /\ events'[Len(events) + 1] = e
    BY <1>3, EmitEvents
  <2>3. ASSUME NEW n \in buffer', Kind(events[n])' \in {"agent-output", "error"}
        PROVE  armed'
    <3>1. CASE n \in buffer
      <4>1. Kind(events[n])' = Kind(events[n])
        BY <1>1, <2>2, <3>1 DEF Kind
      <4> QED
        BY <2>1, <2>3, <3>1, <4>1 DEF TimerIsSet
    <3>2. CASE n = Len(events) + 1
      <4>1. Kind(events[n])' = Kind(e)
        BY <2>2, <3>2 DEF Kind
      <4> QED
        BY <2>1, <2>3, <4>1 DEF Arms
    <3> QED
      BY <2>1, <3>1, <3>2
  <2> QED
    BY <2>3 DEF TimerIsSet
<1> QED
  BY <1>2, <1>3

LEMMA TimerStep ==
  TypeOK /\ EventsAreFacts /\ TimerIsSet /\ [Next]_vars => TimerIsSet'
<1> SUFFICES ASSUME TypeOK, EventsAreFacts, TimerIsSet, [Next]_vars
             PROVE  TimerIsSet'
  OBVIOUS
<1>0. FactTypes /\ BusTypes
  BY TypeParts
<1>1. CASE UNCHANGED <<facts, events, buffer, armed>>
  BY <1>1 DEF TimerIsSet, Kind
<1>2. CASE Happens
  <2>1. PICK what \in Whats : Do(what)
    BY <1>2, HappensDo
  <2>2. UNCHANGED <<events, buffer, armed>>
    BY <1>2, HappensDo DEF busVars
  <2>3. \A f \in 1 .. Len(facts) : facts'[f] = facts[f]
    BY <1>0, <2>1, DoTypes DEF FactTypes
  <2>4. \A n \in buffer : events[n].fact \in 1 .. Len(facts)
    BY <1>0 DEF BusTypes, Numbers, EventsAreFacts
  <2> QED
    BY <2>2, <2>3, <2>4 DEF TimerIsSet, Kind
<1>3. ASSUME Reports, facts' = facts
      PROVE  TimerIsSet'
  BY <1>0, <1>3, EmitTimer DEF Reports
<1>4. CASE Hook
  <2>1. Reports /\ facts' = facts
    BY <1>0, <1>4, HookReports DEF Hook
  <2> QED
    BY <1>3, <2>1
<1>5. CASE ReadLine
  <2>1. Reports \/ UNCHANGED busVars
    BY <1>0, <1>5, ReadLineReports
  <2>2. facts' = facts
    BY <1>5 DEF ReadLine, claudeVars
  <2> QED
    BY <1>1, <1>3, <2>1, <2>2 DEF busVars
<1>6. CASE Fire \/ Restart
  BY <1>6 DEF Fire, Restart, TimerIsSet
<1>7. CASE UNCHANGED vars \/ (QuietSteps /\ ~ Fire)
  <2>1. UNCHANGED <<facts, events, buffer, armed>>
    BY <1>7 DEF QuietSteps, Interrupt, HookLost, Busy, Quiet, Summarised,
         Subscribe, Receive, Cut, vars, claudeVars, busVars
  <2> QED
    BY <1>1, <2>1
<1> QED
  BY <1>2, <1>4, <1>5, <1>6, <1>7 DEF Next, Happens, QuietSteps

\* No answer waits for a summary that nobody will ask for.
THEOREM AnswersHaveATimer == Spec => []TimerIsSet
<1>1. Init => TimerIsSet
  BY DEF Init, TimerIsSet
<1>2. TypeOK /\ ReportInv /\ TimerIsSet /\ [Next]_vars => TimerIsSet'
  BY TimerStep DEF ReportInv
<1>3. Init => ReportInv
  BY InitReports
<1> QED
  BY <1>1, <1>2, <1>3, TypeCorrect, ReportStep, PTL DEF Spec

=============================================================================
