-------------------------- MODULE SessionLifeProofs --------------------------
(***************************************************************************)
(* Proofs about SessionLife, for any sessions, any timeout and any number  *)
(* of the hub's runs: what the checkpoint has, and which sessions stay.    *)
(***************************************************************************)
EXTENDS SessionLife, TLAPS

-----------------------------------------------------------------------------
(* Records                                                                 *)

LEMMA TimeoutPositive == Timeout \in Nat /\ Timeout >= 1
BY TimeoutAssumption

LEMMA NoneIsNoRecord ==
  ASSUME NEW rec \in Record
  PROVE  rec # None
BY NoneAssumption

LEMMA FreshIsRecord == Fresh \in Record /\ Fresh.age = 0
<1>1. 0 \in 0 .. Never
  BY TimeoutPositive DEF Never
<1> QED
  BY <1>1 DEF Fresh, Record

LEMMA RestoredIsRecord ==
  ASSUME NEW rec \in Record
  PROVE  /\ Restored(rec) \in Record
         /\ Restored(rec).age = rec.age
         /\ Restored(rec).progress = rec.progress
         /\ Restored(rec).settings = rec.settings
BY FreshIsRecord DEF Restored, Record, Fresh

LEMMA OlderIsRecord ==
  ASSUME NEW rec \in Record, NEW n \in Nat
  PROVE  /\ Older(rec, n) \in Record
         /\ Older(rec, n).age = MinOf(rec.age + n, Never)
         /\ Older(rec, n).progress = rec.progress
         /\ Older(rec, n).settings = rec.settings
<1>1. rec # None
  BY NoneIsNoRecord
<1>2. rec.age \in 0 .. Never /\ Never \in Nat
  BY TimeoutPositive DEF Record, Never
<1>3. MinOf(rec.age + n, Never) \in 0 .. Never
  BY <1>2 DEF MinOf
<1> QED
  BY <1>1, <1>3 DEF Older, Record

LEMMA OlderNone == \A n : Older(None, n) = None
BY DEF Older

-----------------------------------------------------------------------------
(* Type correctness                                                        *)

LEMMA HubGoneTypeOK ==
  ASSUME TypeOK, HubGone
  PROVE  TypeOK'
BY DEF TypeOK, HubGone, cliVars, diskVars, timeVars

LEMMA LapsedType ==
  ASSUME TypeOK, NEW n \in Nat
  PROVE  Lapsed(n) \in [Sessions -> 0 .. Never]
BY TimeoutPositive DEF Lapsed, MinOf, Never, TypeOK

LEMMA ElapseTypeOK ==
  ASSUME TypeOK, NEW n \in Nat, Elapse(n), sleeps' \in 0 .. MaxSleeps
  PROVE  TypeOK'
<1>1. \A s \in Sessions : /\ Older(reg[s], n) \in Record \cup {None}
                          /\ Older(disk[s], n) \in Record \cup {None}
  BY OlderIsRecord, OlderNone DEF TypeOK
<1>2. /\ reg' \in [Sessions -> Record \cup {None}]
      /\ disk' \in [Sessions -> Record \cup {None}]
  BY <1>1 DEF Elapse
<1>3. lapse' \in [Sessions -> 0 .. Never]
  BY LapsedType DEF Elapse, TypeOK
<1> QED
  BY <1>2, <1>3 DEF Elapse, TypeOK, Registered, cliVars

LEMMA TypeStep ==
  ASSUME TypeOK, [Next]_vars
  PROVE  TypeOK'
<1> USE DEF TypeOK
<1>1. ASSUME NEW s \in Sessions, Start(s)
      PROVE  TypeOK'
  BY <1>1 DEF Start, Post, hubVars, diskVars, timeVars
<1>2. ASSUME NEW s \in Sessions, Register(s)
      PROVE  TypeOK'
  BY <1>2, FreshIsRecord DEF Register, MarkDirty, Checkpointing, diskVars
<1>3. ASSUME NEW s \in Sessions, RegisterFails(s)
      PROVE  TypeOK'
  BY <1>3 DEF RegisterFails, hubVars, diskVars, timeVars
<1>4. ASSUME NEW s \in Sessions, Beat(s)
      PROVE  TypeOK'
  <2>1. /\ reg' \in [Sessions -> Record \cup {None}]
        /\ dirty' \in BOOLEAN
    <3>1. CASE LiveSession(s)
      <4>1. [reg[s] EXCEPT !.age = 0] \in Record
        BY <3>1, TimeoutPositive DEF LiveSession, Record, Never
      <4> QED
        BY <1>4, <3>1, <4>1
           DEF Beat, RecordHeartbeat, MarkDirty, Checkpointing
    <3>2. CASE ~ LiveSession(s)
      BY <1>4, <3>2 DEF Beat
    <3> QED
      BY <3>1, <3>2
  <2> QED
    BY <1>4, <2>1 DEF Beat, cliVars, diskVars
<1>5. ASSUME NEW s \in Sessions, Leave(s) \/ Exit(s) \/ Kill(s) \/ PidTaken(s)
      PROVE  TypeOK'
  BY <1>5 DEF Leave, Exit, Kill, PidTaken, hubVars, diskVars, timeVars
<1>6. ASSUME NEW s \in Sessions, Delete(s) \/ DeleteLost(s)
      PROVE  TypeOK'
  BY <1>6 DEF Delete, DeleteLost, MarkDirty, Checkpointing, hubVars, diskVars,
              timeVars
<1>7. ASSUME NEW s \in Sessions, NEW v \in Settings, Configure(s, v)
      PROVE  TypeOK'
  <2>1. reg[s] \in Record
    BY <1>7 DEF Configure, LiveSession
  <2>2. [reg[s] EXCEPT !.settings = v] \in Record
    BY <2>1 DEF Record
  <2> QED
    BY <1>7, <2>2 DEF Configure, Set, cliVars, diskVars
<1>8. ASSUME NEW s \in Sessions, NEW w \in Progress, Advance(s, w)
      PROVE  TypeOK'
  <2>1. reg[s] \in Record
    BY <1>8 DEF Advance
  <2>2. [reg[s] EXCEPT !.progress = w] \in Record
    BY <2>1 DEF Record
  <2> QED
    BY <1>8, <2>2 DEF Advance, MarkDirty, Checkpointing, cliVars, diskVars,
                      timeVars
<1>9. CASE Reap
  BY <1>9 DEF Reap, MarkDirty, Checkpointing, cliVars, diskVars, timeVars
<1>10. CASE Flush
  <2>1. lapse' \in [Sessions -> 0 .. Never]
    BY <1>10, TimeoutPositive DEF Flush, Never
  <2> QED
    BY <1>10, <2>1 DEF Flush, Registered, cliVars
<1>11. CASE StartHub
  <2>1. \A s \in Sessions : disk[s] # None => Restored(disk[s]) \in Record
    BY RestoredIsRecord
  <2>2. reg' \in [Sessions -> Record \cup {None}]
    BY <1>11, <2>1 DEF StartHub
  <2>3. starts' \in 0 .. MaxStarts
    BY <1>11, BoundsAssumption DEF StartHub
  <2> QED
    BY <1>11, <2>2, <2>3, LapsedType DEF StartHub, cliVars, diskVars
<1>12. CASE Listen \/ StopHub
  BY <1>12 DEF Listen, StopHub, Registered, cliVars, diskVars, timeVars
<1>13. CASE Closed \/ CrashHub
  BY <1>13, HubGoneTypeOK DEF Closed, CrashHub
<1>14. CASE Tick
  BY <1>14, ElapseTypeOK DEF Tick
<1>15. CASE Sleep
  <2>1. sleeps' \in 0 .. MaxSleeps /\ Never \in Nat
    BY <1>15, BoundsAssumption, TimeoutPositive DEF Sleep, Never
  <2> QED
    BY <1>15, <2>1, ElapseTypeOK DEF Sleep
<1>16. CASE UNCHANGED vars
  BY <1>16 DEF vars, cliVars, hubVars, diskVars, timeVars
<1> QED
  BY <1>1, <1>2, <1>3, <1>4, <1>5, <1>6, <1>7, <1>8, <1>9, <1>10, <1>11,
     <1>12, <1>13, <1>14, <1>15, <1>16 DEF Next, CliStep, HubStep

LEMMA TypeInit ==
  ASSUME Init
  PROVE  TypeOK
<1>1. 0 \in 0 .. Never /\ 0 \in 0 .. MaxStarts /\ 0 \in 0 .. MaxSleeps
  BY TimeoutPositive, BoundsAssumption DEF Never
<1> QED
  BY <1>1 DEF Init, TypeOK

(* The type invariant, on every behaviour.                                 *)
THEOREM TypeCorrect == Spec => []TypeOK
<1>1. Init => TypeOK
  BY TypeInit
<1>2. TypeOK /\ [Next]_vars => TypeOK'
  BY TypeStep
<1> QED
  BY <1>1, <1>2, PTL DEF Spec

-----------------------------------------------------------------------------
(* What the checkpoint has                                                 *)

(* A hub that has not begun to listen has the settings of its checkpoint:  *)
(* what makes SettingsSavedByHeartbeat inductive.                          *)
StartsFromDisk ==
  stage = "starting" =>
    \A s \in Registered :
      disk[s] # None /\ disk[s].settings = reg[s].settings

CheckpointInv ==
  TypeOK /\ CheckpointCurrent /\ StartsFromDisk /\ SettingsSavedByHeartbeat

(* Time changes the two copies of a record in the same way.                *)
LEMMA ElapseCheckpoint ==
  ASSUME CheckpointInv, stage \in {"down", "up"}, ~ dirty,
         NEW n \in Nat, Elapse(n)
  PROVE  CheckpointCurrent' /\ StartsFromDisk' /\ SettingsSavedByHeartbeat'
<1>1. stage' \in {"down", "up"} /\ stage' = stage /\ dirty' = dirty
  BY DEF Elapse
<1>2. StartsFromDisk'
  BY <1>1 DEF StartsFromDisk
<1>3. CASE stage = "up"
  <2> SUFFICES ASSUME NEW s \in Registered'
               PROVE  /\ disk'[s] # None
                      /\ disk'[s].age = reg'[s].age
                      /\ disk'[s].progress = reg'[s].progress
                      /\ cli'[s] = "running" => s \in due'
    BY <1>1, <1>2 DEF CheckpointCurrent, SettingsSavedByHeartbeat
  <2>1. s \in Sessions /\ reg[s] # None
    BY OlderNone DEF Registered, Elapse
  <2>2. /\ disk[s] # None /\ disk[s].age = reg[s].age
        /\ disk[s].progress = reg[s].progress
    BY <1>3, <2>1
       DEF CheckpointInv, CheckpointCurrent, Checkpointing, Registered
  <2>3. reg[s] \in Record /\ disk[s] \in Record
    BY <2>1, <2>2 DEF CheckpointInv, TypeOK
  <2>4. reg'[s] = Older(reg[s], n) /\ disk'[s] = Older(disk[s], n)
    BY <2>1 DEF Elapse
  <2>5. disk'[s] # None
    BY <2>3, <2>4, OlderIsRecord, NoneIsNoRecord
  <2>6. s \in due' <=> cli'[s] = "running"
    BY <2>1 DEF Elapse, cliVars
  <2> QED
    BY <2>2, <2>3, <2>4, <2>5, <2>6, OlderIsRecord
<1>4. CASE stage = "down"
  BY <1>1, <1>2, <1>4
     DEF CheckpointCurrent, SettingsSavedByHeartbeat, Checkpointing
<1> QED
  BY <1>3, <1>4

LEMMA CheckpointStep ==
  ASSUME CheckpointInv, [Next]_vars
  PROVE  CheckpointInv'
<1> USE DEF CheckpointInv, CheckpointCurrent, StartsFromDisk,
            SettingsSavedByHeartbeat, Checkpointing, Registered
<1>0. TypeOK /\ TypeOK'
  BY TypeStep
<1> SUFFICES CheckpointCurrent' /\ StartsFromDisk' /\ SettingsSavedByHeartbeat'
  BY <1>0
<1>1. ASSUME NEW s \in Sessions,
             Start(s) \/ RegisterFails(s) \/ Leave(s) \/ Exit(s) \/ Kill(s)
               \/ PidTaken(s) \/ DeleteLost(s)
      PROVE  CheckpointCurrent' /\ StartsFromDisk' /\ SettingsSavedByHeartbeat'
  <2>1. UNCHANGED <<stage, reg, dirty, disk, resting>>
    BY <1>1 DEF Start, RegisterFails, Leave, Exit, Kill, PidTaken, DeleteLost,
                hubVars, diskVars, timeVars
  <2>2. \A t \in Sessions : cli'[t] = "running" =>
          cli[t] = "running" /\ (t \in due <=> t \in due')
    BY <1>0, <1>1
       DEF Start, RegisterFails, Leave, Exit, Kill, PidTaken, DeleteLost,
           hubVars, diskVars, timeVars, TypeOK
  <2> QED
    BY <2>1, <2>2
<1>2. ASSUME NEW s \in Sessions, Register(s) \/ Delete(s)
      PROVE  CheckpointCurrent' /\ StartsFromDisk' /\ SettingsSavedByHeartbeat'
  <2>1. stage' = stage /\ stage \in {"up", "closing"}
    BY <1>2 DEF Register, Delete, Serving
  <2>2. CASE Register(s)
    BY <2>1, <2>2 DEF Register, MarkDirty
  <2>3. CASE Delete(s)
    <3>1. CASE reg[s] # None
      BY <2>1, <2>3, <3>1 DEF Delete, MarkDirty
    <3>2. CASE reg[s] = None
      BY <2>1, <2>3, <3>2 DEF Delete, diskVars, timeVars
    <3> QED
      BY <3>1, <3>2
  <2> QED
    BY <1>2, <2>2, <2>3
<1>3. ASSUME NEW s \in Sessions, Beat(s)
      PROVE  CheckpointCurrent' /\ StartsFromDisk' /\ SettingsSavedByHeartbeat'
  <2>1. CASE LiveSession(s)
    BY <1>3, <2>1
       DEF Beat, LiveSession, Serving, RecordHeartbeat, MarkDirty
  <2>2. CASE ~ LiveSession(s)
    <3>1. UNCHANGED <<stage, reg, dirty, disk, cli, resting>>
      BY <1>3, <2>2 DEF Beat, cliVars, diskVars
    <3>2. due' = due \ {s}
      BY <1>3 DEF Beat
    <3>3. stage = "up" => reg[s] = None
      BY <2>2 DEF LiveSession, Serving
    <3> QED
      BY <3>1, <3>2, <3>3
  <2> QED
    BY <2>1, <2>2
<1>4. ASSUME NEW s \in Sessions, NEW v \in Settings, Configure(s, v)
      PROVE  CheckpointCurrent' /\ StartsFromDisk' /\ SettingsSavedByHeartbeat'
  <2>1. /\ UNCHANGED <<stage, dirty, disk, cli, due>>
        /\ stage # "starting" /\ reg[s] # None
        /\ resting' = resting \ {s}
        /\ reg' = [reg EXCEPT ![s].settings = v]
    BY <1>4 DEF Configure, Set, LiveSession, Serving, cliVars, diskVars
  <2>2. \A t \in Sessions : t # s => reg'[t] = reg[t]
    BY <2>1, <1>0 DEF TypeOK
  <2>3. reg'[s].age = reg[s].age /\ reg'[s].progress = reg[s].progress
    BY <2>1, <1>0 DEF TypeOK, Record
  <2> QED
    BY <2>1, <2>2, <2>3
<1>5. ASSUME NEW s \in Sessions, NEW w \in Progress, Advance(s, w)
      PROVE  CheckpointCurrent' /\ StartsFromDisk' /\ SettingsSavedByHeartbeat'
  <2>1. /\ UNCHANGED <<stage, disk, cli, due, resting>>
        /\ reg[s] # None
        /\ stage \in {"starting", "up"} => dirty'
        /\ reg' = [reg EXCEPT ![s].progress = w]
    BY <1>5 DEF Advance, MarkDirty, cliVars, diskVars, timeVars
  <2>2. \A t \in Sessions : reg'[t] # None =>
          reg[t] # None /\ reg'[t].settings = reg[t].settings
    BY <2>1, <1>0 DEF TypeOK, Record
  <2> QED
    BY <2>1, <2>2
<1>6. CASE Reap
  <2>1. /\ UNCHANGED <<stage, disk, cli, due, resting>>
        /\ stage = "up"
        /\ ~ dirty' => reg' = reg /\ ~ dirty
    <3>1. CASE Stale = {}
      <4>1. reg' = reg
        BY <1>6, <3>1, <1>0 DEF Reap, TypeOK
      <4> QED
        BY <1>6, <3>1, <4>1 DEF Reap, cliVars, diskVars, timeVars
    <3>2. CASE Stale # {}
      BY <1>6, <3>2 DEF Reap, MarkDirty, cliVars, diskVars, timeVars
    <3> QED
      BY <3>1, <3>2
  <2> QED
    BY <2>1
<1>7. CASE Flush
  BY <1>7 DEF Flush, cliVars
<1>8. CASE StartHub
  <2>1. \A s \in Sessions : reg'[s] # None =>
          /\ disk[s] # None
          /\ reg'[s] = Restored(disk[s])
          /\ disk[s] \in Record
    BY <1>8, <1>0 DEF StartHub, TypeOK
  <2>2. disk' = disk /\ stage' = "starting"
    BY <1>8 DEF StartHub, diskVars
  <2> QED
    BY <2>1, <2>2, RestoredIsRecord
<1>9. CASE Listen
  BY <1>9 DEF Listen, cliVars, diskVars, timeVars
<1>10. CASE StopHub
  BY <1>10 DEF StopHub
<1>11. CASE Closed \/ CrashHub
  BY <1>11 DEF Closed, CrashHub, HubGone
<1>12. CASE Tick \/ Sleep
  <2>1. Never \in Nat
    BY TimeoutPositive DEF Never
  <2> QED
    BY <1>12, <2>1, ElapseCheckpoint DEF Tick, Sleep
<1>13. CASE UNCHANGED vars
  BY <1>13 DEF vars, cliVars, hubVars, diskVars, timeVars
<1> QED
  BY <1>1, <1>2, <1>3, <1>4, <1>5, <1>6, <1>7, <1>8, <1>9, <1>10, <1>11,
     <1>12, <1>13 DEF Next, CliStep, HubStep

LEMMA CheckpointInductive == Spec => []CheckpointInv
<1>1. Init => CheckpointInv
  <2>1. Init => TypeOK
    BY TypeInit
  <2> QED
    BY <2>1 DEF Init, CheckpointInv, CheckpointCurrent, StartsFromDisk,
                SettingsSavedByHeartbeat, Checkpointing
<1>2. CheckpointInv /\ [Next]_vars => CheckpointInv'
  BY CheckpointStep
<1> QED
  BY <1>1, <1>2, PTL DEF Spec

(* A crash of an idle hub loses nothing the checkpoint listens to.         *)
THEOREM CheckpointIsCurrent == Spec => []CheckpointCurrent
<1>1. CheckpointInv => CheckpointCurrent
  BY DEF CheckpointInv
<1> QED
  BY <1>1, CheckpointInductive, PTL

(* Settings are saved by the next heartbeat.                               *)
THEOREM HeartbeatSavesSettings == Spec => []SettingsSavedByHeartbeat
<1>1. CheckpointInv => SettingsSavedByHeartbeat
  BY DEF CheckpointInv
<1> QED
  BY <1>1, CheckpointInductive, PTL

-----------------------------------------------------------------------------
(* Which sessions stay                                                     *)

(* A CLI that has not registered is nowhere; only one that started         *)
(* registers, only one that left sends a DELETE; only a started checkpoint *)
(* is dirty.                                                               *)
Unborn ==
  \A s \in Sessions :
    cli[s] \in {"off", "joining"} =>
      reg[s] = None /\ disk[s] = None /\ s \notin saved

PostIsStarted == \A s \in post : cli[s] # "off"

ByeIsLast == \A s \in bye : cli[s] \in {"leaving", "gone"}

DirtyIsStarted == dirty => Checkpointing

DiskIsSaved == \A s \in Sessions : disk[s] # None => s \in saved

(* The claim of a running session on the next hub ...                      *)
ClaimOnDisk(s) ==
  s \in saved => disk[s] # None /\ disk[s].age <= lapse[s] + 1

(* ... and on this one: its heartbeat is no older than the lapse, but for   *)
(* the interval that it has not answered yet.                              *)
ClaimOnHub(s) ==
  Checkpointing =>
    /\ s \in saved => reg[s] # None
    /\ reg[s] # None => reg[s].age <= lapse[s] + 1
    /\ reg[s] # None /\ (stage = "starting" \/ s \notin due) =>
         reg[s].age <= lapse[s]

Claimed ==
  \A s \in Sessions :
    cli[s] = "running" /\ lapse[s] < Timeout => ClaimOnDisk(s) /\ ClaimOnHub(s)

LivingInv ==
  /\ CheckpointInv
  /\ Unborn /\ PostIsStarted /\ ByeIsLast /\ DirtyIsStarted /\ DiskIsSaved
  /\ Claimed

LEMMA ClaimsKeep == LivingInv => LivingSessionKept
BY DEF LivingInv, CheckpointInv, TypeOK, Claimed, ClaimOnHub, LivingSessionKept

(* The reaper, and a hub that starts, keep a session with a claim.         *)
LEMMA ClaimIsKept ==
  ASSUME NEW s \in Sessions, cli[s] = "running", lapse[s] \in Nat,
         NEW rec \in Record, rec.age <= lapse[s] + 1, lapse[s] < Timeout
  PROVE  ShouldKeep(s, rec)
<1>1. rec.age \in Nat
  BY TimeoutPositive DEF Record, Never
<1>2. PidMatches(s)
  BY DEF PidMatches, Alive
<1> QED
  BY <1>1, <1>2, TimeoutPositive DEF ShouldKeep

LEMMA ElapseLiving ==
  ASSUME LivingInv, stage \in {"down", "up"}, ~ dirty, due = {},
         NEW n \in {1, Never}, Elapse(n)
  PROVE  (Unborn /\ PostIsStarted /\ ByeIsLast /\ DirtyIsStarted /\ DiskIsSaved
            /\ Claimed)'
<1> USE DEF LivingInv, CheckpointInv
<1>1. n \in Nat /\ Never \in Nat /\ Timeout < Never
  BY TimeoutPositive DEF Never
<1>2. \A s \in Sessions :
        /\ reg'[s] = Older(reg[s], n) /\ disk'[s] = Older(disk[s], n)
        /\ reg'[s] # None <=> reg[s] # None
        /\ disk'[s] # None <=> disk[s] # None
  <2> TAKE s \in Sessions
  <2>1. reg'[s] = Older(reg[s], n) /\ disk'[s] = Older(disk[s], n)
    BY DEF Elapse
  <2>2. reg[s] \in Record \cup {None} /\ disk[s] \in Record \cup {None}
    BY DEF TypeOK
  <2> QED
    BY <1>1, <2>1, <2>2, OlderNone, OlderIsRecord, NoneIsNoRecord
<1>3. UNCHANGED <<cli, post, bye, saved, dirty, stage>>
  BY DEF Elapse, cliVars
<1>4. (Unborn /\ PostIsStarted /\ ByeIsLast /\ DirtyIsStarted /\ DiskIsSaved)'
  BY <1>2, <1>3
     DEF Unborn, PostIsStarted, ByeIsLast, DirtyIsStarted, DiskIsSaved, Checkpointing
<1>5. ASSUME NEW s \in Sessions, cli'[s] = "running", lapse'[s] < Timeout
      PROVE  ClaimOnDisk(s)' /\ ClaimOnHub(s)'
  <2>1. /\ cli[s] = "running" /\ lapse[s] \in 0 .. Never
        /\ s \in due'
    BY <1>3, <1>5 DEF TypeOK, Elapse
  <2>2. /\ n = 1 /\ lapse[s] < Timeout
        /\ lapse'[s] = IF stage = "down" THEN lapse[s] + 1 ELSE lapse[s]
    BY <1>1, <1>5, <2>1, TimeoutPositive DEF Elapse, Lapsed, MinOf, Never
  <2>3. ClaimOnDisk(s) /\ ClaimOnHub(s)
    BY <2>1, <2>2 DEF Claimed
  <2>4. \A rec \in Record :
          /\ rec.age \in Nat
          /\ Older(rec, n).age <= rec.age + 1 /\ Older(rec, n).age \in Nat
    <3> TAKE rec \in Record
    <3>1. rec.age \in 0 .. Never
      BY DEF Record
    <3>2. Older(rec, n).age = MinOf(rec.age + 1, Never)
      BY <2>2, OlderIsRecord
    <3> QED
      BY <1>1, <3>1, <3>2 DEF MinOf
  <2>5. CASE stage = "down"
    <3>1. ClaimOnHub(s)'
      BY <1>3, <2>5 DEF ClaimOnHub, Checkpointing
    <3>2. ASSUME s \in saved
          PROVE  disk'[s] # None /\ disk'[s].age <= lapse'[s] + 1
      <4>1. disk[s] \in Record /\ disk[s].age <= lapse[s] + 1
        BY <2>3, <3>2 DEF ClaimOnDisk, TypeOK
      <4> QED
        BY <1>2, <2>1, <2>2, <2>4, <2>5, <4>1, NoneIsNoRecord
    <3> QED
      BY <1>3, <3>1, <3>2 DEF ClaimOnDisk
  <2>6. CASE stage = "up"
    <3>1. ASSUME reg[s] # None
          PROVE  /\ reg'[s].age <= lapse'[s] + 1
                 /\ disk'[s] # None /\ disk'[s].age <= lapse'[s] + 1
      <4>1. reg[s] \in Record /\ reg[s].age <= lapse[s]
        BY <2>3, <2>6, <3>1 DEF ClaimOnHub, Checkpointing, TypeOK
      <4>2. disk[s] \in Record /\ disk[s].age = reg[s].age
        BY <2>6, <3>1
           DEF CheckpointCurrent, Checkpointing, Registered, TypeOK
      <4> QED
        BY <1>2, <2>1, <2>2, <2>4, <2>6, <4>1, <4>2, NoneIsNoRecord
    <3>2. s \in saved => reg[s] # None
      BY <2>3, <2>6 DEF ClaimOnHub, Checkpointing
    <3> QED
      BY <1>2, <1>3, <2>1, <2>6, <3>1, <3>2 DEF ClaimOnDisk, ClaimOnHub
  <2> QED
    BY <2>5, <2>6
<1> QED
  BY <1>4, <1>5 DEF Claimed

LEMMA LivingStep ==
  ASSUME LivingInv, [Next]_vars
  PROVE  LivingInv'
<1> DEFINE Rest == /\ Unborn /\ PostIsStarted /\ ByeIsLast
                   /\ DirtyIsStarted /\ DiskIsSaved /\ Claimed
<1>0. TypeOK /\ TypeOK' /\ Rest /\ CheckpointInv'
  BY CheckpointStep DEF LivingInv, CheckpointInv
<1> SUFFICES Rest'
  BY <1>0 DEF LivingInv
<1>1. ASSUME NEW s \in Sessions,
             Start(s) \/ RegisterFails(s) \/ Leave(s) \/ Exit(s) \/ Kill(s)
               \/ PidTaken(s) \/ DeleteLost(s)
      PROVE  Rest'
  <2>1. UNCHANGED <<stage, reg, dirty, disk, saved, lapse>>
    BY <1>1 DEF Start, RegisterFails, Leave, Exit, Kill, PidTaken, DeleteLost,
                hubVars, diskVars, timeVars
  <2>2. \A t \in Sessions :
          /\ cli'[t] = "running" =>
               cli[t] = "running" /\ (t \in due <=> t \in due')
          /\ cli'[t] \in {"off", "joining"} => cli[t] \in {"off", "joining"}
          /\ cli'[t] = "off" => cli[t] = "off"
          /\ t \in post' => t \in post \/ cli'[t] # "off"
          /\ t \in bye' => t \in bye \/ cli'[t] = "leaving"
          /\ cli[t] \in {"leaving", "gone"} => cli'[t] \in {"leaving", "gone"}
    BY <1>0, <1>1
       DEF Start, RegisterFails, Leave, Exit, Kill, PidTaken, DeleteLost, Post,
           hubVars, diskVars, timeVars, TypeOK, Alive
  <2>3. bye' \subseteq Sessions /\ post' \subseteq Sessions
    BY <1>0 DEF TypeOK
  <2>4. Claimed'
    BY <1>0, <2>1, <2>2
       DEF Claimed, ClaimOnDisk, ClaimOnHub, Checkpointing
  <2> QED
    BY <1>0, <2>1, <2>2, <2>3, <2>4
       DEF Unborn, PostIsStarted, ByeIsLast, DirtyIsStarted, DiskIsSaved,
           Checkpointing
<1>2. ASSUME NEW s \in Sessions, Register(s)
      PROVE  Rest'
  <2>1. /\ UNCHANGED <<bye, stage, disk, saved, lapse>>
        /\ reg' = [reg EXCEPT ![s] = Fresh]
        /\ dirty' => dirty \/ Checkpointing
        /\ s \in post /\ post' = post \ {s}
        /\ cli' = IF cli[s] = "joining"
                    THEN [cli EXCEPT ![s] = "running"] ELSE cli
        /\ \A t \in Sessions : t # s => (t \in due' <=> t \in due)
    BY <1>2 DEF Register, MarkDirty, diskVars
  <2>2. cli[s] # "off" /\ cli'[s] \notin {"off", "joining"}
    BY <1>0, <2>1 DEF PostIsStarted, TypeOK
  <2>3. \A t \in Sessions : t # s => cli'[t] = cli[t] /\ reg'[t] = reg[t]
    BY <1>0, <2>1 DEF TypeOK
  <2>4. reg'[s] = Fresh /\ Fresh # None /\ Fresh.age = 0 /\ lapse[s] \in Nat
    BY <1>0, <2>1, FreshIsRecord, NoneIsNoRecord DEF TypeOK
  <2>5. cli'[s] = "running" => cli[s] = "running" \/ s \notin saved
    BY <1>0, <2>1 DEF Unborn
  <2>6. ASSUME NEW t \in Sessions, cli'[t] = "running", lapse'[t] < Timeout
        PROVE  ClaimOnDisk(t)' /\ ClaimOnHub(t)'
    <3>1. CASE t = s
      BY <1>0, <2>1, <2>4, <2>5, <2>6, <3>1
         DEF Claimed, ClaimOnDisk, ClaimOnHub
    <3>2. CASE t # s
      BY <1>0, <2>1, <2>3, <2>6, <3>2
         DEF Claimed, ClaimOnDisk, ClaimOnHub, Checkpointing
    <3> QED
      BY <3>1, <3>2
  <2>7. Claimed'
    BY <2>6 DEF Claimed
  <2>8. \A t \in Sessions : cli[t] \in {"leaving", "gone"} => cli'[t] = cli[t]
    BY <1>0, <2>1 DEF TypeOK
  <2> QED
    BY <1>0, <2>1, <2>2, <2>3, <2>7, <2>8
       DEF Unborn, PostIsStarted, ByeIsLast, DirtyIsStarted, DiskIsSaved,
           Checkpointing, TypeOK
<1>3. ASSUME NEW s \in Sessions, Beat(s)
      PROVE  Rest'
  <2>1. UNCHANGED <<cli, post, bye, stage, disk, saved, lapse>>
        /\ due' = due \ {s}
    BY <1>3 DEF Beat, cliVars, diskVars
  <2>2. CASE LiveSession(s)
    <3>1. /\ reg' = [reg EXCEPT ![s].age = 0]
          /\ dirty' => dirty \/ Checkpointing
          /\ stage # "starting" /\ reg[s] # None
      BY <1>3, <2>2
         DEF Beat, RecordHeartbeat, MarkDirty, LiveSession, Serving
    <3>2. \A t \in Sessions : t # s => reg'[t] = reg[t]
      BY <1>0, <3>1 DEF TypeOK
    <3>3. reg'[s] # None /\ reg'[s].age = 0
      <4>1. reg[s] \in Record /\ reg'[s] = [reg[s] EXCEPT !.age = 0]
        BY <1>0, <3>1 DEF TypeOK
      <4>2. reg'[s] \in Record
        BY <4>1, TimeoutPositive DEF Record, Never
      <4> QED
        BY <4>1, <4>2, NoneIsNoRecord DEF Record
    <3>4. \A t \in Sessions : lapse[t] \in Nat
      BY <1>0 DEF TypeOK
    <3>5. Claimed'
      BY <1>0, <2>1, <3>2, <3>3, <3>4
         DEF Claimed, ClaimOnDisk, ClaimOnHub, Checkpointing
    <3> QED
      BY <1>0, <2>1, <3>1, <3>2, <3>5
         DEF Unborn, PostIsStarted, ByeIsLast, DirtyIsStarted, DiskIsSaved,
             Checkpointing
  <2>3. CASE ~ LiveSession(s)
    <3>1. reg' = reg /\ dirty' = dirty
      BY <1>3, <2>3 DEF Beat
    <3>2. stage = "up" => reg[s] = None
      BY <2>3 DEF LiveSession, Serving
    <3>3. Claimed'
      BY <1>0, <2>1, <3>1, <3>2
         DEF Claimed, ClaimOnDisk, ClaimOnHub, Checkpointing
    <3> QED
      BY <1>0, <2>1, <3>1, <3>3
         DEF Unborn, PostIsStarted, ByeIsLast, DirtyIsStarted, DiskIsSaved,
             Checkpointing
  <2> QED
    BY <2>2, <2>3
<1>4. ASSUME NEW s \in Sessions, Delete(s)
      PROVE  Rest'
  <2>1. /\ UNCHANGED <<cli, post, stage, disk, saved, lapse, due>>
        /\ bye' = bye \ {s} /\ s \in bye
        /\ dirty' => dirty \/ Checkpointing
    BY <1>4 DEF Delete, MarkDirty, diskVars, timeVars
  <2>2. cli[s] # "running"
    BY <1>0, <2>1 DEF ByeIsLast
  <2>3. \A t \in Sessions : t # s => reg'[t] = reg[t]
    BY <1>0, <1>4 DEF Delete, TypeOK
  <2>4. reg'[s] = None
    BY <1>0, <1>4 DEF Delete, TypeOK
  <2>5. Claimed'
    BY <1>0, <2>1, <2>2, <2>3
       DEF Claimed, ClaimOnDisk, ClaimOnHub, Checkpointing
  <2> QED
    BY <1>0, <2>1, <2>3, <2>4, <2>5
       DEF Unborn, PostIsStarted, ByeIsLast, DirtyIsStarted, DiskIsSaved,
           Checkpointing
<1>5. ASSUME NEW s \in Sessions,
             \/ \E v \in Settings : Configure(s, v)
             \/ \E w \in Progress : Advance(s, w)
      PROVE  Rest'
  <2>1. /\ UNCHANGED <<cli, post, bye, stage, disk, saved, lapse, due>>
        /\ dirty' => dirty \/ Checkpointing
        /\ \A t \in Sessions : t # s => reg'[t] = reg[t]
        /\ reg[s] \in Record /\ reg'[s] \in Record
        /\ reg'[s].age = reg[s].age
    <3>1. CASE \E v \in Settings : Configure(s, v)
      <4>1. PICK v \in Settings : Configure(s, v)
        BY <3>1
      <4>2. reg[s] \in Record /\ reg'[s] = [reg[s] EXCEPT !.settings = v]
        BY <1>0, <4>1 DEF Configure, Set, LiveSession, TypeOK
      <4> QED
        BY <1>0, <4>1, <4>2 DEF Configure, Set, cliVars, diskVars, TypeOK, Record
    <3>2. CASE \E w \in Progress : Advance(s, w)
      <4>1. PICK w \in Progress : Advance(s, w)
        BY <3>2
      <4>2. reg[s] \in Record /\ reg'[s] = [reg[s] EXCEPT !.progress = w]
        BY <1>0, <4>1 DEF Advance, TypeOK
      <4> QED
        BY <1>0, <4>1, <4>2
           DEF Advance, MarkDirty, cliVars, diskVars, timeVars, TypeOK, Record
    <3> QED
      BY <1>5, <3>1, <3>2
  <2>2. reg[s] # None /\ reg'[s] # None
    BY <2>1, NoneIsNoRecord
  <2>3. Claimed'
    BY <1>0, <2>1, <2>2
       DEF Claimed, ClaimOnDisk, ClaimOnHub, Checkpointing
  <2> QED
    BY <1>0, <2>1, <2>2, <2>3
       DEF Unborn, PostIsStarted, ByeIsLast, DirtyIsStarted, DiskIsSaved,
           Checkpointing
<1>6. CASE Reap
  <2>1. /\ UNCHANGED <<cli, post, bye, stage, disk, saved, lapse, due>>
        /\ dirty' => dirty \/ Checkpointing
        /\ stage = "up"
        /\ reg' = [t \in Sessions |-> IF t \in Stale THEN None ELSE reg[t]]
    BY <1>6 DEF Reap, MarkDirty, cliVars, diskVars, timeVars
  <2>2. ASSUME NEW t \in Sessions, cli[t] = "running", lapse[t] < Timeout,
               reg[t] # None
        PROVE  reg'[t] = reg[t]
    <3>1. reg[t] \in Record /\ lapse[t] \in Nat
      BY <1>0, <2>2 DEF TypeOK
    <3>2. reg[t].age <= lapse[t] + 1
      BY <1>0, <2>1, <2>2 DEF Claimed, ClaimOnHub, Checkpointing
    <3>3. t \notin Stale
      BY <2>2, <3>1, <3>2, ClaimIsKept DEF Stale
    <3> QED
      BY <2>1, <3>3
  <2>3. \A t \in Sessions : reg[t] = None => reg'[t] = None
    BY <2>1
  <2>4. Claimed'
    BY <1>0, <2>1, <2>2, <2>3
       DEF Claimed, ClaimOnDisk, ClaimOnHub, Checkpointing
  <2> QED
    BY <1>0, <2>1, <2>3, <2>4
       DEF Unborn, PostIsStarted, ByeIsLast, DirtyIsStarted, DiskIsSaved,
           Checkpointing
<1>7. CASE Flush
  <2>1. /\ UNCHANGED <<cli, post, bye, stage, reg, due>>
        /\ ~ dirty' /\ Checkpointing
        /\ disk' = reg
        /\ saved' = saved \cup Registered
    BY <1>0, <1>7 DEF Flush, DirtyIsStarted, cliVars
  <2>2. \A t \in Sessions :
          lapse'[t] = IF reg[t] # None /\ reg[t].age = 0 THEN 0 ELSE lapse[t]
    BY <1>7 DEF Flush
  <2>3. ASSUME NEW t \in Sessions, cli'[t] = "running", lapse'[t] < Timeout
        PROVE  ClaimOnDisk(t)' /\ ClaimOnHub(t)'
    <3>1. CASE reg[t] # None /\ reg[t].age = 0
      BY <1>0, <2>1, <2>2, <3>1
         DEF ClaimOnDisk, ClaimOnHub, Checkpointing, Registered
    <3>2. CASE ~ (reg[t] # None /\ reg[t].age = 0)
      BY <1>0, <2>1, <2>2, <2>3, <3>2
         DEF Claimed, ClaimOnDisk, ClaimOnHub, Checkpointing, Registered
    <3> QED
      BY <3>1, <3>2
  <2>4. Claimed'
    BY <2>3 DEF Claimed
  <2> QED
    BY <1>0, <2>1, <2>4
       DEF Unborn, PostIsStarted, ByeIsLast, DirtyIsStarted, DiskIsSaved,
           Checkpointing, Registered
<1>8. CASE StartHub
  <2>1. /\ UNCHANGED <<cli, post, bye, disk, saved, due>>
        /\ ~ dirty' /\ stage' = "starting"
        /\ lapse' = Lapsed(1)
    BY <1>8 DEF StartHub, cliVars, diskVars
  <2>2. \A t \in Sessions :
          reg'[t] = IF disk[t] # None /\ ShouldKeep(t, disk[t])
                      THEN Restored(disk[t]) ELSE None
    BY <1>8 DEF StartHub
  <2>3. ASSUME NEW t \in Sessions, cli'[t] = "running", lapse'[t] < Timeout
        PROVE  ClaimOnDisk(t)' /\ ClaimOnHub(t)'
    <3>1. cli[t] = "running" /\ lapse[t] \in Nat
      BY <1>0, <2>1, <2>3 DEF TypeOK
    <3>2. lapse'[t] = lapse[t] + 1 /\ lapse[t] < Timeout
      BY <2>1, <2>3, <3>1, TimeoutPositive DEF Lapsed, MinOf, Never
    <3>3. ClaimOnDisk(t)
      BY <1>0, <3>1, <3>2 DEF Claimed
    <3>4. ASSUME disk[t] # None
          PROVE  /\ disk[t] \in Record
                 /\ disk[t].age \in Nat /\ disk[t].age <= lapse'[t]
                 /\ reg'[t] # None /\ reg'[t].age = disk[t].age
      <4>1. disk[t] \in Record /\ disk[t].age <= lapse[t] + 1
        BY <1>0, <3>3, <3>4 DEF DiskIsSaved, ClaimOnDisk, TypeOK
      <4>2. reg'[t] = Restored(disk[t])
        BY <2>2, <3>1, <3>2, <3>4, <4>1, ClaimIsKept
      <4>3. disk[t].age \in Nat
        BY <4>1, TimeoutPositive DEF Record, Never
      <4> QED
        BY <3>2, <4>1, <4>2, <4>3, RestoredIsRecord, NoneIsNoRecord
    <3>5. reg'[t] # None => disk[t] # None
      BY <2>2
    <3>6. lapse'[t] \in Nat
      BY <3>1, <3>2
    <3> QED
      BY <2>1, <3>3, <3>4, <3>5, <3>6 DEF ClaimOnDisk, ClaimOnHub
  <2>4. Claimed'
    BY <2>3 DEF Claimed
  <2>5. Unborn'
    BY <1>0, <2>1, <2>2 DEF Unborn
  <2> QED
    BY <1>0, <2>1, <2>4, <2>5
       DEF PostIsStarted, ByeIsLast, DirtyIsStarted, DiskIsSaved
<1>9. CASE Listen
  <2>1. /\ UNCHANGED <<cli, post, bye, reg, dirty, disk, saved, lapse, due>>
        /\ stage = "starting" /\ stage' = "up"
    BY <1>9 DEF Listen, cliVars, diskVars, timeVars
  <2> QED
    BY <1>0, <2>1
       DEF Unborn, PostIsStarted, ByeIsLast, DirtyIsStarted, DiskIsSaved,
           Checkpointing, Claimed, ClaimOnDisk, ClaimOnHub
<1>10. CASE StopHub
  <2>1. /\ UNCHANGED <<cli, post, bye, reg, lapse, due>>
        /\ ~ dirty' /\ stage = "up" /\ stage' = "closing"
        /\ \/ UNCHANGED <<disk, saved>>
           \/ disk' = reg /\ saved' = saved \cup Registered
    BY <1>10 DEF StopHub, cliVars, diskVars, timeVars
  <2> QED
    BY <1>0, <2>1
       DEF Unborn, PostIsStarted, ByeIsLast, DirtyIsStarted, DiskIsSaved,
           Checkpointing, Claimed, ClaimOnDisk, ClaimOnHub, Registered
<1>11. CASE Closed \/ CrashHub
  <2>1. /\ UNCHANGED <<cli, post, bye, disk, saved, lapse>>
        /\ ~ dirty' /\ stage' = "down"
        /\ \A t \in Sessions : reg'[t] = None
    BY <1>11 DEF Closed, CrashHub, HubGone, cliVars, diskVars, timeVars
  <2> QED
    BY <1>0, <2>1
       DEF Unborn, PostIsStarted, ByeIsLast, DirtyIsStarted, DiskIsSaved,
           Checkpointing, Claimed, ClaimOnDisk, ClaimOnHub
<1>12. CASE Tick \/ Sleep
  BY <1>12, ElapseLiving DEF Tick, Sleep
<1>13. CASE UNCHANGED vars
  BY <1>0, <1>13
     DEF vars, cliVars, hubVars, diskVars, timeVars,
         Unborn, PostIsStarted, ByeIsLast, DirtyIsStarted, DiskIsSaved,
         Checkpointing, Claimed, ClaimOnDisk, ClaimOnHub
<1> QED
  BY <1>1, <1>2, <1>3, <1>4, <1>5, <1>6, <1>7, <1>8, <1>9, <1>10, <1>11,
     <1>12, <1>13 DEF Next, CliStep, HubStep

(* A session whose CLI runs stays, unless the disk may have missed its     *)
(* heartbeats for as long as the timeout.                                  *)
THEOREM LivingSessionsAreKept == Spec => []LivingSessionKept
<1>1. Init => LivingInv
  BY TypeInit
     DEF Init, LivingInv, CheckpointInv, CheckpointCurrent, StartsFromDisk,
         SettingsSavedByHeartbeat, Checkpointing, Unborn, PostIsStarted,
         ByeIsLast, DirtyIsStarted, DiskIsSaved, Claimed, ClaimOnDisk,
         ClaimOnHub
<1>2. LivingInv /\ [Next]_vars => LivingInv'
  BY LivingStep
<1> QED
  BY <1>1, <1>2, ClaimsKeep, PTL DEF Spec
=============================================================================
