------------------------------ MODULE EventFeed ------------------------------
(***************************************************************************)
(* What a client that follows a session's events is promised, with no      *)
(* ring, queue of frames or deduplicator: events are numbered; the hub     *)
(* keeps the newest ones and forgets all when it ends; a client that       *)
(* connects is owed what is kept and newer than the last event it has, and *)
(* then all that is published; it takes what it is owed in order.  So it   *)
(* never takes an event twice, over all its connections, nor one that is   *)
(* older than what it has, and misses only what the hub no longer keeps.   *)
(***************************************************************************)
EXTENDS Naturals

CONSTANT None

VARIABLES
  size,    \* events published so far
  kept,    \* those that are kept for a client that returns
  online,  \* the client is connected
  owed,    \* what it is still to be given
  seen     \* the last event it has taken, or None

feedVars == <<size, kept, online, owed, seen>>

Init == size = 0 /\ kept = {} /\ online = FALSE /\ owed = {} /\ seen = None

(* The oldest ones make room.                                              *)
Publish ==
  /\ size' = size + 1
  /\ size' \in kept' /\ kept' \subseteq kept \cup {size'}
  /\ \A m \in kept \ kept', n \in kept' : m < n
  /\ owed' = IF online THEN owed \cup {size'} ELSE owed
  /\ UNCHANGED <<online, seen>>

Connect ==
  /\ ~ online /\ online' = TRUE
  /\ owed' = IF seen = None THEN {} ELSE {n \in kept : n > seen}
  /\ UNCHANGED <<size, kept, seen>>

Take ==
  /\ \E n \in owed :
       /\ \A m \in owed : n <= m
       /\ seen' = n /\ owed' = owed \ {n}
  /\ UNCHANGED <<size, kept, online>>

Disconnect ==
  /\ online' = FALSE /\ owed' = {}
  /\ UNCHANGED <<size, kept, seen>>

(* The hub ends, and with it the connection.                               *)
Forget ==
  /\ kept' = {} /\ online' = FALSE /\ owed' = {}
  /\ UNCHANGED <<size, seen>>

Next == Publish \/ Connect \/ Take \/ Disconnect \/ Forget

Spec == Init /\ [][Next]_feedVars
=============================================================================
