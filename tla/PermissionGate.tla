--------------------------- MODULE PermissionGate ---------------------------
(***************************************************************************)
(* What the hub promises Claude about a PermissionRequest (README.md:172,  *)
(* rest/permission.ts:9-18), with no table, timer, index or socket: the    *)
(* call is refused on the spot or held, a held call may be answered by a   *)
(* person, and it gets one reply.  The reply says `allow` only if a person *)
(* did, an accepted answer is the one Claude gets, and a subagent is never *)
(* sent back to a TUI it does not have.                                    *)
(***************************************************************************)
CONSTANTS
  Requests,   \* PermissionRequest calls
  Subagents,  \* those made inside a Task subagent (agent_id present)
  None        \* no answer

Answers == {"allow", "allowWith", "deny", "ask"}
Replies == {"allow", "allowWith", "deny", "passthrough", "invalid"}

VARIABLES
  http,    \* "none", "held", or the reply written
  answer   \* the answer the hub accepted for the call, or None

gateVars == <<http, answer>>

Init ==
  /\ http = [r \in Requests |-> "none"]
  /\ answer = [r \in Requests |-> None]

(* 204 is for the main thread only.                                        *)
Passthrough(r) == IF r \in Subagents THEN "deny" ELSE "passthrough"

(* The reply an answer stands for; "allowWith" carries updatedInput or     *)
(* updatedPermissions.                                                     *)
ReplyTo(r, a) == IF a = "ask" THEN Passthrough(r) ELSE a

Refuse(r) ==
  /\ http[r] = "none"
  /\ \E reply \in {"deny", "invalid", Passthrough(r)} :
       http' = [http EXCEPT ![r] = reply]
  /\ UNCHANGED answer

Hold(r) ==
  /\ http[r] = "none"
  /\ http' = [http EXCEPT ![r] = "held"]
  /\ UNCHANGED answer

Answer(r) ==
  /\ http[r] = "held" /\ answer[r] = None
  /\ \E a \in Answers : answer' = [answer EXCEPT ![r] = a]
  /\ UNCHANGED http

(* Without an answer the hub gives up: stale, expired, cancelled.          *)
Reply(r) ==
  /\ http[r] = "held"
  /\ \E reply \in IF answer[r] = None THEN {"deny", Passthrough(r)}
                  ELSE {ReplyTo(r, answer[r])} :
       http' = [http EXCEPT ![r] = reply]
  /\ UNCHANGED answer

Next == \E r \in Requests : Refuse(r) \/ Hold(r) \/ Answer(r) \/ Reply(r)

Spec == Init /\ [][Next]_gateVars
=============================================================================
