---------------------------- MODULE SessionState ----------------------------
(***************************************************************************)
(* The pure part of a session's life: the states of shared/src/session.ts  *)
(* and the transition table of hub/src/state-machine/machine.ts.  Events   *)
(* of kind agent-internal count by their native event; every other kind    *)
(* counts by itself.                                                       *)
(***************************************************************************)
States == {"starting", "idle", "running", "awaiting-input",
           "awaiting-confirmation", "error", "done", "interrupted"}

EventKinds == {"SessionStart", "SessionEnd", "agent-internal", "user-prompt",
               "tool-call", "tool-result", "agent-output", "error"}

\* Faulty variant: the null of "no transition" is stored as the state.
TransitionOrNull(st, e) ==
  CASE e = "SessionStart" /\ st = "starting" -> "idle"
    [] e = "SessionEnd" -> "done"
    [] OTHER -> "null"

(* transitionFor, with the state itself where the code returns null.       *)
TransitionFor(st, e) ==
  CASE e = "SessionStart" /\ st = "starting" -> "idle"
    [] e = "SessionEnd" -> "done"
    [] e = "user-prompt" /\ st \in {"idle", "awaiting-input", "error"}
         -> "running"
    [] e = "tool-result" /\ st \in {"running", "awaiting-confirmation"}
         -> "running"
    [] e = "agent-output" /\ st = "running" -> "idle"
    [] e = "error" /\ st = "running" -> "error"
    [] OTHER -> st
=============================================================================
