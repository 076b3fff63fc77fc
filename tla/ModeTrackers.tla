----------------------------- MODULE ModeTrackers -----------------------------
(***************************************************************************)
(* The permission mode the hub shows for a session (substate's             *)
(* permissionMode) and its four sources: the registration; the banner in   *)
(* the footer that Claude draws, read off a headless terminal that is fed  *)
(* with the uplink's chunks (observers/pty-banner-tracker.ts); the         *)
(* permission_mode of every hook (observers/hook-ingest.ts); the mode      *)
(* lines of the transcript (observers/jsonl-mode-tracker.ts).  Whoever     *)
(* comes last wins.                                                        *)
(*                                                                         *)
(* It is one more link between the CLI and the hub ("mode"), next to those *)
(* of CliStreams.  The default mode has no banner.                         *)
(***************************************************************************)
EXTENDS CliStreams

CONSTANTS
  Modes,       \* permission modes
  MaxToggles,  \* bound: changes of Claude's mode
  MaxUnderWay  \* bound: chunks, and hooks, under way

ASSUME ModesAssumption == "default" \in Modes
ASSUME NoModeAssumption == {None, "none", "other"} \cap Modes = {}
ASSUME ModeBoundsAssumption == {MaxToggles, MaxUnderWay} \subseteq Nat

VARIABLES
  (* Claude *)
  mode,     \* its permission mode
  booted,   \* it has drawn its first frame
  toggles,
  line,     \* the transcript's last mode line, or None
  chunks,   \* output under way: the footer it draws, or "other"
  hooks,    \* hook calls under way, each with the mode it was made in
  (* hub *)
  screen,   \* the banner on the tracker's terminal, or "none"
  everSaw,  \* everSawAnchor
  lineRead, \* the tail has read the line
  seen      \* substate.permissionMode

claudeVars == <<mode, booted, toggles, line>>
trackVars == <<screen, everSaw, lineRead, seen>>
modeVars == <<claudeVars, chunks, hooks, trackVars>>
modeTrackerVars == <<vars, modeVars>>

-----------------------------------------------------------------------------
(* The registration                                                        *)

FirstOf(a, b) == IF a # None THEN a ELSE b

(* readClaudeSettings: the project's setting, else the user's.             *)
DefaultMode(project, user) == FirstOf(project, user)

(* initialPermissionMode: the flag, the settings, the default.             *)
InitialMode(flag, project, user) ==
  FirstOf(flag, FirstOf(DefaultMode(project, user), "default"))

(* Claude's own mode may come from elsewhere: managed or local settings.   *)
ModeInit ==
  /\ Init
  /\ mode \in Modes
  /\ \E flag, project, user \in Modes \cup {None} :
       seen = InitialMode(flag, project, user)
  /\ booted = FALSE /\ toggles = 0 /\ line = None
  /\ chunks = <<>> /\ hooks = <<>>
  /\ screen = "none" /\ everSaw = FALSE /\ lineRead = FALSE

-----------------------------------------------------------------------------
(* Claude                                                                  *)

Footer(m) == IF m = "default" THEN "none" ELSE m

Draw(c) ==
  /\ cli = "running" /\ "mode" \in use
  /\ Len(chunks) < MaxUnderWay
  /\ chunks' = Append(chunks, c)

(* The shell's output, and the parts of Claude's that leave the footer as  *)
(* it is.                                                                  *)
Output ==
  /\ Draw("other")
  /\ UNCHANGED <<vars, claudeVars, hooks, trackVars>>

(* The first frame, and each one that draws the footer again.              *)
Redraw ==
  /\ Draw(Footer(mode))
  /\ booted' = TRUE
  /\ UNCHANGED <<vars, mode, toggles, line, hooks, trackVars>>

(* Shift+Tab, typed here or sent by the web client's button.               *)
Toggle(m) ==
  /\ booted /\ toggles < MaxToggles
  /\ m # mode
  /\ mode' = m /\ toggles' = toggles + 1
  /\ Draw(Footer(m))
  /\ UNCHANGED <<vars, booted, line, hooks, trackVars>>

(* A hook call, with a mode line of the transcript or without.             *)
Turn ==
  /\ cli = "running" /\ booted
  /\ Len(hooks) < MaxUnderWay
  /\ hooks' = Append(hooks, mode)
  /\ \/ UNCHANGED <<line, lineRead>>
     \/ line' = mode /\ lineRead' = FALSE
  /\ UNCHANGED <<vars, mode, booted, toggles, chunks, screen, everSaw, seen>>

-----------------------------------------------------------------------------
(* Hub                                                                     *)

Knows == hub = "up" /\ known

(* detectAnchorMode: the banner on the screen.                             *)
DetectAnchorMode(scr) == IF scr \in Modes THEN scr ELSE None

\* Faulty variant: a banner that has vanished changes nothing.
ApplyBannerOnly(scr) ==
  LET anchored == DetectAnchorMode(scr)
  IN  IF anchored # None THEN everSaw' = TRUE /\ seen' = anchored
                         ELSE UNCHANGED <<everSaw, seen>>

(* applyDetection.  No banner means the default mode, but only once there  *)
(* was one: a hub that has just started has not seen the footer yet.       *)
ApplyDetection(scr) ==
  LET anchored == DetectAnchorMode(scr)
  IN  IF anchored # None THEN everSaw' = TRUE /\ seen' = anchored
      ELSE /\ seen' = IF everSaw THEN "default" ELSE seen
           /\ UNCHANGED everSaw

(* attach's subscription: the terminal is written, then read.              *)
Observe ==
  /\ chunks # <<>>
  /\ chunks' = Tail(chunks)
  /\ IF Knows
       THEN /\ screen' = IF Head(chunks) = "other" THEN screen ELSE Head(chunks)
            /\ ApplyDetection(screen')
       ELSE UNCHANGED <<screen, everSaw, seen>>
  /\ UNCHANGED <<vars, claudeVars, hooks, lineRead>>

(* wireHookIngest, up to the event.                                        *)
IngestHook ==
  /\ hooks # <<>>
  /\ hooks' = Tail(hooks)
  /\ seen' = IF Knows THEN Head(hooks) ELSE seen
  /\ UNCHANGED <<vars, claudeVars, chunks, screen, everSaw, lineRead>>

(* wireJsonlModeTracker.  The tail reads all there is in one go, so the    *)
(* last line decides.                                                      *)
ReadModeLine ==
  /\ Knows /\ line # None /\ ~ lineRead
  /\ lineRead' = TRUE /\ seen' = line
  /\ UNCHANGED <<vars, claudeVars, chunks, hooks, screen, everSaw>>

(* The hub's end takes the terminal; what the uplink has not sent is kept. *)
(* The next hub reads the transcript from its beginning.                   *)
LoseTrackers ==
  /\ screen' = "none" /\ everSaw' = FALSE /\ lineRead' = FALSE
  /\ chunks' \in {<<>>, chunks} /\ hooks' = <<>>
  /\ UNCHANGED <<claudeVars, seen>>

ModeNext ==
  \/ (LinkStep \/ HubStarts) /\ UNCHANGED modeVars
  \/ HubStops /\ LoseTrackers
  \/ Output \/ Redraw \/ (\E m \in Modes : Toggle(m)) \/ Turn
  \/ Observe \/ IngestHook \/ ReadModeLine

(* Nobody has to draw, to toggle or to call a hook.                        *)
ModeFairness ==
  /\ WF_modeTrackerVars(Observe) /\ WF_modeTrackerVars(IngestHook)
  /\ WF_modeTrackerVars(ReadModeLine)

ModeSpec ==
  ModeInit /\ [][ModeNext]_modeTrackerVars /\ Fairness /\ ModeFairness

-----------------------------------------------------------------------------
(* Properties                                                              *)

ModeTypeOK ==
  /\ TypeOK
  /\ mode \in Modes /\ booted \in BOOLEAN /\ toggles \in 0 .. MaxToggles
  /\ line \in Modes \cup {None}
  /\ chunks \in Seq(Modes \cup {"none", "other"}) /\ hooks \in Seq(Modes)
  /\ screen \in Modes \cup {"none"}
  /\ everSaw \in BOOLEAN /\ lineRead \in BOOLEAN
  /\ seen \in Modes

\* The hub's permission mode follows Claude's, whichever source is late, lost
\* or read again after a restart, provided that the footer keeps being drawn;
\* for the default mode, which draws no banner, provided that the hub has seen
\* a banner before.
ModeFollows ==
  \A m \in Modes :
    /\ <>[](cli = "running" /\ Knows /\ mode = m)
    /\ []<>(chunks # <<>> /\ Head(chunks) = Footer(m))
    /\ m = "default" => <>[]everSaw
    => <>[](seen = m)
=============================================================================
