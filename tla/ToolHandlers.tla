----------------------------- MODULE ToolHandlers -----------------------------
(***************************************************************************)
(* What the hub makes of a person's answer to a permission card: the       *)
(* handler of the tool renders the card, whose options have keys, and later *)
(* decides by the key that comes back.  Texts and rules are left out: an   *)
(* answer either allows, allows with an update (of the input, or of        *)
(* Claude's permissions), denies, or leaves the question to Claude.        *)
(***************************************************************************)

(* MAP of registry.ts; any other tool has the catch-all handler.           *)
HandlerOf ==
  [Bash |-> "bash", PowerShell |-> "bash",
   Edit |-> "fileEdit", Write |-> "fileEdit", MultiEdit |-> "fileEdit",
   NotebookEdit |-> "fileEdit",
   WebFetch |-> "webFetch", AskUserQuestion |-> "askUserQuestion",
   ExitPlanMode |-> "exitPlanMode", Other |-> "catchAll"]

Tools == DOMAIN HandlerOf

Decisions == {"allow", "allowWith", "deny", "ask"}

(* A key that no card has: none selected (free text alone), or unknown.    *)
NoKey == "noKey"

-----------------------------------------------------------------------------
(* The keys of each card (render).                                         *)

BashKeys == {"yes", "yes-prefix", "no"}
FileEditKeys == {"yes", "yes-session-scope", "no"}
WebFetchKeys == {"yes", "yes-host", "no"}
ExitPlanModeKeys == {"yes-default", "yes-accept-edits", "no"}
AskUserQuestionKeys == {"option"}
CatchAllKeys == {"allow", "allow-this-session", "deny"}

KeysOf ==
  [bash |-> BashKeys, fileEdit |-> FileEditKeys, webFetch |-> WebFetchKeys,
   exitPlanMode |-> ExitPlanModeKeys,
   askUserQuestion |-> AskUserQuestionKeys, catchAll |-> CatchAllKeys]

Offered(tool) == KeysOf[HandlerOf[tool]]

AllKeys == UNION {Offered(tool) : tool \in Tools}

-----------------------------------------------------------------------------
(* The decision for a key (decide).  `scoped`: the input has a directory,  *)
(* or a URL that parses, from which the rule to be remembered is made.     *)

Bash(key) ==
  CASE key = "yes" -> "allow"
    [] key = "yes-prefix" -> "allowWith"
    [] key = "no" -> "deny"
    [] OTHER -> "ask"

FileEdit(key, scoped) ==
  CASE key = "yes" -> "allow"
    [] key = "yes-session-scope" -> IF scoped THEN "allowWith" ELSE "allow"
    [] key = "no" -> "deny"
    [] OTHER -> "ask"

WebFetch(key, scoped) ==
  CASE key = "yes" -> "allow"
    [] key = "yes-host" -> IF scoped THEN "allowWith" ELSE "allow"
    [] key = "no" -> "deny"
    [] OTHER -> "ask"

(* Either approval pins the mode, lest Claude restore the one it had.      *)
ExitPlanMode(key) ==
  CASE key \in {"yes-default", "yes-accept-edits"} -> "allowWith"
    [] key = "no" -> "deny"
    [] OTHER -> "ask"

(* The answers, however few, become part of the input.                     *)
AskUserQuestion(key) == "allowWith"

(* The key of the second option names the tool.                            *)
CatchAll(key) ==
  CASE key = "allow" -> "allow"
    [] key = "allow-this-session" -> "allowWith"
    [] key = "deny" -> "deny"
    [] OTHER -> "ask"

Decide(tool, key, scoped) ==
  LET handler == HandlerOf[tool]
  IN  CASE handler = "bash" -> Bash(key)
        [] handler = "fileEdit" -> FileEdit(key, scoped)
        [] handler = "webFetch" -> WebFetch(key, scoped)
        [] handler = "exitPlanMode" -> ExitPlanMode(key)
        [] handler = "askUserQuestion" -> AskUserQuestion(key)
        [] OTHER -> CatchAll(key)

(* What a client may make the handler of this tool decide.                 *)
PossibleDecisions(tool) ==
  {Decide(tool, key, scoped) :
     key \in AllKeys \cup {NoKey}, scoped \in BOOLEAN}
=============================================================================
