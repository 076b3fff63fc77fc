-------------------------- MODULE MCTerminalStream --------------------------
(* One browser: clients meet only in the hub, which treats each of them    *)
(* alone.  Liveness, hence no symmetry.                                    *)
EXTENDS TerminalStream
=============================================================================
