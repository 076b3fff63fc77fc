-------------------------- MODULE MCSessionActivity ---------------------------
(* Two facts are enough for two events of one kind closer than the window, *)
(* farther apart, or of two kinds; a ring of one event always drops some.  *)
EXTENDS SessionActivity
=============================================================================
