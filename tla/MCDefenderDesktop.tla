------------------------- MODULE MCDefenderDesktop -------------------------
(* The desktop check with one right and one wrong phrase and a few clicks.  *)
EXTENDS DefenderDesktop
=============================================================================
