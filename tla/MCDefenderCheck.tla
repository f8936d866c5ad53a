--------------------------- MODULE MCDefenderCheck ---------------------------
(* One check with one right and one wrong text.                             *)
EXTENDS DefenderCheck
MCControllers == Operations
=============================================================================
