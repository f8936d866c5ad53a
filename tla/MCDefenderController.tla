------------------------ MODULE MCDefenderController ------------------------
(* One workspace and three controllers.                                     *)
EXTENDS DefenderController
=============================================================================
