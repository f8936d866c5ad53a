------------------------- MODULE MCControllerCapture -------------------------
(* One captured child that may write one unit more than each bound.         *)
EXTENDS ControllerCapture
=============================================================================
