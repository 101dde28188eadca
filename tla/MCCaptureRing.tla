--------------------------- MODULE MCCaptureRing ---------------------------
(***************************************************************************)
(* TLC instances of CaptureRing.                                           *)
(***************************************************************************)
EXTENDS CaptureRing
=============================================================================
