------------------------------- MODULE MCSink -------------------------------
(***************************************************************************)
(* Instances of Sink for TLC.  The writers are model values.               *)
(***************************************************************************)
EXTENDS Sink
=============================================================================
