--------------------------- MODULE MCFramedSource ---------------------------
(* Instances of FramedSource for TLC.                                      *)
EXTENDS FramedSource

=============================================================================
