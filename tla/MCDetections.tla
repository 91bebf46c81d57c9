---------------------------- MODULE MCDetections -----------------------------
(* Instances of Detections for TLC: four candidates of any confidences,      *)
(* classes and overlaps, and a report that holds two.                        *)
EXTENDS Detections

=============================================================================
