---------------------------- MODULE MCCandidates ----------------------------
(* Instances of Candidates for TLC: every content of two outputs of two      *)
(* cells.                                                                    *)
EXTENDS Candidates

MCLo == -1

\* In quanta the threshold is -1/2 for the first output, 1/2 for the second.
MCThreshold == <<1, 1>>
MCZeroPoint == <<-1, 0>>

=============================================================================
