---------------------------- MODULE MCThreadPool ----------------------------
(* Instances of ThreadPool for TLC.  There are more tasks than workers, so *)
(* that a backlog builds up while every worker is busy.                    *)
EXTENDS ThreadPool

=============================================================================
