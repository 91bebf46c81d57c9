------------------------------ MODULE MCSettings -----------------------------
(* Instances of Settings for TLC: every file of three lines, an int of 16    *)
(* bits.                                                                     *)
EXTENDS Settings

MCSections == {"server", "rknn"}
MCNames == {"http_enable", "http_ebable", "http_port", "rknn_thread"}

\* A number within the limit of six, one that is no int and leaves nine, a
\* Boolean, nothing.
MCValue == {"2", "65545", "yes", ""}
MCIntegerOf == [v \in MCValue \cup {NoValue} |->
                    CASE v = "2" -> 2 [] v = "65545" -> 65545 [] OTHER -> NotANumber]
MCNotANumber == -1
MCBooleanOf == [v \in MCValue \cup {NoValue} |-> IF v = "yes" THEN TRUE ELSE NotABoolean]

=============================================================================
