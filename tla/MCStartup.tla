------------------------------ MODULE MCStartup ------------------------------
(* Instances of Startup for TLC: every file of three lines, an int of 16     *)
(* bits.                                                                     *)
EXTENDS Startup

MCSections == {"server", "rknn"}
MCNames == {"http_enable", "http_ebable", "http_port", "rknn_thread"}

\* Two numbers, of which one is a Boolean as well; two that are no int and leave
\* zero and a negative number; nothing.
MCValue == {"1", "2", "65536", "40000", ""}
MCIntegerOf == [v \in MCValue \cup {NoValue} |->
                    CASE v = "1" -> 1 [] v = "2" -> 2 [] v = "65536" -> 65536
                      [] v = "40000" -> 40000 [] OTHER -> NotANumber]
MCNotANumber == -1
MCBooleanOf == [v \in MCValue \cup {NoValue} |-> IF v = "1" THEN TRUE ELSE NotABoolean]

=============================================================================
