------------------------------ MODULE MCCapture ------------------------------
(* Instances of Capture for TLC.  MaxFrame passes NbBuffer, so that buffers  *)
(* are filled again after they have been read.                               *)
EXTENDS Capture

MCFormatList == <<"YUYV", "MJPEG">>
MCSizeOf == [f \in {"YUYV", "MJPEG"} |-> IF f = "YUYV" THEN 2 ELSE 1]

=============================================================================
