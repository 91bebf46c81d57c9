------------------------------- MODULE Capture -------------------------------
(***************************************************************************)
(* The capture with the negotiation V4l2Device::init makes before a buffer *)
(* is requested: capabilities, the first format of the list the driver     *)
(* takes, frame rate.  Everything after it is module MmapDevice, whose     *)
(* Open and OpenFails are the ways the negotiation ends.                   *)
(*                                                                         *)
(* A picture's size is represented by the dimensions in which it is not    *)
(* what TransCoder asked for, a subset of Dimensions.                      *)
(***************************************************************************)
EXTENDS MmapDevice

CONSTANTS FormatList,   \* V4L2DeviceParameters: m_formatList
          SizeOf,       \* driver: sizeimage of each format it may know, at
                        \* whatever width and height are in use
          AnySize       \* driver: what VIDIOC_S_FMT may answer for it

Formats  == DOMAIN SizeOf
NoFormat == "no format"

Dimensions == {"width", "height"}
Wrong      == SUBSET Dimensions

ASSUME CaptureAssumption ==
    /\ FormatList \in Seq(Formats)
    /\ NoFormat \notin Formats
    /\ SizeOf \in [Formats -> Nat \ {0}]
    /\ AnySize \subseteq Nat

VARIABLES
    step,           \* the ioctl V4l2Device::init comes to next
    tried,          \* configureFormat: formats of the list that were refused
    format,         \* m_format
    bufferSize,     \* m_bufferSize
    area,           \* m_width, m_height
    supported,      \* driver: the formats it takes
    current,        \* driver: the format in use
    picture,        \* driver: width and height in use
    believed,       \* history: a VIDIOC_G_FMT failed after the format was set
    complained      \* history: "Connot set size" was logged

answers     == <<format, bufferSize, area>>
negotiation == <<step, tried, answers>>
driver      == <<supported, current, picture>>
past        == <<believed, complained>>
captureVars == <<vars, negotiation, driver, past>>

CaptureInit ==
    /\ Init
    /\ step = "stat"
    /\ tried = 0
    /\ format = NoFormat
    /\ bufferSize = 0
    /\ area = Dimensions
    /\ supported \in SUBSET Formats \ {{}}
    /\ current \in supported
    /\ picture = Dimensions
    /\ believed = FALSE
    /\ complained = FALSE

-----------------------------------------------------------------------------
At(s) == pc = "open" /\ step = s

Goto(s) == step' = s /\ UNCHANGED vars

\* stat, then open.  A path that is no character device is created as a file
\* and nothing is negotiated.
NotADevice ==
    /\ At("stat")
    /\ Open /\ fd' = "file"
    /\ UNCHANGED <<negotiation, driver, past>>

OpenDevice ==
    /\ At("stat")
    /\ Goto("capabilities")
    /\ UNCHANGED <<tried, answers, driver, past>>

HasCapabilities ==
    /\ At("capabilities")
    /\ Goto("query")
    /\ UNCHANGED <<tried, answers, driver, past>>

\* queryFormat does nothing when VIDIOC_G_FMT fails.
QueryFormat(ok) ==
    IF ok THEN format' = current /\ bufferSize' = SizeOf[current] /\ area' = picture
          ELSE UNCHANGED answers

Query(ok) ==
    /\ At("query")
    /\ QueryFormat(ok)
    /\ Goto("format")
    /\ UNCHANGED <<tried, driver, past>>

\* An empty list stands for the format the device has.
List == IF FormatList = <<>> /\ format # NoFormat THEN <<format>> ELSE FormatList

Candidate == List[tried + 1]

\* The driver refuses the call, or takes it with another format than the one
\* it was asked for.
FormatRefused ==
    /\ At("format")
    /\ tried < Len(List)
    /\ \/ UNCHANGED <<current, picture>>
       \/ /\ Candidate \notin supported
          /\ current' \in supported
          /\ picture' \in Wrong
    /\ tried' = tried + 1
    /\ Goto("format")
    /\ UNCHANGED <<answers, supported, past>>

TrustSetFormat(size, wrong) ==     \* mutant of SetFormat: no second query
    /\ At("format")
    /\ tried < Len(List)
    /\ Candidate \in supported
    /\ current' = Candidate /\ picture' = wrong
    /\ format' = Candidate /\ bufferSize' = size /\ area' = wrong
    /\ complained' = (wrong # {})
    /\ Goto("rate")
    /\ UNCHANGED <<tried, supported, believed>>

\* VIDIOC_S_FMT grants the format, at another width or height perhaps, and may
\* answer with a bad sizeimage.  A size that was not asked for is logged only.
SetFormat(size, wrong) ==
    /\ At("format")
    /\ tried < Len(List)
    /\ Candidate \in supported
    /\ current' = Candidate /\ picture' = wrong
    /\ format' = Candidate /\ bufferSize' = size /\ area' = wrong
    /\ complained' = (wrong # {})
    /\ Goto("requery")
    /\ UNCHANGED <<tried, supported, believed>>

QueryAgain(ok) ==
    /\ At("requery")
    /\ QueryFormat(ok)
    /\ believed' = ~ok
    /\ Goto("rate")
    /\ UNCHANGED <<tried, driver, complained>>

\* configureParam fails for no answer of the driver.
SetRate ==
    /\ At("rate")
    /\ Open /\ fd' = "device"
    /\ UNCHANGED <<negotiation, driver, past>>

\* open, the capabilities or every format was refused.
Refused ==
    /\ \/ At("stat")
       \/ At("capabilities")
       \/ At("format") /\ tried = Len(List)
    /\ OpenFails
    /\ UNCHANGED <<negotiation, driver, past>>

Negotiate ==
    \/ NotADevice
    \/ OpenDevice
    \/ HasCapabilities
    \/ \E ok \in BOOLEAN : Query(ok)
    \/ FormatRefused
    \/ \E size \in AnySize, wrong \in Wrong : SetFormat(size, wrong)
    \/ \E ok \in BOOLEAN : QueryAgain(ok)
    \/ SetRate
    \/ Refused

CaptureNext ==
    \/ Negotiate
    \/ (Start \/ Produce \/ Read \/ DequeueFails \/ Delete \/ Destroy)
         /\ UNCHANGED <<negotiation, driver, past>>

CaptureSpec == CaptureInit /\ [][CaptureNext]_captureVars

\* The fairness of MmapDevice, whose Create is the negotiation and start().
CaptureFairSpec ==
    /\ CaptureSpec
    /\ WF_captureVars(Negotiate)
    /\ WF_captureVars(Start /\ UNCHANGED <<negotiation, driver, past>>)
    /\ WF_captureVars(Produce /\ UNCHANGED <<negotiation, driver, past>>)
    /\ WF_captureVars(Read /\ UNCHANGED <<negotiation, driver, past>>)
    /\ WF_captureVars(Destroy /\ UNCHANGED <<negotiation, driver, past>>)

-----------------------------------------------------------------------------
\* TransCoder::run reads into getBufferSize() bytes and takes the pixels for
\* the format and the size it asked for: on a capture that was handed out the
\* driver uses the format the capture says, which is the first of the list it
\* takes unless it refused that one, and the width and height it says, which
\* are those asked for unless it was complained about them; and a frame fits,
\* unless the driver would not answer the query that corrects the size
\* (V4l2Device::configureFormat).
FramesFit ==
    pc \in Reading =>
        /\ format = current
        /\ FormatList # <<>> => format = FormatList[tried + 1]
        /\ area = picture
        /\ area = {} \/ complained
        /\ believed \/ bufferSize = SizeOf[current]

=============================================================================
