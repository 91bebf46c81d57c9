------------------------------- MODULE Server -------------------------------
(***************************************************************************)
(* The life of the server (src/CamRTSPServer.cc, src/main.cc), of the      *)
(* encoding thread it starts (src/MThread.cc) and of the clients' sessions *)
(* (src/CamUnicastServerMediaSubsession.cc), around the source that        *)
(* FramedSource describes.                                                 *)
(*                                                                         *)
(* live555 is external: a session is set up, played, paused and deleted by *)
(* the event loop at any time; each has a replica of the source, and the   *)
(* replicator between them asks the source for frames while a session      *)
(* plays.  The program itself never calls stopServer, which the class      *)
(* offers; it is called here at any time while the loop runs.              *)
(***************************************************************************)
EXTENDS FramedSource

CONSTANT Clients

VARIABLES
    stage,      \* the main thread: see Stages
    watcher,    \* watcher_ is set
    thread,     \* th of the TransCoder: "none", "joinable" or "detached"
    session,    \* of each client: "none", "setup" or "playing"
    clientIp    \* the clients in clientIpMap_

life       == <<stage, watcher, thread>>
clients    == <<session, clientIp>>
serverVars == <<vars, life, clients>>

Stages == {"new", "run", "sessions", "started", "loop", "close server",
           "close sources", "release", "exit"}

Connected == {c \in Clients : session[c] # "none"}
Playing   == {c \in Clients : session[c] = "playing"}

ServerTypeOK ==
    /\ TypeOK
    /\ stage \in Stages
    /\ watcher \in BOOLEAN
    /\ thread \in {"none", "joinable", "detached"}
    /\ session \in [Clients -> {"none", "setup", "playing"}]
    /\ clientIp \subseteq Clients

\* The constructor, with a configuration; source and thread are yet to come.
ServerInit ==
    /\ Init
    /\ stage = "new"
    /\ watcher = FALSE
    /\ thread = "none"
    /\ session = [c \in Clients |-> "none"]
    /\ clientIp = {}

-----------------------------------------------------------------------------
(* MThread.                                                                *)

Start(th) == "joinable"

DetachLater(th) == th      \* mutant of Detach

Detach(th) == "detached"

\* stop() sets stopState and joins a joinable thread.  TransCoder::run never
\* looks at stopState, so that the join would not return.
Stopped(th) == th # "joinable"

\* ~MThread calls stop() unless stopState says that it was called, a flag that
\* has no initial value, and joins a thread that still is joinable.
Destroyed(th) == th # "joinable"

-----------------------------------------------------------------------------
(* The main thread up to the event loop.                                   *)

AddTranscoder ==
    /\ stage = "new"
    /\ stage' = "run"
    /\ UNCHANGED <<vars, watcher, thread, clients>>

\* run() calls exit(1) when it gets no server.  Tunnelling over HTTP may fail.
CreateServer ==
    /\ stage = "run"
    /\ stage' \in {"sessions", "exit"}
    /\ UNCHANGED <<vars, watcher, thread, clients>>

\* addMediaSession: the source's constructor sets the callback and starts the
\* thread, which runs from here on.
StartThread ==
    /\ stage = "sessions"
    /\ stage' = "started"
    /\ thread' = Start(thread)
    /\ UNCHANGED <<vars, watcher, clients>>

\* It lets the thread go; the source, and a replicator that outlives its
\* replicas, are kept.
DetachThread ==
    /\ stage = "started"
    /\ stage' = "loop"
    /\ thread' = Detach(thread)
    /\ UNCHANGED <<vars, watcher, clients>>

-----------------------------------------------------------------------------
(* The encoding thread.                                                    *)

Encode ==
    /\ thread # "none"
    /\ stage # "exit"
    /\ Encoder
    /\ UNCHANGED <<life, clients>>

Store == Encode /\ (Push \/ Trigger)

-----------------------------------------------------------------------------
(* The event loop.                                                         *)

Looping == stage = "loop" /\ UNCHANGED life

Serve == Looping /\ Callback /\ UNCHANGED clients

\* getStreamParameters: the address is remembered, then the base class has a
\* replica and a sink made.
Setup(c) ==
    /\ Looping
    /\ loop = "idle"
    /\ session[c] = "none"
    /\ session' = [session EXCEPT ![c] = "setup"]
    /\ clientIp' = clientIp \cup {c}
    /\ UNCHANGED vars

Play(c) ==
    /\ Looping
    /\ loop = "idle"
    /\ session[c] = "setup"
    /\ session' = [session EXCEPT ![c] = "playing"]
    /\ UNCHANGED <<vars, clientIp>>

\* The replicator reads for the first replica that asks.
RequestFrame ==
    /\ Looping
    /\ Playing # {}
    /\ GetNextFrame
    /\ UNCHANGED clients

\* A replica no longer plays.  The source stops with the last one, and with
\* the one it is reading for.
Deactivate(c) ==
    /\ loop = "idle"
    /\ \/ session[c] # "playing" /\ UNCHANGED vars
       \/ Playing \ {c} # {} /\ UNCHANGED vars
       \/ session[c] = "playing" /\ StopGettingFrames

Pause(c) ==
    /\ Looping
    /\ session[c] = "playing"
    /\ Deactivate(c)
    /\ session' = [session EXCEPT ![c] = "setup"]
    /\ UNCHANGED clientIp

\* deleteStream: on TEARDOWN, when a client has been silent for too long, and
\* when the server is closed.
DeleteStream(c) ==
    /\ session[c] # "none"
    /\ Deactivate(c)
    /\ session' = [session EXCEPT ![c] = "none"]
    /\ clientIp' = clientIp \ {c}

Teardown(c) == Looping /\ DeleteStream(c)

StopServer ==
    /\ stage = "loop"
    /\ watcher' = TRUE
    /\ UNCHANGED <<vars, stage, thread, clients>>

-----------------------------------------------------------------------------
(* The end: the loop is left and the server destroyed.                     *)

SourcesFirst ==        \* mutant of LeaveLoop: the sources are closed first
    /\ stage = "loop"
    /\ watcher
    /\ loop = "idle"
    /\ stage' = "close sources"
    /\ UNCHANGED <<vars, watcher, thread, clients>>

\* doEventLoop tests the variable between two of its steps.
LeaveLoop ==
    /\ stage = "loop"
    /\ watcher
    /\ loop = "idle"
    /\ stage' = "close server"
    /\ UNCHANGED <<vars, watcher, thread, clients>>

\* Medium::close(server_) deletes the streams of every session, one by one.
CloseServer ==
    /\ stage = "close server"
    /\ IF Connected = {}
       THEN stage' = "close sources" /\ UNCHANGED <<vars, clients>>
       ELSE UNCHANGED stage /\ \E c \in Connected : DeleteStream(c)
    /\ UNCHANGED <<watcher, thread>>

CloseSources ==
    /\ stage = "close sources"
    /\ Stopped(thread)
    /\ Close
    /\ stage' = "release"
    /\ UNCHANGED <<watcher, thread, clients>>

\* Environment, scheduler and TransCoder go, and main returns.
Release ==
    /\ stage = "release"
    /\ Destroyed(thread)
    /\ stage' = "exit"
    /\ UNCHANGED <<vars, watcher, thread, clients>>

Begin == AddTranscoder \/ CreateServer \/ StartThread \/ DetachThread

End == CloseServer \/ CloseSources \/ Release

ServerNext ==
    \/ Begin
    \/ Encode
    \/ Serve
    \/ RequestFrame
    \/ \E c \in Clients : Setup(c) \/ Play(c) \/ Pause(c) \/ Teardown(c)
    \/ StopServer
    \/ LeaveLoop
    \/ End

ServerSpec == ServerInit /\ [][ServerNext]_serverVars

\* Both threads run.  The loop tests the variable again and again, whatever
\* else it has to do.
ServerFairSpec ==
    /\ ServerSpec
    /\ WF_serverVars(Store)
    /\ WF_serverVars(Serve)
    /\ WF_serverVars(End)
    /\ SF_serverVars(LeaveLoop)

-----------------------------------------------------------------------------
(* Properties.                                                             *)

\* The source outlives everybody who uses it, except for the thread that it
\* started: sessions are gone, and their addresses forgotten, before it is
\* closed; it fetches data only while somebody plays; and as long as nobody
\* calls stopServer the callback finds it alive (~CamRTSPServer and the
\* replicator that is not deleted with its last replica).
OutlivesItsUsers ==
    /\ loop = "closed" => Connected = {}
    /\ clientIp = Connected
    /\ awaiting => Playing # {}
    /\ encoder = "lost" => watcher

\* A server that is told to stop ends.  It never waits for the encoding thread,
\* which never ends.
ServerEnds == watcher ~> (stage = "exit" \/ loop = "undefined")

=============================================================================
