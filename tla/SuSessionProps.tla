--------------------------- MODULE SuSessionProps ---------------------------
(* What SuSession promises, and the inductive invariant its safety rests on. *)
EXTENDS SuSession

Alive(pc) == pc \notin {"none", "dead"}

\* Control states of the processes.
KPc == {"start", "connect", "pts", "send", "ack", "pump", "code", "local", "refused", "nopts",
        "sigpipe", "noack", "nocode", "exited", "cut", "killed"}
DPc == {"accept", "fork", "wait", "close", "dead"}
IPc == {"none", "fork", "exit", "dead"}
SPc == {"none", "start", "pid", "pts", "ppid", "mount", "in", "out", "err", "argc", "args",
        "ack", "fork", "log", "wait", "waitlog", "dead"}
CPc == {"none", "start", "pts", "check", "stdio", "main", "wait", "dead"}
GPc == {"none", "main", "fork", "log", "wait", "waitlog", "dead"}
XPc == {"none", "exec", "run", "dead"}

Decoded == [pts : Pts \cup {NoPts}, ppid : Clients \cup {None}, uid : Uids \cup {None},
            mount : BOOLEAN, fds : SUBSET Streams, argc : 0 .. MAX_ARGS, argv : Seq(Str)]

KType == /\ kpc \in [Clients -> KPc] /\ kst \in [Clients -> Int] /\ sent \in [Clients -> Nat]
         /\ pty \in [Clients -> Pts \cup {NoPts}] /\ master \subseteq Clients
DType == /\ dpc \in DPc /\ dcl \in Clients \cup {None} /\ backlog \in Seq(Clients)
         /\ ipc \in [Clients -> IPc]
HType == /\ hold \in [Clients -> SUBSET {"D", "I", "S", "C"}]
         /\ lhold \in [Clients -> SUBSET {"I", "S"}]
SType == /\ spc \in [Clients -> SPc] /\ rcvd \in [Clients -> Nat] /\ dec \in [Clients -> Decoded]
CType == /\ cpc \in [Clients -> CPc] /\ cst \in [Clients -> Int]
         /\ att \in [Clients -> Clients \cup {None}] /\ opened \subseteq Clients
GType == /\ gpc \in [Clients -> GPc] /\ gst \in [Clients -> Int]
XType == /\ xpc \in [Clients -> XPc] /\ xst \in [Clients -> Int]
FType == /\ faults \in 0 .. MAX_FAULTS /\ hurt \subseteq Clients

\* Type invariant: the state of the client, the daemon and the session processes
\* (daemon.c, su.c) stays within its type.
TypeOK == /\ req \in [Clients -> Requests]
          /\ KType /\ DType /\ HType /\ SType /\ down \in [Clients -> Seq(Int)]
          /\ CType /\ GType /\ XType /\ FType

\* The kind of message daemon_accept expects where it is.
Expects(pc) == CASE pc \in {"pid", "ppid", "mount", "argc"} -> "int"
                 [] pc \in {"pts", "args"} -> "str"
                 [] pc \in {"in", "out", "err"} -> "fd"

\* connect_daemon's writes and daemon_accept's reads stay in step: whatever the
\* request, no read meets a message of another kind.
FrameAligned == \A c \in Clients :
    spc[c] \in Reading /\ rcvd[c] < sent[c] => Wire(c, rcvd[c] + 1).kind = Expects(spc[c])

\* The arguments a caller means to be run with: argv[1] is dropped with the mount flag.
Meant(r) == IF r.mount THEN SubSeq(r.argv, 1, 1) \o SubSeq(r.argv, 3, Len(r.argv)) ELSE r.argv

\* What daemon_accept decoded when it acknowledges is what the client asked for: its
\* own uid, PTY and streams, and its arguments in order.  With the mount flag and no
\* argument but argv[0] the count sent is 0 and so is what is read.
RequestDecoded == \A c \in Clients :
    spc[c] \in {"ack", "fork", "log", "wait", "waitlog"} \/ cpc[c] # "none" =>
        /\ dec[c].uid = req[c].uid /\ dec[c].pts = pty[c] /\ dec[c].ppid = c
        /\ dec[c].mount = req[c].mount
        /\ dec[c].fds = (Streams \ req[c].atty) \ (req[c].closed \ SocketStream(req[c]))
        /\ dec[c].argv = IF req[c].mount /\ Len(req[c].argv) = 1 THEN <<>> ELSE Meant(req[c])

\* A connection is open only in processes that are still to use or close it, so that
\* the client sees the end of the stream once its session is gone: D closes its
\* copy (run_daemon), C closes its own (daemon_accept), I exits.
ConnectionHeld == \A c \in Clients :
    hold[c] = {p \in {"D", "I", "S", "C"} :
                  \/ p = "D" /\ dcl = c
                  \/ p = "I" /\ ipc[c] \in {"fork", "exit"}
                  \/ p = "S" /\ Alive(spc[c])
                  \/ p = "C" /\ cpc[c] = "start"}

\* No session keeps the listening socket: once the daemon is gone, at most processes
\* about to close it delay the refusal of new clients.
ListenerHeld == \A c \in Clients :
    lhold[c] = {p \in {"I", "S"} :
                   \/ p = "I" /\ ipc[c] \in {"fork", "exit"}
                   \/ p = "S" /\ spc[c] = "start"}

\* A session goes on only with a terminal of its caller's uid, although it opens it by
\* a name that may have been given to another client meanwhile (daemon_accept's st_uid
\* check).
PtyOwned == \A c \in Clients :
    att[c] # None /\ (cpc[c] \in {"stdio", "main", "wait"} \/ gpc[c] # "none") =>
        req[att[c]].uid = req[c].uid

\* No command is run for a client, alive, failed or killed, that has not had its
\* acknowledgement and has none to read: S writes it before it forks.  Only a command
\* that reads the client's own socket as its standard input can have taken it.
NoCommandBeforeAck == \A c \in Clients :
    \/ kpc[c] \in {"start", "connect", "pts", "local", "refused", "nopts"}
    \/ /\ kpc[c] \in {"send", "ack", "sigpipe", "noack", "cut"}
       /\ down[c] = <<>> /\ ~SharesStdin(c)
    => cpc[c] = "none" /\ xpc[c] = "none"

\* The status su ends with, when no fault hit its own session, is what its own
\* command's wait status becomes on the way through G, C, S and K; it is there only
\* once the command has ended, whatever the other sessions do.
StatusPassedOn == \A c \in Clients :
    kpc[c] = "exited" /\ c \notin hurt =>
        /\ xpc[c] \in {"none", "dead"} /\ cpc[c] = "dead"
        /\ xpc[c] = "dead" => SuExit(c) = xst[c] % 256

\* su reports the exit code of a command that ended by itself ("wait for the child to
\* exit, and send the exit code across the wire").
ExitCodeDelivered == \A c \in Clients :
    kpc[c] = "exited" /\ c \notin hurt /\ xpc[c] = "dead" /\ xst[c] % 256 = 0
        => SuExit(c) = WEXITSTATUS(xst[c])

\* A client waits for ever only on a PTY whose slave no one has opened or will.
Hung(c) == kpc[c] = "pump" /\ c \notin opened /\ ~Alive(spc[c]) /\ ~Alive(cpc[c])

\* Every client that connects comes to an end (connect_daemon returns or exits),
\* unless it is hung on a PTY its session never opened.
ClientEnds == \A c \in Clients : kpc[c] = "pts" ~> Ended(c) \/ Hung(c)

\* Every client that connects comes to an end.
EveryClientEnds == \A c \in Clients : kpc[c] = "pts" ~> Ended(c)

\* No session, running or stuck, holds up the daemon: a queued client is accepted
\* unless the daemon is gone (fork_zero_fucks waits for I only).
QueueServed == \A c \in Clients : Queued(c) ~> ~Queued(c) \/ dpc = "dead"

\* A session waits for ever only for the rest of a request whose client has ended and
\* whose socket it was passed for a closed stream: it holds the end it reads from.
Stuck(c) == /\ spc[c] \in Reading /\ rcvd[c] = sent[c]
            /\ Ended(c) /\ SocketSent(c)

\* A session comes to an end, whatever becomes of its client or of any one process of
\* it, unless it is stuck on its own end of the connection: no other read, wait or
\* write of daemon_accept, su_main or allow blocks for ever once the command ends.
SessionEnds == \A c \in Clients :
    spc[c] = "start" ~> \/ Stuck(c)
                        \/ /\ ~Alive(spc[c]) /\ ~Alive(cpc[c])
                           /\ ~Alive(gpc[c]) /\ ~Alive(xpc[c])

-----------------------------------------------------------------------------
(* What the properties above rest on: together an inductive invariant. *)

\* The daemon has a client in hand exactly between accept and close.
DaemonHand == (dcl = None) <=> (dpc \in {"accept", "dead"})

\* A client is queued once, accepted once, and has one session.
Once ==
    /\ \A i, j \in 1 .. Len(backlog) : backlog[i] = backlog[j] => i = j
    /\ \A c \in Clients :
          /\ ipc[c] \in {"none", "fork"} => spc[c] = "none"
          /\ dpc = "fork" /\ dcl = c => ipc[c] = "none"
          /\ Queued(c) => ipc[c] = "none" /\ dcl # c
          /\ kpc[c] \in {"start", "connect"} => ~Queued(c) /\ dcl # c /\ ipc[c] = "none"

\* K writes nothing before its PTY is settled, and never more than its request.
Sending == \A c \in Clients :
    /\ rcvd[c] <= sent[c] /\ sent[c] <= WireLen(c)
    /\ kpc[c] \in {"start", "connect", "pts", "local", "refused", "nopts"} => sent[c] = 0
    /\ kpc[c] \in {"send", "sigpipe"} => sent[c] < WireLen(c)

\* S has read, at each field, just the messages before it.
Position(pc) == CASE pc = "pts" -> 1 [] pc = "ppid" -> 2 [] pc = "mount" -> 3 [] pc = "in" -> 4
                  [] pc = "out" -> 5 [] pc = "err" -> 6 [] pc = "argc" -> 7 [] OTHER -> 0

Acked == {"fork", "log", "wait", "waitlog"}

Receiving == \A c \in Clients :
    /\ spc[c] \in {"none", "start"} \cup (Reading \ {"args"}) =>
          rcvd[c] = Position(spc[c]) /\ dec[c].argv = <<>>
    /\ spc[c] = "args" => rcvd[c] = HeaderLen + Len(dec[c].argv) /\ Len(dec[c].argv) < dec[c].argc
    /\ spc[c] \in {"ack"} \cup Acked \/ cpc[c] # "none" =>
          rcvd[c] = HeaderLen + dec[c].argc /\ Len(dec[c].argv) = dec[c].argc
    /\ cpc[c] # "none" => spc[c] \in {"log", "wait", "waitlog", "dead"}

\* What S has read so far is what the messages say.
Decoding == \A c \in Clients :
    /\ rcvd[c] >= 2 => dec[c].pts = pty[c]
    /\ rcvd[c] >= 3 => dec[c].ppid = c /\ dec[c].uid = req[c].uid
    /\ rcvd[c] >= 4 => dec[c].mount = req[c].mount
    /\ dec[c].fds = {s \in Streams : PassesFd(req[c], s) /\
                        rcvd[c] >= CASE s = "in" -> 5 [] s = "out" -> 6 [] s = "err" -> 7}
    /\ (rcvd[c] >= HeaderLen /\ spc[c] # "dead") \/ cpc[c] # "none" =>
          dec[c].argc = WireArgc(req[c])
    /\ \A i \in 1 .. Len(dec[c].argv) :
          i <= Len(WireArgs(req[c])) /\ dec[c].argv[i] = WireArgs(req[c])[i]

\* The processes of a session start in order.
Tree == \A c \in Clients :
    /\ xpc[c] # "none" => gpc[c] # "none"
    /\ gpc[c] # "none" => cpc[c] # "none"
    /\ gpc[c] \in {"none", "main", "fork"} => xpc[c] = "none"
    /\ cpc[c] \in {"none", "start", "pts", "check", "stdio", "main"} => gpc[c] = "none"
    /\ cpc[c] \in {"none", "start", "pts"} => att[c] = None

\* The acknowledgement comes before everything else S does for the client.
AckFirst == \A c \in Clients :
    /\ spc[c] \in Acked \/ cpc[c] # "none" =>
          /\ kpc[c] \notin {"start", "connect", "pts", "local", "refused", "nopts"}
          /\ kpc[c] \in {"send", "ack", "sigpipe", "noack", "cut"} =>
                down[c] # <<>> \/ SharesStdin(c)
    /\ kpc[c] \in {"start", "connect", "pts"} => down[c] = <<>>
    /\ kpc[c] \in {"pump", "code", "exited"} \/ down[c] # <<>> => spc[c] \in Acked \cup {"dead"}

\* In a session without faults every parent has its child's status, and K, once it
\* is there to be read, its session's.
Code(c) == WEXITSTATUS(cst[c])
Statuses == \A c \in Clients : c \notin hurt =>
    /\ gpc[c] # "waitlog" /\ spc[c] # "waitlog"
    /\ gpc[c] = "dead" => xpc[c] \in {"none", "dead"}
    /\ gpc[c] = "dead" /\ xpc[c] = "dead" => gst[c] = Exit(xst[c])
    /\ xpc[c] # "none" => gpc[c] \in {"log", "wait", "dead"}
    /\ cpc[c] = "dead" => gpc[c] \in {"none", "dead"}
    /\ cpc[c] = "dead" /\ gpc[c] = "dead" => cst[c] = Exit(WEXITSTATUS(gst[c]))
    /\ spc[c] \in Acked /\ kpc[c] \in {"send", "ack"} =>
          down[c] = <<1>> \/ (SharesStdin(c) /\ down[c] = <<>>)
    /\ spc[c] \in Acked /\ kpc[c] \in {"pump", "code"} => down[c] = <<>>
    /\ spc[c] = "dead" /\ kpc[c] \in {"send", "ack"} =>
          \/ down[c] = <<>>
          \/ cpc[c] = "dead" /\ down[c] = <<1, Code(c)>>
          \/ cpc[c] = "dead" /\ SharesStdin(c) /\ down[c] = <<Code(c)>>
    /\ spc[c] = "dead" /\ kpc[c] \in {"pump", "code"} =>
          cpc[c] = "dead" /\ (down[c] = <<Code(c)>> \/ (SharesStdin(c) /\ down[c] = <<>>))
    /\ kpc[c] = "exited" => cpc[c] = "dead" /\ kst[c] = Exit(Code(c))

Inv == /\ TypeOK /\ DaemonHand /\ Once /\ Sending /\ Receiving /\ Decoding /\ ConnectionHeld
       /\ ListenerHeld /\ PtyOwned /\ Tree /\ AckFirst /\ Statuses
=============================================================================
