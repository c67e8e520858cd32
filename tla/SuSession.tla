------------------------------ MODULE SuSession ------------------------------
(***************************************************************************)
(* The su daemon and the su clients it serves: connect_daemon on the       *)
(* client's side; run_daemon, daemon_accept and the process tree that      *)
(* su_main and allow build on the daemon's side.                           *)
(*                                                                         *)
(* Every client c is one invocation of su.  Its processes are              *)
(*   K  the child of fork_for_samsung that runs connect_daemon;            *)
(*   I  the short-lived child of fork_zero_fucks;                          *)
(*   S  the session process that runs daemon_accept;                       *)
(*   C  the child S forks: opens the PTY, becomes su_main;                 *)
(*   G  the child of C's fork_for_samsung that runs allow;                 *)
(*   X  the command that G forks and executes.                             *)
(* D is the daemon itself.                                                 *)
(***************************************************************************)
EXTENDS Integers, Sequences, FiniteSets

CONSTANTS
    Clients,    \* invocations of su
    Requests,   \* what an invocation may ask for
    Str,        \* argument strings
    StrLen,     \* strlen of each
    DaemonArgs, \* the strings --daemon, -d and --start
    Uids,
    Pts,        \* names of slave terminals
    NoPts,      \* the empty slave name
    None,
    PATH_MAX, MAX_ARGS, BACKLOG,
    SOCK_BUF,   \* messages a socket buffers before a writer blocks
    CmdStatus,  \* wait statuses a command may end with
    OptExits,   \* codes with which the option parsing ends su, of 0, 1, 2
    Garbage,    \* values an uninitialised status may hold
    MAX_FAULTS  \* bound on the faults of a behaviour

Streams == {"in", "out", "err"}

\* The arguments, environment and standard streams of a client.
Request == [uid    : Uids,
            argv   : Seq(Str),
            mount  : BOOLEAN,           \* MOUNT_EMULATED_STORAGE is set
            atty   : SUBSET Streams,    \* streams that are terminals
            closed : SUBSET Streams]    \* streams not open when su starts

ASSUME RequestsAssumption ==
    /\ Requests \subseteq Request
    /\ \A r \in Requests : /\ Len(r.argv) >= 1
                           /\ r.atty \cap r.closed = {}
                           \* of two closed streams the PTY would take the second
                           /\ r.atty # {} => \A s, t \in r.closed : s = t
ASSUME StringsAssumption == StrLen \in [Str -> Nat]
ASSUME NamesAssumption == NoPts \notin Pts /\ None \notin Clients
ASSUME BoundsAssumption == /\ PATH_MAX \in Nat /\ MAX_ARGS \in Nat /\ MAX_FAULTS \in Nat
                           /\ BACKLOG \in Nat \ {0} /\ SOCK_BUF \in Nat \ {0}
ASSUME StatusAssumption == /\ OptExits \subseteq 0 .. 2 /\ Garbage \subseteq Nat
                           /\ CmdStatus \subseteq Nat /\ \A status \in CmdStatus : status < 65536

VARIABLES
    req,                        \* request of each client
    kpc, kst, sent, pty, master,  \* K: control, wait status, messages written, PTY, clients with the ptmx open
    dpc, dcl, backlog, ipc,     \* D: control, accepted client, listen queue; I: control
    hold, lhold,                \* processes with the connection / listening socket open
    spc, rcvd, dec,             \* S: control, messages read, decoded request
    down,                       \* integers on their way from S to K
    cpc, cst, gpc, gst, xpc, xst, \* C, G, X: control and wait status
    att, opened,                \* whose PTY a session is on; PTYs opened so far
    faults, hurt                \* faults left; clients that met one

kVars == <<kpc, kst, sent, pty, master>>
dVars == <<dpc, dcl, backlog, ipc>>
hVars == <<hold, lhold>>
sVars == <<spc, rcvd, dec>>
cVars == <<cpc, cst, att, opened>>
gVars == <<gpc, gst>>
xVars == <<xpc, xst>>
fVars == <<faults, hurt>>
vars  == <<req, kVars, dVars, hVars, sVars, down, cVars, gVars, xVars, fVars>>

-----------------------------------------------------------------------------
(* Exit codes and wait statuses. *)

NoStatus == -1
SIGKILL  == 9
SIGSEGV  == 11
SIGPIPE  == 13

\* Wait status of a process that calls exit(n): only the low byte survives.
Exit(n) == (n % 256) * 256
WEXITSTATUS(status) == (status \div 256) % 256

-----------------------------------------------------------------------------
(* The request stream.  A string stands for its length and its bytes, which *)
(* write_string writes and read_string reads one after the other.           *)

\* argc as announced: one less when the storage is to be mounted.
WireArgc(r) == IF r.mount THEN Len(r.argv) - 1 ELSE Len(r.argv)

\* The arguments the loop writes: all but argv[1] when the storage is to be mounted.
WireArgs_all(r) == r.argv                                           \* mutant
WireArgs(r) == IF r.mount /\ Len(r.argv) > 1
               THEN [i \in 1 .. Len(r.argv) - 1 |-> r.argv[IF i = 1 THEN 1 ELSE i + 1]]
               ELSE r.argv

\* The stream whose number socket() takes: the lowest that is closed, if any.
FILENO(s) == CASE s = "in" -> 0 [] s = "out" -> 1 [] s = "err" -> 2
SocketStream(r) == {s \in r.closed : \A t \in r.closed : FILENO(s) <= FILENO(t)}

\* send_fd passes a descriptor for a stream that is not a terminal and is open by now.
PassesFd(r, s) == s \notin r.atty /\ (s \notin r.closed \/ s \in SocketStream(r))

Int_(v) == [kind |-> "int", val |-> v]
Str_(v) == [kind |-> "str", val |-> v]
Fd_(v)  == [kind |-> "fd",  val |-> v]

HeaderLen == 8
Header(c) == << Int_(c), Str_(pty[c]), Int_(c), Int_(req[c].mount),
                Fd_(PassesFd(req[c], "in")), Fd_(PassesFd(req[c], "out")),
                Fd_(PassesFd(req[c], "err")), Int_(WireArgc(req[c])) >>
WireLen(c) == HeaderLen + Len(WireArgs(req[c]))

\* The i-th message client c writes.
Wire(c, i) == IF i <= HeaderLen THEN Header(c)[i] ELSE Str_(WireArgs(req[c])[i - HeaderLen])

-----------------------------------------------------------------------------
(* Who has what open. *)

KEnded == {"local", "refused", "nopts", "sigpipe", "noack", "nocode", "exited", "cut", "killed"}
Ended(c) == kpc[c] \in KEnded

\* K has sent its own socket for a stream that was closed: S has K's end open, or has
\* the message that carries it still to read.
SocketSent(c) == \E s \in SocketStream(req[c]) : sent[c] >= FILENO(s) + 5
KOpen(c) == ~Ended(c) \/ SocketSent(c)

\* The listening socket lives while D or a process that inherited it has it open.
Listening == dpc # "dead" \/ \E c \in Clients : lhold[c] # {}
Queued(c) == \E i \in 1 .. Len(backlog) : backlog[i] = c

\* K can still be answered: its connection is queued on a live socket or open somewhere.
PeerOpen(c) == hold[c] # {} \/ (Queued(c) /\ Listening)

\* Sessions with a live process on the slave side of k's PTY.
OnPty(k) == {c \in Clients : /\ att[c] = k
                             /\ \/ cpc[c] \notin {"none", "dead"}
                                \/ gpc[c] \notin {"none", "dead"}
                                \/ xpc[c] \notin {"none", "dead"}}
FreePts == {p \in Pts : \A k \in Clients : pty[k] = p => k \notin master /\ OnPty(k) = {}}

-----------------------------------------------------------------------------
(* Faults: processes killed, forks and opens that fail. *)

NoFault  == UNCHANGED fVars
Fault(c) == faults > 0 /\ faults' = faults - 1 /\ hurt' = hurt \cup {c}

-----------------------------------------------------------------------------
(* K: connect_daemon. *)

KGoto(c, to) == kpc' = [kpc EXCEPT ![c] = to] /\ UNCHANGED kst

\* K ends; its socket and its ptmx are closed.
KEnd(c, how, status) == /\ kpc' = [kpc EXCEPT ![c] = how]
                        /\ kst' = [kst EXCEPT ![c] = status]
                        /\ master' = master \ {c}

KOnly == UNCHANGED <<req, dpc, dcl, ipc, hVars, sVars, cVars, gVars, xVars>>

\* su_main of a client: fork_for_samsung, then the options; help, version and
\* a usage error end here.
su_main_client(c) ==
    /\ kpc[c] = "start"
    /\ \/ KGoto(c, "connect") /\ NoFault /\ UNCHANGED master
       \/ \E n \in OptExits \ {1} : KEnd(c, "local", Exit(n)) /\ NoFault
       \/ KEnd(c, "local", Exit(1)) /\ Fault(c)
    /\ KOnly /\ UNCHANGED <<sent, pty, backlog, down>>

connect(c) ==
    /\ kpc[c] = "connect"
    /\ \/ /\ Listening /\ Len(backlog) < BACKLOG
          /\ backlog' = Append(backlog, c)
          /\ KGoto(c, "pts") /\ UNCHANGED master
       \/ /\ ~Listening
          /\ KEnd(c, "refused", Exit(-1)) /\ UNCHANGED backlog
    /\ KOnly /\ NoFault /\ UNCHANGED <<sent, pty, down>>

\* A PTY is opened when any of the streams is a terminal.
pts_open(c) ==
    /\ kpc[c] = "pts"
    /\ \/ /\ req[c].atty = {}
          /\ KGoto(c, "send") /\ NoFault /\ UNCHANGED <<pty, master>>
       \/ /\ req[c].atty # {}
          /\ \E p \in FreePts : pty' = [pty EXCEPT ![c] = p]
          /\ master' = master \cup {c}
          /\ KGoto(c, "send") /\ NoFault
       \/ /\ req[c].atty # {}
          /\ IF FreePts = {} THEN NoFault ELSE Fault(c)
          /\ KEnd(c, "nopts", Exit(-1)) /\ UNCHANGED pty
    /\ KOnly /\ UNCHANGED <<sent, backlog, down>>

\* write_int, write_string, send_fd: writing to a closed connection raises SIGPIPE.
send(c) ==
    /\ kpc[c] = "send"
    /\ \/ /\ PeerOpen(c) /\ sent[c] - rcvd[c] < SOCK_BUF
          /\ sent' = [sent EXCEPT ![c] = @ + 1]
          /\ KGoto(c, IF sent[c] + 1 = WireLen(c) THEN "ack" ELSE "send")
          /\ UNCHANGED master
       \/ /\ ~PeerOpen(c)
          /\ KEnd(c, "sigpipe", SIGPIPE) /\ UNCHANGED sent
    /\ KOnly /\ NoFault /\ UNCHANGED <<pty, backlog, down>>

\* read_int of the acknowledgement.
read_ack_retries(c) ==                                              \* mutant
    /\ kpc[c] = "ack" /\ down[c] # <<>>
    /\ down' = [down EXCEPT ![c] = Tail(@)]
    /\ KGoto(c, IF "out" \in req[c].atty THEN "pump" ELSE "code")
    /\ KOnly /\ NoFault /\ UNCHANGED <<sent, pty, master, backlog>>
read_ack(c) ==
    /\ kpc[c] = "ack"
    /\ \/ /\ down[c] # <<>>
          /\ down' = [down EXCEPT ![c] = Tail(@)]
          /\ KGoto(c, IF "out" \in req[c].atty THEN "pump" ELSE "code")
          /\ UNCHANGED master
       \/ /\ down[c] = <<>> /\ ~PeerOpen(c)
          /\ KEnd(c, "noack", Exit(-1)) /\ UNCHANGED down
    /\ KOnly /\ NoFault /\ UNCHANGED <<sent, pty, backlog>>

\* The output pump is done and closes the ptmx.
PumpEnds(c) == /\ kpc[c] = "pump" /\ KGoto(c, "code")
               /\ master' = master \ {c}
               /\ KOnly /\ UNCHANGED <<sent, pty, backlog, down>>

\* pump_stdout_blocking: reading the master fails once the slave, having been
\* opened, is closed everywhere.
pump_stdout_blocking(c) == PumpEnds(c) /\ c \in opened /\ OnPty(c) = {} /\ NoFault

\* Writing fails: the client's own terminal goes away.
pump_stdout_ends(c) == PumpEnds(c) /\ Fault(c)

\* The stdin pump ends with the client's terminal and closes the ptmx.
pump_stdin_ends(c) ==
    /\ kpc[c] = "code" /\ "in" \in req[c].atty /\ c \in master
    /\ Fault(c)
    /\ master' = master \ {c}
    /\ KOnly /\ UNCHANGED <<kpc, kst, sent, pty, backlog, down>>

\* read_int of the exit code, which main returns.
read_code(c) ==
    /\ kpc[c] = "code"
    /\ \/ /\ down[c] # <<>>
          /\ down' = [down EXCEPT ![c] = Tail(@)]
          /\ KEnd(c, "exited", Exit(Head(down[c])))
       \/ /\ down[c] = <<>> /\ ~PeerOpen(c)
          /\ KEnd(c, "nocode", Exit(-1)) /\ UNCHANGED down
    /\ KOnly /\ NoFault /\ UNCHANGED <<sent, pty, backlog>>

\* K is killed: cut off from its acknowledgement, or later.
kill_K(c) ==
    /\ ~Ended(c)
    /\ Fault(c)
    /\ KEnd(c, IF kpc[c] \in {"pump", "code"} THEN "killed" ELSE "cut", SIGKILL)
    /\ KOnly /\ UNCHANGED <<sent, pty, backlog, down>>

\* The status the caller of su sees: fork_for_samsung's parent passes it on.
SuExit(c) == WEXITSTATUS(kst[c])

-----------------------------------------------------------------------------
(* D: run_daemon, and fork_zero_fucks. *)

DOnly == UNCHANGED <<req, kVars, sVars, down, cVars, gVars, xVars>>

accept(c) ==
    /\ dpc = "accept" /\ backlog # <<>> /\ c = Head(backlog)
    /\ dpc' = "fork" /\ dcl' = c /\ backlog' = Tail(backlog)
    /\ hold' = [hold EXCEPT ![c] = @ \cup {"D"}]
    /\ DOnly /\ NoFault /\ UNCHANGED <<ipc, lhold>>

\* The daemon goes: accept failed, which ends its loop, or it was killed.
daemon_exits ==
    /\ dpc # "dead"
    /\ faults > 0 /\ faults' = faults - 1
    /\ hurt' = hurt \cup ({dcl} \cap Clients)
    /\ dpc' = "dead" /\ dcl' = None
    /\ hold' = [c \in Clients |-> hold[c] \ {"D"}]
    /\ DOnly /\ UNCHANGED <<backlog, ipc, lhold>>

fork_zero_fucks(c) ==
    /\ dpc = "fork" /\ dcl = c
    /\ \/ /\ NoFault
          /\ dpc' = "wait" /\ ipc' = [ipc EXCEPT ![c] = "fork"]
          /\ hold'  = [hold  EXCEPT ![c] = @ \cup {"I"}]
          /\ lhold' = [lhold EXCEPT ![c] = @ \cup {"I"}]
       \/ /\ Fault(c)
          /\ dpc' = "close" /\ UNCHANGED <<ipc, hVars>>
    /\ DOnly /\ UNCHANGED <<dcl, backlog>>

\* I forks S, or fails to, and exits either way.
fork_zero_fucks_child(c) ==
    /\ ipc[c] = "fork"
    /\ ipc' = [ipc EXCEPT ![c] = "exit"]
    /\ \/ /\ NoFault
          /\ spc' = [spc EXCEPT ![c] = "start"]
          /\ hold'  = [hold  EXCEPT ![c] = @ \cup {"S"}]
          /\ lhold' = [lhold EXCEPT ![c] = @ \cup {"S"}]
       \/ Fault(c) /\ UNCHANGED <<spc, hVars>>
    /\ UNCHANGED <<req, kVars, rcvd, dec, down, cVars, gVars, xVars, dpc, dcl, backlog>>

exit_I(c) ==
    /\ ipc[c] = "exit"
    /\ ipc' = [ipc EXCEPT ![c] = "dead"]
    /\ hold'  = [hold  EXCEPT ![c] = @ \ {"I"}]
    /\ lhold' = [lhold EXCEPT ![c] = @ \ {"I"}]
    /\ DOnly /\ NoFault /\ UNCHANGED <<dpc, dcl, backlog>>

waitpid_I_for_S(c) ==                                               \* mutant
    /\ dpc = "wait" /\ dcl = c /\ ipc[c] = "dead" /\ spc[c] \in {"none", "dead"}
    /\ dpc' = "close"
    /\ DOnly /\ NoFault /\ UNCHANGED <<dcl, backlog, ipc, hVars>>
waitpid_I(c) ==
    /\ dpc = "wait" /\ dcl = c /\ ipc[c] = "dead"
    /\ dpc' = "close"
    /\ DOnly /\ NoFault /\ UNCHANGED <<dcl, backlog, ipc, hVars>>

close_client_leaks(c) ==                                            \* mutant
    /\ dpc = "close" /\ dcl = c
    /\ dpc' = "accept" /\ dcl' = None
    /\ DOnly /\ NoFault /\ UNCHANGED <<backlog, ipc, hVars>>
close_client(c) ==
    /\ dpc = "close" /\ dcl = c
    /\ dpc' = "accept" /\ dcl' = None
    /\ hold' = [hold EXCEPT ![c] = @ \ {"D"}]
    /\ DOnly /\ NoFault /\ UNCHANGED <<backlog, ipc, lhold>>

-----------------------------------------------------------------------------
(* S: daemon_accept. *)

SOnly == UNCHANGED <<req, kVars, dVars, gVars, xVars>>

SGoto(c, to) == spc' = [spc EXCEPT ![c] = to] /\ UNCHANGED hVars

\* S exits and its descriptors close.
SDie(c) == /\ spc' = [spc EXCEPT ![c] = "dead"]
           /\ hold'  = [hold  EXCEPT ![c] = @ \ {"S"}]
           /\ lhold' = [lhold EXCEPT ![c] = @ \ {"S"}]

\* run_daemon's close(fd) in the session process.
close_listener_leaks(c) ==                                          \* mutant
    /\ spc[c] = "start" /\ SGoto(c, "pid")
    /\ SOnly /\ NoFault /\ UNCHANGED <<rcvd, dec, down, cVars>>
close_listener(c) ==
    /\ spc[c] = "start"
    /\ spc' = [spc EXCEPT ![c] = "pid"]
    /\ lhold' = [lhold EXCEPT ![c] = @ \ {"S"}]
    /\ SOnly /\ NoFault /\ UNCHANGED <<hold, rcvd, dec, down, cVars>>

Reading == {"pid", "pts", "ppid", "mount", "in", "out", "err", "argc", "args"}

\* S, at field f, takes the next message off the connection.
Recv(c, f) == /\ spc[c] = f /\ rcvd[c] < sent[c]
              /\ rcvd' = [rcvd EXCEPT ![c] = @ + 1]
              /\ SOnly /\ NoFault /\ UNCHANGED <<down, cVars>>
Val(c) == Wire(c, rcvd[c] + 1).val

read_pid(c) == Recv(c, "pid") /\ SGoto(c, "pts") /\ UNCHANGED dec

read_pts_slave(c) == /\ Recv(c, "pts") /\ SGoto(c, "ppid")
                     /\ dec' = [dec EXCEPT ![c].pts = Val(c)]

\* With the credentials the kernel recorded when c connected.
read_from_pid(c) == /\ Recv(c, "ppid") /\ SGoto(c, "mount")
                    /\ dec' = [dec EXCEPT ![c].ppid = Val(c), ![c].uid = req[c].uid]

read_mount_storage(c) == /\ Recv(c, "mount") /\ SGoto(c, "in")
                         /\ dec' = [dec EXCEPT ![c].mount = Val(c)]

After_no_err(s) == IF s = "in" THEN "out" ELSE "argc"               \* mutant
After(s) == CASE s = "in" -> "out" [] s = "out" -> "err" [] s = "err" -> "argc"

recv_fd(c, s) == /\ Recv(c, s) /\ SGoto(c, After(s))
                 /\ dec' = [dec EXCEPT ![c].fds = IF Val(c) THEN @ \cup {s} ELSE @]

ArgcBad_off_by_one(n) == n < 0 \/ n > MAX_ARGS + 1                  \* mutant
ArgcBad(n) == n < 0 \/ n > MAX_ARGS

read_argc(c) ==
    /\ Recv(c, "argc")
    /\ IF ArgcBad(Val(c))
       THEN SDie(c) /\ UNCHANGED dec
       ELSE /\ dec' = [dec EXCEPT ![c].argc = Val(c)]
            /\ SGoto(c, IF Val(c) = 0 THEN "ack" ELSE "args")

read_arg(c) ==
    /\ Recv(c, "args")
    /\ IF StrLen[Val(c)] > PATH_MAX
       THEN SDie(c) /\ UNCHANGED dec
       ELSE /\ dec' = [dec EXCEPT ![c].argv = Append(@, Val(c))]
            /\ SGoto(c, IF Len(dec[c].argv) + 1 = dec[c].argc THEN "ack" ELSE "args")

\* A read that meets the end of the stream exits.  The stream has none while S itself
\* holds the other end.
read_eof_retries(c) ==                                              \* mutant
    /\ spc[c] = "pid" /\ rcvd[c] = sent[c] /\ ~KOpen(c)
    /\ SDie(c)
    /\ SOnly /\ NoFault /\ UNCHANGED <<rcvd, dec, down, cVars>>
read_eof(c) ==
    /\ spc[c] \in Reading /\ rcvd[c] = sent[c] /\ ~KOpen(c)
    /\ SDie(c)
    /\ SOnly /\ NoFault /\ UNCHANGED <<rcvd, dec, down, cVars>>

\* An integer for K; writing to a closed end raises SIGPIPE.
Write(c, v) == down' = IF KOpen(c) THEN [down EXCEPT ![c] = Append(@, v)] ELSE down

ack_missing(c) ==                                                   \* mutant
    /\ spc[c] = "ack" /\ SGoto(c, "fork")
    /\ SOnly /\ NoFault /\ UNCHANGED <<rcvd, dec, down, cVars>>
ack(c) ==
    /\ spc[c] = "ack"
    /\ Write(c, 1)
    /\ IF KOpen(c) THEN SGoto(c, "fork") ELSE SDie(c)
    /\ SOnly /\ NoFault /\ UNCHANGED <<rcvd, dec, cVars>>

\* fork C; if that fails, send -1 and return.
fork_C(c) ==
    /\ spc[c] = "fork"
    /\ \/ /\ NoFault
          /\ cpc' = [cpc EXCEPT ![c] = "start"]
          /\ spc' = [spc EXCEPT ![c] = "log"]
          /\ hold' = [hold EXCEPT ![c] = @ \cup {"C"}]
          /\ UNCHANGED <<lhold, down>>
       \/ Fault(c) /\ Write(c, -1) /\ SDie(c) /\ UNCHANGED cpc
    /\ SOnly /\ UNCHANGED <<rcvd, dec, cst, att, opened>>

\* Logging forks too; when that fails, exec_log's waitpid(-1) waits for C.
log_S(c) ==
    /\ spc[c] = "log"
    /\ \/ SGoto(c, "wait") /\ NoFault
       \/ SGoto(c, "waitlog") /\ Fault(c)
    /\ SOnly /\ UNCHANGED <<rcvd, dec, down, cVars>>

\* waitpid(C), then the exit code; -1 if the logger has reaped C.
send_code_early(c) ==                                               \* mutant
    /\ spc[c] \in {"wait", "waitlog"}
    /\ Write(c, IF spc[c] = "wait" THEN WEXITSTATUS(cst[c]) ELSE -1)
    /\ SDie(c)
    /\ SOnly /\ NoFault /\ UNCHANGED <<rcvd, dec, cVars>>
send_code(c) ==
    /\ spc[c] \in {"wait", "waitlog"} /\ cpc[c] = "dead"
    /\ Write(c, IF spc[c] = "wait" THEN WEXITSTATUS(cst[c]) ELSE -1)
    /\ SDie(c)
    /\ SOnly /\ NoFault /\ UNCHANGED <<rcvd, dec, cVars>>

kill_S(c) ==
    /\ spc[c] \notin {"none", "dead"}
    /\ Fault(c) /\ SDie(c)
    /\ SOnly /\ UNCHANGED <<rcvd, dec, down, cVars>>

-----------------------------------------------------------------------------
(* C: the rest of daemon_accept, run_daemon_child, su_main. *)

COnly == UNCHANGED <<req, kVars, dVars, sVars, lhold, down, xVars>>

CDie(c, status) == cpc' = [cpc EXCEPT ![c] = "dead"] /\ cst' = [cst EXCEPT ![c] = status]
CGoto(c, to) == cpc' = [cpc EXCEPT ![c] = to] /\ UNCHANGED cst

close_C(c) ==
    /\ cpc[c] = "start" /\ CGoto(c, "pts")
    /\ hold' = [hold EXCEPT ![c] = @ \ {"C"}]
    /\ COnly /\ NoFault /\ UNCHANGED <<gVars, att, opened>>

\* The st_uid check on k's terminal.
OwnsPty_unchecked(c, k) == TRUE                                     \* mutant
OwnsPty(c, k) == req[k].uid = dec[c].uid

\* Open the slave by its name, whoever holds the master now.
open_pts(c) ==
    /\ cpc[c] = "pts"
    /\ LET owners == {k \in master : pty[k] = dec[c].pts}
       IN  \/ /\ dec[c].pts = NoPts
              /\ CGoto(c, "stdio") /\ NoFault /\ UNCHANGED <<att, opened>>
           \/ \E k \in owners : /\ dec[c].pts # NoPts
                                 /\ CGoto(c, "check") /\ NoFault
                                 /\ att' = [att EXCEPT ![c] = k] /\ opened' = opened \cup {k}
           \/ /\ dec[c].pts # NoPts
              /\ IF owners = {} THEN NoFault ELSE Fault(c)
              /\ CDie(c, Exit(-1)) /\ UNCHANGED <<att, opened>>
    /\ COnly /\ UNCHANGED <<gVars, hold>>

\* fstat on what was opened: the owner and the kind of file.
check_pts(c) ==
    /\ cpc[c] = "check"
    /\ \/ OwnsPty(c, att[c]) /\ CGoto(c, "stdio") /\ NoFault
       \/ ~OwnsPty(c, att[c]) /\ CDie(c, Exit(-1)) /\ NoFault
       \/ CDie(c, Exit(-1)) /\ Fault(c)
    /\ COnly /\ UNCHANGED <<gVars, hold, att, opened>>

\* dup2 fails for a stream that has neither a descriptor nor the PTY.
run_daemon_child(c) ==
    /\ cpc[c] = "stdio"
    /\ IF dec[c].pts = NoPts /\ dec[c].fds # Streams
       THEN CDie(c, Exit(-1)) ELSE CGoto(c, "main")
    /\ COnly /\ NoFault /\ UNCHANGED <<gVars, hold, att, opened>>

\* su_main: as "su --daemon" it finds the name of S's own socket listed and returns 0
\* (if S is gone and the name with it, it starts a daemon, and exits with 0 as well);
\* else fork_for_samsung.
su_main_daemon(c) ==
    /\ cpc[c] = "main"
    /\ IF dec[c].argc = 2 /\ dec[c].argv[2] \in DaemonArgs
       THEN CDie(c, Exit(0)) /\ NoFault /\ UNCHANGED gVars
       ELSE \/ /\ gpc' = [gpc EXCEPT ![c] = "main"]
               /\ CGoto(c, "wait") /\ NoFault /\ UNCHANGED gst
            \/ CDie(c, Exit(1)) /\ Fault(c) /\ UNCHANGED gVars
    /\ COnly /\ UNCHANGED <<hold, att, opened>>

wait_G(c) ==
    /\ cpc[c] = "wait" /\ gpc[c] = "dead"
    /\ CDie(c, Exit(WEXITSTATUS(gst[c])))
    /\ COnly /\ NoFault /\ UNCHANGED <<gVars, hold, att, opened>>

kill_C(c) ==
    /\ cpc[c] \notin {"none", "dead"}
    /\ Fault(c) /\ CDie(c, SIGKILL)
    /\ hold' = [hold EXCEPT ![c] = @ \ {"C"}]
    /\ COnly /\ UNCHANGED <<gVars, att, opened>>

-----------------------------------------------------------------------------
(* G: su_main after the options, and allow; X: the command. *)

GOnly == UNCHANGED <<req, kVars, dVars, hVars, sVars, down, cVars>>

GDie(c, status) == gpc' = [gpc EXCEPT ![c] = "dead"] /\ gst' = [gst EXCEPT ![c] = status]
GGoto(c, to) == gpc' = [gpc EXCEPT ![c] = to] /\ UNCHANGED gst

\* Help and version (0), an unknown user, a parent that is gone, or a failed
\* set_identity (1), a usage error (2), or on to the command.  With no argument
\* at all argv is read past its end.
su_main_options(c) ==
    /\ gpc[c] = "main"
    /\ \/ GGoto(c, "fork")
       \/ \E n \in OptExits : GDie(c, Exit(n))
       \/ dec[c].argc = 0 /\ GDie(c, SIGSEGV)
    /\ GOnly /\ NoFault /\ UNCHANGED xVars

\* allow: fork X.  A failed fork is taken for a child: waitpid(-1) finds none and
\* status is never written.
allow_fork(c) ==
    /\ gpc[c] = "fork"
    /\ \/ /\ xpc' = [xpc EXCEPT ![c] = "exec"]
          /\ GGoto(c, "log") /\ NoFault /\ UNCHANGED xst
       \/ \E g \in Garbage : GDie(c, Exit(g)) /\ Fault(c) /\ UNCHANGED xVars
    /\ GOnly

\* The log line forks as well, and on failure reaps X in waitpid's stead.
log_G(c) ==
    /\ gpc[c] = "log"
    /\ \/ GGoto(c, "wait") /\ NoFault
       \/ GGoto(c, "waitlog") /\ Fault(c)
    /\ GOnly /\ UNCHANGED xVars

\* exit(status), with the wait status as it is.
allow_wait(c) ==
    /\ xpc[c] = "dead"
    /\ \/ gpc[c] = "wait" /\ GDie(c, Exit(xst[c]))
       \/ gpc[c] = "waitlog" /\ \E g \in Garbage : GDie(c, Exit(g))
    /\ GOnly /\ NoFault /\ UNCHANGED xVars

kill_G(c) ==
    /\ gpc[c] \notin {"none", "dead"}
    /\ Fault(c) /\ GDie(c, SIGKILL)
    /\ GOnly /\ UNCHANGED xVars

XDie(c, status) == xpc' = [xpc EXCEPT ![c] = "dead"] /\ xst' = [xst EXCEPT ![c] = status]

execvp(c) ==
    /\ xpc[c] = "exec"
    /\ \/ xpc' = [xpc EXCEPT ![c] = "run"] /\ UNCHANGED xst
       \/ XDie(c, Exit(1))
    /\ GOnly /\ NoFault /\ UNCHANGED gVars

command_ends(c) ==
    /\ xpc[c] = "run"
    /\ \E status \in CmdStatus : XDie(c, status)
    /\ GOnly /\ NoFault /\ UNCHANGED gVars

\* With K's socket for its standard input, the command may read what S wrote to K.
SharesStdin(c) == "in" \in SocketStream(req[c])
command_reads(c) ==
    /\ xpc[c] = "run" /\ SharesStdin(c) /\ down[c] # <<>>
    /\ down' = [down EXCEPT ![c] = Tail(@)]
    /\ NoFault
    /\ UNCHANGED <<req, kVars, dVars, hVars, sVars, cVars, gVars, xVars>>

-----------------------------------------------------------------------------
Init ==
    /\ req \in [Clients -> Requests]
    /\ kpc = [c \in Clients |-> "start"] /\ kst = [c \in Clients |-> NoStatus]
    /\ sent = [c \in Clients |-> 0] /\ rcvd = [c \in Clients |-> 0]
    /\ pty = [c \in Clients |-> NoPts] /\ master = {}
    /\ dpc = "accept" /\ dcl = None /\ backlog = <<>>
    /\ ipc = [c \in Clients |-> "none"]
    /\ hold = [c \in Clients |-> {}] /\ lhold = [c \in Clients |-> {}]
    /\ spc = [c \in Clients |-> "none"]
    /\ dec = [c \in Clients |-> [pts |-> NoPts, ppid |-> None, uid |-> None, mount |-> FALSE,
                                 fds |-> {}, argc |-> 0, argv |-> <<>>]]
    /\ down = [c \in Clients |-> <<>>]
    /\ cpc = [c \in Clients |-> "none"] /\ cst = [c \in Clients |-> NoStatus]
    /\ gpc = [c \in Clients |-> "none"] /\ gst = [c \in Clients |-> NoStatus]
    /\ xpc = [c \in Clients |-> "none"] /\ xst = [c \in Clients |-> NoStatus]
    /\ att = [c \in Clients |-> None] /\ opened = {}
    /\ faults = MAX_FAULTS /\ hurt = {}

KStep(c) == \/ su_main_client(c) \/ connect(c) \/ pts_open(c) \/ send(c) \/ read_ack(c)
            \/ pump_stdout_blocking(c) \/ read_code(c)
DStep(c) == accept(c) \/ fork_zero_fucks(c) \/ waitpid_I(c) \/ close_client(c)
IStep(c) == fork_zero_fucks_child(c) \/ exit_I(c)
SStep(c) == \/ close_listener(c) \/ read_pid(c) \/ read_pts_slave(c) \/ read_from_pid(c)
            \/ read_mount_storage(c) \/ (\E s \in Streams : recv_fd(c, s)) \/ read_argc(c)
            \/ read_arg(c) \/ read_eof(c) \/ ack(c) \/ fork_C(c) \/ log_S(c) \/ send_code(c)
CStep(c) == \/ close_C(c) \/ open_pts(c) \/ check_pts(c) \/ run_daemon_child(c)
            \/ su_main_daemon(c) \/ wait_G(c)
GStep(c) == su_main_options(c) \/ allow_fork(c) \/ log_G(c) \/ allow_wait(c)
XStep(c) == execvp(c) \/ command_ends(c)
Crash(c) == \/ pump_stdout_ends(c) \/ pump_stdin_ends(c)
            \/ kill_K(c) \/ kill_S(c) \/ kill_C(c) \/ kill_G(c)

Step(c) == KStep(c) \/ DStep(c) \/ IStep(c) \/ SStep(c) \/ CStep(c) \/ GStep(c) \/ XStep(c)
Next == daemon_exits \/ \E c \in Clients : Step(c) \/ Crash(c) \/ command_reads(c)

Spec == Init /\ [][Next]_vars

\* Every process that can run does so; the command is assumed to end, not to read.
Fairness == \A c \in Clients :
    /\ WF_vars(KStep(c)) /\ WF_vars(DStep(c)) /\ WF_vars(IStep(c)) /\ WF_vars(SStep(c))
    /\ WF_vars(CStep(c)) /\ WF_vars(GStep(c)) /\ WF_vars(XStep(c))
FairSpec == Spec /\ Fairness

\* The same, but commands may run for ever.
ServeSpec == Spec /\ \A c \in Clients :
    /\ WF_vars(KStep(c)) /\ WF_vars(DStep(c)) /\ WF_vars(IStep(c)) /\ WF_vars(SStep(c))
    /\ WF_vars(CStep(c)) /\ WF_vars(GStep(c))
=============================================================================
