-------------------------- MODULE SuSession_proofs --------------------------
(***************************************************************************)
(* The safety of SuSession for any number of clients, requests, terminals  *)
(* and faults: which process may change what, and the types; then, one     *)
(* lemma per conjunct of Inv with one step per process, the request: what  *)
(* connect_daemon sends, what the daemon queues and what daemon_accept     *)
(* decodes; the sockets, the terminals, the order in which a session       *)
(* proceeds and the statuses its processes wait for; then, that Inv is     *)
(* inductive, and what follows from it.                                    *)
(***************************************************************************)
EXTENDS SuSessionProps, TLAPS

\* The time a leaf that names no prover may take.
USE SMTT(20), ZenonT(20)

-----------------------------------------------------------------------------
(* The messages of a request. *)

\* The header's fields, as connect_daemon writes them.
LEMMA HeaderFields ==
    ASSUME NEW c \in Clients
    PROVE  /\ Wire(c, 1) = Int_(c) /\ Wire(c, 2) = Str_(pty[c]) /\ Wire(c, 3) = Int_(c)
           /\ Wire(c, 4) = Int_(req[c].mount) /\ Wire(c, 5) = Fd_(PassesFd(req[c], "in"))
           /\ Wire(c, 6) = Fd_(PassesFd(req[c], "out")) /\ Wire(c, 7) = Fd_(PassesFd(req[c], "err"))
           /\ Wire(c, 8) = Int_(WireArgc(req[c]))
  BY DEF Wire, Header, HeaderLen, Int_, Str_, Fd_

\* The loop over argv writes at least the arguments announced, each a string.
LEMMA WireArgsType ==
    ASSUME NEW r \in Requests
    PROVE  /\ WireArgs(r) \in Seq(Str)
           /\ WireArgc(r) \in Nat
           /\ WireArgc(r) <= Len(WireArgs(r))
  <1>1. r.argv \in Seq(Str) /\ Len(r.argv) >= 1 /\ Len(r.argv) \in Nat /\ r.mount \in BOOLEAN
    BY RequestsAssumption DEF Request
  <1>2. CASE r.mount /\ Len(r.argv) > 1
    <2> DEFINE n == Len(r.argv) - 1
               f == [i \in 1 .. n |-> r.argv[IF i = 1 THEN 1 ELSE i + 1]]
    <2>1. n \in Nat /\ WireArgs(r) = f
      BY <1>1, <1>2 DEF WireArgs
    <2>2. \A i \in 1 .. n : r.argv[IF i = 1 THEN 1 ELSE i + 1] \in Str
      BY <1>1
    <2>3. f \in Seq(Str) /\ Len(f) = n
      BY <2>1, <2>2
    <2>. QED  BY <1>1, <1>2, <2>1, <2>3 DEF WireArgc
  <1>3. CASE ~(r.mount /\ Len(r.argv) > 1)
    BY <1>1, <1>3 DEF WireArgs, WireArgc
  <1>. QED  BY <1>2, <1>3

\* What S takes off the connection at each field.
LEMMA ReadValues ==
    ASSUME TypeOK, Receiving, Decoding, NEW c \in Clients
    PROVE  /\ spc[c] = "pts" => Val(c) = pty[c]
           /\ spc[c] = "ppid" => Val(c) = c
           /\ spc[c] = "mount" => Val(c) = req[c].mount
           /\ \A s \in Streams : spc[c] = s => Val(c) = PassesFd(req[c], s)
           /\ spc[c] = "argc" => Val(c) = WireArgc(req[c])
           /\ spc[c] = "args" => /\ Val(c) = WireArgs(req[c])[Len(dec[c].argv) + 1]
                                 /\ Len(dec[c].argv) + 1 <= Len(WireArgs(req[c]))
                                 /\ Val(c) \in Str
  <1>1. spc[c] \in Reading \ {"args"} => rcvd[c] = Position(spc[c])
    BY DEF Receiving
  <1>2. CASE spc[c] \in Reading \ {"args"}
    BY <1>1, <1>2, HeaderFields DEF Val, Position, Int_, Str_, Fd_, Streams, Reading
  <1>3. CASE spc[c] = "args"
    <2>1. /\ rcvd[c] = 8 + Len(dec[c].argv) /\ Len(dec[c].argv) < dec[c].argc
          /\ Len(dec[c].argv) \in Nat
      BY <1>3 DEF Receiving, HeaderLen, TypeOK, SType, Decoded
    <2>2. dec[c].argc = WireArgc(req[c])
      BY <1>3, <2>1 DEF Decoding, HeaderLen
    <2>3. /\ WireArgs(req[c]) \in Seq(Str) /\ WireArgc(req[c]) \in Nat
          /\ WireArgc(req[c]) <= Len(WireArgs(req[c]))
      BY WireArgsType DEF TypeOK
    <2>4. Val(c) = WireArgs(req[c])[Len(dec[c].argv) + 1]
      BY <2>1 DEF Val, Wire, HeaderLen, Str_
    <2>5. Len(dec[c].argv) + 1 \in 1 .. Len(WireArgs(req[c]))
      BY <2>1, <2>2, <2>3
    <2>. QED  BY <1>3, <2>3, <2>4, <2>5 DEF Streams
  <1>. QED  BY Zenon, <1>2, <1>3 DEF Streams, Reading

-----------------------------------------------------------------------------
(* The processes, and what each leaves to the others. *)

KAct(c) == KStep(c) \/ pump_stdout_ends(c) \/ pump_stdin_ends(c) \/ kill_K(c)
SRead(c) == \/ read_pid(c) \/ read_pts_slave(c) \/ read_from_pid(c) \/ read_mount_storage(c)
            \/ (\E s \in Streams : recv_fd(c, s)) \/ read_argc(c) \/ read_arg(c)
SRest(c) == \/ close_listener(c) \/ read_eof(c) \/ ack(c) \/ fork_C(c) \/ log_S(c)
            \/ send_code(c) \/ kill_S(c)
CAct(c) == CStep(c) \/ kill_C(c)
GAct(c) == GStep(c) \/ kill_G(c)

\* A step is the daemon's exit or a step of one process of one client.
LEMMA NextCases ==
    ASSUME Next
    PROVE  daemon_exits \/ \E c \in Clients : \/ KAct(c) \/ DStep(c) \/ IStep(c) \/ SRead(c)
                                              \/ SRest(c) \/ CAct(c) \/ GAct(c) \/ XStep(c)
                                              \/ command_reads(c)
  BY DEF Next, Step, Crash, KAct, SStep, SRead, SRest, CAct, GAct

\* connect_daemon changes the client's own state only.
LEMMA KFrame == ASSUME NEW c \in Clients, KAct(c) PROVE KOnly /\ (NoFault \/ Fault(c))
  BY Zenon DEF KAct, KStep, su_main_client, connect, pts_open, send, read_ack, pump_stdout_blocking,
         pump_stdout_ends, PumpEnds, read_code, pump_stdin_ends, kill_K

\* run_daemon changes the daemon's state, and by its fork the intermediate's.
LEMMA DFrame ==
    ASSUME NEW c \in Clients, DStep(c)
    PROVE  (DOnly /\ UNCHANGED ipc) \/ fork_zero_fucks(c)
  BY DEF DStep, accept, fork_zero_fucks, waitpid_I, close_client

\* daemon_accept's reads change what S has read, and neither answer nor fork.
LEMMA SReadFrame ==
    ASSUME NEW c \in Clients, SRead(c)
    PROVE  SOnly /\ NoFault /\ UNCHANGED <<down, cVars>>
  BY DEF SRead, Recv, read_pid, read_pts_slave, read_from_pid, read_mount_storage, recv_fd,
         read_argc, read_arg

\* The rest of S's steps read nothing more of the request.
LEMMA SRestFrame ==
    ASSUME NEW c \in Clients, SRest(c)
    PROVE  SOnly /\ UNCHANGED <<rcvd, dec>> /\ (NoFault \/ Fault(c))
  BY DEF SRest, close_listener, read_eof, ack, fork_C, log_S, send_code, kill_S

\* S's child changes its own state and the terminal it opens.
LEMMA CFrame == ASSUME NEW c \in Clients, CAct(c) PROVE COnly /\ (NoFault \/ Fault(c))
  BY Zenon DEF CAct, CStep, close_C, open_pts, check_pts, run_daemon_child, su_main_daemon, wait_G, kill_C

\* su_main's child and the command leave the processes above them alone.
LEMMA GFrame == ASSUME NEW c \in Clients, GAct(c) \/ XStep(c) PROVE GOnly /\ (NoFault \/ Fault(c))
  BY DEF GAct, GStep, XStep, su_main_options, allow_fork, log_G, allow_wait, kill_G, execvp,
         command_ends

\* A command that reads the client's socket takes an integer off it, and does no more.
LEMMA ReadsFrame ==
    ASSUME NEW c \in Clients, command_reads(c)
    PROVE  /\ xpc[c] = "run" /\ SharesStdin(c) /\ down[c] # <<>>
           /\ down' = [down EXCEPT ![c] = Tail(@)]
           /\ UNCHANGED <<req, kVars, dVars, hVars, sVars, cVars, gVars, xVars, fVars>>
  BY Zenon DEF command_reads, NoFault

-----------------------------------------------------------------------------
(* Type correctness. *)

\* The initial state has its type.
LEMMA InitTypeOK == Init => TypeOK
  <1> SUFFICES ASSUME Init PROVE TypeOK  OBVIOUS
  <1>1. KType /\ HType /\ CType /\ GType /\ XType
    BY DEF Init, KType, HType, CType, GType, XType, NoStatus, KPc, CPc, GPc, XPc
  <1>2. DType /\ FType
    BY BoundsAssumption DEF Init, DType, FType, DPc, IPc
  <1>3. SType
    BY BoundsAssumption DEF Init, SType, SPc, Decoded
  <1>4. down \in [Clients -> Seq(Int)] /\ req \in [Clients -> Requests]
    BY DEF Init
  <1>. QED  BY <1>1, <1>2, <1>3, <1>4 DEF TypeOK

\* A fault, or none, keeps the count of faults.
LEMMA FaultType ==
    ASSUME FType, NEW c \in Clients, NoFault \/ Fault(c)
    PROVE  FType'
  BY BoundsAssumption DEF FType, NoFault, Fault, fVars

\* An integer read off the connection, and one written to it.
LEMMA DownType ==
    ASSUME down \in [Clients -> Seq(Int)], NEW c \in Clients
    PROVE  /\ down[c] # <<>> => Head(down[c]) \in Int
           /\ down[c] # <<>> => [down EXCEPT ![c] = Tail(@)] \in [Clients -> Seq(Int)]
           /\ \A v \in Int : Write(c, v) => down' \in [Clients -> Seq(Int)]
  <1>1. down[c] \in Seq(Int)
    OBVIOUS
  <1>2. down[c] # <<>> => Head(down[c]) \in Int /\ Tail(down[c]) \in Seq(Int)
    BY ONLY <1>1
  <1>3. \A v \in Int : Append(down[c], v) \in Seq(Int)
    BY ONLY <1>1
  <1>. QED  BY Zenon, <1>2, <1>3 DEF Write

\* The client's steps keep its type.
LEMMA KTypeStep ==
    ASSUME KType, down \in [Clients -> Seq(Int)], NEW c \in Clients, KAct(c)
    PROVE  KType'
  <1>1. CASE su_main_client(c)
    BY ONLY KType, <1>1, StatusAssumption, c \in Clients
       DEF su_main_client, KType, KGoto, KEnd, Exit, KPc
  <1>2. CASE connect(c)
    BY ONLY SMTT(20), KType, <1>2, c \in Clients DEF connect, KType, KGoto, KEnd, Exit, KPc
  <1>3. CASE pts_open(c)
    BY ONLY KType, <1>3, c \in Clients DEF pts_open, KType, KGoto, KEnd, Exit, KPc, FreePts
  <1>4. CASE send(c)
    BY ONLY KType, <1>4, c \in Clients DEF send, KType, KGoto, KEnd, SIGPIPE, KPc
  <1>5. CASE read_ack(c)
    <2>1. /\ UNCHANGED <<sent, pty>>
          /\ \/ (KGoto(c, "pump") \/ KGoto(c, "code")) /\ UNCHANGED master
             \/ KEnd(c, "noack", Exit(-1))
      BY ONLY <1>5 DEF read_ack
    <2>. QED  BY ONLY KType, <2>1, c \in Clients DEF KType, KGoto, KEnd, Exit, KPc
  <1>6. CASE pump_stdout_blocking(c) \/ pump_stdout_ends(c)
    <2>1. /\ UNCHANGED <<sent, pty>> /\ KGoto(c, "code") /\ master' = master \ {c}
      BY ONLY Zenon, <1>6 DEF pump_stdout_blocking, pump_stdout_ends, PumpEnds
    <2>. QED  BY ONLY KType, <2>1, c \in Clients DEF KType, KGoto, KPc
  <1>7. CASE read_code(c)
    <2>1. down[c] # <<>> => Head(down[c]) \in Int
      BY DownType
    <2>2. /\ UNCHANGED <<sent, pty>>
          /\ \E how \in KPc, n \in Int : KEnd(c, how, Exit(n))
      BY ONLY <1>7, <2>1 DEF read_code, KPc
    <2>. QED  BY ONLY KType, <2>2, c \in Clients DEF KType, KEnd, Exit
  <1>8. CASE pump_stdin_ends(c)
    BY ONLY KType, <1>8, c \in Clients DEF pump_stdin_ends, KType
  <1>9. CASE kill_K(c)
    BY ONLY KType, <1>9, c \in Clients DEF kill_K, KType, KEnd, SIGKILL, KPc
  <1>. QED  BY <1>1, <1>2, <1>3, <1>4, <1>5, <1>6, <1>7, <1>8, <1>9 DEF KAct, KStep

\* The listen queue, the daemon and I.
LEMMA DTypeStep ==
    ASSUME DType, NEW c \in Clients, KAct(c) \/ DStep(c) \/ IStep(c)
    PROVE  DType'
  <1>1. backlog \in Seq(Clients) /\ (backlog # <<>> => Tail(backlog) \in Seq(Clients))
    <2>1. backlog \in Seq(Clients)
      BY DEF DType
    <2>. QED  BY ONLY <2>1
  <1>2. Append(backlog, c) \in Seq(Clients)
    BY ONLY <1>1, c \in Clients
  <1>3. CASE KAct(c)
    <2>1. UNCHANGED backlog \/ backlog' = Append(backlog, c)
      BY ONLY Zenon, <1>3 DEF KAct, KStep, su_main_client, connect, pts_open, send, read_ack,
         pump_stdout_blocking, pump_stdout_ends, PumpEnds, read_code, pump_stdin_ends, kill_K
    <2>2. UNCHANGED <<dpc, dcl, ipc>>
      BY <1>3, KFrame DEF KOnly
    <2>. QED  BY <1>1, <1>2, <2>1, <2>2 DEF DType
  <1>4. CASE accept(c)
    BY <1>1, <1>4 DEF accept, DType, DPc
  <1>5. CASE fork_zero_fucks(c)
    BY <1>5 DEF fork_zero_fucks, DType, DPc, IPc
  <1>6. CASE waitpid_I(c)
    BY <1>6 DEF waitpid_I, DType, DPc
  <1>7. CASE close_client(c)
    BY <1>7 DEF close_client, DType, DPc
  <1>8. CASE IStep(c)
    BY Zenon, <1>8 DEF IStep, fork_zero_fucks_child, exit_I, DType, IPc
  <1>. QED  BY <1>3, <1>4, <1>5, <1>6, <1>7, <1>8 DEF DStep

\* A step of c opens or closes sockets for c's processes only.
LEMMA HTypeStep ==
    ASSUME HType, NEW c \in Clients, DStep(c) \/ IStep(c) \/ SRead(c) \/ SRest(c) \/ CAct(c)
    PROVE  HType'
  <1> DEFINE P == {"D", "I", "S", "C"}
             Q == {"I", "S"}
  <1>1. (\E h \in SUBSET P : hold' = [hold EXCEPT ![c] = h]) \/ UNCHANGED hold
    <2>1. \A p \in P : hold[c] \cup {p} \in SUBSET P /\ hold[c] \ {p} \in SUBSET P
      BY DEF HType
    <2>2. CASE DStep(c) \/ IStep(c)
      BY Zenon, <2>1, <2>2 DEF DStep, IStep, accept, fork_zero_fucks, waitpid_I, close_client,
         fork_zero_fucks_child, exit_I, hVars
    <2>3. CASE SRead(c)
      BY Zenon, <2>1, <2>3 DEF SRead, read_pid, read_pts_slave, read_from_pid, read_mount_storage,
         recv_fd, read_argc, read_arg, SGoto, SDie, hVars
    <2>4. CASE SRest(c)
      BY Zenon, <2>1, <2>4 DEF SRest, close_listener, read_eof, ack, fork_C, log_S, send_code, kill_S,
         SGoto, SDie, hVars
    <2>5. CASE CAct(c)
      BY Zenon, <2>1, <2>5 DEF CAct, CStep, close_C, open_pts, check_pts, run_daemon_child, su_main_daemon, wait_G,
         kill_C
    <2>. QED  BY <2>2, <2>3, <2>4, <2>5
  <1>2. (\E h \in SUBSET Q : lhold' = [lhold EXCEPT ![c] = h]) \/ UNCHANGED lhold
    <2>1. \A p \in Q : lhold[c] \cup {p} \in SUBSET Q /\ lhold[c] \ {p} \in SUBSET Q
      BY DEF HType
    <2>2. CASE DStep(c) \/ IStep(c)
      BY Zenon, <2>1, <2>2 DEF DStep, IStep, accept, fork_zero_fucks, waitpid_I, close_client,
         fork_zero_fucks_child, exit_I, hVars
    <2>3. CASE SRead(c)
      BY Zenon, <2>1, <2>3 DEF SRead, read_pid, read_pts_slave, read_from_pid, read_mount_storage,
         recv_fd, read_argc, read_arg, SGoto, SDie, hVars
    <2>4. CASE SRest(c)
      BY Zenon, <2>1, <2>4 DEF SRest, close_listener, read_eof, ack, fork_C, log_S, send_code, kill_S,
         SGoto, SDie, hVars
    <2>5. CASE CAct(c)
      BY <2>5, CFrame DEF COnly
    <2>. QED  BY <2>2, <2>3, <2>4, <2>5
  <1>. QED  BY Zenon, <1>1, <1>2 DEF HType

\* The steps of S's child keep its type.
LEMMA CTypeStep ==
    ASSUME CType, GType, master \subseteq Clients, NEW c \in Clients, SRest(c) \/ CAct(c)
    PROVE  CType'
  <1>1. CASE SRest(c)
    BY Zenon, <1>1 DEF SRest, close_listener, read_eof, ack, fork_C, log_S, send_code, kill_S, cVars,
       CType, CPc
  <1>2. /\ Exit(-1) \in Int /\ Exit(0) \in Int /\ Exit(1) \in Int /\ SIGKILL \in Int
        /\ Exit(WEXITSTATUS(gst[c])) \in Int
    BY DEF Exit, WEXITSTATUS, GType, SIGKILL
  <1>3. ASSUME UNCHANGED <<att, opened>>,
               \/ \E pc \in CPc : CGoto(c, pc)
               \/ \E n \in Int : CDie(c, n)
        PROVE  CType'
    BY ONLY <1>3, CType, c \in Clients DEF CType, CPc, CGoto, CDie
  <1>4. CASE open_pts(c)
    <2>1. \/ UNCHANGED att
          \/ \E k \in Clients : att' = [att EXCEPT ![c] = k]
      BY ONLY Zenon, <1>4, master \subseteq Clients DEF open_pts
    <2>2. opened' \subseteq Clients
      BY ONLY Zenon, <1>4, master \subseteq Clients, CType DEF open_pts, CType
    <2>3. CGoto(c, "stdio") \/ CGoto(c, "check") \/ CDie(c, Exit(-1))
      BY ONLY Zenon, <1>4 DEF open_pts
    <2>4. cpc' \in [Clients -> CPc] /\ cst' \in [Clients -> Int]
      BY ONLY <1>2, <2>3, CType, c \in Clients DEF CType, CPc, CGoto, CDie
    <2>. QED  BY ONLY <2>1, <2>2, <2>4, CType, c \in Clients DEF CType
  <1>5. CASE close_C(c) \/ check_pts(c) \/ run_daemon_child(c)
    BY ONLY Zenon, <1>2, <1>3, <1>5 DEF close_C, check_pts, run_daemon_child, CPc
  <1>6. CASE su_main_daemon(c) \/ wait_G(c) \/ kill_C(c)
    BY ONLY Zenon, <1>2, <1>3, <1>6 DEF su_main_daemon, wait_G, kill_C, CPc
  <1>. QED  BY <1>1, <1>4, <1>5, <1>6 DEF CAct, CStep

\* The steps of su_main's child and of the command keep their types.
LEMMA GTypeStep ==
    ASSUME GType, XType, NEW c \in Clients, CAct(c) \/ GAct(c) \/ XStep(c)
    PROVE  GType' /\ XType'
  <1>1. CASE CAct(c)
    BY Zenon, <1>1, CFrame DEF CAct, CStep, close_C, open_pts, check_pts, run_daemon_child, su_main_daemon, wait_G,
       kill_C, COnly, gVars, xVars, GType, XType, GPc
  <1>2. CASE su_main_options(c)
    <2>1. \A n \in OptExits : Exit(n) \in Int
      BY ONLY StatusAssumption DEF Exit
    <2>2. GType'
      BY ONLY <1>2, <2>1, GType, c \in Clients DEF su_main_options, GType, GPc, GGoto, GDie, SIGSEGV
    <2>. QED  BY ONLY Zenon, <1>2, <2>2, XType DEF su_main_options, XType, xVars
  <1>3. CASE allow_fork(c)
    <2>1. \A g \in Garbage : Exit(g) \in Int
      BY ONLY StatusAssumption DEF Exit
    <2>2. GType'
      BY ONLY <1>3, <2>1, GType, c \in Clients DEF allow_fork, GType, GPc, GGoto, GDie
    <2>. QED  BY ONLY <1>3, <2>2, XType, c \in Clients DEF allow_fork, XType, XPc, xVars
  <1>4. CASE log_G(c) \/ kill_G(c)
    BY <1>4 DEF log_G, kill_G, GType, XType, GPc, GGoto, GDie, SIGKILL, xVars
  <1>5. CASE allow_wait(c)
    BY <1>5, StatusAssumption DEF allow_wait, GType, XType, GPc, GDie, Exit, xVars
  <1>6. CASE XStep(c)
    BY <1>6, StatusAssumption DEF XStep, execvp, command_ends, GType, XType, XPc, XDie, Exit, gVars
  <1>. QED  BY <1>1, <1>2, <1>3, <1>4, <1>5, <1>6 DEF GAct, GStep

\* Only integers are written to the client.
LEMMA DownTypeStep ==
    ASSUME CType, down \in [Clients -> Seq(Int)], NEW c \in Clients, KAct(c) \/ SRest(c)
    PROVE  down' \in [Clients -> Seq(Int)]
  <1>1. CASE KAct(c)
    <2>1. UNCHANGED down \/ (down[c] # <<>> /\ down' = [down EXCEPT ![c] = Tail(@)])
      BY Zenon, <1>1 DEF KAct, KStep, su_main_client, connect, pts_open, send, read_ack,
         pump_stdout_blocking, pump_stdout_ends, PumpEnds, read_code, pump_stdin_ends, kill_K
    <2>. QED  BY Zenon, <2>1, DownType
  <1>2. CASE SRest(c)
    <2>1. UNCHANGED down \/ \E v \in Int : Write(c, v)
      <3>1. WEXITSTATUS(cst[c]) \in Int
        BY DEF WEXITSTATUS, CType
      <3>2. -1 \in Int /\ 1 \in Int
        OBVIOUS
      <3>. QED  BY ONLY Zenon, <1>2, <3>1, <3>2 DEF SRest, close_listener, read_eof, ack, fork_C, log_S,
                   send_code, kill_S
    <2>. QED  BY <2>1, DownType
  <1>. QED  BY <1>1, <1>2

\* One field of a decoded request is replaced at a time.
LEMMA DecodedFields ==
    ASSUME NEW d \in Decoded
    PROVE  /\ \A x \in Pts \cup {NoPts} : [d EXCEPT !.pts = x] \in Decoded
           /\ \A k \in Clients, u \in Uids : [d EXCEPT !.ppid = k, !.uid = u] \in Decoded
           /\ \A b \in BOOLEAN : [d EXCEPT !.mount = b] \in Decoded
           /\ \A t \in SUBSET Streams : [d EXCEPT !.fds = t] \in Decoded
           /\ \A q \in Seq(Str) : [d EXCEPT !.argv = q] \in Decoded
           /\ \A n \in 0 .. MAX_ARGS : [d EXCEPT !.argc = n] \in Decoded
  <1>1. \A k \in Clients, u \in Uids : [d EXCEPT !.ppid = k, !.uid = u] \in Decoded
    BY Zenon DEF Decoded
  <1>2. \A t \in SUBSET Streams : [d EXCEPT !.fds = t] \in Decoded
    BY DEF Decoded
  <1>3. \A q \in Seq(Str) : [d EXCEPT !.argv = q] \in Decoded
    BY Zenon DEF Decoded
  <1>4. \A n \in 0 .. MAX_ARGS : [d EXCEPT !.argc = n] \in Decoded
    BY DEF Decoded
  <1>5. \A x \in Pts \cup {NoPts} : [d EXCEPT !.pts = x] \in Decoded
    BY Zenon DEF Decoded
  <1>6. \A b \in BOOLEAN : [d EXCEPT !.mount = b] \in Decoded
    BY Zenon DEF Decoded
  <1>. QED  BY Zenon, <1>1, <1>2, <1>3, <1>4, <1>5, <1>6

\* S decodes values of the right types, given that it is in step with K.
LEMMA STypeStep ==
    ASSUME TypeOK, Receiving, Decoding, NEW c \in Clients, SRead(c)
    PROVE  SType'
  <1>1. spc \in [Clients -> SPc] /\ rcvd \in [Clients -> Nat] /\ dec \in [Clients -> Decoded]
    BY DEF TypeOK, SType
  <1>2. /\ req[c].mount \in BOOLEAN /\ req[c].uid \in Uids /\ pty[c] \in Pts \cup {NoPts}
        /\ WireArgc(req[c]) \in Nat
    <2>1. req[c] \in Requests /\ req[c] \in Request /\ pty[c] \in Pts \cup {NoPts}
      BY Zenon, RequestsAssumption DEF TypeOK, KType
    <2>2. WireArgc(req[c]) \in Nat
      BY Zenon, <2>1, WireArgsType
    <2>. QED  BY ONLY <2>1, <2>2 DEF Request
  <1>3. spc' \in [Clients -> SPc]
    BY ONLY Zenon, <1>1, SRead(c), c \in Clients DEF SRead, read_pid, read_pts_slave, read_from_pid,
       read_mount_storage, recv_fd, read_argc, read_arg, SGoto, SDie, After, Streams, SPc
  <1>4. rcvd' \in [Clients -> Nat]
    BY ONLY <1>1, SRead(c), c \in Clients DEF SRead, read_pid, read_pts_slave, read_from_pid,
       read_mount_storage, recv_fd, read_argc, read_arg, Recv
  <1>5. dec' \in [Clients -> Decoded]
    <2>1. CASE read_pid(c)
      BY <1>1, <2>1 DEF read_pid
    <2>2. CASE read_pts_slave(c)
      <3>1. dec' = [dec EXCEPT ![c].pts = pty[c]]
        BY Zenon, <2>2, ReadValues DEF read_pts_slave, Recv
      <3>2. dec' = [dec EXCEPT ![c] = [dec[c] EXCEPT !.pts = pty[c]]]
        BY ONLY Zenon, <1>1, <3>1, c \in Clients
      <3>. QED  BY ONLY Zenon, <1>1, <1>2, <3>2, DecodedFields, c \in Clients
    <2>3. CASE read_from_pid(c)
      <3>1. dec' = [dec EXCEPT ![c].ppid = c, ![c].uid = req[c].uid]
        BY Zenon, <2>3, ReadValues DEF read_from_pid, Recv
      <3>2. dec' = [dec EXCEPT ![c] = [dec[c] EXCEPT !.ppid = c, !.uid = req[c].uid]]
        BY ONLY Zenon, <1>1, <3>1, c \in Clients
      <3>. QED  BY ONLY Zenon, <1>1, <1>2, <3>2, DecodedFields, c \in Clients
    <2>4. CASE read_mount_storage(c)
      <3>1. dec' = [dec EXCEPT ![c].mount = req[c].mount]
        BY Zenon, <2>4, ReadValues DEF read_mount_storage, Recv
      <3>2. dec' = [dec EXCEPT ![c] = [dec[c] EXCEPT !.mount = req[c].mount]]
        BY ONLY Zenon, <1>1, <3>1, c \in Clients
      <3>. QED  BY ONLY Zenon, <1>1, <1>2, <3>2, DecodedFields, c \in Clients
    <2>5. ASSUME NEW s \in Streams, recv_fd(c, s) PROVE dec' \in [Clients -> Decoded]
      <3>1. PICK t \in SUBSET Streams : dec' = [dec EXCEPT ![c].fds = t]
        <4>1. dec[c].fds \in SUBSET Streams
          BY <1>1 DEF Decoded
        <4>2. dec' = [dec EXCEPT ![c].fds = IF Val(c) THEN @ \cup {s} ELSE @]
          BY <2>5 DEF recv_fd
        <4>. QED  BY Zenon, <4>1, <4>2
      <3>2. dec' = [dec EXCEPT ![c] = [dec[c] EXCEPT !.fds = t]]
        BY ONLY <1>1, <3>1, c \in Clients
      <3>. QED  BY ONLY Zenon, <1>1, <3>2, DecodedFields, c \in Clients, t \in SUBSET Streams
    <2>6. CASE read_argc(c)
      <3>1. UNCHANGED dec \/ \E n \in 0 .. MAX_ARGS : dec' = [dec EXCEPT ![c].argc = n]
        BY <1>2, <2>6, ReadValues, BoundsAssumption DEF read_argc, Recv, ArgcBad
      <3>2. UNCHANGED dec \/ \E n \in 0 .. MAX_ARGS : dec' = [dec EXCEPT ![c] = [dec[c] EXCEPT !.argc = n]]
        BY ONLY <1>1, <3>1, c \in Clients
      <3>3. \A n \in 0 .. MAX_ARGS : [dec[c] EXCEPT !.argc = n] \in Decoded
        BY Zenon, <1>1, DecodedFields
      <3>. QED  BY ONLY <1>1, <3>2, <3>3, c \in Clients
    <2>7. CASE read_arg(c)
      <3>1. UNCHANGED dec \/ \E v \in Str : dec' = [dec EXCEPT ![c].argv = Append(@, v)]
        BY Zenon, <2>7, ReadValues DEF read_arg, Recv
      <3>2. dec[c].argv \in Seq(Str)
        BY <1>1 DEF Decoded
      <3>3. \A v \in Str : Append(dec[c].argv, v) \in Seq(Str)
        BY ONLY <3>2
      <3>4. UNCHANGED dec \/ \E q \in Seq(Str) : dec' = [dec EXCEPT ![c].argv = q]
        BY Zenon, <3>1, <3>3
      <3>5. UNCHANGED dec \/ \E q \in Seq(Str) : dec' = [dec EXCEPT ![c] = [dec[c] EXCEPT !.argv = q]]
        BY ONLY <1>1, <3>4, c \in Clients
      <3>6. \A q \in Seq(Str) : [dec[c] EXCEPT !.argv = q] \in Decoded
        BY Zenon, <1>1, DecodedFields
      <3>. QED  BY ONLY <1>1, <3>5, <3>6, c \in Clients
    <2>. QED  BY <2>1, <2>2, <2>3, <2>4, <2>5, <2>6, <2>7 DEF SRead
  <1>. QED  BY <1>3, <1>4, <1>5 DEF SType

\* Every step keeps the types.
LEMMA TypeOKStep ==
    ASSUME TypeOK, Receiving, Decoding, [Next]_vars
    PROVE  TypeOK'
  <1> USE DEF kVars, dVars, hVars, sVars, cVars, gVars, xVars, fVars
  <1>1. CASE UNCHANGED vars
    BY Zenon, <1>1 DEF vars, TypeOK, KType, DType, HType, SType, CType, GType, XType, FType
  <1>2. CASE daemon_exits
    <2>1. KType' /\ SType' /\ CType' /\ GType' /\ XType' /\ (down \in [Clients -> Seq(Int)])'
          /\ (req \in [Clients -> Requests])'
      BY Zenon, <1>2 DEF daemon_exits, DOnly, TypeOK, KType, SType, CType, GType, XType
    <2>2. DType'
      BY Zenon, <1>2 DEF daemon_exits, TypeOK, DType, DPc
    <2>3. HType'
      BY <1>2 DEF daemon_exits, TypeOK, HType
    <2>4. FType'
      BY <1>2, BoundsAssumption DEF daemon_exits, TypeOK, FType
    <2>. QED  BY <2>1, <2>2, <2>3, <2>4 DEF TypeOK
  <1>3. ASSUME NEW c \in Clients, KAct(c) PROVE TypeOK'
    <2>1. KType' /\ DType' /\ (down \in [Clients -> Seq(Int)])' /\ FType'
      BY <1>3, KTypeStep, DTypeStep, DownTypeStep, FaultType, KFrame DEF TypeOK
    <2>. QED  BY Zenon, <1>3, <2>1, KFrame DEF KOnly, TypeOK, HType, SType, CType, GType, XType
  <1>4. ASSUME NEW c \in Clients, DStep(c) PROVE TypeOK'
    <2>1. DOnly /\ (NoFault \/ Fault(c))
      BY Zenon, <1>4 DEF DStep, accept, fork_zero_fucks, waitpid_I, close_client
    <2>2. DType' /\ HType' /\ FType'
      BY <1>4, <2>1, DTypeStep, HTypeStep, FaultType DEF TypeOK
    <2>. QED  BY Zenon, <2>1, <2>2 DEF DOnly, TypeOK, KType, SType, CType, GType, XType
  <1>5. ASSUME NEW c \in Clients, IStep(c) PROVE TypeOK'
    <2>1. /\ UNCHANGED <<req, kVars, rcvd, dec, down, cVars, gVars, xVars>>
          /\ UNCHANGED spc \/ spc' = [spc EXCEPT ![c] = "start"]
          /\ NoFault \/ Fault(c)
      BY Zenon, <1>5 DEF IStep, fork_zero_fucks_child, exit_I, DOnly
    <2>2. DType' /\ HType' /\ FType'
      BY Zenon, <1>5, <2>1, DTypeStep, HTypeStep, FaultType DEF TypeOK
    <2>3. SType'
      BY Zenon, <2>1 DEF TypeOK, SType, SPc
    <2>. QED  BY Zenon, <2>1, <2>2, <2>3 DEF TypeOK, KType, CType, GType, XType
  <1>6. ASSUME NEW c \in Clients, SRead(c) PROVE TypeOK'
    <2>1. SType' /\ HType'
      BY <1>6, STypeStep, HTypeStep DEF TypeOK
    <2>2. SOnly /\ UNCHANGED <<down, cVars>> /\ NoFault
      BY <1>6, SReadFrame
    <2>. QED  BY ONLY Zenon, TypeOK, <2>1, <2>2 DEF SOnly, NoFault, TypeOK, KType, DType, CType, GType,
                 XType, FType
  <1>7. ASSUME NEW c \in Clients, SRest(c) PROVE TypeOK'
    <2>1. HType' /\ CType' /\ FType' /\ (down \in [Clients -> Seq(Int)])'
      BY Zenon, <1>7, HTypeStep, CTypeStep, FaultType, SRestFrame, DownTypeStep DEF TypeOK, KType
    <2>2. SType'
      <3>1. \E pc \in SPc : spc' = [spc EXCEPT ![c] = pc]
        BY Zenon, <1>7 DEF SRest, close_listener, read_eof, ack, fork_C, log_S, send_code, kill_S, SGoto,
           SDie, SPc
      <3>. QED  BY <1>7, <3>1, SRestFrame DEF TypeOK, SType
    <2>3. SOnly
      BY <1>7, SRestFrame
    <2>. QED  BY ONLY Zenon, TypeOK, <2>1, <2>2, <2>3 DEF SOnly, TypeOK, KType, DType, GType, XType
  <1>8. ASSUME NEW c \in Clients, CAct(c) PROVE TypeOK'
    <2>1. HType' /\ CType' /\ GType' /\ XType' /\ FType'
      BY Zenon, <1>8, HTypeStep, CTypeStep, GTypeStep, FaultType, CFrame DEF TypeOK, KType
    <2>2. COnly
      BY <1>8, CFrame
    <2>. QED  BY ONLY Zenon, TypeOK, <2>1, <2>2 DEF COnly, TypeOK, KType, DType, SType
  <1>9. ASSUME NEW c \in Clients, GAct(c) \/ XStep(c) PROVE TypeOK'
    <2>1. GType' /\ XType' /\ FType'
      BY Zenon, <1>9, GTypeStep, FaultType, GFrame DEF TypeOK
    <2>2. GOnly
      BY <1>9, GFrame
    <2>. QED  BY ONLY Zenon, TypeOK, <2>1, <2>2 DEF GOnly, TypeOK, KType, DType, HType, SType, CType
  <1>10. ASSUME NEW c \in Clients, command_reads(c) PROVE TypeOK'
    <2>1. /\ down[c] # <<>> /\ down' = [down EXCEPT ![c] = Tail(@)]
          /\ UNCHANGED <<req, kVars, dVars, hVars, sVars, cVars, gVars, xVars, fVars>>
      BY Zenon, <1>10, ReadsFrame
    <2>2. (down \in [Clients -> Seq(Int)])'
      BY Zenon, <2>1, DownType DEF TypeOK
    <2>. QED  BY ONLY Zenon, TypeOK, <2>1, <2>2 DEF TypeOK, KType, DType, HType, SType, CType, GType,
                 XType, FType
  <1>. QED
    BY <1>1, <1>2, <1>3, <1>4, <1>5, <1>6, <1>7, <1>8, <1>9, <1>10, NextCases

-----------------------------------------------------------------------------
(* The request on its way. *)

\* WireLen does not change, and counts the header.
LEMMA WireLenType ==
    ASSUME TypeOK
    PROVE  /\ \A c \in Clients : WireLen(c) \in Nat /\ WireLen(c) >= 8
           /\ UNCHANGED req => \A c \in Clients : WireLen(c)' = WireLen(c)
  <1>1. \A c \in Clients : WireArgs(req[c]) \in Seq(Str)
    BY WireArgsType DEF TypeOK
  <1>2. \A c \in Clients : Len(WireArgs(req[c])) \in Nat
    BY <1>1
  <1>. QED  BY <1>2 DEF WireLen, HeaderLen

\* The request does not change, nor do the counters but by K and S.
LEMMA WireFrame ==
    ASSUME [Next]_vars
    PROVE  /\ UNCHANGED req
           /\ \/ UNCHANGED <<kpc, sent, rcvd>>
              \/ \E c \in Clients : KAct(c) /\ UNCHANGED rcvd
              \/ \E c \in Clients : SRead(c) /\ UNCHANGED <<kpc, sent>>
  <1> USE DEF kVars, sVars, hVars, dVars, xVars, gVars, cVars, fVars
  <1>1. CASE UNCHANGED vars
    BY Zenon, <1>1 DEF vars
  <1>2. CASE daemon_exits
    BY Zenon, <1>2 DEF daemon_exits, DOnly
  <1>3. ASSUME NEW c \in Clients, KAct(c) PROVE UNCHANGED <<req, rcvd>>
    BY <1>3, KFrame DEF KOnly
  <1>4. ASSUME NEW c \in Clients, DStep(c) PROVE UNCHANGED <<req, kpc, sent, rcvd>>
    BY Zenon, <1>4 DEF DStep, accept, fork_zero_fucks, waitpid_I, close_client, DOnly
  <1>5. ASSUME NEW c \in Clients, IStep(c) PROVE UNCHANGED <<req, kpc, sent, rcvd>>
    BY Zenon, <1>5 DEF IStep, fork_zero_fucks_child, exit_I, DOnly
  <1>6. ASSUME NEW c \in Clients, SRead(c) PROVE UNCHANGED <<req, kpc, sent>>
    BY <1>6, SReadFrame DEF SOnly
  <1>7. ASSUME NEW c \in Clients, SRest(c) PROVE UNCHANGED <<req, kpc, sent, rcvd>>
    BY <1>7, SRestFrame DEF SOnly
  <1>8. ASSUME NEW c \in Clients, CAct(c) PROVE UNCHANGED <<req, kpc, sent, rcvd>>
    BY <1>8, CFrame DEF COnly
  <1>9. ASSUME NEW c \in Clients, GAct(c) \/ XStep(c) PROVE UNCHANGED <<req, kpc, sent, rcvd>>
    BY <1>9, GFrame DEF GOnly
  <1>10. ASSUME NEW c \in Clients, command_reads(c) PROVE UNCHANGED <<req, kpc, sent, rcvd>>
    BY Zenon, <1>10, ReadsFrame
  <1>. QED
    BY ONLY Zenon, [Next]_vars, <1>1, <1>2, <1>3, <1>4, <1>5, <1>6, <1>7, <1>8, <1>9, <1>10, NextCases

\* Whether a client's socket is its standard input does not change.
LEMMA SharesKept ==
    ASSUME [Next]_vars
    PROVE  \A k \in Clients : SharesStdin(k)' <=> SharesStdin(k)
  BY Zenon, WireFrame DEF SharesStdin

\* K writes nothing before its PTY is settled, and never more than its request.
LEMMA SendingStep ==
    ASSUME TypeOK, Sending, [Next]_vars
    PROVE  Sending'
  <1>1. UNCHANGED req /\ \A k \in Clients : WireLen(k)' = WireLen(k) /\ WireLen(k) \in Nat
                                            /\ WireLen(k) >= 8
    BY WireFrame, WireLenType
  <1>2. kpc \in [Clients -> KPc] /\ sent \in [Clients -> Nat] /\ rcvd \in [Clients -> Nat]
    BY DEF TypeOK, KType, SType
  <1>3. CASE UNCHANGED <<kpc, sent, rcvd>>
    BY ONLY Zenon, <1>1, <1>3, Sending DEF Sending
  <1>4. ASSUME NEW c \in Clients, KAct(c), UNCHANGED rcvd PROVE Sending'
    <2>1. CASE send(c)
      BY ONLY <1>1, <1>2, <1>4, <2>1, Sending DEF send, Sending, KGoto, KEnd
    <2>2. CASE su_main_client(c) \/ connect(c) \/ pts_open(c)
      <3>1. /\ UNCHANGED sent /\ kpc[c] \in {"start", "connect", "pts"}
            /\ \E pc : kpc' = [kpc EXCEPT ![c] = pc]
        BY ONLY Zenon, <2>2 DEF su_main_client, connect, pts_open, KGoto, KEnd
      <3>2. sent[c] = 0
        BY ONLY Zenon, <1>4, <3>1, Sending DEF Sending
      <3>3. WireLen(c) \in Nat /\ WireLen(c) >= 8
        BY ONLY Zenon, <1>1, <1>4
      <3>4. sent[c] < WireLen(c)
        BY ONLY <3>2, <3>3
      <3>. QED  BY ONLY Zenon, <1>1, <1>2, <1>4, <3>1, <3>2, <3>4, Sending DEF Sending
    <2>3. CASE \/ read_ack(c) \/ pump_stdout_blocking(c) \/ pump_stdout_ends(c) \/ read_code(c)
               \/ pump_stdin_ends(c) \/ kill_K(c)
      <3>1. /\ UNCHANGED sent
            /\ \/ UNCHANGED kpc
               \/ \E pc \in {"pump", "code", "noack", "nocode", "exited", "killed", "cut"} :
                     kpc' = [kpc EXCEPT ![c] = pc]
        BY ONLY Zenon, <2>3
           DEF read_ack, pump_stdout_blocking, pump_stdout_ends, PumpEnds, read_code, pump_stdin_ends,
               kill_K, KGoto, KEnd
      <3>. QED  BY ONLY Zenon, <1>1, <1>2, <1>4, <3>1, Sending DEF Sending
    <2>. QED  BY Zenon, <1>4, <2>1, <2>2, <2>3 DEF KAct, KStep
  <1>5. ASSUME NEW c \in Clients, SRead(c), UNCHANGED <<kpc, sent>> PROVE Sending'
    <2>1. rcvd[c] < sent[c] /\ rcvd' = [rcvd EXCEPT ![c] = @ + 1]
      BY Zenon, <1>5 DEF SRead, Recv, read_pid, read_pts_slave, read_from_pid, read_mount_storage, recv_fd,
         read_argc, read_arg
    <2>. QED  BY ONLY <1>1, <1>2, <1>5, <2>1, Sending DEF Sending
  <1>. QED  BY <1>3, <1>4, <1>5, WireFrame

-----------------------------------------------------------------------------
(* The listen queue and the daemon. *)

Distinct(q) == \A i, j \in 1 .. Len(q) : q[i] = q[j] => i = j
In(q, k) == \E i \in 1 .. Len(q) : q[i] = k

\* A queue of distinct clients stays one when a new client joins.
LEMMA QueueJoin ==
    ASSUME NEW q \in Seq(Clients), NEW c \in Clients
    PROVE  /\ \A k \in Clients : In(Append(q, c), k) <=> In(q, k) \/ k = c
           /\ Distinct(q) /\ ~In(q, c) => Distinct(Append(q, c))
  <1> DEFINE a == Append(q, c)
  <1>1. /\ Len(q) \in Nat /\ Len(a) = Len(q) + 1 /\ a[Len(q) + 1] = c
        /\ \A i \in 1 .. Len(q) : a[i] = q[i]
    OBVIOUS
  <1> HIDE DEF a
  <1>2. \A k \in Clients : In(a, k) <=> In(q, k) \/ k = c
    BY ONLY <1>1 DEF In
  <1>3. Distinct(q) /\ ~In(q, c) => Distinct(a)
    BY ONLY <1>1 DEF Distinct, In
  <1>. QED  BY <1>2, <1>3 DEF a

\* It stays one when its head leaves.
LEMMA QueueLeave ==
    ASSUME NEW q \in Seq(Clients), q # <<>>, Distinct(q)
    PROVE  /\ Head(q) \in Clients /\ In(q, Head(q)) /\ Distinct(Tail(q))
           /\ \A k \in Clients : In(Tail(q), k) <=> In(q, k) /\ k # Head(q)
  <1> DEFINE t == Tail(q)
             n == Len(q)
             h == Head(q)
  <1>1. /\ n \in Nat /\ n >= 1 /\ Len(t) = n - 1 /\ h = q[1] /\ h \in Clients
        /\ \A i \in 1 .. n - 1 : t[i] = q[i + 1]
    OBVIOUS
  <1>2. \A i, j \in 1 .. n : q[i] = q[j] => i = j
    BY DEF Distinct
  <1> HIDE DEF t, n, h
  <1>3. Distinct(t)
    BY ONLY <1>1, <1>2 DEF Distinct
  <1>4. \A k \in Clients : In(q, k) /\ k # h => In(t, k)
    <2> SUFFICES ASSUME NEW k \in Clients, In(q, k), k # h PROVE In(t, k)  OBVIOUS
    <2>1. PICK i \in 1 .. n : q[i] = k
      BY DEF In, n
    <2>2. i # 1 /\ i - 1 \in 1 .. Len(t) /\ t[i - 1] = k
      BY ONLY <1>1, <2>1, k # h, i \in 1 .. n
    <2>. QED  BY <2>2 DEF In
  <1>5. \A k \in Clients : In(t, k) => In(q, k) /\ k # h
    <2> SUFFICES ASSUME NEW k \in Clients, In(t, k) PROVE In(q, k) /\ k # h  OBVIOUS
    <2>1. PICK i \in 1 .. Len(t) : t[i] = k
      BY DEF In
    <2>2. i + 1 \in 1 .. n /\ q[i + 1] = k /\ i + 1 # 1 /\ 1 \in 1 .. n
      BY ONLY <1>1, <2>1, i \in 1 .. Len(t)
    <2>. QED  BY Zenon, <1>1, <1>2, <2>2 DEF In, n
  <1>6. In(q, h)
    BY <1>1 DEF In, n
  <1>. QED  BY Zenon, <1>1, <1>3, <1>4, <1>5, <1>6 DEF t, h

\* accept takes a client off the queue, and nothing puts it back: one fork per connection.
LEMMA OnceStep ==
    ASSUME TypeOK, DaemonHand, Once, [Next]_vars
    PROVE  Once' /\ DaemonHand'
  <1> USE DEF kVars, sVars, hVars, dVars, xVars, gVars, cVars, fVars
  <1> DEFINE Of(c) == /\ ipc[c] \in {"none", "fork"} => spc[c] = "none"
                      /\ dpc = "fork" /\ dcl = c => ipc[c] = "none"
                      /\ In(backlog, c) => ipc[c] = "none" /\ dcl # c
                      /\ kpc[c] \in {"start", "connect"} =>
                            ~In(backlog, c) /\ dcl # c /\ ipc[c] = "none"
  <1>1. /\ ipc \in [Clients -> IPc] /\ spc \in [Clients -> SPc] /\ kpc \in [Clients -> KPc]
        /\ dcl \in Clients \cup {None} /\ None \notin Clients
    BY Zenon, NamesAssumption DEF TypeOK, DType, SType, KType
  <1>2. backlog \in Seq(Clients)
    BY DEF TypeOK, DType
  <1>3. Once <=> Distinct(backlog) /\ \A c \in Clients : Of(c)
    BY Zenon DEF Once, Distinct, Queued, In
  <1>4. Once' <=> (Distinct(backlog) /\ \A c \in Clients : Of(c))'
    BY Zenon DEF Once, Distinct, Queued, In
  <1>5. Distinct(backlog) /\ \A c \in Clients : Of(c)
    BY Zenon, <1>3
  <1>6. ((dcl = None) <=> (dpc \in {"accept", "dead"}))
    BY DEF DaemonHand
  <1>7. SUFFICES /\ Distinct(backlog)' /\ \A c \in Clients : Of(c)'
                 /\ ((dcl = None) <=> (dpc \in {"accept", "dead"}))'
    BY Zenon, <1>4 DEF DaemonHand
  <1>8. ASSUME UNCHANGED <<kpc, ipc, spc, dVars>>
        PROVE  /\ Distinct(backlog)' /\ \A c \in Clients : Of(c)'
               /\ ((dcl = None) <=> (dpc \in {"accept", "dead"}))'
    BY ONLY Zenon, <1>5, <1>6, <1>8
  <1>9. CASE UNCHANGED vars
    BY Zenon, <1>8, <1>9 DEF vars
  <1>10. CASE daemon_exits
    BY ONLY Zenon, <1>1, <1>5, <1>6, <1>10 DEF daemon_exits, DOnly
  <1>11. ASSUME NEW c \in Clients, KAct(c)
         PROVE  /\ Distinct(backlog)' /\ \A k \in Clients : Of(k)'
                /\ ((dcl = None) <=> (dpc \in {"accept", "dead"}))'
    <2>1. UNCHANGED <<ipc, spc, dpc, dcl>>
      BY Zenon, <1>11, KFrame DEF KOnly
    <2>2. CASE UNCHANGED backlog /\ \E pc \in KPc \ {"start", "connect"} : kpc' = [kpc EXCEPT ![c] = pc]
      BY ONLY Zenon, <1>1, <1>5, <1>6, <2>1, <2>2
    <2>3. CASE UNCHANGED <<backlog, kpc>>
      BY Zenon, <1>8, <2>1, <2>3
    <2>4. CASE su_main_client(c)
      <3>1. UNCHANGED backlog /\ kpc[c] = "start" /\ \E pc : kpc' = [kpc EXCEPT ![c] = pc]
        BY ONLY Zenon, <2>4 DEF su_main_client, KGoto, KEnd
      <3>. QED  BY ONLY Zenon, <1>1, <1>5, <1>6, <2>1, <3>1, c \in Clients
    <2>5. CASE connect(c)
      <3>1. CASE backlog' = Append(backlog, c) /\ kpc' = [kpc EXCEPT ![c] = "pts"]
        <4>1. Distinct(backlog') /\ \A k \in Clients : In(backlog', k) <=> In(backlog, k) \/ k = c
          BY Zenon, <1>2, <1>5, <2>5, <3>1, QueueJoin DEF connect
        <4>2. kpc[c] = "connect"
          BY <2>5 DEF connect
        <4>. QED  BY ONLY Zenon, <1>1, <1>5, <1>6, <2>1, <3>1, <4>1, <4>2, c \in Clients
      <3>2. CASE UNCHANGED backlog /\ kpc' = [kpc EXCEPT ![c] = "refused"]
        BY Zenon, <2>2, <3>2 DEF KPc
      <3>. QED  BY Zenon, <2>5, <3>1, <3>2 DEF connect, KGoto, KEnd
    <2>6. CASE KAct(c) /\ ~su_main_client(c) /\ ~connect(c)
      BY Zenon, <2>2, <2>3, <2>6 DEF KAct, KStep, pts_open, send, read_ack, pump_stdout_blocking,
         pump_stdout_ends, PumpEnds, read_code, pump_stdin_ends, kill_K, KGoto, KEnd, KPc
    <2>. QED  BY Zenon, <1>11, <2>4, <2>5, <2>6
  <1>12. ASSUME NEW c \in Clients, DStep(c)
         PROVE  /\ Distinct(backlog)' /\ \A k \in Clients : Of(k)'
                /\ ((dcl = None) <=> (dpc \in {"accept", "dead"}))'
    <2>1. UNCHANGED <<kpc, spc>>
      BY Zenon, <1>12 DEF DStep, accept, fork_zero_fucks, waitpid_I, close_client, DOnly
    <2>2. CASE accept(c)
      <3>1. Distinct(backlog') /\ \A k \in Clients : In(backlog', k) <=> In(backlog, k) /\ k # c
        BY Zenon, <1>2, <1>5, <2>2, QueueLeave DEF accept
      <3>2. In(backlog, c)
        BY Zenon, <1>2, <1>5, <2>2, QueueLeave DEF accept
      <3>3. dpc = "accept" /\ dpc' = "fork" /\ dcl' = c /\ UNCHANGED ipc
        BY <2>2 DEF accept
      <3>. QED  BY ONLY Zenon, <1>1, <1>5, <1>6, <2>1, <3>1, <3>2, <3>3, c \in Clients
    <2>3. CASE fork_zero_fucks(c) \/ waitpid_I(c) \/ close_client(c)
      <3>1. UNCHANGED backlog
        BY Zenon, <2>3 DEF fork_zero_fucks, waitpid_I, close_client
      <3>2. Distinct(backlog)' /\ \A k \in Clients : In(backlog, k)' <=> In(backlog, k)
        BY ONLY Zenon, <3>1, <1>5 DEF Distinct, In
      <3>. QED  BY ONLY Zenon, <1>1, <1>5, <1>6, <2>1, <2>3, <3>2, c \in Clients
                DEF fork_zero_fucks, waitpid_I, close_client
    <2>. QED  BY Zenon, <1>12, <2>2, <2>3 DEF DStep
  <1>13. ASSUME NEW c \in Clients, IStep(c)
         PROVE  /\ Distinct(backlog)' /\ \A k \in Clients : Of(k)'
                /\ ((dcl = None) <=> (dpc \in {"accept", "dead"}))'
    <2>1. UNCHANGED <<kpc, backlog, dpc, dcl>>
      BY Zenon, <1>13 DEF IStep, fork_zero_fucks_child, exit_I, DOnly
    <2>2. /\ UNCHANGED spc \/ spc' = [spc EXCEPT ![c] = "start"]
          /\ ipc[c] \in {"fork", "exit"}
          /\ ipc' = [ipc EXCEPT ![c] = "exit"] \/ ipc' = [ipc EXCEPT ![c] = "dead"]
      BY Zenon, <1>13 DEF IStep, fork_zero_fucks_child, exit_I, DOnly
    <2>. QED  BY ONLY Zenon, <1>1, <1>5, <1>6, <2>1, <2>2, c \in Clients
  <1>14. ASSUME NEW c \in Clients, SRead(c) \/ SRest(c)
         PROVE  /\ Distinct(backlog)' /\ \A k \in Clients : Of(k)'
                /\ ((dcl = None) <=> (dpc \in {"accept", "dead"}))'
    <2>1. UNCHANGED <<kpc, ipc, backlog, dpc, dcl>>
      BY Zenon, <1>14, SReadFrame, SRestFrame DEF SOnly
    <2>2. spc[c] # "none" /\ \E pc \in SPc : spc' = [spc EXCEPT ![c] = pc]
      BY ONLY Zenon, <1>14 DEF SRead, Recv, read_pid, read_pts_slave, read_from_pid, read_mount_storage,
         recv_fd, read_argc, read_arg, SRest, close_listener, read_eof, ack, fork_C, log_S,
         send_code, kill_S, SGoto, SDie, SPc, After, Streams, Reading
    <2>. QED  BY ONLY Zenon, <1>1, <1>5, <1>6, <2>1, <2>2, c \in Clients
  <1>15. ASSUME NEW c \in Clients, CAct(c) \/ GAct(c) \/ XStep(c)
         PROVE  UNCHANGED <<kpc, ipc, spc, dVars>>
    BY Zenon, <1>15, CFrame, GFrame DEF COnly, GOnly
  <1>16. ASSUME NEW c \in Clients, command_reads(c) PROVE UNCHANGED <<kpc, ipc, spc, dVars>>
    BY Zenon, <1>16, ReadsFrame
  <1>. QED
    BY Zenon, <1>8, <1>9, <1>10, <1>11, <1>12, <1>13, <1>14, <1>15, <1>16, NextCases

-----------------------------------------------------------------------------
(* The request as S reads it. *)

\* Only S, its parent I and C touch what S has read or whether C was started.
LEMMA SessionFrame ==
    ASSUME [Next]_vars
    PROVE  \/ UNCHANGED <<spc, rcvd, dec, cpc>>
           \/ \E c \in Clients : IStep(c) /\ UNCHANGED <<rcvd, dec, cpc>>
           \/ \E c \in Clients : SRead(c) /\ UNCHANGED cpc
           \/ \E c \in Clients : SRest(c) /\ UNCHANGED <<rcvd, dec>>
           \/ \E c \in Clients : CAct(c) /\ UNCHANGED <<spc, rcvd, dec>>
  <1> USE DEF kVars, sVars, hVars, dVars, xVars, gVars, cVars, fVars
  <1>1. CASE UNCHANGED vars
    BY Zenon, <1>1 DEF vars
  <1>2. CASE daemon_exits
    BY Zenon, <1>2 DEF daemon_exits, DOnly
  <1>3. ASSUME NEW c \in Clients, KAct(c) PROVE UNCHANGED <<spc, rcvd, dec, cpc>>
    BY Zenon, <1>3, KFrame DEF KOnly
  <1>4. ASSUME NEW c \in Clients, DStep(c) PROVE UNCHANGED <<spc, rcvd, dec, cpc>>
    BY Zenon, <1>4 DEF DStep, accept, fork_zero_fucks, waitpid_I, close_client, DOnly
  <1>5. ASSUME NEW c \in Clients, IStep(c) PROVE UNCHANGED <<rcvd, dec, cpc>>
    BY Zenon, <1>5 DEF IStep, fork_zero_fucks_child, exit_I, DOnly
  <1>6. ASSUME NEW c \in Clients, SRead(c) PROVE UNCHANGED cpc
    BY <1>6, SReadFrame
  <1>7. ASSUME NEW c \in Clients, SRest(c) PROVE UNCHANGED <<rcvd, dec>>
    BY <1>7, SRestFrame
  <1>8. ASSUME NEW c \in Clients, CAct(c) PROVE UNCHANGED <<spc, rcvd, dec>>
    BY Zenon, <1>8, CFrame DEF COnly
  <1>9. ASSUME NEW c \in Clients, GAct(c) \/ XStep(c) PROVE UNCHANGED <<spc, rcvd, dec, cpc>>
    BY Zenon, <1>9, GFrame DEF GOnly
  <1>10. ASSUME NEW c \in Clients, command_reads(c) PROVE UNCHANGED <<spc, rcvd, dec, cpc>>
    BY Zenon, <1>10, ReadsFrame
  <1>. QED
    BY ONLY Zenon, [Next]_vars, <1>1, <1>2, <1>3, <1>4, <1>5, <1>6, <1>7, <1>8, <1>9, <1>10, NextCases

\* I starts S once; C, once started, is never "none" again.
LEMMA StartedOnce ==
    ASSUME TypeOK, Once, NEW c \in Clients
    PROVE  /\ IStep(c) => UNCHANGED spc \/ (spc[c] = "none" /\ spc' = [spc EXCEPT ![c] = "start"])
           /\ CAct(c) => cpc[c] # "none" /\ \E pc \in CPc \ {"none"} : cpc' = [cpc EXCEPT ![c] = pc]
  <1>1. IStep(c) => UNCHANGED spc \/ (spc[c] = "none" /\ spc' = [spc EXCEPT ![c] = "start"])
    BY Zenon DEF IStep, fork_zero_fucks_child, exit_I, DOnly, sVars, Once
  <1>2. CAct(c) => cpc[c] # "none" /\ \E pc \in CPc \ {"none"} : cpc' = [cpc EXCEPT ![c] = pc]
    BY Zenon DEF CAct, CStep, close_C, open_pts, check_pts, run_daemon_child, su_main_daemon, wait_G, kill_C, CGoto,
       CDie, CPc
  <1>. QED  BY <1>1, <1>2

\* S's steps after the request: where they lead.
LEMMA SRestMoves ==
    ASSUME NEW c \in Clients, SRest(c)
    PROVE  \/ spc[c] = "start" /\ spc' = [spc EXCEPT ![c] = "pid"] /\ UNCHANGED cpc
           \/ spc[c] \notin {"none", "dead"} /\ spc' = [spc EXCEPT ![c] = "dead"] /\ UNCHANGED cpc
           \/ spc[c] = "ack" /\ spc' = [spc EXCEPT ![c] = "fork"] /\ UNCHANGED cpc
           \/ spc[c] = "fork" /\ spc' = [spc EXCEPT ![c] = "log"] /\ cpc' = [cpc EXCEPT ![c] = "start"]
           \/ /\ spc[c] = "log" /\ UNCHANGED cpc
              /\ spc' = [spc EXCEPT ![c] = "wait"] \/ spc' = [spc EXCEPT ![c] = "waitlog"]
  BY Zenon DEF SRest, close_listener, read_eof, ack, fork_C, log_S, send_code, kill_S, SGoto, SDie, cVars,
     Reading

\* A read of the header moves S to the next field.
LEMMA HeaderMoves ==
    ASSUME NEW c \in Clients, SRead(c), spc[c] \notin {"argc", "args"}
    PROVE  /\ rcvd[c] < sent[c] /\ rcvd' = [rcvd EXCEPT ![c] = @ + 1]
           /\ \/ spc[c] = "pid" /\ spc' = [spc EXCEPT ![c] = "pts"] /\ UNCHANGED dec
              \/ /\ spc[c] = "pts" /\ spc' = [spc EXCEPT ![c] = "ppid"]
                 /\ dec' = [dec EXCEPT ![c].pts = Val(c)]
              \/ /\ spc[c] = "ppid" /\ spc' = [spc EXCEPT ![c] = "mount"]
                 /\ dec' = [dec EXCEPT ![c].ppid = Val(c), ![c].uid = req[c].uid]
              \/ /\ spc[c] = "mount" /\ spc' = [spc EXCEPT ![c] = "in"]
                 /\ dec' = [dec EXCEPT ![c].mount = Val(c)]
              \/ /\ spc[c] = "in" /\ spc' = [spc EXCEPT ![c] = "out"]
                 /\ dec' = [dec EXCEPT ![c].fds = IF Val(c) THEN @ \cup {"in"} ELSE @]
              \/ /\ spc[c] = "out" /\ spc' = [spc EXCEPT ![c] = "err"]
                 /\ dec' = [dec EXCEPT ![c].fds = IF Val(c) THEN @ \cup {"out"} ELSE @]
              \/ /\ spc[c] = "err" /\ spc' = [spc EXCEPT ![c] = "argc"]
                 /\ dec' = [dec EXCEPT ![c].fds = IF Val(c) THEN @ \cup {"err"} ELSE @]
  BY Zenon DEF SRead, read_pid, read_pts_slave, read_from_pid, read_mount_storage, recv_fd, read_argc,
     read_arg, SGoto, After, Streams, Recv

\* A read of the header takes one message.
LEMMA HeaderTakes ==
    ASSUME NEW c \in Clients, SRead(c), spc[c] \notin {"argc", "args"}
    PROVE  rcvd[c] < sent[c] /\ rcvd' = [rcvd EXCEPT ![c] = @ + 1]
  BY Zenon DEF SRead, read_pid, read_pts_slave, read_from_pid, read_mount_storage, recv_fd, read_argc,
     read_arg, Recv

\* A read of a descriptor adds the stream to those received, if K passes it.
LEMMA StreamReads ==
    ASSUME NEW c \in Clients, SRead(c), NEW s \in Streams, spc[c] = s
    PROVE  dec' = [dec EXCEPT ![c].fds = IF Val(c) THEN @ \cup {s} ELSE @]
  <1>1. s \notin {"pid", "pts", "ppid", "mount", "argc", "args"}
    BY ONLY s \in Streams DEF Streams
  <1>2. recv_fd(c, s)
    BY Zenon, <1>1 DEF SRead, read_pid, read_pts_slave, read_from_pid, read_mount_storage, recv_fd, read_argc,
       read_arg, Recv
  <1>. QED  BY ONLY <1>2 DEF recv_fd

\* The fields of the header follow one another.
LEMMA Positions ==
    /\ Position("pid") + 1 = Position("pts") /\ Position("pts") + 1 = Position("ppid")
    /\ Position("ppid") + 1 = Position("mount") /\ Position("mount") + 1 = Position("in")
    /\ Position("in") + 1 = Position("out") /\ Position("out") + 1 = Position("err")
    /\ Position("err") + 1 = Position("argc")
  BY DEF Position

\* S has read, at each field, just the messages before it.
LEMMA ReceivingStep ==
    ASSUME TypeOK, Once, Receiving, Decoding, [Next]_vars
    PROVE  Receiving'
  <1>1. /\ spc \in [Clients -> SPc] /\ rcvd \in [Clients -> Nat] /\ cpc \in [Clients -> CPc]
        /\ dec \in [Clients -> Decoded]
    BY Zenon DEF TypeOK, SType, CType
  <1>2. CASE UNCHANGED <<spc, rcvd, dec, cpc>>
    BY ONLY Zenon, <1>2, Receiving DEF Receiving
  <1>3. ASSUME NEW c \in Clients, IStep(c), UNCHANGED <<rcvd, dec, cpc>> PROVE Receiving'
    <2>1. UNCHANGED spc \/ (spc[c] = "none" /\ spc' = [spc EXCEPT ![c] = "start"])
      BY Zenon, <1>3, StartedOnce
    <2>. QED  BY ONLY <1>1, <1>3, <2>1, Receiving DEF Receiving, Position, Reading, Acked
  <1>4. ASSUME NEW c \in Clients, CAct(c), UNCHANGED <<spc, rcvd, dec>> PROVE Receiving'
    <2>1. cpc[c] # "none" /\ \E pc \in CPc \ {"none"} : cpc' = [cpc EXCEPT ![c] = pc]
      BY Zenon, <1>4, StartedOnce
    <2>. QED  BY ONLY Zenon, <1>1, <1>4, <2>1, Receiving DEF Receiving
  <1>5. ASSUME NEW c \in Clients, SRest(c), UNCHANGED <<rcvd, dec>> PROVE Receiving'
    BY ONLY <1>1, <1>5, Receiving, SRestMoves DEF Receiving, Position, Reading, Acked
  <1>6. ASSUME NEW c \in Clients, SRead(c), UNCHANGED cpc PROVE Receiving'
    <2>1. CASE spc[c] \notin {"argc", "args"}
      <3>1. \A k \in Clients : dec'[k].argv = dec[k].argv /\ dec'[k].argc = dec[k].argc
        <4>1. CASE UNCHANGED dec
          BY <4>1
        <4>2. ASSUME NEW v, dec' = [dec EXCEPT ![c].pts = v]
              PROVE  \A k \in Clients : dec'[k].argv = dec[k].argv /\ dec'[k].argc = dec[k].argc
          BY ONLY <1>1, <4>2 DEF Decoded
        <4>3. ASSUME NEW v, dec' = [dec EXCEPT ![c].mount = v]
              PROVE  \A k \in Clients : dec'[k].argv = dec[k].argv /\ dec'[k].argc = dec[k].argc
          BY ONLY <1>1, <4>3 DEF Decoded
        <4>4. ASSUME NEW v, dec' = [dec EXCEPT ![c].fds = v]
              PROVE  \A k \in Clients : dec'[k].argv = dec[k].argv /\ dec'[k].argc = dec[k].argc
          BY ONLY <1>1, <4>4 DEF Decoded
        <4>5. ASSUME NEW v, NEW u, dec' = [dec EXCEPT ![c].ppid = v, ![c].uid = u]
              PROVE  \A k \in Clients : dec'[k].argv = dec[k].argv /\ dec'[k].argc = dec[k].argc
          BY ONLY <1>1, <4>5 DEF Decoded
        <4>6. \/ UNCHANGED dec
              \/ dec' = [dec EXCEPT ![c].pts = Val(c)] \/ dec' = [dec EXCEPT ![c].mount = Val(c)]
              \/ \E v : dec' = [dec EXCEPT ![c].fds = v]
              \/ dec' = [dec EXCEPT ![c].ppid = Val(c), ![c].uid = req[c].uid]
          BY Zenon, <1>6, <2>1, HeaderMoves
        <4>. QED  BY ONLY Zenon, <4>1, <4>2, <4>5, <4>6, <4>3, <4>4
      <3>2. /\ rcvd' = [rcvd EXCEPT ![c] = @ + 1]
            /\ \/ spc[c] = "pid" /\ spc' = [spc EXCEPT ![c] = "pts"]
               \/ spc[c] = "pts" /\ spc' = [spc EXCEPT ![c] = "ppid"]
               \/ spc[c] = "ppid" /\ spc' = [spc EXCEPT ![c] = "mount"]
               \/ spc[c] = "mount" /\ spc' = [spc EXCEPT ![c] = "in"]
               \/ spc[c] = "in" /\ spc' = [spc EXCEPT ![c] = "out"]
               \/ spc[c] = "out" /\ spc' = [spc EXCEPT ![c] = "err"]
               \/ spc[c] = "err" /\ spc' = [spc EXCEPT ![c] = "argc"]
        BY Zenon, <1>6, <2>1, HeaderMoves
      <3>3. /\ dec[c].argv = <<>> /\ cpc[c] = "none" /\ rcvd'[c] = Position(spc'[c])
            /\ spc'[c] \in Reading \ {"args"}
        <4>1. spc[c] \in {"pid", "pts", "ppid", "mount", "in", "out", "err"}
          BY ONLY Zenon, <3>2
        <4>2. /\ spc[c] \in {"none", "start"} \cup (Reading \ {"args"}) /\ spc[c] # "dead"
              /\ spc[c] \notin {"log", "wait", "waitlog", "dead"}
          BY ONLY Zenon, <4>1 DEF Reading
        <4>3. dec[c].argv = <<>> /\ cpc[c] = "none" /\ rcvd[c] = Position(spc[c])
          BY ONLY Zenon, <1>6, <4>2, Receiving DEF Receiving
        <4>4. rcvd'[c] = rcvd[c] + 1
          BY ONLY Zenon, <1>1, <1>6, <3>2
        <4>5. /\ spc'[c] \in {"pts", "ppid", "mount", "in", "out", "err", "argc"}
              /\ rcvd'[c] = Position(spc'[c])
          BY ONLY Zenon, <1>1, <1>6, <3>2, <4>3, <4>4, Positions
        <4>. QED  BY ONLY Zenon, <4>3, <4>5 DEF Reading
      <3>4. \A k \in Clients : k # c => spc'[k] = spc[k] /\ rcvd'[k] = rcvd[k]
        BY ONLY Zenon, <1>1, <3>2
      <3>5. \A k \in Clients : cpc'[k] = cpc[k]
        BY <1>6
      <3>6. /\ spc'[c] \notin {"args", "ack"} \cup Acked /\ spc'[c] # "dead"
            /\ dec'[c].argv = <<>> /\ cpc'[c] = "none"
        BY ONLY Zenon, <3>1, <3>3, <3>5, c \in Clients DEF Reading, Acked
      <3>7. ASSUME NEW k \in Clients
            PROVE  (/\ spc[k] \in {"none", "start"} \cup (Reading \ {"args"}) =>
                          rcvd[k] = Position(spc[k]) /\ dec[k].argv = <<>>
                    /\ spc[k] = "args" => /\ rcvd[k] = HeaderLen + Len(dec[k].argv)
                                          /\ Len(dec[k].argv) < dec[k].argc
                    /\ spc[k] \in {"ack"} \cup Acked \/ cpc[k] # "none" =>
                          rcvd[k] = HeaderLen + dec[k].argc /\ Len(dec[k].argv) = dec[k].argc
                    /\ cpc[k] # "none" => spc[k] \in {"log", "wait", "waitlog", "dead"})'
        <4>1. CASE k = c
          BY ONLY Zenon, <3>3, <3>6, <4>1
        <4>2. CASE k # c
          BY ONLY Zenon, <3>1, <3>4, <3>5, <4>2, k \in Clients, Receiving DEF Receiving
        <4>. QED  BY ONLY Zenon, <4>1, <4>2
      <3>. QED  BY ONLY Zenon, <3>7 DEF Receiving
    <2>2. CASE spc[c] = "argc"
      <3>1. /\ rcvd' = [rcvd EXCEPT ![c] = @ + 1]
            /\ \/ UNCHANGED dec /\ spc' = [spc EXCEPT ![c] = "dead"]
               \/ \E n \in Int : /\ dec' = [dec EXCEPT ![c].argc = n] /\ n >= 0
                                 /\ spc' = [spc EXCEPT ![c] = IF n = 0 THEN "ack" ELSE "args"]
        <4>1. Val(c) \in Nat
          <5>1. req[c] \in Requests
            BY Zenon DEF TypeOK
          <5>2. WireArgc(req[c]) \in Nat
            BY Zenon, <5>1, WireArgsType
          <5>3. Val(c) = WireArgc(req[c])
            BY Zenon, <2>2, ReadValues
          <5>. QED  BY ONLY Zenon, <5>2, <5>3
        <4>. QED  BY <1>6, <2>2, <4>1 DEF SRead, read_pid, read_pts_slave, read_from_pid,
             read_mount_storage, recv_fd, read_argc, read_arg, Recv, SGoto, SDie, Streams
      <3>2. rcvd[c] = 7 /\ dec[c].argv = <<>> /\ cpc[c] = "none"
        BY <2>2 DEF Receiving, Reading, Position
      <3>3. CASE UNCHANGED dec /\ spc' = [spc EXCEPT ![c] = "dead"]
        BY ONLY <1>1, <1>6, <3>1, <3>2, <3>3, Receiving DEF Receiving, Position, Reading, Acked
      <3>4. ASSUME NEW n \in Int, dec' = [dec EXCEPT ![c].argc = n], n >= 0,
                   spc' = [spc EXCEPT ![c] = IF n = 0 THEN "ack" ELSE "args"]
            PROVE  Receiving'
        <4>1. /\ dec'[c].argv = <<>> /\ dec'[c].argc = n
              /\ \A k \in Clients : k # c => dec'[k] = dec[k]
          BY ONLY <1>1, <3>2, <3>4 DEF Decoded
        <4>2. Len(<<>>) = 0
          OBVIOUS
        <4>. QED  BY ONLY <1>1, <1>6, <3>1, <3>2, <3>4, <4>1, <4>2, Receiving
                  DEF Receiving, Reading, Acked, HeaderLen
      <3>. QED  BY <3>1, <3>3, <3>4
    <2>3. CASE spc[c] = "args"
      <3>1. /\ rcvd' = [rcvd EXCEPT ![c] = @ + 1]
            /\ \/ UNCHANGED dec /\ spc' = [spc EXCEPT ![c] = "dead"]
               \/ /\ dec' = [dec EXCEPT ![c].argv = Append(@, Val(c))]
                  /\ spc' = [spc EXCEPT ![c] = IF Len(dec[c].argv) + 1 = dec[c].argc
                                               THEN "ack" ELSE "args"]
        BY Zenon, <1>6, <2>3 DEF SRead, read_pid, read_pts_slave, read_from_pid, read_mount_storage,
           recv_fd, read_argc, read_arg, Recv, SGoto, SDie, Streams
      <3>2. /\ rcvd[c] = 8 + Len(dec[c].argv) /\ Len(dec[c].argv) < dec[c].argc
            /\ cpc[c] = "none"
        BY Zenon, <2>3 DEF Receiving, HeaderLen
      <3>3. dec[c].argv \in Seq(Str) /\ dec[c].argc \in Int /\ Val(c) \in Str
        <4>1. dec[c] \in Decoded
          BY <1>1
        <4>2. Val(c) \in Str
          BY Zenon, <2>3, ReadValues
        <4>. QED  BY ONLY <4>1, <4>2, BoundsAssumption DEF Decoded
      <3>4. Len(dec[c].argv) \in Nat /\ Len(Append(dec[c].argv, Val(c))) = Len(dec[c].argv) + 1
        BY ONLY <3>3
      <3>5. CASE UNCHANGED dec /\ spc' = [spc EXCEPT ![c] = "dead"]
        BY ONLY <1>1, <1>6, <3>1, <3>2, <3>5, Receiving DEF Receiving, Position, Reading, Acked
      <3>6. CASE /\ dec' = [dec EXCEPT ![c].argv = Append(@, Val(c))]
                 /\ spc' = [spc EXCEPT ![c] = IF Len(dec[c].argv) + 1 = dec[c].argc
                                              THEN "ack" ELSE "args"]
        <4>1. /\ Len(dec'[c].argv) = Len(dec[c].argv) + 1 /\ dec'[c].argc = dec[c].argc
              /\ \A k \in Clients : k # c => dec'[k] = dec[k]
          BY ONLY <1>1, <3>4, <3>6, c \in Clients DEF Decoded
        <4>. QED  BY ONLY <1>1, <1>6, <3>1, <3>2, <3>3, <3>4, <3>6, <4>1, Receiving
                  DEF Receiving, Reading, Acked, HeaderLen
      <3>. QED  BY <3>1, <3>5, <3>6
    <2>. QED  BY <2>1, <2>2, <2>3
  <1>. QED  BY Zenon, <1>2, <1>3, <1>4, <1>5, <1>6, SessionFrame

\* Where the flag of each stream is in the request: after the header's first
\* fields and before the count.
At(s) == CASE s = "in" -> 5 [] s = "out" -> 6 [] s = "err" -> 7

\* A request of fewer fields has no flag of a stream.
LEMMA StreamPlaces ==
    /\ \A s \in Streams : At(s) - 1 >= 2 /\ At(s) - 1 >= 3 /\ At(s) - 1 >= 4 /\ ~(At(s) >= 8)
    /\ \A n \in Nat : \A s \in Streams :
          /\ n < 4 => ~(n >= At(s)) /\ ~(n + 1 >= At(s))
          /\ n >= 7 => n >= At(s) /\ n + 1 >= At(s)
  BY DEF At, Streams

\* Decoding, of one client: the first fields, the streams, the count, the arguments.
HeadOf(c) == /\ rcvd[c] >= 2 => dec[c].pts = pty[c]
             /\ rcvd[c] >= 3 => dec[c].ppid = c /\ dec[c].uid = req[c].uid
             /\ rcvd[c] >= 4 => dec[c].mount = req[c].mount
FdsOf(c)  == dec[c].fds = {s \in Streams : PassesFd(req[c], s) /\ rcvd[c] >= At(s)}
CountOf(c) == (rcvd[c] >= 8 /\ spc[c] # "dead") \/ cpc[c] # "none" => dec[c].argc = WireArgc(req[c])
ArgsOf(c) == \A i \in 1 .. Len(dec[c].argv) :
                i <= Len(WireArgs(req[c])) /\ dec[c].argv[i] = WireArgs(req[c])[i]
DecodingOf(c) == HeadOf(c) /\ FdsOf(c) /\ CountOf(c) /\ ArgsOf(c)

\* Decoding is about one client at a time.
LEMMA DecodingByClient ==
    /\ Decoding <=> \A c \in Clients : DecodingOf(c)
    /\ Decoding' <=> \A c \in Clients : DecodingOf(c)'
  BY DEF Decoding, DecodingOf, HeadOf, FdsOf, CountOf, ArgsOf, At, HeaderLen

\* A step that leaves a client's request and S's reading of it alone.
LEMMA DecodingKept ==
    ASSUME NEW c, DecodingOf(c), CountOf(c)', rcvd'[c] = rcvd[c], dec'[c] = dec[c],
           req'[c] = req[c], rcvd[c] = 0 \/ pty'[c] = pty[c]
    PROVE  DecodingOf(c)'
  <1>1. HeadOf(c)'
    <2>1. ~(0 >= 2) /\ ~(0 >= 3) /\ ~(0 >= 4)
      OBVIOUS
    <2>. QED  BY Zenon, <2>1 DEF DecodingOf, HeadOf
  <1>2. FdsOf(c)' /\ ArgsOf(c)'
    BY Zenon DEF DecodingOf, FdsOf, ArgsOf
  <1>. QED  BY Zenon, <1>1, <1>2 DEF DecodingOf

\* A header field S reads is the one K wrote.
LEMMA DecodingHeader ==
    ASSUME TypeOK, Receiving, Decoding, NEW c \in Clients, SRead(c), UNCHANGED <<cpc, req, pty>>,
           spc[c] \notin {"argc", "args"}
    PROVE  DecodingOf(c)'
  <1>1. /\ spc \in [Clients -> SPc] /\ rcvd \in [Clients -> Nat] /\ dec \in [Clients -> Decoded]
    BY Zenon DEF TypeOK, SType
  <1>2. DecodingOf(c) /\ cpc[c] = "none" /\ (spc[c] \in Reading => rcvd[c] = Position(spc[c]))
    BY Zenon, DecodingByClient, HeaderMoves DEF Receiving, Reading
  <1>3. \A s : PassesFd(req[c], s) \in BOOLEAN
    BY DEF PassesFd
  <1>4. /\ spc[c] \in Reading => rcvd'[c] = Position(spc[c]) + 1
        /\ cpc'[c] = "none" /\ req'[c] = req[c] /\ pty'[c] = pty[c]
    <2>1. rcvd' = [rcvd EXCEPT ![c] = @ + 1]
      BY Zenon, HeaderTakes
    <2>. QED  BY ONLY Zenon, <1>1, <1>2, <2>1, UNCHANGED <<cpc, req, pty>>, c \in Clients
  <1>5. ASSUME rcvd[c] < 4, dec'[c].fds = dec[c].fds, rcvd'[c] = rcvd[c] + 1
        PROVE  FdsOf(c)'
    <2>1. \A s \in Streams : ~(rcvd[c] >= At(s)) /\ ~(rcvd'[c] >= At(s))
      <3>1. rcvd[c] \in Nat
        BY ONLY Zenon, <1>1, c \in Clients
      <3>. QED  BY Zenon, <1>5, <3>1, StreamPlaces
    <2>. QED  BY ONLY Zenon, <1>2, <1>4, <1>5, <2>1 DEF DecodingOf, FdsOf
  <1>6. ~(rcvd'[c] >= 8) => CountOf(c)'
    BY ONLY Zenon, <1>4 DEF CountOf
  <1>7. dec'[c].argv = dec[c].argv => ArgsOf(c)'
    BY ONLY Zenon, <1>2, <1>4 DEF DecodingOf, ArgsOf
  <1>8. CASE spc[c] = "pid"
    <2>1. UNCHANGED dec
      BY Zenon, <1>8, HeaderMoves
    <2>0. rcvd[c] = 0 /\ rcvd'[c] = 1
      BY ONLY <1>2, <1>4, <1>8 DEF Position, Reading
    <2>2. /\ rcvd[c] < 4 /\ rcvd'[c] = rcvd[c] + 1 /\ ~(rcvd'[c] >= 8)
          /\ ~(rcvd'[c] >= 2) /\ ~(rcvd'[c] >= 3) /\ ~(rcvd'[c] >= 4)
      BY ONLY <2>0
    <2>3. HeadOf(c)'
      BY ONLY Zenon, <1>2, <1>4, <2>1, <2>2 DEF DecodingOf, HeadOf
    <2>4. FdsOf(c)' /\ CountOf(c)' /\ ArgsOf(c)'
      BY ONLY Zenon, <1>5, <1>6, <1>7, <2>1, <2>2
    <2>. QED  BY ONLY <2>3, <2>4 DEF DecodingOf
  <1>9. CASE spc[c] = "pts"
    <2>1. dec' = [dec EXCEPT ![c].pts = pty[c]]
      BY Zenon, <1>9, HeaderMoves, ReadValues
    <2>0. rcvd[c] = 1 /\ rcvd'[c] = 2
      BY ONLY <1>2, <1>4, <1>9 DEF Position, Reading
    <2>2. /\ rcvd[c] < 4 /\ rcvd'[c] = rcvd[c] + 1 /\ ~(rcvd'[c] >= 8)
          /\ ~(rcvd'[c] >= 3) /\ ~(rcvd'[c] >= 4)
      BY ONLY <2>0
    <2>3. dec'[c].pts = pty[c] /\ dec'[c].fds = dec[c].fds /\ dec'[c].argv = dec[c].argv
      BY ONLY <1>1, <2>1 DEF Decoded
    <2>4. HeadOf(c)'
      BY ONLY Zenon, <1>2, <1>4, <2>2, <2>3 DEF DecodingOf, HeadOf
    <2>5. FdsOf(c)' /\ CountOf(c)' /\ ArgsOf(c)'
      BY ONLY Zenon, <1>5, <1>6, <1>7, <2>2, <2>3
    <2>. QED  BY ONLY <2>4, <2>5 DEF DecodingOf
  <1>10. CASE spc[c] = "ppid"
    <2>1. dec' = [dec EXCEPT ![c].ppid = c, ![c].uid = req[c].uid]
      BY <1>10, HeaderMoves, ReadValues
    <2>0. rcvd[c] = 2 /\ rcvd'[c] = 3
      BY ONLY <1>2, <1>4, <1>10 DEF Position, Reading
    <2>2. /\ rcvd[c] < 4 /\ rcvd'[c] = rcvd[c] + 1 /\ ~(rcvd'[c] >= 8)
          /\ rcvd[c] >= 2 /\ ~(rcvd'[c] >= 4)
      BY ONLY <2>0
    <2>3. /\ dec'[c].pts = dec[c].pts /\ dec'[c].ppid = c /\ dec'[c].uid = req[c].uid
          /\ dec'[c].fds = dec[c].fds /\ dec'[c].argv = dec[c].argv
      BY ONLY <1>1, <2>1 DEF Decoded
    <2>4. HeadOf(c)'
      BY ONLY Zenon, <1>2, <1>4, <2>2, <2>3 DEF DecodingOf, HeadOf
    <2>5. FdsOf(c)' /\ CountOf(c)' /\ ArgsOf(c)'
      BY ONLY Zenon, <1>5, <1>6, <1>7, <2>2, <2>3
    <2>. QED  BY ONLY <2>4, <2>5 DEF DecodingOf
  <1>11. CASE spc[c] = "mount"
    <2>1. dec' = [dec EXCEPT ![c].mount = req[c].mount]
      BY Zenon, <1>11, HeaderMoves, ReadValues
    <2>0. rcvd[c] = 3 /\ rcvd'[c] = 4
      BY ONLY <1>2, <1>4, <1>11 DEF Position, Reading
    <2>2. /\ rcvd[c] < 4 /\ rcvd'[c] = rcvd[c] + 1 /\ ~(rcvd'[c] >= 8)
          /\ rcvd[c] >= 2 /\ rcvd[c] >= 3
      BY ONLY <2>0
    <2>3. /\ dec'[c].pts = dec[c].pts /\ dec'[c].ppid = dec[c].ppid /\ dec'[c].uid = dec[c].uid
          /\ dec'[c].mount = req[c].mount /\ dec'[c].fds = dec[c].fds /\ dec'[c].argv = dec[c].argv
      BY ONLY <1>1, <2>1 DEF Decoded
    <2>4. HeadOf(c)'
      BY ONLY Zenon, <1>2, <1>4, <2>2, <2>3 DEF DecodingOf, HeadOf
    <2>5. FdsOf(c)' /\ CountOf(c)' /\ ArgsOf(c)'
      BY ONLY Zenon, <1>5, <1>6, <1>7, <2>2, <2>3
    <2>. QED  BY ONLY <2>4, <2>5 DEF DecodingOf
  <1>12. ASSUME NEW s \in Streams, spc[c] = s PROVE DecodingOf(c)'
    <2>1. dec' = [dec EXCEPT ![c].fds = IF PassesFd(req[c], s) THEN @ \cup {s} ELSE @]
      <3>1. Val(c) = PassesFd(req[c], s)
        BY Zenon, <1>12, ReadValues
      <3>2. dec' = [dec EXCEPT ![c].fds = IF Val(c) THEN @ \cup {s} ELSE @]
        BY <1>12, StreamReads
      <3>. QED  BY ONLY <3>1, <3>2
    <2>2. rcvd[c] = At(s) - 1 /\ rcvd'[c] = At(s)
      BY ONLY <1>2, <1>4, <1>12 DEF Position, Reading, Streams, At
    <2>3. /\ dec'[c].pts = dec[c].pts /\ dec'[c].ppid = dec[c].ppid /\ dec'[c].uid = dec[c].uid
          /\ dec'[c].mount = dec[c].mount /\ dec'[c].argv = dec[c].argv
          /\ dec'[c].fds = IF PassesFd(req[c], s) THEN dec[c].fds \cup {s} ELSE dec[c].fds
      BY ONLY <1>1, <1>3, <2>1 DEF Decoded
    <2>4. \A t \in Streams : rcvd'[c] >= At(t) <=> (rcvd[c] >= At(t) \/ t = s)
      BY ONLY <2>2, s \in Streams DEF At, Streams
    <2>5. FdsOf(c)'
      BY ONLY Zenon, <1>2, <1>3, <1>4, <2>3, <2>4, s \in Streams DEF DecodingOf, FdsOf
    <2>6. HeadOf(c)'
      <3>1. rcvd[c] >= 2 /\ rcvd[c] >= 3 /\ rcvd[c] >= 4
        BY ONLY Zenon, <2>2, s \in Streams, StreamPlaces
      <3>. QED  BY ONLY Zenon, <1>2, <1>4, <2>3, <3>1 DEF DecodingOf, HeadOf
    <2>7. ~(rcvd'[c] >= 8)
      BY ONLY Zenon, <2>2, s \in Streams, StreamPlaces
    <2>. QED  BY ONLY Zenon, <1>6, <1>7, <2>3, <2>5, <2>6, <2>7 DEF DecodingOf
  <1>. QED  BY Zenon, <1>8, <1>9, <1>10, <1>11, <1>12, HeaderMoves DEF Streams

\* A sequence that begins as another one does, and takes the next element of it.
LEMMA PrefixGrows ==
    ASSUME NEW q \in Seq(Str), NEW v \in Str, NEW w, v = w[Len(q) + 1], Len(q) + 1 <= Len(w),
           \A i \in 1 .. Len(q) : i <= Len(w) /\ q[i] = w[i]
    PROVE  \A i \in 1 .. Len(Append(q, v)) : i <= Len(w) /\ Append(q, v)[i] = w[i]
  OBVIOUS

\* What S reads after the header is what K wrote.
LEMMA DecodingArgs ==
    ASSUME TypeOK, Receiving, Decoding, NEW c \in Clients, SRead(c), UNCHANGED <<cpc, req, pty>>,
           spc[c] \in {"argc", "args"}
    PROVE  DecodingOf(c)'
  <1>1. /\ spc \in [Clients -> SPc] /\ rcvd \in [Clients -> Nat] /\ dec \in [Clients -> Decoded]
    BY Zenon DEF TypeOK, SType
  <1>2. /\ rcvd' = [rcvd EXCEPT ![c] = @ + 1]
        /\ \/ UNCHANGED dec /\ spc' = [spc EXCEPT ![c] = "dead"]
           \/ spc[c] = "argc" /\ dec' = [dec EXCEPT ![c].argc = Val(c)]
           \/ spc[c] = "args" /\ dec' = [dec EXCEPT ![c].argv = Append(@, Val(c))]
    BY Zenon DEF SRead, read_pid, read_pts_slave, read_from_pid, read_mount_storage, recv_fd, read_argc,
       read_arg, Recv, SGoto, SDie, Streams
  <1>3. DecodingOf(c) /\ cpc[c] = "none" /\ rcvd[c] >= 7 /\ (spc[c] = "args" => rcvd[c] >= 8)
    <2>1. Len(dec[c].argv) \in Nat
      BY <1>1 DEF Decoded
    <2>. QED  BY <2>1, DecodingByClient DEF Receiving, Reading, Position, HeaderLen
  <1>4. rcvd'[c] = rcvd[c] + 1 /\ rcvd[c] \in Nat /\ cpc'[c] = "none" /\ req'[c] = req[c] /\ pty'[c] = pty[c]
    BY ONLY <1>1, <1>2, <1>3, UNCHANGED <<cpc, req, pty>>, c \in Clients
  <1>5. rcvd[c] >= 2 /\ rcvd[c] >= 3 /\ rcvd[c] >= 4
    BY ONLY <1>3, <1>4
  <1>6. \A s \in Streams : rcvd'[c] >= At(s) /\ rcvd[c] >= At(s)
    BY ONLY Zenon, <1>3, <1>4, StreamPlaces
  <1>7. ASSUME dec'[c].fds = dec[c].fds PROVE FdsOf(c)'
    BY ONLY Zenon, <1>3, <1>4, <1>6, <1>7 DEF DecodingOf, FdsOf
  <1>8. ASSUME /\ dec'[c].pts = dec[c].pts /\ dec'[c].ppid = dec[c].ppid
                /\ dec'[c].uid = dec[c].uid /\ dec'[c].mount = dec[c].mount
         PROVE  HeadOf(c)'
    BY ONLY Zenon, <1>3, <1>4, <1>5, <1>8 DEF DecodingOf, HeadOf
  <1>9. dec'[c].argv = dec[c].argv => ArgsOf(c)'
    BY ONLY Zenon, <1>3, <1>4 DEF DecodingOf, ArgsOf
  <1>10. CASE UNCHANGED dec /\ spc' = [spc EXCEPT ![c] = "dead"]
    <2>1. spc'[c] = "dead" /\ dec'[c] = dec[c]
      BY ONLY <1>1, <1>10, c \in Clients
    <2>. QED  BY ONLY Zenon, <1>4, <1>7, <1>8, <1>9, <2>1 DEF DecodingOf, CountOf
  <1>11. CASE spc[c] = "argc" /\ dec' = [dec EXCEPT ![c].argc = Val(c)]
    <2>1. Val(c) = WireArgc(req[c])
      BY <1>11, ReadValues
    <2>2. /\ dec'[c].pts = dec[c].pts /\ dec'[c].ppid = dec[c].ppid /\ dec'[c].uid = dec[c].uid
          /\ dec'[c].mount = dec[c].mount /\ dec'[c].fds = dec[c].fds /\ dec'[c].argv = dec[c].argv
          /\ dec'[c].argc = WireArgc(req[c])
      BY ONLY <1>1, <1>11, <2>1 DEF Decoded
    <2>. QED  BY ONLY Zenon, <1>4, <1>7, <1>8, <1>9, <2>2 DEF DecodingOf, CountOf
  <1>12. CASE spc[c] = "args" /\ dec' = [dec EXCEPT ![c].argv = Append(@, Val(c))]
    <2> DEFINE q == dec[c].argv
               w == WireArgs(req[c])
    <2>1. q \in Seq(Str) /\ Val(c) \in Str /\ Val(c) = w[Len(q) + 1] /\ Len(q) + 1 <= Len(w)
      BY <1>1, <1>12, ReadValues DEF Decoded
    <2>2. /\ dec'[c].pts = dec[c].pts /\ dec'[c].ppid = dec[c].ppid /\ dec'[c].uid = dec[c].uid
          /\ dec'[c].mount = dec[c].mount /\ dec'[c].fds = dec[c].fds
          /\ dec'[c].argv = Append(q, Val(c)) /\ dec'[c].argc = dec[c].argc
      BY ONLY <1>1, <1>12, c \in Clients DEF Decoded
    <2>3. /\ Len(q) \in Nat /\ Len(Append(q, Val(c))) = Len(q) + 1
          /\ Append(q, Val(c))[Len(q) + 1] = Val(c)
          /\ \A i \in 1 .. Len(q) : Append(q, Val(c))[i] = q[i]
      <3> HIDE DEF q, w
      <3>. QED  BY ONLY <2>1
    <2>4. \A i \in 1 .. Len(q) : i <= Len(w) /\ q[i] = w[i]
      BY Zenon, <1>3 DEF DecodingOf, ArgsOf
    <2>5. \A i \in 1 .. Len(dec'[c].argv) : i <= Len(w) /\ dec'[c].argv[i] = w[i]
      <3> HIDE DEF q, w
      <3>1. \A i \in 1 .. Len(Append(q, Val(c))) : i <= Len(w) /\ Append(q, Val(c))[i] = w[i]
        BY ONLY <2>1, <2>4, PrefixGrows
      <3>. QED  BY ONLY Zenon, <2>2, <3>1
    <2>6. ArgsOf(c)'
      BY ONLY Zenon, <1>4, <2>5 DEF ArgsOf
    <2>7. CountOf(c)'
      BY ONLY Zenon, <1>3, <1>4, <1>12, <2>2 DEF DecodingOf, CountOf
    <2>. QED  BY ONLY Zenon, <1>7, <1>8, <2>2, <2>6, <2>7 DEF DecodingOf
  <1>. QED  BY Zenon, <1>2, <1>10, <1>11, <1>12

\* What S has read so far is what the messages say.
LEMMA DecodingStep ==
    ASSUME TypeOK, Once, Sending, Receiving, Decoding, [Next]_vars
    PROVE  Decoding'
  <1> USE DEF kVars, sVars, hVars, dVars, xVars, gVars, cVars, fVars
  <1>1. /\ spc \in [Clients -> SPc] /\ rcvd \in [Clients -> Nat] /\ dec \in [Clients -> Decoded]
        /\ cpc \in [Clients -> CPc] /\ pty \in [Clients -> Pts \cup {NoPts}]
    BY Zenon DEF TypeOK, SType, CType, KType
  <1>2. \A k \in Clients : DecodingOf(k)
    BY Zenon, DecodingByClient
  <1>3. UNCHANGED req /\ (UNCHANGED pty \/ \E c \in Clients : pts_open(c))
    <2>1. ASSUME NEW c \in Clients, KAct(c), ~pts_open(c) PROVE UNCHANGED pty
      BY Zenon, <2>1 DEF KAct, KStep, su_main_client, connect, send, read_ack, pump_stdout_blocking,
         pump_stdout_ends, PumpEnds, read_code, pump_stdin_ends, kill_K
    <2>2. ASSUME NEW c \in Clients, \/ DStep(c) \/ IStep(c) \/ SRead(c) \/ SRest(c) \/ CAct(c)
                                    \/ GAct(c) \/ XStep(c) \/ command_reads(c)
          PROVE  UNCHANGED pty
      <3>1. CASE DStep(c)
        BY Zenon, <3>1 DEF DStep, accept, fork_zero_fucks, waitpid_I, close_client, DOnly
      <3>2. CASE IStep(c)
        BY Zenon, <3>2 DEF IStep, fork_zero_fucks_child, exit_I, DOnly
      <3>3. CASE command_reads(c)
        BY Zenon, <3>3, ReadsFrame
      <3>. QED  BY Zenon, <2>2, <3>1, <3>2, <3>3, SReadFrame, SRestFrame, CFrame, GFrame
                DEF SOnly, COnly, GOnly
    <2>3. daemon_exits \/ UNCHANGED vars => UNCHANGED pty
      BY Zenon DEF daemon_exits, DOnly, vars
    <2>. QED  BY Zenon, <2>1, <2>2, <2>3, NextCases, WireFrame
  <1>4. ASSUME NEW c \in Clients, pts_open(c) PROVE Decoding'
    <2>1. UNCHANGED <<req, spc, rcvd, dec, cpc>> /\ \A k \in Clients : k # c => pty'[k] = pty[k]
      BY Zenon, <1>1, <1>4 DEF pts_open, KOnly
    <2>2. rcvd[c] = 0
      <3>1. kpc[c] = "pts" /\ rcvd[c] \in Nat
        BY ONLY Zenon, <1>4, TypeOK, c \in Clients DEF pts_open, TypeOK, SType
      <3>2. sent[c] = 0 /\ rcvd[c] <= sent[c]
        BY ONLY Zenon, <3>1, Sending, c \in Clients DEF Sending
      <3>. QED  BY ONLY <3>1, <3>2
    <2>3. \A k \in Clients : CountOf(k)'
      BY ONLY Zenon, <1>2, <2>1 DEF DecodingOf, CountOf
    <2>4. \A k \in Clients : DecodingOf(k)'
      BY ONLY Zenon, <1>2, <2>1, <2>2, <2>3, DecodingKept
    <2>. QED  BY <2>4, DecodingByClient
  <1>5. CASE UNCHANGED <<req, pty>>
    <2>1. CASE UNCHANGED <<spc, rcvd, dec, cpc>>
      <3>1. \A k \in Clients : CountOf(k)'
        BY ONLY Zenon, <1>2, <1>5, <2>1 DEF DecodingOf, CountOf
      <3>2. \A k \in Clients : DecodingOf(k)'
        BY ONLY Zenon, <1>2, <1>5, <2>1, <3>1, DecodingKept
      <3>. QED  BY <3>2, DecodingByClient
    <2>2. ASSUME NEW c \in Clients, IStep(c), UNCHANGED <<rcvd, dec, cpc>> PROVE Decoding'
      <3>1. UNCHANGED spc \/ (spc[c] = "none" /\ spc' = [spc EXCEPT ![c] = "start"])
        BY Zenon, <2>2, StartedOnce
      <3>2. \A k \in Clients : CountOf(k)'
        BY ONLY Zenon, <1>1, <1>2, <1>5, <2>2, <3>1 DEF DecodingOf, CountOf
      <3>3. \A k \in Clients : DecodingOf(k)'
        BY ONLY Zenon, <1>2, <1>5, <2>2, <3>2, DecodingKept
      <3>. QED  BY <3>3, DecodingByClient
    <2>3. ASSUME NEW c \in Clients, CAct(c), UNCHANGED <<spc, rcvd, dec>> PROVE Decoding'
      <3>1. cpc[c] # "none" /\ \E pc \in CPc \ {"none"} : cpc' = [cpc EXCEPT ![c] = pc]
        BY Zenon, <2>3, StartedOnce
      <3>2. \A k \in Clients : CountOf(k)'
        BY ONLY Zenon, <1>1, <1>2, <1>5, <2>3, <3>1 DEF DecodingOf, CountOf
      <3>3. \A k \in Clients : DecodingOf(k)'
        BY ONLY Zenon, <1>2, <1>5, <2>3, <3>2, DecodingKept
      <3>. QED  BY <3>3, DecodingByClient
    <2>4. ASSUME NEW c \in Clients, SRest(c), UNCHANGED <<rcvd, dec>> PROVE Decoding'
      <3>1. spc[c] = "fork" => rcvd[c] >= 8
        BY <1>1 DEF Receiving, Acked, HeaderLen, Decoded
      <3>2. \A k \in Clients :
               /\ spc'[k] # "dead" => spc[k] # "dead"
               /\ cpc'[k] # "none" => cpc[k] # "none" \/ (rcvd[k] >= 8 /\ spc[k] # "dead")
        BY ONLY Zenon, <1>1, <2>4, <3>1, SRestMoves
      <3>3. \A k \in Clients : CountOf(k)'
        BY ONLY Zenon, <1>2, <1>5, <2>4, <3>2 DEF DecodingOf, CountOf
      <3>4. \A k \in Clients : DecodingOf(k)'
        BY ONLY Zenon, <1>2, <1>5, <2>4, <3>3, DecodingKept
      <3>. QED  BY <3>4, DecodingByClient
    <2>5. ASSUME NEW c \in Clients, SRead(c), UNCHANGED cpc PROVE Decoding'
      <3>1. DecodingOf(c)'
        BY Zenon, <1>5, <2>5, DecodingHeader, DecodingArgs
      <3>2. \A k \in Clients : k # c => spc'[k] = spc[k] /\ rcvd'[k] = rcvd[k] /\ dec'[k] = dec[k]
        BY ONLY Zenon, <1>1, <2>5 DEF SRead, read_pid, read_pts_slave, read_from_pid, read_mount_storage,
           recv_fd, read_argc, read_arg, Recv, SGoto, SDie
      <3>3. \A k \in Clients : k # c => CountOf(k)'
        BY ONLY Zenon, <1>2, <1>5, <2>5, <3>2 DEF DecodingOf, CountOf
      <3>4. \A k \in Clients : k # c => DecodingOf(k)'
        BY ONLY Zenon, <1>2, <1>5, <3>2, <3>3, DecodingKept
      <3>. QED  BY Zenon, <3>1, <3>4, DecodingByClient
    <2>. QED  BY Zenon, <2>1, <2>2, <2>3, <2>4, <2>5, SessionFrame
  <1>. QED  BY Zenon, <1>3, <1>4, <1>5, WireFrame

-----------------------------------------------------------------------------
(* Who has the sockets open. *)

\* ConnectionHeld and ListenerHeld of one client, descriptor by descriptor.
HeldOf(c) ==
    /\ "D" \in hold[c] <=> dcl = c
    /\ "I" \in hold[c] <=> ipc[c] \in {"fork", "exit"}
    /\ "S" \in hold[c] <=> spc[c] \notin {"none", "dead"}
    /\ "C" \in hold[c] <=> cpc[c] = "start"
    /\ "I" \in lhold[c] <=> ipc[c] \in {"fork", "exit"}
    /\ "S" \in lhold[c] <=> spc[c] = "start"

\* The same for any values of the variables.
LEMMA HeldSets ==
    ASSUME NEW c, NEW h \in SUBSET {"D", "I", "S", "C"}, NEW l \in SUBSET {"I", "S"},
           NEW d, NEW ip, NEW sp, NEW cp
    PROVE  /\ (h = {p \in {"D", "I", "S", "C"} : \/ p = "D" /\ d = c
                                                 \/ p = "I" /\ ip \in {"fork", "exit"}
                                                 \/ p = "S" /\ sp \notin {"none", "dead"}
                                                 \/ p = "C" /\ cp = "start"})
              <=> /\ "D" \in h <=> d = c
                  /\ "I" \in h <=> ip \in {"fork", "exit"}
                  /\ "S" \in h <=> sp \notin {"none", "dead"}
                  /\ "C" \in h <=> cp = "start"
           /\ (l = {p \in {"I", "S"} : \/ p = "I" /\ ip \in {"fork", "exit"}
                                       \/ p = "S" /\ sp = "start"})
              <=> /\ "I" \in l <=> ip \in {"fork", "exit"}
                  /\ "S" \in l <=> sp = "start"
  BY Zenon

\* ConnectionHeld and ListenerHeld are about one client at a time.
LEMMA HeldByClient ==
    /\ HType => (ConnectionHeld /\ ListenerHeld <=> \A c \in Clients : HeldOf(c))
    /\ HType' => (ConnectionHeld' /\ ListenerHeld' <=> \A c \in Clients : HeldOf(c)')
  BY HeldSets DEF HType, ConnectionHeld, ListenerHeld, HeldOf, Alive

\* Every process that opens, inherits or closes a socket keeps the books.
LEMMA HeldStep ==
    ASSUME TypeOK, DaemonHand, Once, Receiving, ConnectionHeld, ListenerHeld, [Next]_vars, TypeOK'
    PROVE  ConnectionHeld' /\ ListenerHeld'
  <1> USE DEF kVars, sVars, hVars, dVars, xVars, gVars, cVars, fVars
  <1>1. /\ spc \in [Clients -> SPc] /\ cpc \in [Clients -> CPc] /\ ipc \in [Clients -> IPc]
        /\ hold \in [Clients -> SUBSET {"D", "I", "S", "C"}]
        /\ lhold \in [Clients -> SUBSET {"I", "S"}]
        /\ None \notin Clients
    BY Zenon, NamesAssumption DEF TypeOK, SType, CType, DType, HType
  <1>2. \A k \in Clients : HeldOf(k)
    BY HeldByClient DEF TypeOK
  <1>3. SUFFICES \A k \in Clients : HeldOf(k)'
    BY HeldByClient DEF TypeOK
  <1>4. CASE UNCHANGED <<hold, lhold, dcl, ipc, spc, cpc>>
    BY ONLY <1>2, <1>4 DEF HeldOf
  <1>5. CASE daemon_exits
    BY ONLY <1>1, <1>2, <1>5 DEF HeldOf, daemon_exits, DOnly
  <1>6. ASSUME NEW c \in Clients, DStep(c) PROVE \A k \in Clients : HeldOf(k)'
    <2>1. UNCHANGED <<spc, cpc>>
      BY <1>6 DEF DStep, accept, fork_zero_fucks, waitpid_I, close_client, DOnly
    <2>2. CASE accept(c)
      <3>1. dcl = None /\ dcl' = c /\ UNCHANGED <<ipc, lhold>> /\ hold' = [hold EXCEPT ![c] = @ \cup {"D"}]
        BY <2>2 DEF accept, DaemonHand
      <3>. QED  BY ONLY <1>1, <1>2, <2>1, <3>1, c \in Clients DEF HeldOf
    <2>3. CASE fork_zero_fucks(c) \/ waitpid_I(c) \/ close_client(c)
      BY ONLY <1>1, <1>2, <2>1, <2>3, c \in Clients
         DEF HeldOf, fork_zero_fucks, waitpid_I, close_client
    <2>. QED  BY <1>6, <2>2, <2>3 DEF DStep
  <1>7. ASSUME NEW c \in Clients, IStep(c) PROVE \A k \in Clients : HeldOf(k)'
    <2>1. UNCHANGED <<dcl, cpc>>
      BY <1>7 DEF IStep, fork_zero_fucks_child, exit_I, DOnly
    <2>2. CASE fork_zero_fucks_child(c)
      <3>1. spc[c] = "none"
        BY <2>2 DEF fork_zero_fucks_child, Once
      <3>. QED  BY ONLY <1>1, <1>2, <2>1, <2>2, <3>1, c \in Clients DEF HeldOf, fork_zero_fucks_child
    <2>3. CASE exit_I(c)
      BY ONLY <1>1, <1>2, <2>1, <2>3, c \in Clients DEF HeldOf, exit_I, DOnly
    <2>. QED  BY <1>7, <2>2, <2>3 DEF IStep
  <1>8. ASSUME NEW c \in Clients, SRead(c) \/ SRest(c) PROVE \A k \in Clients : HeldOf(k)'
    <2>1. UNCHANGED <<dcl, ipc>>
      BY <1>8, SReadFrame, SRestFrame DEF SOnly
    <2>2. CASE SRead(c)
      <3>1. UNCHANGED cpc
        BY <2>2, SReadFrame
      <3>2. /\ spc[c] \in Reading
            /\ \/ \E pc \in SPc \ {"none", "start", "dead"} : SGoto(c, pc)
               \/ SDie(c)
        BY ONLY Zenon, <2>2 DEF SRead, Recv, read_pid, read_pts_slave, read_from_pid, read_mount_storage,
           recv_fd, read_argc, read_arg, SPc, After, Streams, Reading
      <3>. QED  BY ONLY <1>1, <1>2, <2>1, <3>1, <3>2, c \in Clients DEF HeldOf, SGoto, SDie, Reading
    <2>3. CASE close_listener(c) \/ read_eof(c) \/ ack(c)
      BY ONLY <1>1, <1>2, <2>1, <2>3, c \in Clients
         DEF HeldOf, close_listener, read_eof, ack, SGoto, SDie, Reading
    <2>4. CASE fork_C(c)
      BY ONLY <1>1, <1>2, <2>1, <2>4, c \in Clients DEF HeldOf, fork_C, SDie
    <2>5. CASE log_S(c) \/ send_code(c) \/ kill_S(c)
      BY ONLY <1>1, <1>2, <2>1, <2>5, c \in Clients
         DEF HeldOf, log_S, send_code, kill_S, SGoto, SDie
    <2>. QED  BY <1>8, <2>2, <2>3, <2>4, <2>5 DEF SRest
  <1>9. ASSUME NEW c \in Clients, CAct(c) PROVE \A k \in Clients : HeldOf(k)'
    <2>1. UNCHANGED <<dcl, ipc, spc, lhold>>
      BY <1>9, CFrame DEF COnly
    <2>2. CASE close_C(c) \/ kill_C(c)
      BY ONLY <1>1, <1>2, <2>1, <2>2, c \in Clients DEF HeldOf, close_C, kill_C, CGoto, CDie
    <2>3. CASE open_pts(c) \/ check_pts(c) \/ run_daemon_child(c) \/ su_main_daemon(c) \/ wait_G(c)
      <3>1. /\ UNCHANGED hold /\ cpc[c] # "start"
            /\ \E pc \in CPc \ {"start"} : cpc' = [cpc EXCEPT ![c] = pc]
        BY ONLY Zenon, <2>3 DEF open_pts, check_pts, run_daemon_child, su_main_daemon, wait_G, CGoto,
           CDie, CPc
      <3>. QED  BY ONLY <1>1, <1>2, <2>1, <3>1, c \in Clients DEF HeldOf
    <2>. QED  BY <1>9, <2>2, <2>3 DEF CAct, CStep
  <1>10. ASSUME NEW c \in Clients, KAct(c) \/ GAct(c) \/ XStep(c)
         PROVE  UNCHANGED <<hold, lhold, dcl, ipc, spc, cpc>>
    BY Zenon, <1>10, KFrame, GFrame DEF KOnly, GOnly
  <1>11. CASE UNCHANGED vars
    BY Zenon, <1>4, <1>11 DEF vars
  <1>12. ASSUME NEW c \in Clients, command_reads(c)
         PROVE  UNCHANGED <<hold, lhold, dcl, ipc, spc, cpc>>
    BY Zenon, <1>12, ReadsFrame
  <1>. QED  BY Zenon, <1>4, <1>5, <1>6, <1>7, <1>8, <1>9, <1>10, <1>11, <1>12, NextCases

-----------------------------------------------------------------------------
(* Terminals, and the order in which a session proceeds. *)

\* Only S, C, G and X move C, G and X.
LEMMA TreeFrame ==
    ASSUME [Next]_vars
    PROVE  \/ UNCHANGED <<cVars, gVars, xVars>>
           \/ \E c \in Clients : SRest(c) /\ UNCHANGED <<gVars, xVars, cst, att>>
           \/ \E c \in Clients : CAct(c) /\ UNCHANGED xVars
           \/ \E c \in Clients : (GAct(c) \/ XStep(c)) /\ UNCHANGED cVars
  <1> USE DEF kVars, sVars, hVars, dVars, xVars, gVars, cVars, fVars
  <1>1. CASE UNCHANGED vars
    BY <1>1 DEF vars
  <1>2. CASE daemon_exits
    BY Zenon, <1>2 DEF daemon_exits, DOnly
  <1>3. ASSUME NEW c \in Clients, KAct(c) \/ SRead(c) PROVE UNCHANGED <<cVars, gVars, xVars>>
    BY Zenon, <1>3, KFrame, SReadFrame DEF KOnly, SOnly
  <1>4. ASSUME NEW c \in Clients, DStep(c) \/ IStep(c) PROVE UNCHANGED <<cVars, gVars, xVars>>
    BY Zenon, <1>4 DEF DStep, accept, fork_zero_fucks, waitpid_I, close_client, IStep,
       fork_zero_fucks_child, exit_I, DOnly
  <1>5. ASSUME NEW c \in Clients, SRest(c) PROVE UNCHANGED <<gVars, xVars, cst, att>>
    BY Zenon, <1>5 DEF SRest, close_listener, read_eof, ack, fork_C, log_S, send_code, kill_S, SOnly
  <1>6. ASSUME NEW c \in Clients, CAct(c) PROVE UNCHANGED xVars
    BY <1>6, CFrame DEF COnly
  <1>7. ASSUME NEW c \in Clients, GAct(c) \/ XStep(c) PROVE UNCHANGED cVars
    BY <1>7, GFrame DEF GOnly
  <1>8. ASSUME NEW c \in Clients, command_reads(c) PROVE UNCHANGED <<cVars, gVars, xVars>>
    BY Zenon, <1>8, ReadsFrame
  <1>. QED  BY ONLY Zenon, [Next]_vars, <1>1, <1>2, <1>3, <1>4, <1>5, <1>6, <1>7, <1>8, NextCases

\* The processes of a session start in order.
LEMMA TreeStep ==
    ASSUME TypeOK, Receiving, Tree, [Next]_vars
    PROVE  Tree'
  <1> USE DEF gVars, xVars, cVars
  <1>1. /\ cpc \in [Clients -> CPc] /\ gpc \in [Clients -> GPc] /\ xpc \in [Clients -> XPc]
        /\ att \in [Clients -> Clients \cup {None}]
    BY Zenon DEF TypeOK, CType, GType, XType
  <1>2. CASE UNCHANGED <<cVars, gVars, xVars>>
    BY Zenon, <1>2 DEF Tree
  <1>3. ASSUME NEW c \in Clients, SRest(c), UNCHANGED <<gVars, xVars, att>> PROVE Tree'
    <2>1. UNCHANGED cpc \/ (cpc[c] = "none" /\ cpc' = [cpc EXCEPT ![c] = "start"])
      BY Zenon, <1>3, SRestMoves DEF Receiving
    <2>. QED  BY ONLY <1>1, <1>3, <2>1, Tree DEF Tree
  <1>4. ASSUME NEW c \in Clients, CAct(c), UNCHANGED xVars PROVE Tree'
    <2>1. CASE su_main_daemon(c)
      BY ONLY <1>1, <1>4, <2>1, Tree DEF Tree, su_main_daemon, CGoto, CDie
    <2>2. CASE ~su_main_daemon(c)
      <3>1. /\ UNCHANGED gVars /\ cpc[c] # "none"
            /\ \/ /\ \E pc \in CPc \ {"none", "start", "pts", "check", "stdio", "main"} :
                         cpc' = [cpc EXCEPT ![c] = pc]
                  /\ \A k \in Clients : k # c => att'[k] = att[k]
               \/ /\ cpc[c] \in {"start", "pts", "check", "stdio"}
                  /\ \E pc \in CPc \ {"none", "start", "pts"} : cpc' = [cpc EXCEPT ![c] = pc]
                  /\ \A k \in Clients : k # c => att'[k] = att[k]
               \/ /\ cpc[c] = "start" /\ cpc' = [cpc EXCEPT ![c] = "pts"] /\ UNCHANGED att
        BY ONLY Zenon, <1>1, <1>4, <2>2 DEF CAct, CStep, close_C, open_pts, check_pts, run_daemon_child, wait_G, kill_C,
           CGoto, CDie, CPc
      <3>. QED  BY ONLY Zenon, <1>1, <1>4, <3>1, Tree DEF Tree
    <2>. QED  BY ONLY Zenon, <2>1, <2>2
  <1>5. ASSUME NEW c \in Clients, GAct(c) \/ XStep(c), UNCHANGED cVars PROVE Tree'
    BY ONLY <1>1, <1>5, Tree DEF Tree, GAct, GStep, XStep, su_main_options, allow_fork, log_G,
       allow_wait, kill_G, execvp, command_ends, GGoto, GDie, XDie
  <1>. QED  BY <1>2, <1>3, <1>4, <1>5, TreeFrame

\* A session goes on only with a terminal of its caller's uid.
LEMMA PtyOwnedStep ==
    ASSUME TypeOK, Receiving, Decoding, Tree, PtyOwned, [Next]_vars
    PROVE  PtyOwned'
  <1> USE DEF gVars, xVars, cVars
  <1> DEFINE Goes(k) == cpc[k] \in {"stdio", "main", "wait"} \/ gpc[k] # "none"
             Own(k) == att[k] # None => req[att[k]].uid = req[k].uid
  <1>1. /\ cpc \in [Clients -> CPc] /\ gpc \in [Clients -> GPc]
        /\ att \in [Clients -> Clients \cup {None}]
    BY Zenon DEF TypeOK, CType, GType
  <1>2. UNCHANGED req
    BY WireFrame
  <1>3. \A k \in Clients : Goes(k) => Own(k)
    BY Zenon DEF PtyOwned
  <1>4. SUFFICES \A k \in Clients : Goes(k)' => Own(k)'
    BY Zenon DEF PtyOwned
  <1>5. ASSUME NEW k \in Clients, Goes(k)' => Goes(k), att'[k] = att[k] PROVE Goes(k)' => Own(k)'
    BY ONLY Zenon, <1>2, <1>3, <1>5
  <1>6. CASE UNCHANGED <<cVars, gVars, xVars>>
    BY ONLY Zenon, <1>5, <1>6
  <1>7. ASSUME NEW c \in Clients, SRest(c), UNCHANGED <<gVars, att>> PROVE \A k \in Clients : Goes(k)' => Own(k)'
    <2>1. UNCHANGED cpc \/ cpc' = [cpc EXCEPT ![c] = "start"]
      BY Zenon, <1>7, SRestMoves
    <2>2. \A k \in Clients : Goes(k)' => Goes(k)
      BY ONLY Zenon, <1>1, <1>7, <2>1
    <2>. QED  BY ONLY Zenon, <1>5, <1>7, <2>2
  <1>8. ASSUME NEW c \in Clients, CAct(c) PROVE \A k \in Clients : Goes(k)' => Own(k)'
    <2>1. \A k \in Clients : k # c => cpc'[k] = cpc[k] /\ gpc'[k] = gpc[k] /\ att'[k] = att[k]
      BY ONLY Zenon, <1>1, <1>8, c \in Clients DEF CAct, CStep, close_C, open_pts, check_pts,
         run_daemon_child, su_main_daemon, wait_G, kill_C, CGoto, CDie
    <2>2. ASSUME NEW k \in Clients, k # c PROVE Goes(k)' => Own(k)'
      BY ONLY Zenon, <1>5, <2>1, <2>2
    <2>3. Goes(c)' => Own(c)'
      <3>1. CASE close_C(c) \/ kill_C(c)
        <4>1. UNCHANGED <<att, gpc>> /\ cpc'[c] \in {"pts", "dead"}
          BY ONLY Zenon, <1>1, <3>1, c \in Clients DEF close_C, kill_C, CGoto, CDie
        <4>. QED  BY ONLY Zenon, <1>5, <4>1, c \in Clients
      <3>2. CASE open_pts(c)
        <4>1. /\ cpc[c] = "pts" /\ UNCHANGED gpc
              /\ cpc'[c] \in {"check", "dead"} \/ (cpc'[c] = "stdio" /\ UNCHANGED att)
          BY ONLY Zenon, <1>1, <3>2, c \in Clients DEF open_pts, CGoto, CDie
        <4>2. gpc[c] = "none" /\ att[c] = None
          BY ONLY Zenon, <4>1, Tree, c \in Clients DEF Tree
        <4>. QED  BY ONLY Zenon, <4>1, <4>2
      <3>3. CASE check_pts(c)
        <4>1. /\ cpc[c] = "check" /\ UNCHANGED <<gpc, att>>
              /\ cpc'[c] = "dead" \/ OwnsPty(c, att[c])
          BY ONLY Zenon, <1>1, <3>3, c \in Clients DEF check_pts, CGoto, CDie
        <4>2. gpc[c] = "none"
          BY ONLY Zenon, <4>1, Tree, c \in Clients DEF Tree
        <4>3. dec[c].uid = req[c].uid
          <5>1. dec[c].argc \in Nat
            BY DEF TypeOK, SType, Decoded
          <5>2. rcvd[c] = 8 + dec[c].argc
            BY Zenon, <4>1 DEF Receiving, HeaderLen
          <5>3. rcvd[c] >= 3
            BY ONLY <5>1, <5>2
          <5>. QED  BY Zenon, <5>3 DEF Decoding
        <4>4. OwnsPty(c, att[c]) => req[att[c]].uid = req[c].uid
          BY ONLY Zenon, <4>3 DEF OwnsPty
        <4>. QED  BY ONLY Zenon, <1>2, <4>1, <4>2, <4>4
      <3>4. CASE run_daemon_child(c) \/ su_main_daemon(c) \/ wait_G(c)
        <4>1. cpc[c] \in {"stdio", "main", "wait"} /\ UNCHANGED att
          BY ONLY Zenon, <3>4 DEF run_daemon_child, su_main_daemon, wait_G
        <4>. QED  BY ONLY Zenon, <1>5, <4>1, c \in Clients
      <3>. QED  BY ONLY Zenon, <1>8, <3>1, <3>2, <3>3, <3>4 DEF CAct, CStep
    <2>. QED  BY ONLY Zenon, <2>2, <2>3
  <1>9. ASSUME NEW c \in Clients, GAct(c) \/ XStep(c), UNCHANGED cVars
        PROVE  \A k \in Clients : Goes(k)' => Own(k)'
    <2>1. UNCHANGED gpc \/ (gpc[c] # "none" /\ \A k \in Clients : k # c => gpc'[k] = gpc[k])
      BY ONLY Zenon, <1>1, <1>9, c \in Clients DEF GAct, GStep, XStep, su_main_options, allow_fork,
         log_G, allow_wait, kill_G, execvp, command_ends, GGoto, GDie
    <2>2. \A k \in Clients : Goes(k)' => Goes(k)
      BY ONLY Zenon, <1>9, <2>1
    <2>. QED  BY ONLY Zenon, <1>5, <1>9, <2>2
  <1>. QED  BY Zenon, <1>6, <1>7, <1>8, <1>9, TreeFrame

\* S has the whole request before it acknowledges, so that K has begun to send.
LEMMA AckedClient ==
    ASSUME TypeOK, Sending, Receiving, NEW c \in Clients, spc[c] = "ack"
    PROVE  /\ kpc[c] \notin {"start", "connect", "pts", "local", "refused", "nopts"}
           /\ cpc[c] = "none"
  <1>1. rcvd[c] = 8 + dec[c].argc /\ cpc[c] = "none"
    BY DEF Receiving, HeaderLen
  <1>2. dec[c].argc \in Nat
    BY DEF TypeOK, SType, Decoded
  <1>3. rcvd[c] <= sent[c] /\ sent[c] \in Nat
    BY Zenon DEF Sending, TypeOK, KType
  <1>4. sent[c] # 0
    BY ONLY <1>1, <1>2, <1>3
  <1>. QED  BY Zenon, <1>1, <1>4 DEF Sending

\* AckFirst, of one client.
AckFirstOf(c) ==
    /\ spc[c] \in {"fork", "log", "wait", "waitlog"} \/ cpc[c] # "none" =>
          /\ kpc[c] \notin {"start", "connect", "pts", "local", "refused", "nopts"}
          /\ kpc[c] \in {"send", "ack", "sigpipe", "noack", "cut"} =>
                down[c] # <<>> \/ SharesStdin(c)
    /\ kpc[c] \in {"start", "connect", "pts"} => down[c] = <<>>
    /\ kpc[c] \in {"pump", "code", "exited"} \/ down[c] # <<>> =>
          spc[c] \in {"fork", "log", "wait", "waitlog", "dead"}

\* AckFirst is about one client at a time.
LEMMA AckFirstByClient ==
    /\ AckFirst <=> \A c \in Clients : AckFirstOf(c)
    /\ AckFirst' <=> \A c \in Clients : AckFirstOf(c)'
  BY Zenon DEF AckFirst, AckFirstOf, Acked

\* What S writes is there to be read.
LEMMA Written ==
    ASSUME TypeOK, NEW c \in Clients, NEW v, Write(c, v)
    PROVE  /\ down' \in [Clients -> Seq(Int \cup {v})]
           /\ KOpen(c) => down'[c] = Append(down[c], v) /\ down'[c] # <<>>
           /\ ~KOpen(c) => UNCHANGED down
           /\ \A k \in Clients : k # c => down'[k] = down[k]
  <1>1. down \in [Clients -> Seq(Int)]
    BY DEF TypeOK
  <1>2. down[c] \in Seq(Int)
    BY <1>1
  <1>3. Append(down[c], v) # <<>> /\ Append(down[c], v) \in Seq(Int \cup {v})
    <2>1. down[c] \in Seq(Int \cup {v})
      BY <1>2
    <2>. QED  BY ONLY <2>1
  <1>4. \A q \in Seq(Int) : q \in Seq(Int \cup {v})
    OBVIOUS
  <1>. QED  BY ONLY Zenon, <1>1, <1>3, <1>4, Write(c, v), c \in Clients DEF Write

\* The acknowledgement comes before everything else S does for the client.
LEMMA AckFirstStep ==
    ASSUME TypeOK, Once, Sending, Receiving, Tree, AckFirst, [Next]_vars
    PROVE  AckFirst'
  <1> USE DEF kVars, sVars, hVars, dVars, xVars, gVars, cVars, fVars
  <1>1. kpc \in [Clients -> KPc] /\ spc \in [Clients -> SPc] /\ cpc \in [Clients -> CPc]
    BY Zenon DEF TypeOK, KType, SType, CType
  <1>2. \A k \in Clients : AckFirstOf(k)
    BY AckFirstByClient
  <1>3. SUFFICES \A k \in Clients : AckFirstOf(k)'
    BY AckFirstByClient
  <1>0. \A k \in Clients : SharesStdin(k)' <=> SharesStdin(k)
    BY Zenon, SharesKept
  <1>4. CASE UNCHANGED <<kpc, spc, cpc, down>>
    BY ONLY Zenon, <1>0, <1>2, <1>4 DEF AckFirstOf
  <1>5. ASSUME NEW c \in Clients, KAct(c) PROVE \A k \in Clients : AckFirstOf(k)'
    <2>1. UNCHANGED <<spc, cpc>>
      BY <1>5, KFrame DEF KOnly
    <2>2. CASE su_main_client(c) \/ connect(c) \/ pts_open(c)
      <3>1. /\ kpc[c] \in {"start", "connect", "pts"} /\ UNCHANGED down
            /\ \E pc \in KPc \ {"pump", "code", "exited"} : kpc' = [kpc EXCEPT ![c] = pc]
        BY ONLY Zenon, <2>2 DEF su_main_client, connect, pts_open, KGoto, KEnd, KPc
      <3>. QED  BY ONLY <1>0, <1>1, <1>2, <2>1, <3>1, c \in Clients DEF AckFirstOf
    <2>3. CASE \/ send(c) \/ pump_stdout_blocking(c) \/ pump_stdout_ends(c) \/ pump_stdin_ends(c)
               \/ kill_K(c)
      <3>1. /\ UNCHANGED down
            /\ \/ UNCHANGED kpc
               \/ /\ kpc[c] = "send"
                  /\ \E pc \in {"send", "ack", "sigpipe"} : kpc' = [kpc EXCEPT ![c] = pc]
               \/ kpc[c] = "pump" /\ kpc' = [kpc EXCEPT ![c] = "code"]
               \/ kpc[c] \in {"pump", "code"} /\ kpc' = [kpc EXCEPT ![c] = "killed"]
               \/ /\ kpc[c] \in KPc \ ({"pump", "code"} \cup KEnded)
                  /\ kpc' = [kpc EXCEPT ![c] = "cut"]
        BY ONLY Zenon, <1>1, <2>3, c \in Clients
           DEF send, pump_stdout_blocking, pump_stdout_ends, PumpEnds, pump_stdin_ends, kill_K, KGoto,
               KEnd, Ended
      <3>. QED  BY ONLY <1>0, <1>1, <1>2, <2>1, <3>1, c \in Clients DEF AckFirstOf, KPc, KEnded
    <2>4. CASE read_ack(c) \/ read_code(c)
      <3>1. \A k \in Clients : k # c => down'[k] = down[k]
        BY Zenon, <2>4 DEF read_ack, read_code, TypeOK
      <3>2. \/ /\ down[c] = <<>> /\ UNCHANGED down /\ kpc[c] = "ack"
               /\ kpc' = [kpc EXCEPT ![c] = "noack"]
            \/ down[c] = <<>> /\ UNCHANGED down /\ kpc' = [kpc EXCEPT ![c] = "nocode"]
            \/ /\ down[c] # <<>>
               /\ \E pc \in {"pump", "code", "exited"} : kpc' = [kpc EXCEPT ![c] = pc]
        BY Zenon, <2>4 DEF read_ack, read_code, KGoto, KEnd
      <3>. QED  BY ONLY <1>0, <1>1, <1>2, <2>1, <3>1, <3>2, c \in Clients DEF AckFirstOf
    <2>. QED  BY Zenon, <1>5, <2>2, <2>3, <2>4 DEF KAct, KStep
  <1>6. ASSUME NEW c \in Clients, IStep(c) PROVE \A k \in Clients : AckFirstOf(k)'
    <2>1. UNCHANGED <<kpc, cpc, down>>
      BY Zenon, <1>6 DEF IStep, fork_zero_fucks_child, exit_I, DOnly
    <2>2. UNCHANGED spc \/ (spc[c] = "none" /\ spc' = [spc EXCEPT ![c] = "start"])
      BY <1>6, StartedOnce
    <2>. QED  BY ONLY Zenon, <1>0, <1>1, <1>2, <2>1, <2>2, c \in Clients DEF AckFirstOf
  <1>7. ASSUME NEW c \in Clients, SRead(c) PROVE \A k \in Clients : AckFirstOf(k)'
    <2>1. UNCHANGED <<kpc, cpc, down>>
      BY <1>7, SReadFrame DEF SOnly
    <2>2. /\ spc[c] \in Reading
          /\ \E pc \in Reading \cup {"ack", "dead"} : spc' = [spc EXCEPT ![c] = pc]
      BY ONLY Zenon, <1>7 DEF SRead, Recv, read_pid, read_pts_slave, read_from_pid, read_mount_storage,
         recv_fd, read_argc, read_arg, SGoto, SDie, After, Streams, Reading
    <2>. QED  BY ONLY <1>0, <1>1, <1>2, <2>1, <2>2, c \in Clients DEF AckFirstOf, Reading
  <1>8. ASSUME NEW c \in Clients, SRest(c) PROVE \A k \in Clients : AckFirstOf(k)'
    <2>1. UNCHANGED kpc
      BY Zenon, <1>8, SRestFrame DEF SOnly
    <2>2. CASE close_listener(c) \/ read_eof(c) \/ log_S(c) \/ kill_S(c)
      <3>1. /\ UNCHANGED <<cpc, down>>
            /\ \/ spc[c] = "start" /\ spc' = [spc EXCEPT ![c] = "pid"]
               \/ spc[c] # "none" /\ spc' = [spc EXCEPT ![c] = "dead"]
               \/ /\ spc[c] = "log"
                  /\ spc' = [spc EXCEPT ![c] = "wait"] \/ spc' = [spc EXCEPT ![c] = "waitlog"]
        BY ONLY Zenon, <2>2 DEF close_listener, read_eof, log_S, kill_S, SGoto, SDie, Reading, cVars
      <3>. QED  BY ONLY <1>0, <1>1, <1>2, <2>1, <3>1, c \in Clients DEF AckFirstOf
    <2>3. CASE ack(c)
      <3>1. /\ kpc[c] \notin {"start", "connect", "pts", "local", "refused", "nopts"}
            /\ spc[c] = "ack" /\ cpc[c] = "none"
        BY Zenon, <2>3, AckedClient DEF ack
      <3>2. /\ KOpen(c) => down'[c] # <<>> /\ spc' = [spc EXCEPT ![c] = "fork"]
            /\ ~KOpen(c) => UNCHANGED down /\ spc' = [spc EXCEPT ![c] = "dead"]
            /\ \A k \in Clients : k # c => down'[k] = down[k]
            /\ UNCHANGED cpc
        BY Zenon, <2>3, Written DEF ack, SGoto, SDie
      <3>. QED  BY ONLY <1>0, <1>1, <1>2, <2>1, <3>1, <3>2, c \in Clients DEF AckFirstOf
    <2>4. CASE fork_C(c) \/ send_code(c)
      <3>1. \A k \in Clients : down'[k] = down[k] \/ (k = c /\ down'[k] # <<>>)
        BY Zenon, <2>4, Written DEF fork_C, send_code
      <3>2. /\ spc[c] \in {"fork", "wait", "waitlog"}
            /\ spc' = [spc EXCEPT ![c] = "log"] \/ spc' = [spc EXCEPT ![c] = "dead"]
            /\ \A k \in Clients : k # c => cpc'[k] = cpc[k]
        BY Zenon, <1>1, <2>4 DEF fork_C, send_code, SDie
      <3>. QED  BY ONLY <1>0, <1>1, <1>2, <2>1, <3>1, <3>2, c \in Clients DEF AckFirstOf
    <2>. QED  BY <1>8, <2>2, <2>3, <2>4 DEF SRest
  <1>9. ASSUME NEW c \in Clients, CAct(c) PROVE \A k \in Clients : AckFirstOf(k)'
    <2>1. UNCHANGED <<kpc, spc, down>>
      BY Zenon, <1>9, CFrame DEF COnly
    <2>2. cpc[c] # "none" /\ \E pc \in CPc \ {"none"} : cpc' = [cpc EXCEPT ![c] = pc]
      BY <1>9, StartedOnce
    <2>. QED  BY ONLY Zenon, <1>0, <1>1, <1>2, <2>1, <2>2, c \in Clients DEF AckFirstOf
  <1>10. ASSUME NEW c \in Clients, DStep(c) \/ GAct(c) \/ XStep(c)
         PROVE  UNCHANGED <<kpc, spc, cpc, down>>
    <2>1. DStep(c) => UNCHANGED <<kpc, spc, cpc, down>>
      BY Zenon DEF DStep, accept, fork_zero_fucks, waitpid_I, close_client, DOnly
    <2>. QED  BY Zenon, <1>10, <2>1, GFrame DEF GOnly
  <1>11. daemon_exits \/ UNCHANGED vars => UNCHANGED <<kpc, spc, cpc, down>>
    BY Zenon DEF daemon_exits, DOnly, vars
  <1>12. ASSUME NEW c \in Clients, command_reads(c) PROVE \A k \in Clients : AckFirstOf(k)'
    <2>1. /\ xpc[c] = "run" /\ SharesStdin(c) /\ down[c] # <<>> /\ UNCHANGED <<kpc, spc, cpc>>
          /\ \A k \in Clients : k # c => down'[k] = down[k]
      BY Zenon, <1>12, ReadsFrame DEF TypeOK
    <2>2. cpc[c] # "none"
      BY Zenon, <2>1 DEF Tree
    <2>3. ASSUME NEW k \in Clients, k # c PROVE AckFirstOf(k)'
      BY ONLY Zenon, <1>0, <1>2, <2>1, <2>3 DEF AckFirstOf
    <2>4. AckFirstOf(c)'
      BY ONLY Zenon, <1>0, <1>2, <2>1, <2>2, c \in Clients DEF AckFirstOf
    <2>. QED  BY ONLY Zenon, <2>3, <2>4
  <1>. QED  BY Zenon, <1>4, <1>5, <1>6, <1>7, <1>8, <1>9, <1>10, <1>11, <1>12, NextCases

-----------------------------------------------------------------------------
(* The status on its way back. *)

\* exit(n) reaches the parent as n's low byte.
LEMMA ExitByte ==
    ASSUME NEW n \in Int
    PROVE  WEXITSTATUS(Exit(n)) = n % 256 /\ Exit(n) \in Nat /\ WEXITSTATUS(n) \in 0 .. 255
  BY DEF WEXITSTATUS, Exit

\* A client once hurt stays so.
LEMMA HurtGrows ==
    ASSUME [Next]_vars
    PROVE  \A k \in Clients : k \notin hurt' => k \notin hurt
  <1>1. CASE UNCHANGED vars
    BY <1>1 DEF vars, fVars
  <1>2. CASE daemon_exits
    BY <1>2 DEF daemon_exits
  <1>3. ASSUME NEW c \in Clients, NoFault \/ Fault(c)
        PROVE  \A k \in Clients : k \notin hurt' => k \notin hurt
    BY <1>3 DEF NoFault, Fault, fVars
  <1>4. ASSUME NEW c \in Clients, DStep(c) \/ IStep(c) PROVE NoFault \/ Fault(c)
    BY Zenon, <1>4 DEF DStep, accept, fork_zero_fucks, waitpid_I, close_client, IStep,
       fork_zero_fucks_child, exit_I
  <1>5. ASSUME NEW c \in Clients, command_reads(c) PROVE NoFault
    BY Zenon, <1>5 DEF command_reads
  <1>. QED  BY Zenon, <1>1, <1>2, <1>3, <1>4, <1>5, NextCases, KFrame, SReadFrame, SRestFrame, CFrame, GFrame

\* Statuses, of one client: what the parents of the session have, and what K has.
TreeStatus(c) ==
    /\ gpc[c] # "waitlog" /\ spc[c] # "waitlog"
    /\ gpc[c] = "dead" => xpc[c] \in {"none", "dead"}
    /\ gpc[c] = "dead" /\ xpc[c] = "dead" => gst[c] = Exit(xst[c])
    /\ xpc[c] # "none" => gpc[c] \in {"log", "wait", "dead"}
    /\ cpc[c] = "dead" => gpc[c] \in {"none", "dead"}
    /\ cpc[c] = "dead" /\ gpc[c] = "dead" => cst[c] = Exit(WEXITSTATUS(gst[c]))

WireStatus(c) ==
    /\ spc[c] \in {"fork", "log", "wait", "waitlog"} /\ kpc[c] \in {"send", "ack"} =>
          down[c] = <<1>> \/ (SharesStdin(c) /\ down[c] = <<>>)
    /\ spc[c] \in {"fork", "log", "wait", "waitlog"} /\ kpc[c] \in {"pump", "code"} =>
          down[c] = <<>>
    /\ spc[c] = "dead" /\ kpc[c] \in {"send", "ack"} =>
          \/ down[c] = <<>>
          \/ cpc[c] = "dead" /\ down[c] = <<1, WEXITSTATUS(cst[c])>>
          \/ cpc[c] = "dead" /\ SharesStdin(c) /\ down[c] = <<WEXITSTATUS(cst[c])>>
    /\ spc[c] = "dead" /\ kpc[c] \in {"pump", "code"} =>
          /\ cpc[c] = "dead"
          /\ down[c] = <<WEXITSTATUS(cst[c])>> \/ (SharesStdin(c) /\ down[c] = <<>>)
    /\ kpc[c] = "exited" => cpc[c] = "dead" /\ kst[c] = Exit(WEXITSTATUS(cst[c]))

\* A step that touches nothing of a client keeps what its processes know of each other.
LEMMA TreeKept ==
    ASSUME NEW k, TreeStatus(k), spc'[k] = spc[k], cpc'[k] = cpc[k], cst'[k] = cst[k],
           gpc'[k] = gpc[k], gst'[k] = gst[k], xpc'[k] = xpc[k], xst'[k] = xst[k]
    PROVE  TreeStatus(k)'
  BY ONLY Zenon, TreeStatus(k), spc'[k] = spc[k], cpc'[k] = cpc[k], cst'[k] = cst[k],
     gpc'[k] = gpc[k], gst'[k] = gst[k], xpc'[k] = xpc[k], xst'[k] = xst[k] DEF TreeStatus

\* A step that touches nothing of a client keeps what is on its socket.
LEMMA WireKept ==
    ASSUME NEW k, WireStatus(k), spc'[k] = spc[k], cpc'[k] = cpc[k], cst'[k] = cst[k],
           kpc'[k] = kpc[k], kst'[k] = kst[k], down'[k] = down[k], SharesStdin(k)' <=> SharesStdin(k)
    PROVE  WireStatus(k)'
  BY ONLY Zenon, WireStatus(k), spc'[k] = spc[k], cpc'[k] = cpc[k], cst'[k] = cst[k],
     kpc'[k] = kpc[k], kst'[k] = kst[k], down'[k] = down[k], SharesStdin(k)' <=> SharesStdin(k)
     DEF WireStatus

\* Statuses is about one client at a time; a client that met a fault is exempt.
LEMMA StatusesByClient ==
    /\ Statuses <=> \A c \in Clients : c \notin hurt => TreeStatus(c) /\ WireStatus(c)
    /\ Statuses' <=> \A c \in Clients : c \notin hurt' => TreeStatus(c)' /\ WireStatus(c)'
  <1>1. Statuses <=> \A c \in Clients : c \notin hurt => TreeStatus(c) /\ WireStatus(c)
    BY ONLY Zenon DEF Statuses, TreeStatus, WireStatus, Acked, Code
  <1>2. Statuses' <=> \A c \in Clients : c \notin hurt' => TreeStatus(c)' /\ WireStatus(c)'
    BY ONLY Zenon DEF Statuses, TreeStatus, WireStatus, Acked, Code
  <1>. QED  BY Zenon, <1>1, <1>2

\* In a session without faults every parent has its child's status.
LEMMA TreeStatusStep ==
    ASSUME TypeOK, Once, Tree, Receiving, Statuses, [Next]_vars
    PROVE  \A k \in Clients : k \notin hurt' => TreeStatus(k)'
  <1> USE DEF kVars, sVars, hVars, dVars, xVars, gVars, cVars, fVars
  <1>1. /\ spc \in [Clients -> SPc] /\ cpc \in [Clients -> CPc] /\ cst \in [Clients -> Int]
        /\ gpc \in [Clients -> GPc] /\ gst \in [Clients -> Int]
        /\ xpc \in [Clients -> XPc] /\ xst \in [Clients -> Int]
    BY Zenon DEF TypeOK, SType, CType, GType, XType
  <1>2. \A k \in Clients : k \notin hurt' => TreeStatus(k)
    BY StatusesByClient, HurtGrows
  <1>3. CASE UNCHANGED <<cVars, gVars, xVars>>
    <2>1. \A k \in Clients : k \notin hurt' => spc'[k] # "waitlog"
      <3>1. CASE UNCHANGED spc
        BY Zenon, <1>2, <3>1 DEF TreeStatus
      <3>2. ASSUME NEW c \in Clients, IStep(c)
            PROVE  \A k \in Clients : k \notin hurt' => spc'[k] # "waitlog"
        BY Zenon, <1>1, <1>2, <3>2, StartedOnce DEF TreeStatus
      <3>3. ASSUME NEW c \in Clients, SRead(c)
            PROVE  \A k \in Clients : k \notin hurt' => spc'[k] # "waitlog"
        <4>1. \E pc \in Reading \cup {"ack", "dead"} : spc' = [spc EXCEPT ![c] = pc]
          BY ONLY Zenon, <3>3 DEF SRead, Recv, read_pid, read_pts_slave, read_from_pid,
             read_mount_storage, recv_fd, read_argc, read_arg, SGoto, SDie, After, Streams, Reading
        <4>. QED  BY ONLY Zenon, <1>1, <1>2, <4>1, c \in Clients DEF TreeStatus, Reading
      <3>4. ASSUME NEW c \in Clients, SRest(c)
            PROVE  \A k \in Clients : k \notin hurt' => spc'[k] # "waitlog"
        <4>1. (\E pc \in SPc \ {"waitlog"} : spc' = [spc EXCEPT ![c] = pc]) \/ c \in hurt'
          BY ONLY Zenon, <3>4 DEF SRest, close_listener, read_eof, ack, fork_C, log_S, send_code, kill_S,
             SGoto, SDie, SPc, Fault
        <4>2. \A k \in Clients : k # c => spc'[k] = spc[k]
          BY <1>1, <3>4, SRestMoves
        <4>. QED  BY ONLY Zenon, <1>1, <1>2, <4>1, <4>2, c \in Clients DEF TreeStatus
      <3>. QED  BY Zenon, <3>1, <3>2, <3>3, <3>4, SessionFrame
    <2>. QED  BY Zenon, <1>2, <1>3, <2>1 DEF TreeStatus
  <1>4. ASSUME NEW c \in Clients, SRest(c), UNCHANGED <<gVars, xVars, cst>>
        PROVE  \A k \in Clients : k \notin hurt' => TreeStatus(k)'
    <2>1. (\E pc \in SPc \ {"waitlog"} : spc' = [spc EXCEPT ![c] = pc]) \/ c \in hurt'
      BY ONLY Zenon, <1>4 DEF SRest, close_listener, read_eof, ack, fork_C, log_S, send_code, kill_S,
         SGoto, SDie, SPc, Fault
    <2>2. \A k \in Clients : k # c => spc'[k] = spc[k] /\ cpc'[k] = cpc[k]
      BY <1>1, <1>4, SRestMoves
    <2>3. cpc'[c] = cpc[c] \/ cpc'[c] = "start"
      BY Zenon, <1>1, <1>4, SRestMoves
    <2>. QED  BY ONLY <1>1, <1>2, <1>4, <2>1, <2>2, <2>3, c \in Clients DEF TreeStatus
  <1>5. ASSUME NEW c \in Clients, CAct(c), UNCHANGED xVars
        PROVE  \A k \in Clients : k \notin hurt' => TreeStatus(k)'
    <2>1. UNCHANGED spc
      BY Zenon, <1>5, CFrame DEF COnly
    <2>2. \A k \in Clients : k # c =>
              cpc'[k] = cpc[k] /\ cst'[k] = cst[k] /\ gpc'[k] = gpc[k] /\ gst'[k] = gst[k]
      BY ONLY Zenon, <1>1, <1>5, c \in Clients DEF CAct, CStep, close_C, open_pts, check_pts, run_daemon_child,
         su_main_daemon, wait_G, kill_C, CGoto, CDie
    <2>3. ASSUME NEW k \in Clients, k # c, k \notin hurt' PROVE TreeStatus(k)'
      BY ONLY Zenon, <1>2, <1>5, <2>1, <2>2, <2>3, TreeKept
    <2>4. ASSUME c \notin hurt' PROVE TreeStatus(c)'
      <3>1. TreeStatus(c)
        BY Zenon, <1>2, <2>4
      <3>2. CASE close_C(c) \/ open_pts(c) \/ check_pts(c) \/ run_daemon_child(c)
        <4>1. cpc[c] \in {"start", "pts", "check", "stdio"} /\ UNCHANGED gVars
          BY ONLY Zenon, <3>2 DEF close_C, open_pts, check_pts, run_daemon_child
        <4>2. gpc[c] = "none"
          BY ONLY Zenon, <4>1, Tree, c \in Clients DEF Tree
        <4>. QED  BY ONLY Zenon, <1>5, <2>1, <3>1, <4>1, <4>2 DEF TreeStatus
      <3>3. CASE su_main_daemon(c)
        <4>1. gpc[c] = "none" /\ xpc[c] = "none"
          BY ONLY Zenon, <3>3, Tree, c \in Clients DEF Tree, su_main_daemon
        <4>2. (gpc'[c] = gpc[c] /\ gst'[c] = gst[c]) \/ (gpc'[c] = "main" /\ cpc'[c] = "wait")
          BY ONLY Zenon, <1>1, <3>3, c \in Clients DEF su_main_daemon, CGoto
        <4>. QED  BY ONLY Zenon, <1>5, <2>1, <3>1, <4>1, <4>2 DEF TreeStatus
      <3>4. CASE wait_G(c)
        <4>1. gpc[c] = "dead" /\ cst'[c] = Exit(WEXITSTATUS(gst[c])) /\ UNCHANGED gVars
          BY ONLY Zenon, <1>1, <3>4, c \in Clients DEF wait_G, CDie
        <4>. QED  BY ONLY Zenon, <1>5, <2>1, <3>1, <4>1 DEF TreeStatus
      <3>5. CASE kill_C(c)
        BY ONLY Zenon, <2>4, <3>5 DEF kill_C, Fault
      <3>. QED  BY Zenon, <1>5, <3>2, <3>3, <3>4, <3>5 DEF CAct, CStep
    <2>. QED  BY ONLY Zenon, <2>3, <2>4
  <1>6. ASSUME NEW c \in Clients, GAct(c) \/ XStep(c), UNCHANGED cVars
        PROVE  \A k \in Clients : k \notin hurt' => TreeStatus(k)'
    <2>1. UNCHANGED spc
      BY Zenon, <1>6, GFrame DEF GOnly
    <2>2. \A k \in Clients : k # c =>
              gpc'[k] = gpc[k] /\ gst'[k] = gst[k] /\ xpc'[k] = xpc[k] /\ xst'[k] = xst[k]
      BY ONLY Zenon, <1>1, <1>6, c \in Clients DEF GAct, GStep, XStep, su_main_options, allow_fork, log_G,
         allow_wait, kill_G, execvp, command_ends, GGoto, GDie, XDie
    <2>3. ASSUME NEW k \in Clients, k # c, k \notin hurt' PROVE TreeStatus(k)'
      BY ONLY Zenon, <1>2, <1>6, <2>1, <2>2, <2>3, TreeKept
    <2>4. ASSUME c \notin hurt' PROVE TreeStatus(c)'
      <3>1. TreeStatus(c)
        BY Zenon, <1>2, <2>4
      <3>2. CASE su_main_options(c)
        <4>1. gpc[c] = "main" /\ xpc[c] = "none" /\ cpc[c] # "dead" /\ UNCHANGED xVars
          BY ONLY Zenon, <3>1, <3>2, Tree, c \in Clients DEF Tree, TreeStatus, su_main_options
        <4>2. gpc'[c] \in {"fork", "dead"}
          BY ONLY Zenon, <1>1, <3>2, c \in Clients DEF su_main_options, GGoto, GDie
        <4>. QED  BY ONLY Zenon, <1>6, <2>1, <3>1, <4>1, <4>2 DEF TreeStatus
      <3>3. CASE allow_fork(c)
        <4>1. gpc[c] = "fork" /\ cpc[c] # "dead"
          BY ONLY Zenon, <3>1, <3>3 DEF TreeStatus, allow_fork
        <4>2. gpc'[c] = "log"
          BY ONLY Zenon, <1>1, <2>4, <3>3, c \in Clients DEF allow_fork, GGoto, Fault
        <4>. QED  BY ONLY Zenon, <1>6, <2>1, <3>1, <4>1, <4>2 DEF TreeStatus
      <3>4. CASE log_G(c)
        <4>1. gpc[c] = "log" /\ cpc[c] # "dead" /\ UNCHANGED xVars
          BY ONLY Zenon, <3>1, <3>4 DEF TreeStatus, log_G
        <4>2. gpc'[c] = "wait"
          BY ONLY Zenon, <1>1, <2>4, <3>4, c \in Clients DEF log_G, GGoto, Fault
        <4>. QED  BY ONLY Zenon, <1>6, <2>1, <3>1, <4>1, <4>2 DEF TreeStatus
      <3>5. CASE allow_wait(c)
        <4>1. gpc[c] = "wait" /\ cpc[c] # "dead" /\ UNCHANGED xVars
          BY ONLY Zenon, <3>1, <3>5 DEF TreeStatus, allow_wait
        <4>2. gpc'[c] = "dead" /\ xpc[c] = "dead" /\ gst'[c] = Exit(xst[c])
          BY ONLY Zenon, <1>1, <2>4, <3>1, <3>5, <4>1, c \in Clients DEF TreeStatus, allow_wait, GDie
        <4>. QED  BY ONLY Zenon, <1>6, <2>1, <3>1, <4>1, <4>2 DEF TreeStatus
      <3>6. CASE kill_G(c)
        BY ONLY Zenon, <2>4, <3>6 DEF kill_G, Fault
      <3>7. CASE XStep(c)
        <4>1. xpc[c] \notin {"none", "dead"} /\ xpc'[c] # "none" /\ UNCHANGED gVars
          BY ONLY Zenon, <1>1, <3>7, c \in Clients DEF XStep, execvp, command_ends, XDie
        <4>2. gpc[c] # "dead"
          BY ONLY Zenon, <3>1, <4>1 DEF TreeStatus
        <4>. QED  BY ONLY Zenon, <1>6, <2>1, <3>1, <4>1, <4>2 DEF TreeStatus
      <3>. QED  BY Zenon, <1>6, <3>2, <3>3, <3>4, <3>5, <3>6, <3>7 DEF GAct, GStep
    <2>. QED  BY ONLY Zenon, <2>3, <2>4
  <1>. QED  BY Zenon, <1>3, <1>4, <1>5, <1>6, TreeFrame

-----------------------------------------------------------------------------
(* The status on the socket. *)

\* Sequences of at most two integers.
LEMMA ShortQueues ==
    ASSUME NEW x \in Int
    PROVE  /\ Append(<<>>, x) = <<x>> /\ Append(<<1>>, x) = <<1, x>>
           /\ Tail(<<x>>) = <<>> /\ Tail(<<1, x>>) = <<x>> /\ Head(<<x>>) = x
           /\ <<x>> # <<>> /\ <<1, x>> # <<>> /\ <<1>> # <<>> /\ Tail(<<1>>) = <<>>
  <1>1. Append(<<>>, x) = <<x>>
    OBVIOUS
  <1>2. Append(<<1>>, x) = <<1, x>>
    <2> DEFINE a == Append(<<1>>, x)
               b == <<1, x>>
    <2>1. <<1>> \in Seq(Int) /\ Len(<<1>>) = 1 /\ <<1>>[1] = 1
      OBVIOUS
    <2>2. a \in Seq(Int) /\ Len(a) = 2 /\ a[1] = 1 /\ a[2] = x
      BY <2>1
    <2>3. b \in Seq(Int) /\ Len(b) = 2 /\ b[1] = 1 /\ b[2] = x
      OBVIOUS
    <2> HIDE DEF a, b
    <2>4. \A i \in 1 .. 2 : a[i] = b[i]
      BY <2>2, <2>3
    <2>5. a = b
      BY <2>2, <2>3, <2>4
    <2>. QED  BY <2>5 DEF a, b
  <1>3. Tail(<<x>>) = <<>> /\ Tail(<<1>>) = <<>>
    OBVIOUS
  <1>4. Tail(<<1, x>>) = <<x>>
    OBVIOUS
  <1>5. Head(<<x>>) = x /\ <<x>> # <<>> /\ <<1, x>> # <<>> /\ <<1>> # <<>>
    OBVIOUS
  <1>. QED  BY Zenon, <1>1, <1>3, <1>4, <1>5, <1>2

\* Whoever reads the end of the stream has no session any more.
LEMMA OpenWhileServed ==
    ASSUME TypeOK, ConnectionHeld, ListenerHeld, NEW c \in Clients, ~PeerOpen(c)
    PROVE  spc[c] \in {"none", "dead"}
  <1>1. HeldOf(c)
    BY HeldByClient DEF TypeOK
  <1>2. hold[c] = {}
    BY Zenon DEF PeerOpen
  <1>. QED  BY ONLY Zenon, <1>1, <1>2 DEF HeldOf

\* In a session without faults K gets the acknowledgement and then S's answer.
LEMMA WireStatusStep ==
    ASSUME TypeOK, Once, Sending, Receiving, ConnectionHeld, ListenerHeld, AckFirst, Statuses,
           [Next]_vars
    PROVE  \A k \in Clients : k \notin hurt' => WireStatus(k)'
  <1> USE DEF kVars, sVars, hVars, dVars, xVars, gVars, cVars, fVars
  <1>1. /\ kpc \in [Clients -> KPc] /\ kst \in [Clients -> Int] /\ spc \in [Clients -> SPc]
        /\ cpc \in [Clients -> CPc] /\ cst \in [Clients -> Int]
    BY Zenon DEF TypeOK, KType, SType, CType
  <1>2. \A k \in Clients : k \notin hurt' => TreeStatus(k) /\ WireStatus(k)
    BY StatusesByClient, HurtGrows
  <1>3. \A k \in Clients : AckFirstOf(k)
    BY AckFirstByClient
  <1>4. \A k \in Clients : WEXITSTATUS(cst[k]) \in Int
    BY <1>1 DEF WEXITSTATUS
  <1>0. \A k \in Clients : SharesStdin(k)' <=> SharesStdin(k)
    BY Zenon, SharesKept
  <1>5. ASSUME UNCHANGED <<kpc, kst, spc, cpc, cst, down>>
        PROVE  \A k \in Clients : k \notin hurt' => WireStatus(k)'
    BY ONLY Zenon, <1>0, <1>2, <1>5, WireKept
  <1>6. ASSUME NEW c \in Clients, KAct(c) PROVE \A k \in Clients : k \notin hurt' => WireStatus(k)'
    <2>1. UNCHANGED <<spc, cpc, cst>>
      BY Zenon, <1>6, KFrame DEF KOnly
    <2>2. \A k \in Clients : k # c => kpc'[k] = kpc[k] /\ kst'[k] = kst[k] /\ down'[k] = down[k]
      BY ZenonT(40), <1>6 DEF KAct, KStep, su_main_client, connect, pts_open, send, read_ack,
         pump_stdout_blocking, pump_stdout_ends, PumpEnds, read_code, pump_stdin_ends, kill_K, KGoto,
         KEnd, TypeOK, KType
    <2>3. \A k \in Clients : k # c /\ k \notin hurt' => WireStatus(k)'
      BY ONLY Zenon, <1>0, <1>2, <2>1, <2>2, WireKept
    <2>4. SUFFICES ASSUME c \notin hurt' PROVE WireStatus(c)'
      BY <2>3
    <2>5. /\ TreeStatus(c) /\ WireStatus(c) /\ AckFirstOf(c) /\ WEXITSTATUS(cst[c]) \in Int
          /\ SharesStdin(c)' <=> SharesStdin(c)
      BY Zenon, <1>0, <1>2, <1>3, <1>4, <2>4
    <2>6. CASE su_main_client(c) \/ connect(c) \/ pts_open(c)
      <3>1. /\ kpc[c] \in {"start", "connect", "pts"} /\ UNCHANGED down
            /\ kpc'[c] \in {"connect", "pts", "send", "local", "refused", "nopts"}
        BY ONLY Zenon, <1>1, <2>6, c \in Clients DEF su_main_client, connect, pts_open, KGoto, KEnd
      <3>. QED  BY ONLY Zenon, <2>1, <2>5, <3>1 DEF WireStatus, AckFirstOf
    <2>7. CASE send(c)
      <3>1. /\ kpc[c] = "send" /\ UNCHANGED down
            /\ kpc'[c] \in {"send", "ack"} \/ (kpc'[c] = "sigpipe" /\ ~PeerOpen(c))
        BY ONLY Zenon, <1>1, <2>7, c \in Clients DEF send, KGoto, KEnd
      <3>2. kpc'[c] = "sigpipe" => spc[c] \in {"none", "dead"}
        BY Zenon, <3>1, OpenWhileServed
      <3>. QED  BY ONLY Zenon, <2>1, <2>5, <3>1, <3>2 DEF WireStatus
    <2>8. CASE pump_stdout_blocking(c)
      <3>1. kpc[c] = "pump" /\ kpc'[c] = "code" /\ UNCHANGED down
        BY ONLY Zenon, <1>1, <2>8, c \in Clients DEF pump_stdout_blocking, PumpEnds, KGoto
      <3>. QED  BY ONLY Zenon, <2>1, <2>5, <3>1 DEF WireStatus
    <2>9. CASE pump_stdout_ends(c) \/ pump_stdin_ends(c) \/ kill_K(c)
      BY Zenon, <2>4, <2>9 DEF pump_stdout_ends, pump_stdin_ends, kill_K, Fault
    <2>10. CASE read_ack(c)
      <3>1. /\ kpc[c] = "ack"
            /\ \/ down[c] # <<>> /\ down'[c] = Tail(down[c]) /\ kpc'[c] \in {"pump", "code"}
               \/ down[c] = <<>> /\ kpc'[c] = "noack" /\ ~PeerOpen(c)
        BY Zenon, <1>1, <2>10 DEF read_ack, KGoto, KEnd, TypeOK
      <3>2. CASE down[c] # <<>> /\ down'[c] = Tail(down[c]) /\ kpc'[c] \in {"pump", "code"}
        <4>1. spc[c] \in {"fork", "log", "wait", "waitlog", "dead"}
          BY ONLY Zenon, <2>5, <3>2 DEF AckFirstOf
        <4>2. CASE spc[c] # "dead"
          <5>1. down[c] = <<1>>
            BY ONLY Zenon, <2>5, <3>1, <3>2, <4>1, <4>2 DEF WireStatus
          <5>2. down'[c] = <<>>
            BY ONLY <3>2, <5>1, ShortQueues
          <5>. QED  BY ONLY Zenon, <2>1, <3>2, <4>2, <5>2 DEF WireStatus
        <4>3. CASE spc[c] = "dead"
          <5>1. /\ cpc[c] = "dead"
                /\ \/ down[c] = <<1, WEXITSTATUS(cst[c])>>
                   \/ SharesStdin(c) /\ down[c] = <<WEXITSTATUS(cst[c])>>
            BY ONLY Zenon, <2>5, <3>1, <3>2, <4>3 DEF WireStatus
          <5>2. down'[c] = <<WEXITSTATUS(cst[c])>> \/ (SharesStdin(c) /\ down'[c] = <<>>)
            BY ONLY Zenon, <2>5, <3>2, <5>1, ShortQueues
          <5>. QED  BY ONLY Zenon, <2>1, <2>5, <3>2, <4>3, <5>1, <5>2 DEF WireStatus
        <4>. QED  BY <4>2, <4>3
      <3>3. CASE kpc'[c] = "noack" /\ ~PeerOpen(c)
        <4>1. spc[c] \in {"none", "dead"}
          BY Zenon, <3>3, OpenWhileServed
        <4>. QED  BY ONLY Zenon, <2>1, <3>3, <4>1 DEF WireStatus
      <3>. QED  BY Zenon, <3>1, <3>2, <3>3
    <2>11. CASE read_code(c)
      <3>1. /\ kpc[c] = "code"
            /\ \/ /\ down[c] # <<>> /\ down'[c] = Tail(down[c]) /\ kpc'[c] = "exited"
                  /\ kst'[c] = Exit(Head(down[c]))
               \/ kpc'[c] = "nocode" /\ ~PeerOpen(c)
        BY Zenon, <1>1, <2>11 DEF read_code, KGoto, KEnd, TypeOK
      <3>2. CASE /\ down[c] # <<>> /\ down'[c] = Tail(down[c]) /\ kpc'[c] = "exited"
                 /\ kst'[c] = Exit(Head(down[c]))
        <4>1. spc[c] = "dead"
          BY ONLY Zenon, <2>5, <3>1, <3>2 DEF AckFirstOf, WireStatus
        <4>2. cpc[c] = "dead" /\ down[c] = <<WEXITSTATUS(cst[c])>>
          BY ONLY Zenon, <2>5, <3>1, <3>2, <4>1 DEF WireStatus
        <4>3. kst'[c] = Exit(WEXITSTATUS(cst[c]))
          BY ONLY Zenon, <2>5, <3>2, <4>2, ShortQueues
        <4>. QED  BY ONLY Zenon, <2>1, <3>2, <4>1, <4>2, <4>3 DEF WireStatus
      <3>3. CASE kpc'[c] = "nocode" /\ ~PeerOpen(c)
        <4>1. spc[c] \in {"none", "dead"}
          BY Zenon, <3>3, OpenWhileServed
        <4>. QED  BY ONLY Zenon, <2>1, <3>3, <4>1 DEF WireStatus
      <3>. QED  BY Zenon, <3>1, <3>2, <3>3
    <2>. QED  BY Zenon, <1>6, <2>6, <2>7, <2>8, <2>9, <2>10, <2>11 DEF KAct, KStep
  <1>7. ASSUME NEW c \in Clients, IStep(c) PROVE \A k \in Clients : k \notin hurt' => WireStatus(k)'
    <2>1. UNCHANGED <<kpc, kst, cpc, cst, down>>
      BY Zenon, <1>7 DEF IStep, fork_zero_fucks_child, exit_I, DOnly
    <2>2. UNCHANGED spc \/ (spc[c] = "none" /\ spc' = [spc EXCEPT ![c] = "start"])
      BY Zenon, <1>7, StartedOnce
    <2>3. ASSUME NEW k \in Clients, k \notin hurt' PROVE WireStatus(k)'
      <3>1. WireStatus(k)
        BY ONLY Zenon, <1>2, <2>3
      <3>2. spc'[k] = spc[k] \/ spc'[k] = "start"
        BY ONLY Zenon, <1>1, <2>2, k \in Clients
      <3>3. CASE spc'[k] = spc[k]
        BY ONLY Zenon, <1>0, <2>1, <3>1, <3>3, k \in Clients, WireKept
      <3>4. CASE spc'[k] = "start"
        BY ONLY Zenon, <2>1, <3>1, <3>4 DEF WireStatus
      <3>. QED  BY ONLY Zenon, <3>2, <3>3, <3>4
    <2>. QED  BY ONLY Zenon, <2>3
  <1>8. ASSUME NEW c \in Clients, SRead(c) PROVE \A k \in Clients : k \notin hurt' => WireStatus(k)'
    <2>1. UNCHANGED <<kpc, kst, cpc, cst, down>>
      BY Zenon, <1>8, SReadFrame DEF SOnly
    <2>2. /\ spc[c] \in Reading
          /\ \E pc \in Reading \cup {"ack", "dead"} : spc' = [spc EXCEPT ![c] = pc]
      BY ONLY <1>8 DEF SRead, Recv, read_pid, read_pts_slave, read_from_pid, read_mount_storage,
         recv_fd, read_argc, read_arg, SGoto, SDie, After, Streams, Reading
    <2>3. spc'[c] \in Reading \cup {"ack", "dead"} /\ \A k \in Clients : k # c => spc'[k] = spc[k]
      BY ONLY Zenon, <1>1, <2>2, c \in Clients
    <2>4. ASSUME NEW k \in Clients, k # c, k \notin hurt' PROVE WireStatus(k)'
      BY ONLY Zenon, <1>0, <1>2, <2>1, <2>3, <2>4, WireKept
    <2>5. ASSUME c \notin hurt' PROVE WireStatus(c)'
      <3>1. WireStatus(c) /\ AckFirstOf(c)
        BY ONLY Zenon, <1>2, <1>3, <2>5, c \in Clients
      <3>2. kpc[c] \notin {"pump", "code", "exited"} /\ down[c] = <<>>
        BY ONLY Zenon, <2>2, <3>1 DEF AckFirstOf, Reading
      <3>. QED  BY ONLY Zenon, <2>1, <2>3, <3>2 DEF WireStatus, Reading
    <2>. QED  BY ONLY Zenon, <2>4, <2>5
  <1>9. ASSUME NEW c \in Clients, SRest(c) PROVE \A k \in Clients : k \notin hurt' => WireStatus(k)'
    <2>1. UNCHANGED <<kpc, kst, cst>>
      BY Zenon, <1>9 DEF SRest, close_listener, read_eof, ack, fork_C, log_S, send_code, kill_S, SOnly
    <2>2. \A k \in Clients : k # c => spc'[k] = spc[k] /\ cpc'[k] = cpc[k]
      BY <1>1, <1>9, SRestMoves
    <2>3. CASE close_listener(c) \/ read_eof(c) \/ log_S(c) \/ kill_S(c)
      <3>1. UNCHANGED <<cpc, down>>
        BY ONLY Zenon, <2>3 DEF close_listener, read_eof, log_S, kill_S, SOnly, cVars
      <3>2. \/ c \in hurt'
            \/ spc[c] = "log" /\ spc'[c] = "wait"
            \/ spc[c] \in Reading \cup {"start"} /\ spc'[c] \in {"pid", "dead"}
        BY ONLY Zenon, <1>1, <2>3, c \in Clients
           DEF close_listener, read_eof, log_S, kill_S, SGoto, SDie, Fault
      <3>3. ASSUME c \notin hurt' PROVE WireStatus(c)'
        <4>1. AckFirstOf(c) /\ WireStatus(c) /\ (SharesStdin(c)' <=> SharesStdin(c))
          BY ONLY Zenon, <1>0, <1>2, <1>3, <3>3, c \in Clients
        <4>. QED  BY ONLY Zenon, <2>1, <3>1, <3>2, <3>3, <4>1 DEF WireStatus, AckFirstOf, Reading
      <3>4. ASSUME NEW k \in Clients, k # c, k \notin hurt' PROVE WireStatus(k)'
        BY ONLY Zenon, <1>0, <1>2, <2>1, <2>2, <3>1, <3>4, WireKept
      <3>. QED  BY ONLY <3>3, <3>4
    <2>4. CASE ack(c)
      <3>1. /\ kpc[c] \notin {"start", "connect", "pts", "local", "refused", "nopts"}
            /\ spc[c] = "ack" /\ cpc[c] = "none"
        BY Zenon, <2>4, AckedClient DEF ack
      <3>2. /\ KOpen(c) => down'[c] = Append(down[c], 1) /\ spc' = [spc EXCEPT ![c] = "fork"]
            /\ ~KOpen(c) => UNCHANGED down /\ spc' = [spc EXCEPT ![c] = "dead"]
            /\ \A k \in Clients : k # c => down'[k] = down[k]
            /\ UNCHANGED cpc
        BY Zenon, <2>4, Written DEF ack, SGoto, SDie
      <3>3. down[c] = <<>> /\ kpc[c] \notin {"pump", "code", "exited"}
        BY ONLY Zenon, <1>3, <3>1, c \in Clients DEF AckFirstOf
      <3>4. KOpen(c) => down'[c] = <<1>>
        BY ONLY <3>2, <3>3, ShortQueues
      <3>10. ~Ended(c) => KOpen(c)
        BY ONLY Zenon DEF KOpen
      <3>5. ~Ended(c) => kpc[c] \in {"send", "ack"}
        BY ONLY Zenon, <1>1, <3>1, <3>3, c \in Clients DEF Ended, KEnded, KPc
      <3>6. Ended(c) => kpc[c] \notin {"send", "ack", "pump", "code", "exited"}
        BY ONLY Zenon, <3>3 DEF Ended, KEnded
      <3>7. ASSUME NEW k \in Clients, k # c, k \notin hurt' PROVE WireStatus(k)'
        BY ONLY Zenon, <1>0, <1>2, <2>1, <2>2, <3>2, <3>7, WireKept
      <3>8. spc'[c] = IF KOpen(c) THEN "fork" ELSE "dead"
        BY ONLY Zenon, <1>1, <3>2, c \in Clients
      <3>9. WireStatus(c)'
        BY ONLY Zenon, <2>1, <3>3, <3>4, <3>5, <3>6, <3>8, <3>10 DEF WireStatus
      <3>. QED  BY ONLY <3>7, <3>9
    <2>5. CASE fork_C(c)
      <3>1. c \in hurt' \/ (/\ spc[c] = "fork" /\ spc' = [spc EXCEPT ![c] = "log"]
                            /\ cpc' = [cpc EXCEPT ![c] = "start"] /\ UNCHANGED down)
        BY Zenon, <2>5 DEF fork_C, Fault
      <3>2. \A k \in Clients : k # c => down'[k] = down[k]
        BY Zenon, <2>5, Written DEF fork_C
      <3>3. spc[c] = "fork" => cpc[c] = "none"
        BY Zenon DEF Receiving
      <3>4. ASSUME NEW k \in Clients, k # c, k \notin hurt' PROVE WireStatus(k)'
        BY ONLY Zenon, <1>0, <1>2, <2>1, <2>2, <3>2, <3>4, WireKept
      <3>5. ASSUME c \notin hurt' PROVE WireStatus(c)'
        <4>1. WireStatus(c) /\ UNCHANGED down /\ spc[c] = "fork" /\ cpc[c] = "none"
          BY ONLY Zenon, <1>2, <3>1, <3>3, <3>5, c \in Clients
        <4>2. spc'[c] = "log"
          BY ONLY Zenon, <1>1, <3>1, <3>5, c \in Clients
        <4>3. SharesStdin(c)' <=> SharesStdin(c)
          BY ONLY Zenon, <1>0, c \in Clients
        <4>. QED  BY ONLY Zenon, <2>1, <3>1, <3>5, <4>1, <4>2, <4>3 DEF WireStatus
      <3>. QED  BY ONLY Zenon, <3>4, <3>5
    <2>6. CASE send_code(c)
      <3> DEFINE v == IF spc[c] = "wait" THEN WEXITSTATUS(cst[c]) ELSE -1
      <3>1. /\ spc[c] \in {"wait", "waitlog"} /\ cpc[c] = "dead" /\ UNCHANGED cpc
            /\ spc' = [spc EXCEPT ![c] = "dead"] /\ Write(c, v)
        BY Zenon, <2>6 DEF send_code, SDie
      <3>2. /\ ~Ended(c) => down'[c] = Append(down[c], v)
            /\ \A k \in Clients : k # c => down'[k] = down[k]
        BY Zenon, <3>1, Written DEF KOpen
      <3>3. kpc[c] \notin {"start", "connect", "pts", "local", "refused", "nopts"}
        BY ONLY Zenon, <1>3, <3>1, c \in Clients DEF AckFirstOf
      <3>4. SUFFICES ASSUME c \notin hurt' PROVE WireStatus(c)'
        <4>1. ASSUME NEW k \in Clients, k # c, k \notin hurt' PROVE WireStatus(k)'
          BY ONLY Zenon, <1>0, <1>2, <2>1, <2>2, <3>2, <4>1, WireKept
        <4>. QED  BY ONLY Zenon, <3>4, <4>1
      <3>5. v = WEXITSTATUS(cst[c]) /\ v \in Int
        BY Zenon, <1>2, <1>4, <3>1, <3>4 DEF TreeStatus
      <3> HIDE DEF v
      <3>6. CASE Ended(c)
        <4>1. WireStatus(c) /\ kpc[c] \notin {"send", "ack", "pump", "code"}
          BY ONLY Zenon, <1>2, <3>4, <3>6, c \in Clients DEF Ended, KEnded
        <4>2. spc'[c] = "dead"
          BY ONLY Zenon, <1>1, <3>1, c \in Clients
        <4>. QED  BY ONLY Zenon, <2>1, <3>1, <4>1, <4>2 DEF WireStatus
      <3>7. CASE ~Ended(c) /\ kpc[c] \in {"send", "ack"}
        <4>1. down[c] = <<1>> \/ (SharesStdin(c) /\ down[c] = <<>>)
          BY ONLY Zenon, <1>2, <3>1, <3>4, <3>7, c \in Clients DEF WireStatus
        <4>2. \/ down'[c] = <<1, WEXITSTATUS(cst[c])>>
              \/ SharesStdin(c) /\ down'[c] = <<WEXITSTATUS(cst[c])>>
          BY ONLY Zenon, <3>2, <3>5, <3>7, <4>1, ShortQueues
        <4>3. spc'[c] = "dead" /\ (SharesStdin(c)' <=> SharesStdin(c))
          BY ONLY Zenon, <1>0, <1>1, <3>1, c \in Clients
        <4>. QED  BY ONLY Zenon, <2>1, <3>1, <3>7, <4>2, <4>3 DEF WireStatus
      <3>8. CASE ~Ended(c) /\ kpc[c] \in {"pump", "code"}
        <4>1. down[c] = <<>>
          BY ONLY Zenon, <1>2, <3>1, <3>4, <3>8, c \in Clients DEF WireStatus
        <4>2. down'[c] = <<WEXITSTATUS(cst[c])>>
          BY ONLY Zenon, <3>2, <3>5, <3>8, <4>1, ShortQueues
        <4>3. spc'[c] = "dead"
          BY ONLY Zenon, <1>1, <3>1, c \in Clients
        <4>. QED  BY ONLY Zenon, <2>1, <3>1, <3>8, <4>2, <4>3 DEF WireStatus
      <3>9. ~Ended(c) => kpc[c] \in {"send", "ack", "pump", "code"}
        BY ONLY Zenon, <1>1, <3>3, c \in Clients DEF Ended, KEnded, KPc
      <3>. QED  BY Zenon, <3>6, <3>7, <3>8, <3>9
    <2>. QED  BY Zenon, <1>9, <2>3, <2>4, <2>5, <2>6 DEF SRest
  <1>10. ASSUME NEW c \in Clients, CAct(c) PROVE \A k \in Clients : k \notin hurt' => WireStatus(k)'
    <2>1. UNCHANGED <<kpc, kst, spc, down>>
      BY Zenon, <1>10, CFrame DEF COnly
    <2>2. /\ cpc[c] # "dead"
          /\ \A k \in Clients : k # c => cpc'[k] = cpc[k] /\ cst'[k] = cst[k]
      BY Zenon, <1>1, <1>10 DEF CAct, CStep, close_C, open_pts, check_pts, run_daemon_child, su_main_daemon, wait_G,
         kill_C, CGoto, CDie
    <2>3. ASSUME NEW k \in Clients, k # c, k \notin hurt' PROVE WireStatus(k)'
      BY ONLY Zenon, <1>0, <1>2, <2>1, <2>2, <2>3, WireKept
    <2>4. ASSUME c \notin hurt' PROVE WireStatus(c)'
      <3>1. WireStatus(c) /\ (SharesStdin(c)' <=> SharesStdin(c))
        BY ONLY Zenon, <1>0, <1>2, <2>4, c \in Clients
      <3>. QED  BY ONLY Zenon, <2>1, <2>2, <3>1 DEF WireStatus
    <2>. QED  BY ONLY Zenon, <2>3, <2>4
  <1>11. ASSUME NEW c \in Clients, DStep(c) \/ GAct(c) \/ XStep(c)
         PROVE  UNCHANGED <<kpc, kst, spc, cpc, cst, down>>
    <2>1. DStep(c) => UNCHANGED <<kpc, kst, spc, cpc, cst, down>>
      BY Zenon DEF DStep, accept, fork_zero_fucks, waitpid_I, close_client, DOnly
    <2>. QED  BY Zenon, <1>11, <2>1, GFrame DEF GOnly
  <1>12. daemon_exits \/ UNCHANGED vars => UNCHANGED <<kpc, kst, spc, cpc, cst, down>>
    BY Zenon DEF daemon_exits, DOnly, vars
  <1>13. ASSUME NEW c \in Clients, command_reads(c)
         PROVE  \A k \in Clients : k \notin hurt' => WireStatus(k)'
    <2>1. /\ xpc[c] = "run" /\ SharesStdin(c) /\ down[c] # <<>>
          /\ UNCHANGED <<kpc, kst, spc, cpc, cst>> /\ down'[c] = Tail(down[c])
          /\ \A k \in Clients : k # c => down'[k] = down[k]
      BY Zenon, <1>13, ReadsFrame DEF TypeOK
    <2>2. ASSUME NEW k \in Clients, k # c, k \notin hurt' PROVE WireStatus(k)'
      BY ONLY Zenon, <1>0, <1>2, <2>1, <2>2, WireKept
    <2>3. ASSUME c \notin hurt' PROVE WireStatus(c)'
      <3>1. /\ TreeStatus(c) /\ WireStatus(c) /\ AckFirstOf(c)
            /\ SharesStdin(c)' <=> SharesStdin(c)
        BY ONLY Zenon, <1>0, <1>2, <1>3, <2>3, c \in Clients
      <3>2. cpc[c] # "dead"
        BY ONLY Zenon, <2>1, <3>1 DEF TreeStatus
      <3>3. spc[c] \in {"fork", "log", "wait", "waitlog", "dead"}
        BY ONLY Zenon, <2>1, <3>1 DEF AckFirstOf
      <3>4. spc[c] = "dead" => kpc[c] \notin {"send", "ack"}
        BY ONLY Zenon, <2>1, <3>1, <3>2 DEF WireStatus
      <3>5. kpc[c] \notin {"pump", "code", "exited"}
        BY ONLY Zenon, <2>1, <3>1, <3>2, <3>3 DEF WireStatus
      <3>6. kpc[c] \in {"send", "ack"} => down[c] = <<1>>
        BY ONLY Zenon, <2>1, <3>1, <3>3, <3>4 DEF WireStatus
      <3>7. kpc[c] \in {"send", "ack"} => down'[c] = <<>>
        <4>1. Tail(<<1>>) = <<>>
          OBVIOUS
        <4>. QED  BY ONLY Zenon, <2>1, <3>6, <4>1
      <3>. QED  BY ONLY Zenon, <2>1, <3>1, <3>4, <3>5, <3>7 DEF WireStatus
    <2>. QED  BY ONLY Zenon, <2>2, <2>3
  <1>. QED  BY Zenon, <1>5, <1>6, <1>7, <1>8, <1>9, <1>10, <1>11, <1>12, <1>13, NextCases

-----------------------------------------------------------------------------
(* The invariant, and what it gives. *)

\* No process has run yet: the inductive invariant holds.
LEMMA InitInv == Init => Inv
  <1> SUFFICES ASSUME Init PROVE Inv  OBVIOUS
  <1>1. TypeOK
    BY InitTypeOK
  <1>2. DaemonHand /\ Once
    <2>1. backlog = <<>> /\ dcl = None /\ dpc = "accept"
      BY Zenon DEF Init
    <2>2. \A c \in Clients : ipc[c] = "none" /\ spc[c] = "none" /\ c # None
      BY Zenon, NamesAssumption DEF Init
    <2>3. ~(\E i \in 1 .. Len(<<>>) : TRUE)
      BY ONLY SMT
    <2>4. \A c \in Clients : ~Queued(c)
      BY ONLY Zenon, <2>1, <2>3 DEF Queued
    <2>5. \A i, j \in 1 .. Len(backlog) : backlog[i] = backlog[j] => i = j
      BY ONLY Zenon, <2>1, <2>3
    <2>6. DaemonHand
      BY ONLY Zenon, <2>1 DEF DaemonHand
    <2>7. Once
      BY ONLY Zenon, <2>1, <2>2, <2>4, <2>5 DEF Once
    <2>. QED  BY ONLY <2>6, <2>7
  <1>3. Sending
    BY <1>1, WireLenType DEF Init, Sending
  <1>4. Receiving
    BY DEF Init, Receiving, Position, Reading, Acked
  <1>5. Decoding
    <2>1. \A c \in Clients : /\ rcvd[c] = 0 /\ spc[c] = "none" /\ cpc[c] = "none"
                             /\ dec[c].fds = {} /\ dec[c].argv = <<>>
      BY Zenon DEF Init
    <2>2. Len(<<>>) = 0
      OBVIOUS
    <2>3. \A s \in Streams : At(s) \in {5, 6, 7}
      BY DEF At, Streams
    <2>4. ASSUME NEW c \in Clients PROVE DecodingOf(c)
      <3>1. /\ ~(rcvd[c] >= 2) /\ ~(rcvd[c] >= 3) /\ ~(rcvd[c] >= 4) /\ ~(rcvd[c] >= 8)
            /\ \A s \in Streams : ~(rcvd[c] >= At(s))
        BY ONLY <2>1, <2>3, c \in Clients
      <3>2. HeadOf(c) /\ FdsOf(c) /\ CountOf(c)
        BY ONLY Zenon, <2>1, <3>1, c \in Clients DEF HeadOf, FdsOf, CountOf
      <3>3. ArgsOf(c)
        BY ONLY <2>1, <2>2, c \in Clients DEF ArgsOf
      <3>. QED  BY ONLY Zenon, <3>2, <3>3 DEF DecodingOf
    <2>. QED  BY <2>4, DecodingByClient
  <1>6. ConnectionHeld /\ ListenerHeld
    <2>1. \A c \in Clients : HeldOf(c)
      BY Zenon, NamesAssumption DEF Init, HeldOf
    <2>. QED  BY Zenon, <1>1, <2>1, HeldByClient DEF TypeOK
  <1>7. PtyOwned /\ Tree /\ AckFirst /\ Statuses
    BY Zenon DEF Init, PtyOwned, Tree, AckFirst, Statuses, Acked, Code
  <1>. QED  BY <1>1, <1>2, <1>3, <1>4, <1>5, <1>6, <1>7 DEF Inv

\* Every step of every process keeps the inductive invariant.
LEMMA NextInv == Inv /\ [Next]_vars => Inv'
  <1> SUFFICES ASSUME Inv, [Next]_vars PROVE Inv'  OBVIOUS
  <1>1. /\ TypeOK /\ DaemonHand /\ Once /\ Sending /\ Receiving /\ Decoding /\ ConnectionHeld
        /\ ListenerHeld /\ PtyOwned /\ Tree /\ AckFirst /\ Statuses
    BY DEF Inv
  <1>2. TypeOK' /\ DaemonHand' /\ Once' /\ Sending' /\ Receiving' /\ Decoding'
    BY Zenon, <1>1, TypeOKStep, OnceStep, SendingStep, ReceivingStep, DecodingStep
  <1>3. ConnectionHeld' /\ ListenerHeld' /\ PtyOwned' /\ Tree' /\ AckFirst'
    BY Zenon, <1>1, <1>2, HeldStep, PtyOwnedStep, TreeStep, AckFirstStep
  <1>4. Statuses'
    BY Zenon, <1>1, TreeStatusStep, WireStatusStep, StatusesByClient
  <1>. QED  BY Zenon, <1>2, <1>3, <1>4 DEF Inv

\* Inv holds in every behaviour of the daemon and its clients.
THEOREM Invariance == Spec => []Inv
  BY InitInv, NextInv, PTL DEF Spec

\* The state of all processes stays within its type, whatever the requests.
THEOREM TypeCorrect == Spec => []TypeOK
  <1>1. Inv => TypeOK
    BY DEF Inv
  <1>. QED  BY <1>1, Invariance, PTL

\* daemon_accept never reads a message of another kind than connect_daemon wrote.
THEOREM Framed == Spec => []FrameAligned
  <1>1. Inv => FrameAligned
    <2> SUFFICES ASSUME Inv, NEW c \in Clients, spc[c] \in Reading, rcvd[c] < sent[c]
                 PROVE  Wire(c, rcvd[c] + 1).kind = Expects(spc[c])
      BY Zenon DEF FrameAligned
    <2>1. TypeOK /\ Receiving
      BY Zenon DEF Inv
    <2>2. CASE spc[c] # "args"
      <3>1. rcvd[c] = Position(spc[c])
        BY Zenon, <2>1, <2>2 DEF Receiving
      <3>. QED  BY ONLY <2>2, <3>1, HeaderFields, c \in Clients, spc[c] \in Reading
                DEF Position, Reading, Expects, Int_, Str_, Fd_
    <2>3. CASE spc[c] = "args"
      <3>1. rcvd[c] = 8 + Len(dec[c].argv)
        BY Zenon, <2>1, <2>3 DEF Receiving, HeaderLen
      <3>2. Len(dec[c].argv) \in Nat
        BY <2>1 DEF TypeOK, SType, Decoded
      <3>. QED  BY ONLY <2>3, <3>1, <3>2 DEF Wire, HeaderLen, Str_, Expects
    <2>. QED  BY Zenon, <2>2, <2>3
  <1>. QED  BY <1>1, Invariance, PTL

\* No process keeps a connection open beyond its use, so that a client sees the end
\* of the stream when its session goes (run_daemon, daemon_accept).
THEOREM ConnectionsClosed == Spec => []ConnectionHeld
  <1>1. Inv => ConnectionHeld
    BY DEF Inv
  <1>. QED  BY <1>1, Invariance, PTL

\* No session process keeps the daemon's listening socket (run_daemon).
THEOREM ListenerClosed == Spec => []ListenerHeld
  <1>1. Inv => ListenerHeld
    BY DEF Inv
  <1>. QED  BY <1>1, Invariance, PTL

\* A session goes on with terminals of its caller only (daemon_accept).
THEOREM TerminalOwned == Spec => []PtyOwned
  <1>1. Inv => PtyOwned
    BY DEF Inv
  <1>. QED  BY <1>1, Invariance, PTL

\* No command is run for a client that has no acknowledgement, read or to be read.
THEOREM AckBeforeCommand == Spec => []NoCommandBeforeAck
  <1>1. Inv => NoCommandBeforeAck
    <2> SUFFICES ASSUME Inv, NEW c \in Clients,
                        \/ kpc[c] \in {"start", "connect", "pts", "local", "refused", "nopts"}
                        \/ /\ kpc[c] \in {"send", "ack", "sigpipe", "noack", "cut"}
                           /\ down[c] = <<>> /\ ~SharesStdin(c)
                 PROVE  cpc[c] = "none" /\ xpc[c] = "none"
      BY Zenon DEF NoCommandBeforeAck
    <2>1. Tree /\ AckFirst
      BY Zenon DEF Inv
    <2>2. cpc[c] = "none"
      BY Zenon, <2>1 DEF AckFirst
    <2>. QED  BY Zenon, <2>1, <2>2 DEF Tree
  <1>. QED  BY <1>1, Invariance, PTL

\* The status su ends with, when no fault hit its session, is the low byte of its own
\* command's wait status, and the command has ended.
THEOREM StatusDelivered == Spec => []StatusPassedOn
  <1>1. Inv => StatusPassedOn
    <2> SUFFICES ASSUME Inv, NEW c \in Clients, kpc[c] = "exited", c \notin hurt
                 PROVE  /\ xpc[c] \in {"none", "dead"} /\ cpc[c] = "dead"
                        /\ xpc[c] = "dead" => SuExit(c) = xst[c] % 256
      BY Zenon DEF StatusPassedOn
    <2>1. TypeOK /\ Tree /\ TreeStatus(c) /\ WireStatus(c)
      BY Zenon, StatusesByClient DEF Inv
    <2>2. cst[c] \in Int /\ gst[c] \in Int /\ xst[c] \in Int /\ xpc[c] \in XPc
      BY Zenon, <2>1 DEF TypeOK, CType, GType, XType
    <2>3. cpc[c] = "dead" /\ kst[c] = Exit(WEXITSTATUS(cst[c])) /\ gpc[c] \in {"none", "dead"}
      BY ONLY Zenon, <2>1, kpc[c] = "exited" DEF WireStatus, TreeStatus
    <2>4. xpc[c] \in {"none", "dead"} /\ (xpc[c] = "dead" => gpc[c] = "dead")
      BY ONLY Zenon, <2>1, <2>2, <2>3 DEF TreeStatus, XPc
    <2>5. ASSUME xpc[c] = "dead" PROVE SuExit(c) = xst[c] % 256
      <3>1. gst[c] = Exit(xst[c]) /\ cst[c] = Exit(WEXITSTATUS(gst[c]))
        BY ONLY Zenon, <2>1, <2>3, <2>4, <2>5 DEF TreeStatus
      <3> DEFINE b == xst[c] % 256
      <3>2. WEXITSTATUS(gst[c]) = b
        BY <2>2, <3>1, ExitByte
      <3>3. b \in Int /\ b % 256 = b
        BY <2>2
      <3> HIDE DEF b
      <3>4. WEXITSTATUS(cst[c]) = b
        BY ONLY Zenon, <3>1, <3>2, <3>3, ExitByte
      <3>5. WEXITSTATUS(kst[c]) = b
        BY ONLY Zenon, <2>3, <3>3, <3>4, ExitByte
      <3>. QED  BY Zenon, <3>5 DEF SuExit, b
    <2>. QED  BY Zenon, <2>3, <2>4, <2>5
  <1>. QED  BY <1>1, Invariance, PTL

\* Sequences are equal when their elements are.
LEMMA SameElements ==
    ASSUME NEW S, NEW q \in Seq(S), NEW m \in Seq(S), Len(q) = Len(m), \A i \in 1 .. Len(q) : q[i] = m[i]
    PROVE  q = m
  OBVIOUS

\* What stands where in a concatenation.
LEMMA Concatenated ==
    ASSUME NEW S, NEW h \in Seq(S), NEW t \in Seq(S)
    PROVE  /\ h \o t \in Seq(S) /\ Len(h \o t) = Len(h) + Len(t)
           /\ \A i \in 1 .. Len(h) + Len(t) : (h \o t)[i] = IF i <= Len(h) THEN h[i] ELSE t[i - Len(h)]
  OBVIOUS

\* The arguments written are the arguments meant, when there is one to drop.
LEMMA WireArgsMeant ==
    ASSUME NEW r \in Requests
    PROVE  /\ Len(Meant(r)) = IF r.mount /\ Len(r.argv) > 1 THEN Len(r.argv) - 1 ELSE Len(r.argv)
           /\ Meant(r) \in Seq(Str)
           /\ \A i \in 1 .. Len(Meant(r)) : Meant(r)[i] = WireArgs(r)[i]
           /\ WireArgc(r) = IF r.mount /\ Len(r.argv) = 1 THEN 0 ELSE Len(Meant(r))
  <1> DEFINE a == r.argv
             n == Len(r.argv)
  <1>1. a \in Seq(Str) /\ n >= 1 /\ n \in Nat /\ r.mount \in BOOLEAN
    BY RequestsAssumption DEF Request
  <1>2. n \in Nat /\ n >= 1
    BY <1>1
  <1>3. CASE r.mount
    <2> DEFINE h == SubSeq(a, 1, 1)
               t == SubSeq(a, 3, n)
    <2>1. h \in Seq(Str) /\ Len(h) = 1 /\ h[1] = a[1]
      BY <1>1
    <2>2. /\ t \in Seq(Str) /\ Len(t) = IF n >= 3 THEN n - 2 ELSE 0
          /\ \A i \in 1 .. n - 2 : t[i] = a[i + 2]
      BY <1>1
    <2>3. Meant(r) = h \o t
      BY <1>3 DEF Meant
    <2> DEFINE m == h \o t
    <2>4. /\ m \in Seq(Str) /\ Len(m) = 1 + Len(t) /\ m[1] = h[1]
          /\ \A i \in 1 .. Len(t) : m[1 + i] = t[i]
      <3> HIDE DEF h, t
      <3>1. /\ h \o t \in Seq(Str) /\ Len(h \o t) = Len(h) + Len(t)
            /\ \A i \in 1 .. Len(h) + Len(t) :
                  (h \o t)[i] = IF i <= Len(h) THEN h[i] ELSE t[i - Len(h)]
        BY Zenon, <2>1, <2>2, Concatenated
      <3>2. Len(t) \in Nat
        BY <1>1, <2>2
      <3> HIDE DEF m
      <3>3. m = h \o t
        BY DEF m
      <3>. QED  BY ONLY <2>1, <3>1, <3>2, <3>3
    <2>5. Meant(r) = m
      BY <2>3
    <2> HIDE DEF h, t, m
    <2>6. /\ Len(m) = IF n > 1 THEN n - 1 ELSE n
          /\ m[1] = a[1] /\ \A i \in 2 .. n - 1 : m[i] = a[i + 1]
      <3>1. Len(m) = IF n > 1 THEN n - 1 ELSE n
        BY ONLY <1>1, <2>2, <2>4
      <3>2. ASSUME NEW i \in 2 .. n - 1 PROVE m[i] = a[i + 1]
        <4>1. i - 1 \in 1 .. Len(t) /\ i - 1 \in 1 .. n - 2 /\ 1 + (i - 1) = i /\ (i - 1) + 2 = i + 1
          BY ONLY <1>1, <2>2, <3>2
        <4>2. m[1 + (i - 1)] = t[i - 1] /\ t[i - 1] = a[(i - 1) + 2]
          BY ONLY Zenon, <2>2, <2>4, <4>1
        <4>. QED  BY ONLY Zenon, <4>1, <4>2
      <3>. QED  BY Zenon, <2>1, <2>4, <3>1, <3>2
    <2>7. CASE n > 1
      <3>1. \A i \in 1 .. n - 1 : WireArgs(r)[i] = IF i = 1 THEN a[1] ELSE a[i + 1]
        BY Zenon, <1>1, <1>3, <2>7 DEF WireArgs
      <3>2. WireArgc(r) = n - 1
        BY <1>3 DEF WireArgc
      <3>3. \A i \in 1 .. n - 1 : m[i] = WireArgs(r)[i]
        BY ONLY <1>1, <2>6, <2>7, <3>1
      <3>4. Len(m) = n - 1 /\ n # 1
        <4> HIDE DEF n
        <4>1. Len(m) = IF n > 1 THEN n - 1 ELSE n
          BY ONLY Zenon, <2>6
        <4>. QED  BY ONLY <1>2, <2>7, <4>1
      <3>5. \A i \in 1 .. Len(m) : m[i] = WireArgs(r)[i]
        BY ONLY Zenon, <3>3, <3>4
      <3>6. m \in Seq(Str)
        BY ONLY Zenon, <2>4
      <3>. QED  BY ONLY Zenon, <1>3, <2>5, <2>7, <3>2, <3>4, <3>5, <3>6
    <2>8. CASE n = 1
      <3>1. WireArgs(r) = a /\ WireArgc(r) = 0
        BY <1>1, <1>3, <2>8 DEF WireArgs, WireArgc
      <3>2. \A i \in 1 .. 1 : m[i] = a[i]
        BY <2>6
      <3>3. Len(m) = 1 /\ m \in Seq(Str)
        <4> HIDE DEF n
        <4>1. Len(m) = IF n > 1 THEN n - 1 ELSE n
          BY ONLY <2>6
        <4>2. m \in Seq(Str)
          BY ONLY <2>4
        <4>. QED  BY ONLY <2>8, <4>1, <4>2
      <3>4. \A i \in 1 .. Len(m) : m[i] = WireArgs(r)[i]
        BY ONLY Zenon, <3>1, <3>2, <3>3
      <3>. QED  BY ONLY <1>3, <2>8, <2>5, <3>1, <3>3, <3>4
    <2>9. n > 1 \/ n = 1
      <3> HIDE DEF n
      <3>. QED  BY ONLY <1>2
    <2>. QED  BY ONLY <2>7, <2>8, <2>9, Zenon
  <1>4. CASE ~r.mount
    BY Zenon, <1>1, <1>4 DEF Meant, WireArgs, WireArgc
  <1>. QED  BY Zenon, <1>1, <1>3, <1>4

\* What daemon_accept acknowledges is what the client asked for.
THEOREM RequestIntact == Spec => []RequestDecoded
  <1>1. Inv => RequestDecoded
    <2> SUFFICES ASSUME Inv, NEW c \in Clients,
                        spc[c] \in {"ack", "fork", "log", "wait", "waitlog"} \/ cpc[c] # "none"
                 PROVE  /\ dec[c].uid = req[c].uid /\ dec[c].pts = pty[c] /\ dec[c].ppid = c
                        /\ dec[c].mount = req[c].mount
                        /\ dec[c].fds = (Streams \ req[c].atty)
                                            \ (req[c].closed \ SocketStream(req[c]))
                        /\ dec[c].argv = IF req[c].mount /\ Len(req[c].argv) = 1 THEN <<>>
                                         ELSE Meant(req[c])
      BY Zenon DEF RequestDecoded
    <2> DEFINE r == req[c]
               q == dec[c].argv
    <2>1. TypeOK /\ Receiving /\ DecodingOf(c)
      BY Zenon, DecodingByClient DEF Inv
    <2>parts. HeadOf(c) /\ FdsOf(c) /\ CountOf(c) /\ ArgsOf(c)
      BY <2>1, Zenon DEF DecodingOf
    <2>2. dec[c].argc \in Nat /\ q \in Seq(Str) /\ r \in Requests
      BY <2>1 DEF TypeOK, SType, Decoded
    <2>3. rcvd[c] = 8 + dec[c].argc /\ Len(q) = dec[c].argc
      BY Zenon, <2>1 DEF Receiving, HeaderLen, Acked
    <2>4. dec[c].argc = WireArgc(r)
      <3>1. rcvd[c] >= 8
        BY ONLY <2>2, <2>3
      <3>. QED  BY Zenon, <2>parts, <3>1 DEF CountOf, Acked
    <2>5. dec[c].fds = (Streams \ r.atty) \ (r.closed \ SocketStream(r))
      <3>1. \A s \in Streams : At(s) \in {5, 6, 7}
        BY DEF At, Streams
      <3>2. \A s \in Streams : rcvd[c] >= At(s)
        <4>1. rcvd[c] \in Nat /\ rcvd[c] >= 8
          BY ONLY <2>2, <2>3
        <4>2. \A n \in {5, 6, 7} : rcvd[c] >= n
          BY ONLY <4>1
        <4>. QED  BY Zenon, <3>1, <4>2
      <3>. QED  BY Zenon, <2>parts, <3>2 DEF FdsOf, PassesFd
    <2>6. \A i \in 1 .. Len(q) : q[i] = WireArgs(r)[i]
      BY Zenon, <2>parts DEF ArgsOf
    <2>7. /\ dec[c].uid = r.uid /\ dec[c].pts = pty[c] /\ dec[c].ppid = c
          /\ dec[c].mount = r.mount
      <3>1. rcvd[c] >= 2 /\ rcvd[c] >= 3 /\ rcvd[c] >= 4
        BY ONLY <2>2, <2>3
      <3>. QED  BY ONLY Zenon, <2>parts, <3>1 DEF HeadOf
    <2>8. CASE r.mount /\ Len(r.argv) = 1
      <3>1. WireArgc(r) = 0
        BY Zenon, <2>2, <2>8, WireArgsMeant
      <3>2. q = <<>>
        BY <2>2, <2>3, <2>4, <3>1
      <3>. QED  BY ONLY Zenon, <2>5, <2>8, <2>7, <3>2
    <2>9. CASE ~(r.mount /\ Len(r.argv) = 1)
      <3> DEFINE m == Meant(r)
      <3>1. /\ m \in Seq(Str) /\ Len(m) = Len(q)
            /\ \A i \in 1 .. Len(m) : m[i] = WireArgs(r)[i]
        BY Zenon, <2>2, <2>3, <2>4, <2>9, WireArgsMeant
      <3> HIDE DEF m
      <3>2. \A i \in 1 .. Len(q) : q[i] = m[i]
        BY ONLY Zenon, <2>6, <3>1
      <3>3. q = m
        BY ONLY Zenon, <2>2, <3>1, <3>2, SameElements
      <3>. QED  BY ONLY Zenon, <2>5, <2>9, <2>7, <3>3 DEF m
    <2>. QED  BY Zenon, <2>8, <2>9
  <1>. QED  BY <1>1, Invariance, PTL
=============================================================================
