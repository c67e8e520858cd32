--------------------------- MODULE ClientTerminal ---------------------------
(***************************************************************************)
(* One su client from its connection on: the threads of connect_daemon, the *)
(* terminal they put into raw mode, and the signals that interrupt them.   *)
(*                                                                         *)
(* Threads: M runs connect_daemon, I is pump_async's writer, W the SIGWINCH *)
(* watcher.  All quitting signals share one handler and stand for one.     *)
(***************************************************************************)
EXTENDS Naturals

CONSTANTS
    AttySets,       \* the sets of streams that may be terminals
    HANGUP,         \* the terminal may hang up
    MAX_SIGNALS, MAX_RESIZES, MAX_KEYS

Threads == {"M", "I", "W"}

ASSUME AttyAssumption == AttySets \subseteq SUBSET {"in", "out", "err"}
ASSUME CountsAssumption == /\ MAX_SIGNALS \in Nat /\ MAX_RESIZES \in Nat /\ MAX_KEYS \in Nat
                           /\ HANGUP \in BOOLEAN

VARIABLES
    atty,           \* streams that are terminals
    mpc, ithr, wthr, \* control of M, I and W
    hpc,            \* a thread's place in sighandler
    term,           \* mode of the caller's terminal, or gone
    stdin_is_raw,
    fd0, fd1, ptmx, \* open descriptors: stdin, stdout, the PTY master
    handler,        \* sighandler is installed
    slave, code,    \* the session: its side of the PTY; what is to be read on the socket
    keys, typed,    \* keys still to be typed; input waits to be read
    tsize, psize, wsize, resized, winch, closing_time,
                    \* sizes of terminal and PTY, and as W read it; SIGWINCH pending
    sigs,           \* signals still to come
    early           \* sighandler looked at stdin_is_raw inside set_stdin_raw

ttyVars  == <<term, stdin_is_raw>>
fdVars   == <<fd0, fd1, ptmx>>
sessVars == <<slave, code>>
keyVars  == <<keys, typed>>
sizeVars == <<tsize, psize, wsize, resized, winch, closing_time>>
sigVars  == <<hpc, handler, sigs, early>>
vars     == <<atty, mpc, ithr, wthr, ttyVars, fdVars, sessVars, keyVars, sizeVars, sigVars>>

KEnded == {"exited", "nocode", "interrupted", "signalled", "nomem"}
Ended == mpc \in KEnded

\* Requests to the terminal on stdin and on stdout succeed.
InOk  == fd0 /\ term # "gone"
OutOk == fd1 /\ term # "gone"

-----------------------------------------------------------------------------
(* M: connect_daemon. *)

\* M runs its own code: the process lives and M is not in the handler.
MAt(pc) == mpc = pc /\ hpc["M"] = "none"
MOnly == UNCHANGED <<atty, sessVars, sigVars>>

\* SIGWINCH is blocked and the watcher started; raise() then leaves a signal pending
\* for M alone, which never takes it.
watch_sigwinch_async ==
    /\ MAt("send")
    /\ mpc' = "ack"
    /\ wthr' \in IF "out" \in atty THEN {"sigwait", "none"} ELSE {"none"}
    /\ MOnly /\ UNCHANGED <<ithr, ttyVars, fdVars, keyVars, sizeVars>>

AfterStdin == IF "out" \in atty THEN "pump" ELSE "code"

read_ack ==
    /\ MAt("ack")
    /\ mpc' = IF "in" \in atty THEN "handlers" ELSE AfterStdin
    /\ MOnly /\ UNCHANGED <<ithr, wthr, ttyVars, fdVars, keyVars, sizeVars>>

setup_sighandlers ==
    /\ MAt("handlers")
    /\ mpc' = "getattr" /\ handler' = TRUE
    /\ UNCHANGED <<atty, ithr, wthr, ttyVars, fdVars, sessVars, keyVars, sizeVars, hpc, sigs, early>>

\* set_stdin_raw, whose failure nobody looks at.
tcgetattr ==
    /\ MAt("getattr")
    /\ mpc' = IF InOk THEN "setattr" ELSE "thread"
    /\ MOnly /\ UNCHANGED <<ithr, wthr, ttyVars, fdVars, keyVars, sizeVars>>

tcsetattr ==
    /\ MAt("setattr")
    /\ IF InOk THEN mpc' = "flag" /\ term' = "raw" /\ typed' = FALSE
               ELSE mpc' = "thread" /\ UNCHANGED <<term, typed>>
    /\ MOnly /\ UNCHANGED <<ithr, wthr, stdin_is_raw, fdVars, keys, sizeVars>>

set_flag ==
    /\ MAt("flag")
    /\ mpc' = "thread" /\ stdin_is_raw' = TRUE
    /\ MOnly /\ UNCHANGED <<ithr, wthr, term, fdVars, keyVars, sizeVars>>

\* The thread may fail to start unnoticed; without memory the process exits.
pump_async ==
    /\ MAt("thread")
    /\ \/ mpc' = AfterStdin /\ ithr' \in {"read", "none"}
       \/ mpc' = "nomem" /\ UNCHANGED ithr
    /\ MOnly /\ UNCHANGED <<wthr, ttyVars, fdVars, keyVars, sizeVars>>

pump_ex_retries ==                                                  \* mutant
    /\ MAt("pump")
    /\ (slave = "open" /\ ~OutOk) \/ ~ptmx
    /\ mpc' = "restore" /\ ptmx' = FALSE
    /\ MOnly /\ UNCHANGED <<ithr, wthr, ttyVars, fd0, fd1, keyVars, sizeVars>>

\* pump_ex of M: the slave is closed; output cannot be written; or the master
\* has been closed by I, unless M is already blocked reading it.
pump_ex ==
    /\ MAt("pump")
    /\ slave = "closed" \/ (slave = "open" /\ ~OutOk) \/ ~ptmx
    /\ mpc' = "restore" /\ ptmx' = FALSE
    /\ MOnly /\ UNCHANGED <<ithr, wthr, ttyVars, fd0, fd1, keyVars, sizeVars>>

restore_stdin ==
    /\ MAt("restore")
    /\ IF stdin_is_raw /\ InOk
       THEN mpc' = "unflag" /\ term' = "cooked" /\ typed' = FALSE
       ELSE mpc' = "cleanup" /\ UNCHANGED <<term, typed>>
    /\ MOnly /\ UNCHANGED <<ithr, wthr, stdin_is_raw, fdVars, keys, sizeVars>>

clear_flag ==
    /\ MAt("unflag")
    /\ mpc' = "cleanup" /\ stdin_is_raw' = FALSE
    /\ MOnly /\ UNCHANGED <<ithr, wthr, term, fdVars, keyVars, sizeVars>>

watch_sigwinch_cleanup ==
    /\ MAt("cleanup")
    /\ mpc' = "code" /\ closing_time' = TRUE
    /\ MOnly /\ UNCHANGED <<ithr, wthr, ttyVars, fdVars, keyVars, tsize, psize, wsize, resized, winch>>

\* read_int blocks until there is a code or the end of the stream, on which it exits.
read_code ==
    /\ MAt("code") /\ code # "none"
    /\ mpc' = IF code = "sent" THEN "exited" ELSE "nocode"
    /\ MOnly /\ UNCHANGED <<ithr, wthr, ttyVars, fdVars, keyVars, sizeVars>>

-----------------------------------------------------------------------------
(* I: pump_thread. *)

IAt(pc) == ~Ended /\ ithr = pc /\ hpc["I"] = "none"

\* close(input), close(output).
IEnds == ithr' = "ended" /\ fd0' = FALSE /\ ptmx' = FALSE

\* A key is read and written to the master, if that is still open.
pump_key ==
    /\ IAt("read") /\ typed
    /\ typed' = FALSE
    /\ IF ptmx THEN UNCHANGED <<ithr, fd0, ptmx>> ELSE IEnds
    /\ UNCHANGED <<atty, mpc, wthr, ttyVars, fd1, sessVars, keys, sizeVars, sigVars>>

\* The terminal has hung up, or read, not blocked already, finds its descriptor closed.
pump_stdin_ends ==
    /\ IAt("read") /\ ~InOk
    /\ IEnds
    /\ UNCHANGED <<atty, mpc, wthr, ttyVars, fd1, sessVars, keyVars, sizeVars, sigVars>>

-----------------------------------------------------------------------------
(* W: watch_sigwinch. *)

WAt(pc) == ~Ended /\ wthr = pc /\ hpc["W"] = "none"
WOnly == UNCHANGED <<atty, mpc, ithr, ttyVars, fdVars, sessVars, keyVars, sigVars>>

sigwait ==
    /\ WAt("sigwait") /\ winch
    /\ winch' = FALSE
    /\ wthr' = IF closing_time THEN "ended" ELSE "get"
    /\ WOnly /\ UNCHANGED <<tsize, psize, wsize, resized, closing_time>>

TIOCGWINSZ_unchecked ==                                             \* mutant
    /\ WAt("get")
    /\ wthr' = "set" /\ wsize' = IF OutOk THEN tsize ELSE tsize + 1
    /\ WOnly /\ UNCHANGED <<tsize, psize, resized, winch, closing_time>>

TIOCGWINSZ ==
    /\ WAt("get")
    /\ IF OutOk THEN wthr' = "set" /\ wsize' = tsize
                ELSE wthr' = "sigwait" /\ UNCHANGED wsize
    /\ WOnly /\ UNCHANGED <<tsize, psize, resized, winch, closing_time>>

TIOCSWINSZ_once ==                                                  \* mutant
    /\ WAt("set")
    /\ wthr' = "ended"
    /\ psize' = IF ptmx THEN wsize ELSE psize
    /\ WOnly /\ UNCHANGED <<tsize, wsize, resized, winch, closing_time>>

TIOCSWINSZ ==
    /\ WAt("set")
    /\ wthr' = "sigwait"
    /\ psize' = IF ptmx THEN wsize ELSE psize
    /\ WOnly /\ UNCHANGED <<tsize, wsize, resized, winch, closing_time>>

-----------------------------------------------------------------------------
(* sighandler, on the thread the signal was delivered to. *)

HGoto(t, to) == hpc' = [hpc EXCEPT ![t] = to]
HOnly == UNCHANGED <<atty, wthr, sessVars, keys, sizeVars, sigs>>

\* set_stdin_raw is under way and has not set the flag; when it is M itself that was
\* interrupted, the terminal is raw already.
Unflagged(t) == mpc \in IF t = "M" THEN {"flag"} ELSE {"getattr", "setattr", "flag"}

h_check_closes(t) ==                                                \* mutant
    /\ ~Ended /\ hpc[t] = "check"
    /\ HGoto(t, "close") /\ early' = (early \/ Unflagged(t))
    /\ HOnly /\ UNCHANGED <<mpc, ithr, ttyVars, fdVars, typed, handler>>

h_check(t) ==
    /\ ~Ended /\ hpc[t] = "check"
    /\ HGoto(t, IF stdin_is_raw THEN "tcset" ELSE "close")
    /\ early' = (early \/ Unflagged(t))
    /\ HOnly /\ UNCHANGED <<mpc, ithr, ttyVars, fdVars, typed, handler>>

h_restore(t) ==
    /\ ~Ended /\ hpc[t] = "tcset"
    /\ IF InOk THEN HGoto(t, "unflag") /\ term' = "cooked" /\ typed' = FALSE
               ELSE HGoto(t, "close") /\ UNCHANGED <<term, typed>>
    /\ HOnly /\ UNCHANGED <<mpc, ithr, stdin_is_raw, fdVars, handler, early>>

h_unflag(t) ==
    /\ ~Ended /\ hpc[t] = "unflag"
    /\ HGoto(t, "close") /\ stdin_is_raw' = FALSE
    /\ HOnly /\ UNCHANGED <<mpc, ithr, term, fdVars, typed, handler, early>>

h_close(t) ==
    /\ ~Ended /\ hpc[t] = "close"
    /\ HGoto(t, "reset") /\ fd0' = FALSE /\ fd1' = FALSE
    /\ HOnly /\ UNCHANGED <<mpc, ithr, ttyVars, ptmx, typed, handler, early>>

Interrupted == [setattr |-> "thread", restore |-> "cleanup", code |-> "interrupted"]

\* The default handlers are back.  The call the signal interrupted fails, unless it fell
\* between two calls: M skips tcsetattr, leaves the pump, or exits waiting for the code;
\* I's pump ends in either case, for stdin is closed.
h_return(t) ==
    /\ ~Ended /\ hpc[t] = "reset"
    /\ HGoto(t, "none") /\ handler' = FALSE
    /\ \/ /\ t = "M" /\ mpc = "pump"
          /\ mpc' = "restore" /\ ptmx' = FALSE
          /\ UNCHANGED <<ithr, fd0>>
       \/ /\ t = "M" /\ mpc \in DOMAIN Interrupted
          /\ mpc' = Interrupted[mpc]
          /\ UNCHANGED <<ithr, fd0, ptmx>>
       \/ /\ t = "I" /\ ithr = "read"
          /\ IEnds /\ UNCHANGED mpc
       \/ /\ ~(t = "I" /\ ithr = "read")
          /\ UNCHANGED <<mpc, ithr, fd0, ptmx>>
    /\ HOnly /\ UNCHANGED <<ttyVars, fd1, typed, early>>

-----------------------------------------------------------------------------
(* The caller, and the session. *)

Alive(t) == CASE t = "M" -> TRUE
              [] t = "I" -> ithr = "read"
              [] t = "W" -> wthr \notin {"none", "ended"}

\* A signal reaches any thread.  In the handler, whose steps it may repeat, another
\* signal starts it again; what is left of the first call then changes nothing.
signal(t) ==
    /\ ~Ended /\ sigs > 0 /\ Alive(t)
    /\ sigs' = sigs - 1
    /\ IF handler THEN HGoto(t, "check") /\ UNCHANGED mpc
                  ELSE mpc' = "signalled" /\ UNCHANGED hpc
    /\ UNCHANGED <<atty, ithr, wthr, ttyVars, fdVars, sessVars, keyVars, sizeVars, handler, early>>

type_key ==
    /\ keys > 0 /\ "in" \in atty /\ term # "gone"
    /\ keys' = keys - 1 /\ typed' = TRUE
    /\ UNCHANGED <<atty, mpc, ithr, wthr, ttyVars, fdVars, sessVars, sizeVars, sigVars>>

\* SIGWINCH is ignored until it is blocked for the watcher.
resize ==
    /\ resized < MAX_RESIZES /\ "out" \in atty /\ term # "gone"
    /\ resized' = resized + 1 /\ tsize' = tsize + 1
    /\ winch' = (winch \/ mpc # "send")
    /\ UNCHANGED <<atty, mpc, ithr, wthr, ttyVars, fdVars, sessVars, keyVars, psize, wsize,
                   closing_time, sigVars>>

hangup ==
    /\ HANGUP /\ atty # {} /\ term # "gone"
    /\ term' = "gone"
    /\ UNCHANGED <<atty, mpc, ithr, wthr, stdin_is_raw, fdVars, sessVars, keyVars, sizeVars, sigVars>>

session_opens ==
    /\ slave = "none" /\ mpc # "send" /\ mpc # "ack"
    /\ slave' = "open"
    /\ UNCHANGED <<atty, mpc, ithr, wthr, ttyVars, fdVars, code, keyVars, sizeVars, sigVars>>

session_ends ==
    /\ slave = "open"
    /\ slave' = "closed" /\ code' = IF code = "eof" THEN "eof" ELSE "sent"
    /\ UNCHANGED <<atty, mpc, ithr, wthr, ttyVars, fdVars, keyVars, sizeVars, sigVars>>

\* The session's process on the socket is gone and has sent no code.
session_lost ==
    /\ code = "none" /\ mpc # "send" /\ mpc # "ack"
    /\ code' = "eof"
    /\ UNCHANGED <<atty, mpc, ithr, wthr, ttyVars, fdVars, slave, keyVars, sizeVars, sigVars>>

-----------------------------------------------------------------------------
Init ==
    /\ atty \in AttySets
    /\ mpc = "send" /\ ithr = "none" /\ wthr = "none" /\ hpc = [t \in Threads |-> "none"]
    /\ term = "cooked" /\ stdin_is_raw = FALSE
    /\ fd0 = TRUE /\ fd1 = TRUE /\ ptmx = (atty # {})
    /\ handler = FALSE /\ slave = "none" /\ code = "none"
    /\ keys = MAX_KEYS /\ typed = FALSE
    /\ tsize = 1 /\ psize = 0 /\ wsize = 0 /\ resized = 0 /\ winch = FALSE /\ closing_time = FALSE
    /\ sigs = MAX_SIGNALS /\ early = FALSE

MStep == \/ watch_sigwinch_async \/ read_ack \/ setup_sighandlers \/ tcgetattr \/ tcsetattr
         \/ set_flag \/ pump_async \/ pump_ex \/ restore_stdin \/ clear_flag
         \/ watch_sigwinch_cleanup \/ read_code
WStep == sigwait \/ TIOCGWINSZ \/ TIOCSWINSZ
HStep(t) == h_check(t) \/ h_restore(t) \/ h_unflag(t) \/ h_close(t) \/ h_return(t)
Env == \/ type_key \/ resize \/ hangup \/ session_opens \/ session_ends \/ session_lost
       \/ \E t \in Threads : signal(t)

Next == MStep \/ pump_key \/ pump_stdin_ends \/ WStep \/ Env \/ \E t \in Threads : HStep(t)

Spec == Init /\ [][Next]_vars

\* Threads run; nothing is assumed of the caller and the session.
FairSpec == /\ Spec /\ WF_vars(MStep) /\ WF_vars(pump_key) /\ WF_vars(WStep)
            /\ \A t \in Threads : WF_vars(HStep(t))

-----------------------------------------------------------------------------
(* Properties. *)

\* Type invariant of the client's threads, descriptors and terminal (pts.c, daemon.c).
TermTypeOK ==
    /\ atty \in AttySets
    /\ mpc \in {"send", "ack", "handlers", "getattr", "setattr", "flag", "thread", "pump", "restore",
                "unflag", "cleanup", "code"} \cup KEnded
    /\ ithr \in {"none", "read", "ended"} /\ wthr \in {"none", "sigwait", "get", "set", "ended"}
    /\ hpc \in [Threads -> {"none", "check", "tcset", "unflag", "close", "reset"}]
    /\ term \in {"cooked", "raw", "gone"}
    /\ {stdin_is_raw, fd0, fd1, ptmx, handler, typed, winch, closing_time, early} \subseteq BOOLEAN
    /\ slave \in {"none", "open", "closed"} /\ code \in {"none", "sent", "eof"}
    /\ keys \in 0 .. MAX_KEYS /\ sigs \in 0 .. MAX_SIGNALS /\ resized \in 0 .. MAX_RESIZES
    /\ tsize = resized + 1 /\ {psize, wsize} \subseteq 0 .. tsize

\* Whatever signal, key or hangup comes when, su leaves the terminal raw only if it ends
\* by itself with stdout no terminal (nothing restores it then), memory ran out, a signal
\* fell inside set_stdin_raw, or the stdin pump closed stdin before restore_stdin ran.
\* In particular no default action ends su on a terminal known to be raw.
RawOnlyIf == Ended /\ term = "raw" =>
    \/ mpc \in {"exited", "nocode"} /\ "out" \notin atty
    \/ mpc = "nomem" \/ early \/ ithr = "ended"

\* pump_stdout_blocking: "Before returning, restores stdin settings."
StdinRestored == mpc \in {"code", "exited"} /\ "out" \in atty => term # "raw"

\* The terminal is back in its normal state when su is done ("so that we can restore the
\* terminal to its normal state and retrieve the return code").
TerminalNormalAtEnd == mpc = "exited" => term # "raw"

\* The client returns once its session has ended, whatever signals came before: no
\* combination of closed descriptors leaves M in the pump.
ClientReturns == slave = "closed" ~> Ended

\* A change of the window size reaches the PTY, also one that comes while the watcher is
\* handling another, unless a further change, a signal or the end of the pump supersedes it.
SizeFollows == \A n \in 1 .. MAX_RESIZES + 1 :
    winch /\ wthr # "none" /\ tsize = n ~> psize = n \/ tsize # n \/ ~ptmx \/ ~OutOk \/ closing_time \/ Ended
=============================================================================
