# Specifications of the su binary

`su` is one binary with three roles: a daemon started as root (`su --daemon`), a client
that any process may run (`su`, `su -c id`), and the policy editor `magiskpolicy`.  A client
holds no privilege.  It sends its arguments, environment and standard streams over a UNIX
socket to the daemon, which runs the command and sends a status back.

The specifications are about what is hard to test in such a program: seven processes per
invocation that fork, wait, close and die in any order, and a client with three threads
and a signal handler around one terminal.

## Inventory

| part | source | state | operations | specification |
|---|---|---|---|---|
| client: request | `daemon.c:545-661`, `su.c:340-534` | socket, PTY, how far it has written | connect, `pts_open`, write each field, read acknowledgement, read code | `SuSession`, process K |
| client: terminal | `pts.c`, `daemon.c:493-543` | terminal mode, `stdin_is_raw`, open streams, signal handlers, window sizes | raw mode, two pumps, watcher, `sighandler`, restore | `ClientTerminal` |
| accept loop | `daemon.c:475-490`, `su.c:47-59` | listen queue, accepted client | accept, double fork, wait, close | `SuSession`, D and I |
| session | `daemon.c:273-439` | decoded request, sockets, PTY | read each field, acknowledge, fork, open the PTY, wait, send the code | `SuSession`, S and C |
| su_main in a session | `su.c:201-279`, `340-605` | wait statuses | options, deny, allow, fork, exec, wait | `SuSession`, C, G and X |
| daemon start | `daemonize.c`, `common.c:227-257`, `daemon.c:441-473` | bound name, `/proc/net/unix` | check, fork twice, bind, listen | planned: `DaemonStart` |
| arguments of su | `su.c:208-279`, `498-534` | `argv`, `optind` | getopt, command and shell | planned: `SuArgs` |
| policy statements | `magiskpolicy.c:75-375` | token, field counter, bracket | five parsers | planned: `PolicyStatement` |
| policy database | `sepolicy.c`, `api.c`, `rules.c` | rules, attributes, transitions | add, remove, create | planned: `SePolicy` |
| policy load and save | `magiskpolicy.c:382-483`, `sepolicy.c:197-272` | source and destination | load, apply, dump | planned: `PolicyTool` |
| list, vector | `utils/list.c`, `vector.c` | links, capacity | insert, remove, push, pop | planned: `LinkedList`, `Vector` |
| images | `utils/img.c` | loop devices, mounts | set up, mount, merge | planned: `ImageMerge` |

Not modelled, and not planned: `setproctitle.c` and `error.c` (formatting), the wrappers of
`xwrap.c`, `misc.c` and `common.c` that keep no state between calls, `supolicy.c` and the
stubs (not compiled), the vendored libsepol and libselinux.

## Modules

    SuSession -- SuSessionProps -- MCSuSession      session_*.cfg, exit_code.cfg, client_hangs.cfg
                      |
                 SuSession_proofs

    ClientTerminal -- MCClientTerminal              terminal*.cfg, restore_race.cfg, raw_left.cfg

Operators with a suffix and the comment `mutant` are wrong on purpose: a run of
the module with one of them in place of the original must fail.

### SuSession

One daemon D and a set of clients.  A client `c` is one invocation of `su`, with the
processes it causes:

* **K** runs `connect_daemon` (the child of `fork_for_samsung`; its parent only passes the
  status on: `SuExit`);
* **I** and **S** come from `fork_zero_fucks`; I exits at once, S runs `daemon_accept`;
* **C** is S's child: opens the PTY, sets up the streams and becomes `su_main`;
* **G** is the child of C's `fork_for_samsung`: parses options and runs `allow`;
* **X** is the command.

A control variable per process (`kpc`, `spc`, ...) names the next call.  Each action is one
call that another process can see, and what the code does with its result up to the next.
`Wire(c, i)` is the i-th message a client writes: an int, a string or a descriptor; `sent`
and `rcvd` count them.  The socket buffers `SOCK_BUF` messages, so that a writer blocks.
`down` holds the ints from S to K.  `hold` and `lhold` say which processes have the
connection and the listening socket open; a stream ends when all have closed it.  The short-lived
children that log (`common.c:199`) have a copy too, but their parent waits for each of them.

`pty` is the name of a client's slave terminal.  A name is free again once its master is closed
and no process is left on the slave (`FreePts`), so C may open another client's terminal
(`open_pts`, which makes it C's controlling terminal, `att`) before it looks at the owner
(`check_pts`).

`closed` has the streams a client is started without.  `socket()` takes the lowest of their numbers
(`SocketStream`), and what `send_fd` finds open and passes for that stream is the client's own
socket.  From then on S, and later the session's command, hold the end that S reads from and
writes to (`SocketSent`, `KOpen`): S no longer meets the end of the stream or SIGPIPE when the
client is gone, and a command with that socket as its standard input may read what S wrote to
the client (`command_reads`).  This is what the code does where libc does not reopen closed streams
at start; `su` is not setuid, so none has to.  With a terminal among the streams only one
other is closed, as the PTY's master would take the second number.

Faults are steps of their own or outcomes of a call, at most `MAX_FAULTS` in a behaviour: a
fork that fails (each of the six, the one in `exec_log` included), an `open` of a PTY or an
`fstat` of it that fails, the client's own terminal gone, K, S, C or G killed at any point,
the daemon gone.  `dup2` fails by itself where there is no descriptor.  `hurt` remembers which
clients met a fault.  A status that the code reads without having set it is any of `Garbage`.

Kept as outcomes only: which option makes `su_main` print, refuse or go on
(`su_main_options`); whether the caller's pid is still in `/proc`; what a session asked for
`su --daemon` finds (`su_main_daemon` exits with 0, a daemon running or started).  A string stands for its
length and bytes together; `PATH_MAX` and `MAX_ARGS` are compared as in the code.

### ClientTerminal

One client from the moment it has its PTY.  Threads: **M** runs `connect_daemon` and the
output pump, **I** is the input pump, **W** the SIGWINCH watcher.  Each may be in
`sighandler` at its own place (`hpc`); all quitting signals share that handler and are one
signal here.  A signal is delivered to any thread, in the handler or not.  After the handler
the interrupted call fails, or the signal fell between two calls.

The terminal is `cooked`, `raw` or `gone`.  Descriptors 0, 1 and the PTY master are closed
by whichever thread gets there first.  `raise(SIGWINCH)` goes to the calling thread, which
blocks the signal, so it changes nothing: the PTY has no size until the first resize.

The session is reduced to opening the slave, closing it with a code on the socket, and
ending without one (`session_lost`, on which `read_int` exits); when it does which is what
`SuSession` is about.  The three standard streams are open at first.

## What is checked

| run | instance | states | result |
|---|---|---|---|
| `session_shapes` | 1 client, 12 shapes of request, 2 faults | 104,524 | passes |
| `session_pair` | 2 clients, 2 users, 1 PTY name, 1 fault | 1,324,015 (with symmetry) | passes |
| `session_queue` | 2 clients, queue of 1, commands that need not end | 113,891 | passes |
| `exit_code` | 1 client, no fault | | violated: finding |
| `client_hangs` | 1 client, 1 fault | | violated: finding |
| `terminal` | stdin, stdout, both or neither a terminal; 2 signals, 2 resizes, 1 key, hangup | 2,016,434 | passes |
| `terminal_live` | the same with 1 signal | 316,672 | passes |
| `restore_race` | 1 key, no signal | | violated: finding |
| `raw_left` | stdin alone a terminal, no signal, no key | | violated: finding |

`session_shapes`: the writer and the reader of a request agree on every field, for every
combination of terminals, closed streams and the mount flag (`FrameAligned`); what S
decoded when it acknowledges is what its client asked for (`RequestDecoded`); a client, alive
or killed, that has not had its acknowledgement and has none to read has nothing run for it
(`NoCommandBeforeAck`); clients and sessions end (`ClientEnds`, `SessionEnds`).  Each of the
last two has one exception.  A client waits for ever on a PTY that its session never opened
(`Hung`).  A session waits for ever for the rest of a request when its client died in the middle
of it after passing its own socket for a closed stream (`Stuck`).  The shapes include a count
of 0 with one string left over (mount flag, no argument), one argument too many, one string
too long, one stream closed, and two.

`session_pair`: sockets are open only where they are still to be used or closed
(`ConnectionHeld`, `ListenerHeld`); a session goes on only with a terminal of its caller's
uid although names are reused (`PtyOwned`); without faults the status is that of the client's
own command (`StatusPassedOn`).  Two clients and one name are the least that makes a name
go from one to the other.

`session_queue`: no session holds up the accept loop (`QueueServed`).

`terminal`: the terminal is left raw only in four listed ways (`RawOnlyIf`), whichever
thread a first and a second signal reach.  `terminal_live`: the client returns after its
session whatever was closed under its pumps (`ClientReturns`); a resize during the handling
of another is not lost (`SizeFollows`).

Bounds.  Faults: two, since one process's failure is only hidden or worsened by a second.
`SOCK_BUF` is smaller than a request, so writers block.  `MAX_ARGS` and `PATH_MAX` are 2,
with requests on both sides of each.  Signals: two, the first runs the handler and the
second meets the default action.  Resizes: two, one during the other.  Deadlock is not
checked: clients, daemon and commands end, and an ended system takes no step.

Fairness.  Weak fairness of each process's or thread's own steps: the kernel
schedules what can run, and each step is a call that can complete.  `FairSpec` of
`SuSession` also assumes that a command ends, `ServeSpec` does not.  Nothing is assumed of
faults (none is part of a fair step that has no other outcome), of what a command reads, of keys,
signals, resizes and the caller; in `ClientTerminal` nothing of the session
either.

### Disagreements between the code and its comments

* `exit_code`: `allow` calls `exit(status)` with a raw wait status (`su.c:277`), so the exit
  code of the command is lost; `daemon.c:341-342` promises "send the exit code across the
  wire".  `StatusPassedOn` says what arrives: the low byte of the wait status.
* `client_hangs`: `pump_stdout_blocking` returns when the slave closes (`pts.c:324-325`);
  when the session fails before it opened the slave, the client never returns.
  `ClientEnds` says that nothing else keeps a client.
* `restore_race`: the output pump closes the master before stdin is restored.  A key typed
  in between makes the input pump close stdin, and the terminal stays raw (`pts.c:327`:
  "Before returning, restores stdin settings").
* `raw_left`: with stdin a terminal and stdout not, nothing restores the terminal.

## What is proved

TLAPS proves, for any set of clients, requests, strings and terminals, any bounds and any
number of faults, from the named assumptions of `SuSession` (requests have `argv[0]`, no
stream that is both closed and a terminal, and with a terminal at most one that is closed; statuses are below 65536; bounds are naturals):

| theorem (`SuSession_proofs`) | states |
|---|---|
| `Invariance` | `Spec => []Inv` |
| `TypeCorrect` | `TypeOK` |
| `Framed`, `RequestIntact` | `FrameAligned`, `RequestDecoded` |
| `ConnectionsClosed`, `ListenerClosed` | `ConnectionHeld`, `ListenerHeld` |
| `TerminalOwned` | `PtyOwned` |
| `AckBeforeCommand` | `NoCommandBeforeAck` |
| `StatusDelivered` | `StatusPassedOn` |

None of these is inductive.  `Inv` (`SuSessionProps`) adds what they rest on:

* `Once`: a client is queued, accepted and given a session at most once; without it a
  second session could read the rest of the first one's request.
* `Sending`, `Receiving`, `Decoding`: S at a given field has read exactly the messages
  before it, and what it decoded is what those say.  `FrameAligned` and `RequestDecoded`
  follow by looking up the next message.  The types depend on it too (the value of a field
  has its type because of its position), so `TypeOK` is proved with these, not before.
* `Tree`: processes start in order, and what a session is attached to was opened by C.
  `AckFirst`: no child of S exists before the acknowledgement is on the socket or has been
  read, by the client or by a command that has the client's socket as its standard input.
* `Statuses`: in a session without faults each parent's status is computed from its
  child's, and what is on the socket is the acknowledgement, then the code.

`SuSession_proofs` has the frame lemmas (which process may change what), then one lemma per
conjunct of `Inv`, and puts them together.

Only model-checked: the liveness properties (fairness is out of the prover's reach), all of
`ClientTerminal`, and the properties found violated.

## Plan

1. `DaemonStart`: two starters, a daemon that dies, sessions that outlive it; at most one
   daemon, a dead one can be replaced.  Composition with `SuSession`'s listening socket.
2. `SuArgs`: getopt and the indices of `allow`, against a reference reading of the usage text.
3. `SePolicy`, `PolicyStatement`, `PolicyTool`: the rule database refines a map from keys to
   permission sets; the parsers accept exactly the documented statements.
4. `LinkedList` as a refinement of a sequence, `Vector`, `ImageMerge`.
5. An abstract remote call (request, acknowledgement, result or failure) that `SuSession`
   implements, and a proof of the refinement; a proof of `RawOnlyIf`.
