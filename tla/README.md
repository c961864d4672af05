# TLA+ models of GNU inetutils

GNU inetutils is a set of network programs: clients (`ping`, `telnet`, `tftp`,
`ftp`, `talk`, `rsh`, `rlogin`, `rcp`, ...), their daemons (`telnetd`, `tftpd`,
`ftpd`, `talkd`, `rshd`, `rlogind`, ...) and two services of the machine itself
(`inetd`, `syslogd`).  This directory models those parts whose correctness
depends on the order in which things happen: messages that cross or get lost,
timers and signals that strike between two statements, buffers that wrap, tables
shared by several clients.  Paths below are relative to the root of the
repository.

Contents: 1 inventory, 2 modules and how they correspond to the code, 3 runs,
4 proofs, 5 what is only model-checked, 6 known disagreements between the code
and what it says of itself, 7 what is not modelled, 8 plan.

## 1. Inventory

| part | state it keeps | operations | what interacts with it |
|---|---|---|---|
| `ping` (`ping/`) | one `PING` structure (counters, `ping_cktab`), `stop`, locals of `ping_run` | send on a timer, receive, time out, `^C`, next operand | the network; replies to an earlier operand |
| `telnet` rings (`telnet/ring.c`) | `supply`, `consume`, `mark`, two time stamps | supply, consume, mark, flush in part | `Scheduler`, `netflush`, `ttyflush`, `telrcv`, `telsnd` |
| option negotiation (`telnet/telnet.c`, `telnetd/state.c`) | `options`/`do_dont_is`/`will_wont_is`, counters of unanswered requests | `send_*`, `willoption`, `wontoption`, `dooption`, `dontoption` | the other program, over TCP; `ttloop` waits for it |
| telnet session (`telnet/`, `telnetd/`) | state machines of `telrcv`, pending output, special characters, terminal type, size and modes, environment, modes of the user's terminal | data, IAC commands, Synch, suboptions, prompt, open, suspend, signals | the other program, both terminals, signals and `longjmp` |
| authentication and encryption (`libtelnet/`) | mechanism agreed on, state of both directions, keys, positions in the key streams | START, END, REQSTART, REQEND, key ids | option negotiation; `telnetd` waits for it |
| `tftp`, `tftpd` (`src/`, `libinetutils/tftpsubs.c`) | block number, timeouts, two buffers, port of the peer | get, put, acknowledge, retransmit, dally, convert | each other over UDP; several `tftpd` for one request |
| `inetd` (`src/inetd.c`) | `servtab`, `allsock`, `nsock`, `timingout`, `se_wait` of each service | select, accept, fork, reap, reload, retry, terminate | clients, the servers it starts, signals |
| `talk`, `talkd` | table of requests of each daemon, id counter; ids, sockets and timer of each `talk` | LOOK_UP, ANNOUNCE, LEAVE_INVITE, DELETE, connect, accept, ring again, quit | two processes and two daemons over UDP, timers |
| `syslogd` | table of files, last message and repeat count of each, state of remote hosts | receive, select by facility, write, forward, flush, reload | programs, other hosts, SIGHUP, SIGALRM |
| `ftp`, `ftpd` | login state, data connection, restart point, abort flags | commands and replies, transfers, abort | each other over two TCP connections, SIGINT, SIGURG |
| `rsh(d)`, `rexec(d)`, `rcp` | two connections, pipes | relays in both directions, one-byte acknowledgements | remote commands, signals |
| `rlogin(d)` | modes, window size, urgent byte | relays, control bytes | SIGURG, SIGCHLD, SIGWINCH |
| others | | `traceroute`, `ping6`, `whois`, `ifconfig`, `logger`, `hostname`, `uucpd`, `libls`, `libicmp` | |

Where it is hard:

* *signals between two statements*: `stop` of `ping`, the handlers of `inetd`
  that change the table its main loop scans, `longjmp` out of SIGALRM in `tftp`
  and `talk`, out of SIGINT in `ftp` and `telnet`, SIGURG in `ftpd` and `rlogin`;
* *two connections for one purpose*: control and data of FTP, output and errors
  of `rsh`, data and urgent bytes of `rlogin` and `telnet`;
* *unreliable delivery*: late replies of `ping`, retransmitted requests and
  blocks of `tftp`, doubled requests of `talk` whose answers only carry a type;
* *crossing requests*: WILL against DONT, two users calling each other, special
  characters and modes changed on both sides, START against REQEND;
* *limits*: ring buffers, two transfer buffers, 16-bit block and sequence
  numbers;
* *reload and restart*: SIGHUP while a server is waited for, a `talkd` that
  exits when idle.

`PROJECT.json` lists these hazards at the lines where they bite, with the
properties that would catch them.

## 2. Modules

A definition keeps the name of the function it models where TLA+ allows it.
Operators introduced as "Faulty variant of ..." are deliberately wrong versions
of a definition; each shows that some property notices that fault, and no
specification uses them.  History variables are marked; no action reads them.

### Ping

`Ping.tla` is `ping_run` with `ping_recv`, `ping_xmit` and `main`.  `pc` is the
place in the code; `LoopTest` is `while (!stop)`; `Receive`, `SendNext`,
`StartLinger` and `EndLinger` are the branches behind `pselect`; `Finish` is the
finish callback with `ping_reset`.  Time is kept as the code uses it: the ticks
left for `pselect` and for `ping_timeout_p`.  `cktab` is the bit table indexed by
`C_IND`.  A request in `net` is answered by a reply or an ICMP error, once or
more, in any order, or never; `sockq` is the queue of the raw socket, which also
receives packets of other processes.  One socket, identifier and table serve all
operands, as in the code.

### TelnetRing, Fifo

Pointers are offsets, the two clocks are reduced to which is the younger.  The
writers are those of the client: `SupplyData` (looks for room first), `NetAdd`
(NETADD without a look, allowed to overfill only if `Crowded`), `DoSynch` (IAC,
mark, DM), `ReadInput`; the readers are `NetFlush` (one `send`, urgent when at
the mark, perhaps partial), `NetFlushFails`, `TtyFlush`, `ConsumeInput`.
`ring_decrement` subtracts `size` where it should add it, and so does the model.

Each call is one step.  In the program the handlers `intr`, `intr2`, `susp`,
`sendwin` and `ayt` (`telnet/sys_bsd.c:946-1010`) add to the same ring when their
signal strikes between the copy and the update of `supply`
(`telnet/ring.c:209-211`), and the bytes of one of the two are then overwritten:
what is checked and proved is the ring whose calls are not cut in two.

`Fifo.tla` is the abstract specification: a queue of at most `Size` bytes of which
one may be urgent, with `Put`, `PutUrgent`, `Take` and `Forget`.  `TelnetRing`
implements it under the mapping `queue <- Contents` (the bytes from `consume` to
`supply`) and `urgent <- MarkPlace` (where the mark stands among them): `IsFifo`.

### TelnetOption

Client and server, one option in one direction, two FIFO inboxes.  `want`,
`state` and `resp` are the two bits and the counter both programs keep per
option (`Positive` and `Negative` are the shared shape of the four handlers of
each; what each program accepts is `ClientAccepts` and `ServerAccepts`, from the
`switch` of each handler).  What a side accepts is fixed for a behaviour: `Held`
says that `telnetd` keeps to kludge line mode and refuses DO SGA
(`telnetd/state.c:963-980`); that a program on the pseudo terminal changes this in
the middle of a session is not modelled.  `ServerWill` has the extra branch of WILL
ECHO: its `send_dont` says something only if the option was on before
(`telnetd/state.c:707`, 759).  Each side may start a change on its own `MaxStarts`
times.  `OptionsAgree` is what both sides know when the wire is quiet: of an
option both support (`AgreedWhenSupported`), and of one a side refuses
(`RefusalRespected`).

### TelnetStream, TelnetSlc, TelnetTerm, TelnetEnv, TelnetSecure, TelnetCommand

Each looks at one part of a session of `telnet` and `telnetd`; `MCTelnet` puts
them, the rings and the negotiation side by side.

* `TelnetStream`: what is typed and what is printed.  `telsnd` and the client's
  `telrcv` on one side, `telnetd`'s `telrcv`, `telnetd_run` and `netclear` on the
  other, the states of both `telrcv` (CR, IAC, ...), Synch with its urgent mark,
  writes and reads cut anywhere.  `sendcmd` is the command `send`, which adds the
  bare command; `TerminalKey` the signals and the flush character of the terminal
  in line mode, with the flushing and the Synch that follow them.
* `TelnetSlc`: one special character of line mode with its level and value on both
  sides, the default of each, acknowledgements, and changes by the user and by
  programs on the server.  The kinds of a character on the server: one of its
  terminal, an editing one (EC, EL, EW, RP, LNEXT), XON or XOFF once LFLOW was
  offered, and one without a place in the terminal.  `send_slc` asks for the client's
  default of an editing character only; `silent` records that it said nothing of
  another.  `deferslc` is the first `localstat`, `localstat` any later one.
* `TelnetTerm`: `getterminaltype` with its waits and the search through the names
  the client offers, then window size, line mode and flow control as both sides
  change them (`clientstat`, `localstat`).  The client has offered its options
  itself (`Offers`) or not, so sizes and line mode may come before there is a pseudo
  terminal (`Open`); until then `tty` is the copy in memory, which the terminal
  does not inherit.  `getterminaltype` waits for the values one after the other;
  as what has come stays, the model waits for them together.
* `TelnetEnv`: the list of variables, the coding of names and values that contain
  the separators, and the buffers on both sides.
* `TelnetSecure`: the choice of a mechanism, the exchange of the Shishi module, and
  encryption.  What is sent is a sequence of items stamped with the key, vector and
  position they were encrypted with; decryption compares stamps.
* `TelnetCommand`: the client from prompt to prompt: commands, connecting, the
  modes of the terminal, signals, `longjmp`, suspension, `!`, `.telnetrc`.

### Tftp, TftpBuffers, Netascii

`TftpBuffers.tla` has the routines of `tftpsubs.c` as functions of a record.
`Tftp.tla` runs one client and up to two instances of `tftpd` over a set of
packets: `Acknowledged` and `Received` are the successful branches of the four
transfer loops, `Resynchronise` the `synchnet` branch, `Ignore` and `Refused` the
others (a `read` that fails is in `Acknowledged`: the client ends its put as
after the last block, and `unread` records it), `Timer` the SIGALRM handlers,
`Dally` and `DallyEnds` the wait for a lost final acknowledgement. `SavesMask`
says whether `setjmp` saves the signal mask. `Netascii.tla` steps through the
conversion byte by byte, block by block.

### Inetd

`NextConfig` is one file of `config`: entered, set up, and everything not seen so
far purged.  `Retry`, `ReapChild` are the handlers; `Select`, `Invoke`,
`ForkFails`, `Terminate`, `RunInternal` and `EndScan` the main loop, whose body
blocks signals, so that handlers run between two of these steps.  A configuration
has one file or more (inetd is always given one).  `EnteredWait` is the test of
`enter` with all it does: a pid is kept unless the file says nowait, and a nowait
service stays nowait when the file now says wait.  `Alarms` tells a failing `bind`,
which sets the alarm, from a failing `socket`, which does not.  A built-in service
(`"internal"`) is a stream one that does not fork (`time`, `daytime`), which accepts
as the others do; those that fork are `"stream"`, those on datagrams are left out.
A descriptor is known by the service it was opened for: that another service gets
its number again during a scan is not modelled, that the same one does is (`Stuck`,
which two edits reach).  `uncounted` is a history variable that counts the sockets
closed, or handed to a server, without being in `allsock`.

### Talk

Two users with a machine and a daemon each.  A process is a record: `pc` is the
transaction it is in or the place it waits, `Receive`, `WrongType`, `Resend`,
`ResendEarly` and `disp_msg` are `ctl_transact`; `Connect`, `Accept`, `re_invite`,
`Connected` are `check_local` and `invite_remote`; `Closed`, `p_error`, `Killed`
the ways out.  The daemon is `process_request` with the table as a sequence,
newest entry first.  `insert_table` never sets the `prev` of the entry it puts a
new one before, so `table_delete` cuts off everything newer than what it
deletes: the model does the same.  The test for expiry in `lookup_request` is
never true, so nothing expires here either.  `late` is a history variable: the
users whose LEAVE_INVITE was taken once more after the DELETE, or who took the
answer to another DELETE (`by` tells which talkd gave it) for that of their own
talkd; `swept` and `forgotten` name the machines where an invitation went with an
older entry and where talkd ended.

### Syslogd

`files` is the list `Files`, newest line of the configuration first, with what
each entry remembers (`f_prevline` and `f_prevhost` are `prev`, `f_time` is the
`age` since then).  Every call that can be interrupted, or that calls `logmsg`
again when a destination fails, is a frame of `stack`: an action executes the
innermost call up to its next such point.  `Fprintlog` is `fprintlog` up to the
statement that resets the count, `Reset` is that statement, so that a handler may
strike between the two.  `Logmsg...` are the branches of `logmsg` for one entry,
`Alarm` and `Domark...` the handler of SIGALRM, `Hup` that of SIGHUP, `Term` and
`Die...` that of SIGTERM, `Poll`, `Receive` and `Init...` the main loop and `init`.
`Blocked` is what `logmsg` does to the signal mask; SIGTERM is not blocked, and the
handlers may find entries that `init` has freed, which ends the behaviour with
the status "undefined".  `owed`, `last`, `wrong`, `torn` and `hopped` are history:
the lines logged to an entry and not yet in its file, the line a reader of the
file sees last, and what went wrong.  A terminal (`F_TTY`) is treated like a file,
a list of users like all users.

### Ftpd, Ftp

`Ftpd.tla` is the server against a client that sends any line at any time. The
globals are one record, each function of the source an operator from record to
record, each command one step; transfers wait in `accept` and in the data loop,
where SIGURG (`myoob`) and SIGALRM (`toolong`) strike. `tmpline` is the urgent
line `myoob` has read, which `telnet_fgets` hands to the scanner unless it was
ABOR. `owed` counts lines read less final replies sent. `Ftp.tla` is the client
against a server: `k` is the place that goes on with the reply awaited,
`Interrupted` and `mabort` are the handlers of SIGINT, `astray` marks a session
that met one of the code's own disagreements (section 6) and is not followed
further. `MCFtp` has both; a client whose input is not a terminal is combined
with passive mode only.

### Rcp, Rsh, Rlogin, RlogindListen

`Rcp.tla`: `source`/`rsource` and `sink` over a connection of tokens, several
operands one after the other (`toremote`, `tolocal`), one failing call or a lost
connection anywhere.  `Rsh.tla`: `rsh` with `rshd` (host check, `iruserok`, the
second connection, the relay of errors and signals) and `rexec` with `rexecd`, the
command being external.  `Rlogin.tla`: the writer and the reader of the client, the
daemon with packet mode, urgent data as TCP has it (the mark moves with each new
urgent byte).  `RlogindListen.tla`: `rlogin_daemon` with its limit of children.

## 3. Runs

A run per family of programs.  Where a family has several models that do not
interact, a behaviour is one of one of them, chosen at the start, and the
variables of the others stay as they began (`MCTelnet`, `MCRcmd`, `MCFtp`,
`MCTftp`).  A passing run explores its instance completely.  Bounds are CONSTANTS
marked "bound" in the modules or described where they are declared.

| run | instance | what it shows |
|---|---|---|
| `ping` | 2 operands, 9 command lines, a table of one bit, sequence numbers modulo 2, at most 2 requests when nothing else ends a run, 1 duplicate, 1 foreign packet, 1 packet in the queue | replies are never counted beyond requests plus answers to an earlier operand; reported duplicates are real, late or old; the exit status is honest; limited runs and `^C` end the program, a deadline is overrun by at most two intervals |
| `tftp` | one get or put of 1 to 4 blocks, or a get and a put of 1 block, block numbers modulo 4, 2 servers for small files, 1 server and 1 fault for the others; every file of up to 5 bytes over 4 byte classes, blocks of 3 | complete and correctly placed files, oversized files fail and say so (`Delivered`), no overwritten buffer, the conversion round-trips wherever a pair is cut (`Converted`), commands and servers end |
| `inetd` | 3 services, 2 process ids, 2 SIGHUPs, 2 edits, 1 failure of `socket`, `bind` or `fork`, termination after 2 invocations | table, descriptor set and `nsock` agree but for one known cause (`SocketsWatched`), one server at a time for a wait service, requests are taken |
| `talk` | one user calls twice, the other once, one ring, one fault | invitations stand and the newest is found (`InvitationsFound`), they are cleared, the parties meet and stale entries do not keep them apart (`PartiesMeet`) |
| `syslogd` | 6 configurations of one or two entries, each of which may replace any other on SIGHUP; 2 texts of which one is too long to be remembered; counts up to 2; intervals of 1 and 2 units, alarm every unit | what was logged and is not in a file is counted, a summary follows the line it is about with the right number, errors about errors end (`NothingLost`); counts are flushed before an entry is closed; repetitions are written and SIGHUP is served in the end (`NothingStays`) |
| `ftp` | `ftpd`: 5 kinds of users, 1 failure forgiven, 2 descriptors for data, replies at most 1 out of step; `ftp`: 2 files for a multiple command, 3 descriptors, 1 interrupt, lost connection or change of an option | only the user named and approved is logged in; one final reply for each line; no closed descriptor, old restart point or passive socket is used again (`NothingStale`); every reply is read before the user is asked again; an interrupt is never forgotten; the same type on both sides and the right file open (`RightFile`); commands and sessions end |
| `rcmd` | `rcp`: 3 trees, files of 0 to 2 blocks, 2 operands, 1 fault; `rsh`: 1 piece of each output and of input, 2 events; `rlogin`: 2 pieces of output, 2 events, 2 pieces in flight; `rlogind`: 2 sockets, 1 child, 5 connections, 1 failing `accept` | a copy reported complete is complete; no command for a host whose name does not lead back to it, all output shown but for the bytes `rexec` takes for the status (`RightCommand`); output after the last urgent byte is kept; everything ends, the window size is agreed, every connection served (`Ends`) |
| `telnet` | rings of 5 bytes, writes of up to 3; 7 options, 3 requests of each side; characters {0, 1, 2}, 5 kinds of support, 2 changes; 2 commands, or 1 and 1 failure, for encryption; 4 settings, 2 moves, 1 cut for the stream; 2 terminals (one name and a display, three names and none), 2 databases, 2 sizes, 2 changes for the terminal, options offered by the client or not; buffers of 14, 3 commands for the environment; 6 events for the client | rings hold exactly what is due, never stall, and are queues; agreement on options, special characters, keys, terminal and environment once the wire is quiet; data arrive as typed and printed; the terminal is given back; every negotiation settles |
| `tftp_timeout` | `SavesMask = FALSE` | violation, see 6 |
| `inetd_retry` | a terminated service | violation, see 6 |
| `talk_delete` | as `talk` | violation, see 6 |
| `syslogd_hops` | a remote host as only destination | violation, see 6 |

Why the bounds are enough: every counter that wraps does so more than once in
the instance; every queue and buffer reaches its limit; two processes of a kind
are enough for each to disturb the other; two changes, one of each side, are
enough to cross, and a third to find what they left behind; and one fault of each
kind can hit every step.  What needs two faults at once is outside these runs.

Exemptions.  Where the code does not keep a promise in a known case, the
property names the case (a history variable such as `Ftpd`'s `skewed`,
`Ftp`'s `astray`, `TelnetTerm`'s `crossed`, `unheard` and `early`, `TelnetSlc`'s
`dropped` and `silent`, `TelnetSecure`'s `spoilt`, `Inetd`'s `uncounted`, `Tftp`'s
`unwritten` and `unread`), and section 6 describes it.

Fairness.  `ping`: the process and its clock run, answers need never come.
`tftp`: processes run and unblocked timers go off; packets may be lost for ever.
`inetd`: the main loop and the handlers of pending signals run, servers take what
is there and end in the end; clients and the administrator do what they like.
`talk`: processes and daemons run, users need not call, and timers that interrupt
need not.  `syslogd`: the process runs, and time passes however many messages it
logs (strong fairness of `Tick`, as `logmsg` takes no time in the model);
messages and signals other than the alarm need never come.  `ftp`: the client and
its server run; a server process whose client is gone notices by end of file, a
failing write or its alarm.  `rcmd`: processes are scheduled, `select` serves each
descriptor, signals are delivered, a stopped client is continued, the command or
shell reads and ends; the user need not type.  `telnet`: each program reads what
TCP delivers, and `telnetd`'s alarm goes off; `TelnetStream`, `TelnetEnv` and
`TelnetCommand` are checked for safety only.  In the joint runs one fairness
condition ranges over one process of each model, which is the same as one for
each, as only one model moves.  These are promises of the scheduler of the
operating system, of TCP and of nothing else.

Deadlock is checked in `ping`, `tftp` and `syslogd`; it is switched off where
everybody may wait for a user, or where a bound ends the behaviour.

## 4. Proofs

Checked by TLAPS, for every value of the constants allowed by the named
assumptions of the modules.

`PingProofs.tla`:

* `TypeCorrect`: `Spec => []TypeOK`.
* `AccountingInvariant`: `Spec => []PingInv`.  `RecvBounded` is not inductive: a
  counted reply must be paid for.  The invariant adds (`RecvCount`) that
  `recv + |Unanswered| <= xmit + stale`, where `Unanswered` are the clear bits
  below `xmit`, and (`InFlightSent`) that everything under way answers a request
  sent before.  A send adds a request and at most one clear bit; a counted
  reply takes a clear bit away or is stale.  That the bit cleared on sending is
  the bit tested on receiving needs `CkBitsDivideSeqMod`: the size of the table
  divides the range of `icmp_seq`.
* `RepliesBounded`: `Spec => []RecvBounded`.
* `StatusHonest`: `Spec => []ExitStatusHonest`, by `StatusTracksMissed`: at every
  step, not only at the end, `status` is 1 exactly when some run ended without a
  reply.
* `Overshoot`: `Spec => []OvershootBounded`, by `OvershootBudget`: the ticks after
  the deadline and the rest of the present wait together stay within the intervals
  that may still begin.
* `DuplicatesExplained`: `Spec => []DupsExplained`.  A reported duplicate may be
  the first answer to its request, because an older reply set the bit before; so
  the explanation must be booked when the bit is taken, not when the victim is
  reported.  `DupsCredit` counts the bits so taken (`Stolen`), and
  `OriginalsOnce` says that a request has one original answer.

`TelnetRingProofs.tla`, for a ring of any size whose writers look for room
(`~Crowded`):

* `RingHoldsAll`: `Spec => []HoldsAll`, by the invariant `RingInv`.  `NoStaleMark`
  is part of it since flushing stops at the mark; `LostMark` says where data lie
  when `ring_decrement` left the buffer, without which the counts could not be
  related to the contents.
* `RingNoStall`: `Spec => []NoStall`.
* `RingIsFifo`: `Spec => IsFifo`, the refinement of `Fifo`.  `RingInv` makes
  `Contents` equal to `due` and the mark's place equal to `urgent` (`PlaceOfMark`);
  then each writer is a `Put` (`SuppliedPuts`), `dosynch` a `PutUrgent`, each reader
  a `Take` that stops at the mark (`ConsumedTakes`).  That `ttyflush` and the
  readers of input, which do not look at the mark, meet none needs
  `OnlyNetMarked`: only `netoring` is ever marked.

`TelnetOptionProofs.tla`, for every option, either performer, and any number of
changes that cross in any way:

* `Agreement`: `Spec => []OptionsAgree`.  The property speaks of a quiet wire; the
  invariant says what the wire holds until then.  For an option both support
  (`AgreeInv`): the messages to a side alternate, starting with a change of its
  state and ending with what the peer wants; what a side wants is its state changed
  as often as it has unanswered requests; and there are as many unanswered requests
  as messages under way (`Counted`), so that a quiet wire leaves none.  For an
  option a side refuses (`RefuseInv`): only refusals travel to the peer, its
  requests travel in turn, and its counter is the requests unread plus one or two
  for each refusal under way (`Owed`); two, because a refusal that finds the state
  negative already settles the request and the withdrawal that crossed it.

`InetdProofs.tla`, for any services, configurations, signals and failures:

* `CountInvariant`: `Spec => []CountInv`, the unconditional part of
  `SocketsWatched`: `nsock` is the size of `allsock` less the sockets closed or
  handed over without being in it, a service that is waited for has its socket open
  and not watched (`WaitedFor`), and the scan holds no such service (`ScanFree`).
* `SocketsAreWatched`: `Spec => []SocketsWatched` under `WaitKept`: no
  configuration turns a wait service into a nowait one.  Without it `enter`
  overwrites `se_wait`, the end of the server is not matched with the service, and
  its socket is never watched again.
* `OneServer`: `Spec => []OneServerAtATime` under `WaitKept` and `WaitStays`: wait
  services stay in the first file of every configuration.  Without it the purge
  forgets the server (section 6).  `ServerWaitedFor` relates each running server to
  `se_wait`; `FirstFileSeen` says that the first file has been read when something
  is purged.

`FtpdProofs.tla`, for any users, descriptors and any lines a client sends:

* `FtpdInvariant`: `Spec => []Inv`.  Every function of the source takes a sound
  record to a sound record and leaves alone what it does not mention; one lemma
  per function says which, one per command puts them together.
* `RepliesInStep`: `Spec => []InStep`.  For the induction a transfer that waits or
  moves data owes one reply, SIGURG adds a line and answers one or two, and a line
  left in `tmpline` is owed its reply until the scanner is given it (`Held`).
* `NothingLeftStale`: `Spec => []NothingStale`: descriptors, restart point and name
  to rename.
* `OnlyApproved`: `Spec => []OnlyApprovedLogIn` under `Rfc2577`, the default.  With
  `--non-rfc2577` a refused USER keeps `askpasswd` and `delayed_reject` of the USER
  before it, so the invariant that the two belong to the name given last
  (`LoginOK`) is not kept.

`TftpProofs.tla`, for files of any length and any loss, copy, delay and timeout:

* `BufferWritten`: `Spec => []NoBufferOverrun`, from `BaseInv`: what a job, a packet
  and a buffer can be.  Every step of a program at work changes only that program,
  the wire and its own files (`Moves`), so one lemma (`BaseKept`) serves them all.
* `FilesDelivered`: `Spec => [](OneOfEach => Delivered)`, in every state up to
  which the session has come to at most one get and one put, whatever commands it
  still has to come. After a second get a late block of the first may be taken
  for a block of the next (section 6, `TwoGets`). The invariant `TftpInv` adds
  the range of block numbers (`RangeOK`) and says what each process
  (`ProcessOK`), packet (`PacketOK`) and file (`FileOK`) holds. A receiver
  compares numbers modulo `BlockMod`; that the number it expects means the very
  block it expects follows because it has not passed the range yet and nothing
  further on has been sent. A sender goes on only for an acknowledgement of what
  was written: acknowledgements under way are below the client's block in a get,
  and within the file written so far in a put that one tftpd serves (`Alone`).

`SyslogdProofs.tla`, for any configurations, lines, failures and signals:

* `NothingIsLost`: `Spec => []NothingLost` under `TextsNotEmpty`: no line logged is
  empty.  Without it an empty line after one too long to be remembered counts as a
  repetition of that one (section 6).
* `FlushedAtClose`: `Spec => []FlushedWhenClosed` under `ExitTextOwn`: nobody logs the
  line syslogd logs when it exits.  Without it that line is a repetition, which is
  counted and never written.

  Both rest on one invariant (`StepInv`), `SyslogdInv`, in which a call is named by
  its height (`At`), since the index of a frame of `stack` changes with each call
  above it.  `CountInv` is about the entries: each owes its count of copies of the
  line it remembers (`CountOK`), the file ends in that line (`LastOK`), and only
  the innermost call of `fprintlog` is about an entry that keeps count (`TopOK`): a
  call further out is inside an error report, which takes its entry out of use
  first.  `CallInv` is about who called whom: `init` and `die` are outermost, a
  report stands directly on the failed `fprintlog` (`LogOverOK`), and no two reports
  have one entry for their cause (`CausesOK`).  `CloseInv` says what `init` has
  passed is flushed and, once `die` has logged its line, that only errors are
  counted.  The limit on the recursion (`InvRecursion`): each call of `logmsg` that
  reports an error maps to the entry it is about, injectively, and at most one
  (`OneBase`) is no report.

`TalkProofs.tla`, for any number of calls, rings, losses, copies, errors and ends
of an idle `talkd`, as long as no `talkd` has handed out its last id (`IdsLeft`,
assumed of the behaviour; `MAX_ID` is 16000).  Once `new_id` begins again, a DELETE
that names an old entry may meet a new one:

* `TalkFound`: `Spec /\ []IdsLeft => []InvitationsFound`.
* `TalkCleared`: `Spec /\ []IdsLeft => []InvitationsCleared`.
* `TalkStaleCleared`: `Spec /\ []IdsLeft => StaleCleared`, the part of `PartiesMeet`
  that is not liveness.

  One inductive invariant, `TalkInv`, serves the three.  A DELETE names an entry by
  its id alone and may come at any time, so `IdsMeant` says what every id that a
  process knows, or a datagram carries, means to the talkd it is meant for: it was
  handed out there, and the invitation it names, if any, is of the run it was told
  to be of.  From that `NoDelete`: no DELETE is under way for the invitation of one
  who may still be called, and `Invited`: that invitation stands.  `TablesOK` with
  `InOrder` says that the newest invitation comes first, so that LOOK_UP finds the
  one that is waited with (`Looked`); `NothingLeft`, `Deleted` and `Cleared` say which
  requests of a run cannot be under way yet, so that the answer to a DELETE is not
  that to an earlier one.  Preservation is proved of two abstractions of the
  actions, `ProcessStep` (a process, its requests and answers) and `DaemonStep` (a
  talkd takes a request); then every action is shown to be one of them, or to take
  datagrams or a whole table away (`LessKept`).

## 5. Only model-checked

Liveness under fairness (`RunEnds`, `CommandsEnd`, `RequestTaken`,
`PartiesMeet`, `NothingStays`, `SessionsGoOn`, `Ends`, `Settles`) is out of reach of
the prover, and so is what the conversion of `Netascii` computes for a file of any
length (an induction over data).  The invariants of the modules without a theorem
are checked and not proved.

## 6. Known disagreements

Shown by a violation run:

* `tftp_timeout`: `timer` leaves its handler by `longjmp` to a `setjmp`
  (`src/tftp.c:1028`) that does not save the signal mask with the GNU C library;
  the second packet lost is waited for without end.
* `inetd_retry`: a terminated service is opened again by `retry`, which does not
  add it to `allsock` (`src/inetd.c:688`): it never answers again.
* `talk_delete`: the DELETE of an older request removes newer invitations
  (`talkd/table.c:169`, `talkd/table.c:40`).
* `syslogd_hops`: without `--hop` the repetition of a remote host's message is
  forwarded, since who flushes it passes another host name (`src/syslogd.c:1773`,
  1818, 2112, 1304; "Not forwarding remote message.", 1465).

Met while modelling, and part of the models without a run of their own:

* `send_do` and its kin queue replies with NETADD, which does not look at the room
  left (`telnet/defines.h:56`): a full ring overwrites itself.  `HoldsAll` of
  `TelnetRing` fails with `Crowded = TRUE`.
* A late block of an earlier get is taken for one of the next (`src/tftp.c:1061`,
  "should verify packet came from server"): `TransferComplete` of `Tftp` fails with
  the scenarios `TwoGets` of `MCTftp`.
* `ping -c N -w T`: the linger wait is not cut short by the deadline
  (`ping/ping.c:463`; "stop after N seconds", `ping/ping.c:127`).
* `ping -c N` stops after N packets *received*, duplicates and errors included,
  even if fewer were sent (`ping/ping.c:447`; "stop after sending NUMBER packets",
  `ping/ping.c:117`).
* Late replies to an earlier operand are counted for the present one, and may be
  reported as "somebody is printing forged packets!" (`ping/ping.c:520`).
* `ring_mark` at the bottom of the buffer sets an address before it
  (`telnet/ring.c:91`; "Mark the most recently supplied byte.",
  `telnet/ring.c:137`): that byte is not sent as urgent data.
* `ttyflush` returns -1 after writing everything (`telnet/terminal.c:176`; "-1: No
  useful work done, data waiting to go out.", `telnet/terminal.c:127`).
* A refusal of what the peer has turned off meanwhile is never acknowledged, and
  the state stays positive (`telnetd/state.c:770`; "my_state will revert to
  negative when the negative acknowlegment arrives from the peer",
  `telnetd/state.c:512`).
* A `write` that fails is noticed by nobody: `nak (ENOSPACE)`
  (`src/tftpd.c:783`) is never sent and the client reports success.
* A `read` that fails in `put` is told to the server only: the client prints no
  error and "Sent" with the bytes it got to send (`src/tftp.c:1019`, 1093).
* The last block, coming again, is not acknowledged again, as the test looks at
  the wrong buffer (`src/tftpd.c:798`; "resend final ack", `src/tftpd.c:803`).
* Removing a service whose server is waited for decrements `nsock` a second time
  (`src/inetd.c:707`): `NsockCounts` states the drift exactly.
* A service whose `socket` fails is not tried again: no alarm is set
  (`src/inetd.c:604`), unless another service's is.  A nowait service that the new
  file wants waited for stays nowait until inetd is restarted (`src/inetd.c:745`).
* With several configuration files SIGHUP closes the services of the later ones
  while it reads the first, and forgets the servers it waits for
  (`src/inetd.c:1310`).
* Requests never expire in `talkd` (`talkd/table.c:70`, operands exchanged); the
  first ANNOUNCE, repeated, is taken for a new one, as its id -1 is larger than
  any (`talkd/process.c:176`; "a duplicated request, so ignore it", 186).
* In `talk`, a SIGALRM during `select` leaves the loop that resends
  (`talk/ctl_transact.c:108`; "resend message until a response is obtained", 93);
  one that comes when `accept` has just returned loses the connection; with the
  GNU C library the party is rung again once only.
* `ctl_transact` takes an answer by its type alone (`talk/ctl_transact.c:136`): the
  answer to the DELETE that `check_local` repeated may be taken for that of the own
  talkd to the next DELETE, and if this one is then lost the invitation stays
  ("Have the daemons delete the invitations now that we have connected",
  `talk/invite.c:168`).  It takes two faults, where the run `talk` has one; `late`
  records the case, and `InvitationsCleared` leaves it out.
* In `syslogd`, a SIGHUP that comes while `init` runs is lost, as `main` resets the
  flag when `init` is done (`src/syslogd.c:728`; "whenever it receives a hangup
  signal", `doc/inetutils.texi:3685`).
* `domark` and `die` run as handlers while `init` frees the list they walk
  (`src/syslogd.c:2137`); a SIGTERM between `writev` and the reset of the count
  writes the summary twice; an error met twice while the daemon exits is counted
  and lost.
* The count of repetitions of an unknown host doubles as its retry counter
  (`src/syslogd.c:2374`): when the host is found, "last message repeated 10 times"
  is sent without a last message; and as `f_time` is not set, attempts are not
  `INET_SUSPEND_TIME` ("Number of seconds between attempts", 246) apart.
* An empty line after one of `MAXSVLINE` bytes or more counts as its repetition, as
  a long line is remembered as an empty one (`src/syslogd.c:1318`, 1283).
* A line logged just before SIGTERM that reads like the exit message of `syslogd`
  makes that message a count nobody writes.
* `wallmsg` returns with `reenter` set if utmp cannot be read
  (`src/syslogd.c:1641`): no user is written to again.

Telnet, part of the models:

* Options: the DONT of a WILL ECHO that answers a DO is not sent, as `send_dont`
  finds the option off already ("Turn it off right now!", `telnetd/state.c:704`,
  707, 759); nor does `telnetd_run` send anything when it plays such an answer ("This
  will also send a WONT ECHO", `telnetd/telnetd.c:583`).
* Special characters: of a character its terminal does not have, and that is not
  an editing one, `telnetd` says nothing when it is asked for all
  (`telnetd/slc.c:88`): after `slc import` the client keeps a value the server
  lacks. `slc_export` takes the level from the value before it is refreshed
  (`telnet/telnet.c:1404`); before `telnetd` has set up its terminal all but the
  first message are dropped (`telnetd/slc.c:504`); a character the client
  disables is not applied to the terminal and undone by the next `localstat`
  (`telnetd/slc.c:341`, 453).
* Authentication: SIGALRM in `auth_wait` makes the `select` of `io_drain` fail, so
  `telnetd` exits instead of rejecting (`telnetd/utility.c:424`,
  `libtelnet/auth.c:665`); `krb5shishi_is_auth` may return without an answer
  (`libtelnet/shishi.c:430`); `mutual_complete` is never reset
  (`libtelnet/shishi.c:316`), so if `telnetd` refuses the credentials after its
  response (`libtelnet/shishi.c:572`) the client keeps the session key of the first
  attempt when the next one is accepted.
* Encryption: `encrypt disable input` that crosses START garbles the input or keeps
  `telnetd` in `encrypt_wait` (`libtelnet/encrypt.c:579`, 992), as does REQEND in
  one buffer with DEC_KEYID; a second session key resets running streams;
  `ofb64_init` sets a flag of CFB (`libtelnet/enc_des.c:181`).
* `netclear` keeps a command of which a part was sent from its first byte, so that
  bytes are sent twice (`telnetd/utility.c:581`; the comment at 522); with
  encrypted bytes pending it drops part of a stream cipher.  `flushline` is never
  reset (`telnet/telnet.c:2376`), and the client switches to BINARY when it asks,
  before `telnetd` does.
* Terminal: `telnetd` sends and never updates an old `flowmode` when the program
  changes flow control (`telnetd/telnetd.c:699`); crossing requests leave the ends
  in different modes (`telnetd/termstat.c:532`; the comment at 511).  Line mode that
  the client offers is set in memory while there is no terminal
  (`telnetd/termstat.c:496`), and the first `localstat` gives it up again; an
  acknowledgement that crosses a request before there is a terminal makes
  `clientstat` call `localstat` (`telnetd/termstat.c:533`), which then does the
  deferred settings in vain: the size that came stays unset until the next change.
* Environment: `telnetd` cuts a message of more than 512 bytes
  (`telnetd/state.c:433`); `env_opt_add` grows its buffer once, without counting
  escapes (`telnet/telnet.c:1731`).
* Client: the socket of a last address that refuses is not closed
  (`telnet/commands.c:2725`); SIGINT in character mode leads to the prompt with the
  connection open and no way back into it (`telnet/sys_bsd.c:953`), after which a
  failing write jumps into a function that has returned (`telnet/sys_bsd.c:941`);
  terminal modes changed during `!` or SIGTSTP are not saved.

FTP:

* `ftpd` answers an invalid LPRT, a bad tilde in RNTO and an ill-formed command
  before login twice, an unknown command after a complaint of the parser not at all
  (`ftpd/ftpcmd.y:1844`).  `myoob` takes only ABOR out of `tmpline` again: an urgent
  STAT is answered twice, once by the handler and once as the next command, any
  other urgent line is run after the transfer, and a second urgent line in the same
  transfer is left unread, an ABOR too, while the saved one is lost
  (`ftpd/ftpd.c:1923`, `ftpd/ftpcmd.y:1434`); one of more than six characters is
  also written one byte past `tmpline`, which the model takes to be harmless.
  `passive` and an aborted or empty NLST lose descriptors; a
  refused USER leaves `askpasswd` set; REST and RNFR survive unrecognised lines;
  `transflag` is set before the jump buffer of that transfer
  (`ftpd/ftpd.c:1323`).
* `ftp`: a local file that cannot be positioned sends ABOR where nothing is being
  transferred and waits for a second reply (`ftp/ftp.c:718`), or returns in the
  middle of the transfer without awaiting its reply (1045). In a text transfer
  "Cancel server's action quickly" (1112) is an ABOR that is not urgent, with the
  data connection left open and unread: the server reads it only after the
  transfer, so with a file larger than the buffers of the sockets both wait for
  ever, and an interrupt of that wait leaves a reply unread; the handler of
  SIGINT is not restored either. `while (cpend) getreply (0)` does not end once
  the peer is lost (634, 937); interrupting TYPE leaves `curtype` wrong; `data`
  keeps the number of a closed descriptor (1478); a refused transfer in passive
  mode, and an interrupted greeting, lose a socket; a refused REST returns
  without restoring the handler of SIGINT (726, 978); an interrupt of `quote`
  with a transfer command leaves a reply unread; `mabort`, when `command` calls
  it, leaves `cmdabort` as the handler; `mput` and `mls` start over when they are
  to go on; `lostpeer` forgets a pending interrupt; `restart_point` survives a
  failed put and mget; the failure of TYPE is ignored; `newer` compares dates
  field by field (`ftp/cmds.c:875`).

Remote commands:

* `rcp` as a receiver takes a connection lost between two records for the end and
  exits with 0 (`src/rcp.c:923`); a failing `fchmod` (1130), `utimes` of a directory
  (1054) or `allocbuf` sends an answer too many; a source that finds no buffer for
  a file whose C record was accepted goes on to the next record (769), while the
  sink waits for the bytes of the file: both wait for ever, unless the file was the
  last; privileges are dropped after the
  first operand (555); a bad user name and a failing third-party copy do not show
  in the status; `exit (errs)` keeps 8 bits.
* `rsh`: `kcmd` waits in `accept` for ever if the daemon dies first
  (`libinetutils/kcmd.c:375`); a signal sent before the child has its group is
  lost (`src/rshd.c:1666`, 1853); with PAM the verdict on the host name is not
  consulted (1476), with Kerberos 5 it is inverted (967); `rexec` forgets in each
  turn of its loop what it has consumed (`src/rexec.c:385`), so that "Status can
  be two chars" (442) holds of every read: bytes 0 and 1 of the command's output
  that come first in a read are dropped, and become the exit status; and it exits
  with an error when the main connection is closed and there is input (422).
* `rlogin`: urgent bytes read past before SIGURG is relayed are lost
  (`src/rlogin.c:844`, 1301); an old window size may be sent last (937); the end of
  the child before the handler of SIGCHLD is installed (844), or while `stop`
  ignores it (1115), is missed.  `rlogind`: a window message cut in two goes to the
  shell (`src/rlogind.c:1985`); `cleanup` drops output (1998); a fork that failed
  is counted for ever (821), the limit may be exceeded by the number of sockets, and
  a child that ends between the comparison and `pause` (770) is not noticed.

## 7. Not modelled

Formatting and printing, parsing of command lines and configuration files, name
lookup, authentication by the system, cryptography, and the layout of packets.
Of FTP: proxy connections, macros, name mapping, `.netrc`, conversions.  Of
telnet: the TCSIG builds, OLD_ENVIRON (not compiled), 3270, password encryption,
SIGTERM and SIGHUP to the client (which has no handler that would give the terminal
back), and a network buffer of `telnetd` that fills up.  Of `rlogin`: the Kerberos
builds.  `PROJECT.json` lists every part of the repository with what is left out
of it and why; `whois`, `ifconfig`, `hostname`, `logger`, `uucpd` and `libls` are
sequential programs around system calls and have no model, `libicmp` is pure
packet layout, `ping6` has the control of `ping`.

## 8. Plan

1. `Traceroute` as a further family of `Ping`: matching answers with probes.
2. One session of `ftp` with `ftpd` itself in place of each side's external peer.
