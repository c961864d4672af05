-------------------------------- MODULE Rsh --------------------------------
(***************************************************************************)
(* A command run on another host: rsh with rshd, and rexec with rexecd     *)
(* (src/rsh.c, rshd.c, rexec.c, rexecd.c; kcmd of libinetutils is the      *)
(* Kerberos variant of the library's rcmd).                                *)
(*                                                                         *)
(* Two connections join the hosts.  The main one carries the strings of    *)
(* the request, the answer (a byte 0, or 1 and a line), then the input and *)
(* the output of the command.  The second one, which the daemon opens back *)
(* to a port of the client, carries standard error to the client and       *)
(* signals to the daemon.  The daemon forks: the child becomes the         *)
(* command, the parent relays standard error and signals until both ends   *)
(* are closed.                                                             *)
(*                                                                         *)
(* What the host tables, the password file and the trust files say is a    *)
(* choice made when they are asked.  rexec looks at the bytes 0 and 1 that *)
(* arrive: "nul" and "one" are sent by the daemon, "zero" and "unit" are   *)
(* written by the command; "msg" and "data" are text of either.            *)
(***************************************************************************)
EXTENDS Naturals, Sequences, SequencesExt, FiniteSets

CONSTANTS MaxOutput,  \* pieces the command writes to each of its outputs
          MaxInput,   \* pieces of input the user has
          MaxEvents   \* failing calls, signals and lost readers in one run

VARIABLES
  cf,      \* [prog, auth, second, null]: programs, build and options
  c,       \* the client
  feeder,  \* the child of rsh that copies standard input
  d,       \* the daemon, after the fork its parent
  cmd,     \* the child: setup, ready (own process group), running, done
  in, out, sig, err, pv,  \* the four directions and the daemon's pipe
  input,   \* what the user has typed so far
  events

vars == <<cf, c, feeder, d, cmd, in, out, sig, err, pv, input, events>>

Channel == [q |-> <<>>, eof |-> FALSE]
Put(ch, x) == [ch EXCEPT !.q = IF ch.eof THEN @ ELSE Append(@, x)]
Get(ch) == [ch EXCEPT !.q = Tail(@)]
Shut(ch) == [ch EXCEPT !.eof = TRUE]
Readable(ch) == ch.q # <<>> \/ ch.eof
AtEOF(ch) == ch.q = <<>> /\ ch.eof

Init ==
  /\ cf \in {x \in [prog : {"rsh", "rexec"}, auth : {"hosts", "pam", "shishi"}, second : BOOLEAN, null : BOOLEAN] :
               /\ x.prog = "rsh" => x.second
               /\ x.prog = "rexec" => ~x.null /\ x.auth \in {"hosts", "pam"}}
  /\ c = [k |-> "connect", timo |-> 1, rem |-> TRUE, rfd2 |-> TRUE, stdin |-> TRUE, pipe |-> FALSE,
          consumed |-> 0, shown |-> <<0, 0>>, eaten |-> <<0, 0>>, status |-> 0]
  /\ feeder = "none"
  /\ d = [k |-> "none", errorstr |-> FALSE, s |-> TRUE, pv |-> TRUE]
  /\ cmd = [k |-> "none", out |-> 0, err |-> 0]
  /\ in = Channel /\ out = Channel /\ sig = Channel /\ err = Channel /\ pv = Channel
  /\ input = 0 /\ events = 0

\* An unfavourable outcome, counted against the bound.
Event(bad) == /\ bad => events < MaxEvents
              /\ events' = IF bad THEN events + 1 ELSE events

Krb == cf.auth = "shishi"

-----------------------------------------------------------------------------
(* The client up to the answer: rcmd or kcmd, do_rexec.                    *)

\* The client itself fails; 2 tells its status from the 1 that rexec hands on.
ClientExit == c' = [c EXCEPT !.k = "done", !.status = 2]
ClientCloses == in' = Shut(in) /\ sig' = Shut(sig)

\* The connection is made, or refused; a host that refuses goes on to.
Connected(refused) ==
  /\ c.k = "connect" /\ Event(refused /\ c.timo = 1)
  /\ ~refused => /\ c' = [c EXCEPT !.k = IF cf.second THEN "accept" ELSE "reply"]
                 /\ d' = [d EXCEPT !.k = "port"]
  /\ refused => UNCHANGED d
  /\ UNCHANGED <<cf, feeder, cmd, in, out, sig, err, pv, input>>

\* kcmd: the pause before another attempt doubles up to 4.
kcmd ==
  /\ cf.prog = "rsh"
  /\ \E refused \in BOOLEAN :
       /\ Connected(refused)
       /\ refused => c' = IF c.timo <= 4 THEN [c EXCEPT !.timo = 2 * @]
                          ELSE IF Krb THEN [c EXCEPT !.k = "refused"]
                          ELSE [c EXCEPT !.k = "done", !.status = 2]

\* A host that refuses the Kerberos service is asked for the plain one.
FallBack ==
  /\ c.k = "refused"
  /\ \E auth \in {"hosts", "pam"} : cf' = [cf EXCEPT !.auth = auth]
  /\ c' = [c EXCEPT !.k = "connect", !.timo = 1]
  /\ UNCHANGED <<feeder, d, cmd, in, out, sig, err, pv, input, events>>

do_rexec ==
  /\ cf.prog = "rexec"
  /\ \E refused \in BOOLEAN : Connected(refused) /\ (refused => ClientExit)

\* The second connection arrives and the strings are sent; or the daemon is
\* gone and that is noticed.
AcceptBack(noticed) ==
  /\ c.k = "accept"
  /\ \/ d.k \in {"hosts", "strings"} /\ c' = [c EXCEPT !.k = "reply"] /\ UNCHANGED <<in, sig>>
     \/ d.k = "done" /\ noticed /\ ClientExit /\ ClientCloses
  /\ UNCHANGED <<cf, feeder, d, cmd, out, err, pv, input, events>>

\* rcmd sees the end of the main connection; kcmd goes on waiting in accept.
Accept == cf.prog = "rsh" /\ AcceptBack(~Krb)

\* rexec waits under an alarm.
RexecAccept == cf.prog = "rexec" /\ AcceptBack(TRUE)

\* rexec relays at once, and leaves the answer to its loop.
RexecReply ==
  /\ c.k = "reply" /\ cf.prog = "rexec"
  /\ c' = [c EXCEPT !.k = "talk", !.rfd2 = cf.second]
  /\ sig' = Shut(sig)  \* shutdown (err_sock, SHUT_WR)
  /\ UNCHANGED <<cf, feeder, d, cmd, in, out, err, pv, input, events>>

\* The answer: a byte 0, and the client relays; anything else, and it ends.
Reply ==
  /\ c.k = "reply" /\ cf.prog = "rsh"
  /\ \/ /\ out.q # <<>>
        /\ out' = Get(out)
        /\ IF Head(out.q) = "nul"
             THEN /\ c' = [c EXCEPT !.k = "talk"]
                  /\ feeder' = IF cf.null THEN "none" ELSE "reading"
                  /\ in' = IF cf.null THEN Shut(in) ELSE in
                  /\ UNCHANGED sig
             ELSE ClientExit /\ ClientCloses /\ UNCHANGED feeder
     \/ AtEOF(out) /\ ClientExit /\ ClientCloses /\ UNCHANGED <<out, feeder>>
  /\ UNCHANGED <<cf, d, cmd, err, pv, input, events>>

-----------------------------------------------------------------------------
(* The client's relay.                                                     *)

\* The child of rsh: a piece of input goes out, the end of input closes the
\* sending side.
Feed ==
  /\ feeder = "reading"
  /\ \/ /\ input < MaxInput
        /\ input' = input + 1 /\ in' = Put(in, "data") /\ UNCHANGED feeder
     \/ feeder' = "done" /\ in' = Shut(in) /\ UNCHANGED input
  /\ UNCHANGED <<cf, c, d, cmd, out, sig, err, pv, events>>

\* What the command wrote among the pieces q.
Written(q) == Len(SelectSeq(q, LAMBDA x : x \in {"data", "zero", "unit"}))

\* One of the descriptors of talk () is ready.
TalkErr ==
  /\ cf.prog = "rsh" /\ c.k = "talk" /\ c.rfd2 /\ Readable(err)
  /\ IF AtEOF(err)
       THEN c' = [c EXCEPT !.rfd2 = FALSE] /\ UNCHANGED err
       ELSE err' = Get(err) /\ c' = [c EXCEPT !.shown[2] = @ + Written(<<Head(err.q)>>)]
  /\ UNCHANGED <<cf, feeder, d, cmd, in, out, sig, pv, input, events>>

TalkOut ==
  /\ cf.prog = "rsh" /\ c.k = "talk" /\ c.rem /\ Readable(out)
  /\ IF AtEOF(out)
       THEN c' = [c EXCEPT !.rem = FALSE] /\ UNCHANGED out
       ELSE out' = Get(out) /\ c' = [c EXCEPT !.shown[1] = @ + Written(<<Head(out.q)>>)]
  /\ UNCHANGED <<cf, feeder, d, cmd, in, sig, err, pv, input, events>>

\* The bytes 0 and 1 at the front of q, two at most.
Status(q) ==
  LET low(i) == i <= Len(q) /\ q[i] \in {"nul", "one", "zero", "unit"}
  IN  IF ~low(1) THEN <<>> ELSE SubSeq(q, 1, IF low(2) THEN 2 ELSE 1)

\* rexec has read q from connection n.  Unless this turn of the loop has
\* consumed two bytes already, bytes 0 and 1 at the front are the status, those
\* of the command too; the rest is shown.
Showed(r, q, n) ==
  LET st == IF r.consumed < 2 THEN Status(q) ELSE <<>>
  IN  [r EXCEPT !.status = IF st = <<>> THEN @ ELSE IF Last(st) \in {"one", "unit"} THEN 1 ELSE 0,
                !.eaten[n] = @ + Written(st),
                !.shown[n] = @ + Written(SubSeq(q, Len(st) + 1, Len(q)))]

\* The bytes of q as far as consumed is compared with 2; text is longer than one.
Bytes(q) == IF Len(q) = 1 /\ q[1] \in {"nul", "one", "zero", "unit"} THEN 1 ELSE 2

\* A read returns some of what has arrived.  Standard error is looked at in the
\* same turn if it was ready when select returned, else consumed is 0 again.
RexecOut ==
  /\ cf.prog = "rexec" /\ c.k = "talk" /\ c.rem /\ c.consumed = 0 /\ Readable(out)
  /\ IF AtEOF(out)
       THEN c' = [c EXCEPT !.rem = FALSE] /\ UNCHANGED out
       ELSE \E n \in 1 .. Len(out.q), both \in BOOLEAN :
              /\ both => c.rfd2 /\ Readable(err)
              /\ out' = [out EXCEPT !.q = SubSeq(@, n + 1, Len(@))]
              /\ LET q == SubSeq(out.q, 1, n)
                 IN  c' = [Showed(c, q, 1) EXCEPT !.consumed = IF both THEN Bytes(q) ELSE 0]
  /\ UNCHANGED <<cf, feeder, d, cmd, in, sig, err, pv, input, events>>

RexecErr ==
  /\ cf.prog = "rexec" /\ c.k = "talk" /\ c.rfd2 /\ Readable(err)
  /\ IF AtEOF(err)
       THEN c' = [c EXCEPT !.rfd2 = FALSE, !.consumed = 0] /\ UNCHANGED err
       ELSE \E n \in 1 .. Len(err.q) :
              /\ err' = [err EXCEPT !.q = SubSeq(@, n + 1, Len(@))]
              /\ c' = [Showed(c, SubSeq(err.q, 1, n), 2) EXCEPT !.consumed = 0]
  /\ UNCHANGED <<cf, feeder, d, cmd, in, out, sig, pv, input, events>>

\* rexec copies its input itself; with the main connection closed the write
\* fails and the program with it.
TalkIn ==
  /\ c.k = "talk" /\ cf.prog = "rexec" /\ c.stdin /\ c.consumed = 0
  /\ \/ /\ input < MaxInput
        /\ input' = input + 1
        /\ IF c.rem THEN in' = Put(in, "data") /\ UNCHANGED <<c, sig>>
                    ELSE ClientExit /\ ClientCloses
     \/ c' = [c EXCEPT !.stdin = FALSE] /\ in' = Shut(in) /\ UNCHANGED <<input, sig>>
  /\ UNCHANGED <<cf, feeder, d, cmd, out, err, pv, events>>

\* Faulty variant of TalkEnds: the loop ends with the first end of file.
TalkEndsEarly ==
  /\ c.k = "talk" /\ (~c.rem \/ ~c.rfd2 \/ c.pipe)
  /\ c' = [c EXCEPT !.k = "done"] /\ feeder' = "none"
  /\ ClientCloses
  /\ UNCHANGED <<cf, d, cmd, out, err, pv, input, events>>

\* The loop ends with both descriptors closed, or with SIGPIPE; rsh then kills
\* its child, wherever it is.
TalkEnds ==
  /\ c.k = "talk" /\ ((~c.rem /\ ~c.rfd2) \/ c.pipe)
  /\ c' = [c EXCEPT !.k = "done"] /\ feeder' = "none"
  /\ ClientCloses
  /\ UNCHANGED <<cf, d, cmd, out, err, pv, input, events>>

\* SIGINT, SIGQUIT or SIGTERM: one byte to the daemon.
sendsig ==
  /\ c.k = "talk" /\ cf.prog = "rsh" /\ Event(TRUE)
  /\ sig' = Put(sig, "data")
  /\ UNCHANGED <<cf, c, feeder, d, cmd, in, out, err, pv, input>>

\* Whoever reads the client's output goes away.
sigpipe ==
  /\ c.k = "talk" /\ cf.prog = "rsh" /\ ~c.pipe /\ Event(TRUE)
  /\ c' = [c EXCEPT !.pipe = TRUE]
  /\ UNCHANGED <<cf, feeder, d, cmd, in, out, sig, err, pv, input>>

-----------------------------------------------------------------------------
(* The daemon up to the fork.                                              *)

\* exit before the fork closes both connections.
DaemonExit == out' = Shut(out) /\ err' = Shut(err) /\ d' = [d EXCEPT !.k = "done"]

\* rshd_error or die, then exit.
Refuse == out' = Shut(Put(Put(out, "one"), "msg")) /\ err' = Shut(err) /\ d' = [d EXCEPT !.k = "done"]

\* The number of the second port and the connection back.  Without a second port
\* standard error goes to the main connection.
ConnectBack ==
  /\ d.k = "port"
  /\ \/ d' = [d EXCEPT !.k = "hosts"] /\ UNCHANGED <<out, err, events>>
     \/ Event(TRUE) /\ DaemonExit
  /\ UNCHANGED <<cf, c, feeder, cmd, in, sig, pv, input>>

\* rshd also looks at the client's port (reserved, unless Kerberos answers for the
\* user).
port == cf.prog = "rsh" /\ ConnectBack
RexecPort == cf.prog = "rexec" /\ ConnectBack

\* The name of the client's host.  A name whose addresses lack the one the
\* connection comes from is not refused at once but remembered in errorstr;
\* without a name the connection is refused only if one is required.
hosts ==
  /\ d.k = "hosts"
  /\ \/ d' = [d EXCEPT !.k = "strings"] /\ UNCHANGED <<out, err, events>>
     \/ /\ cf.prog = "rsh" /\ ~Krb /\ Event(TRUE)
        /\ d' = [d EXCEPT !.k = "strings", !.errorstr = TRUE]
        /\ UNCHANGED <<out, err>>
     \/ cf.prog = "rsh" /\ Event(TRUE) /\ Refuse
  /\ UNCHANGED <<cf, c, feeder, cmd, in, sig, pv, input>>

\* The strings of the request: the client has sent them, or is gone.
Strings ==
  /\ d.k = "strings"
  /\ \/ c.k \in {"reply", "talk"} /\ d' = [d EXCEPT !.k = "account"] /\ UNCHANGED <<out, err>>
     \/ c.k = "done" /\ Refuse
  /\ UNCHANGED <<cf, c, feeder, cmd, in, sig, pv, input, events>>

getstr == cf.prog = "rsh" /\ Strings
RexecGetstr == cf.prog = "rexec" /\ Strings

\* One check: passed, or failed and refused.
Check(from, to) ==
  /\ d.k = from
  /\ \/ d' = [d EXCEPT !.k = to] /\ UNCHANGED <<out, err, events>>
     \/ Event(TRUE) /\ Refuse
  /\ UNCHANGED <<cf, c, feeder, cmd, in, sig, pv, input>>

\* The ticket, the checksum of the request, encryption if the daemon insists on
\* it, and the right of the ticket's owner to the local name.
get_auth == Krb /\ Check("account", "passwd")

\* The entry of the password file.
getpwnam ==
  /\ cf.prog = "rsh"
  /\ Check(IF Krb THEN "passwd" ELSE "account",
           CASE Krb -> "nologin" [] cf.auth = "pam" -> "pam" [] cf.auth = "hosts" -> "shadow")
RexecGetpwnam == cf.prog = "rexec" /\ Check("account", IF cf.auth = "pam" THEN "pam" ELSE "password")

\* PAM: authentication and account, either of which may also abort.
Pam(next) ==
  \/ Check("pam", next)
  \/ d.k = "pam" /\ Event(TRUE) /\ DaemonExit /\ UNCHANGED <<cf, c, feeder, cmd, in, sig, pv, input>>
pam_authenticate == cf.prog = "rsh" /\ Pam("nologin")
RexecPam == cf.prog = "rexec" /\ Pam("rights")

\* A locked or expired account.
getspnam == Check("shadow", "trust")

\* The password of a request to rexecd.
crypt == Check("password", "rights")

\* rexecd takes on the groups and the identity of the user before it forks.
RexecRights == Check("rights", "fork")

\* Faulty variant of iruserok: what was found out about the host is forgotten.
iruserokForgets == Check("trust", "nologin")

\* The trust files, and the note about the host.
iruserok ==
  IF d.errorstr
    THEN d.k = "trust" /\ Refuse /\ UNCHANGED <<cf, c, feeder, cmd, in, sig, pv, input, events>>
    ELSE Check("trust", "nologin")

nologin == Check("nologin", "fork")

Checks == get_auth \/ getpwnam \/ RexecGetpwnam \/ pam_authenticate \/ RexecPam \/ getspnam \/ crypt \/ RexecRights \/ iruserok \/ nologin

\* A message of rshd_error (after the byte 0) and of die.
Complaint == IF cf.prog = "rsh" THEN <<"msg">> ELSE <<"one", "msg">>

\* pipe and fork, after o has been sent; the parent closes the main connection.
Fork(o) ==
  /\ d.k = "fork"
  /\ \E bad \in BOOLEAN :
       /\ Event(bad)
       /\ IF bad
            THEN out' = Shut([o EXCEPT !.q = @ \o Complaint]) /\ err' = Shut(err) /\ d' = [d EXCEPT !.k = "done"] /\ UNCHANGED cmd
            ELSE /\ out' = o /\ cmd' = [cmd EXCEPT !.k = "setup"] /\ UNCHANGED err
                 /\ d' = [d EXCEPT !.k = IF cf.second THEN "relay" ELSE "done"]
  /\ UNCHANGED <<cf, c, feeder, in, sig, pv, input>>

\* rshd answers before it forks.
fork == cf.prog = "rsh" /\ Fork(Put(out, "nul"))
RexecFork == cf.prog = "rexec" /\ Fork(out)

-----------------------------------------------------------------------------
(* The child.                                                              *)

\* Standard error of the child: the pipe, or the main connection.
ToErr(x) == IF cf.second THEN pv' = Put(pv, x) /\ UNCHANGED out ELSE out' = Put(out, x) /\ UNCHANGED pv

CommandExit(o, p) == out' = Shut(o) /\ pv' = Shut(p) /\ cmd' = [cmd EXCEPT !.k = "done"]

\* setpgid, after which signals reach the child.
setpgid ==
  /\ cmd.k = "setup"
  /\ cmd' = [cmd EXCEPT !.k = "ready"]
  /\ UNCHANGED <<cf, c, feeder, d, in, out, sig, err, pv, input, events>>

\* What the child of either daemon writes to standard error before it ends.
Fails(m) ==
  IF cf.second THEN CommandExit(out, [pv EXCEPT !.q = @ \o m])
               ELSE CommandExit([out EXCEPT !.q = @ \o m], pv)

\* rshd's child: group and user, the home directory, execl.  Without the home
\* directory it goes on in the root, with a message.
exec ==
  /\ cf.prog = "rsh" /\ cmd.k = "ready"
  /\ \/ cmd' = [cmd EXCEPT !.k = "running"] /\ UNCHANGED <<out, pv, events>>
     \/ Event(TRUE) /\ cmd' = [cmd EXCEPT !.k = "running"] /\ ToErr("msg")
     \/ Event(TRUE) /\ Fails(<<"msg">>)
  /\ UNCHANGED <<cf, c, feeder, d, in, sig, err, input>>

\* rexecd's child: the home directory, which it insists on; then the byte 0,
\* only now and on standard error, and execl.
RexecExec ==
  /\ cf.prog = "rexec" /\ cmd.k = "ready"
  /\ \/ cmd' = [cmd EXCEPT !.k = "running"] /\ ToErr("nul") /\ UNCHANGED events
     \/ Event(TRUE) /\ (Fails(<<"one", "msg">>) \/ Fails(<<"nul", "msg">>))
  /\ UNCHANGED <<cf, c, feeder, d, in, sig, err, input>>

\* What a command may write.  The bytes 0 and 1 are told apart for rexec only:
\* rsh looks at none.
Output == IF cf.prog = "rsh" THEN {"data"} ELSE {"data", "zero", "unit"}

\* The command itself: reads, writes, ends when it likes.
Command ==
  /\ cmd.k = "running"
  /\ \/ in.q # <<>> /\ in' = Get(in) /\ UNCHANGED <<cmd, out, pv>>
     \/ /\ cmd.out < MaxOutput
        /\ cmd' = [cmd EXCEPT !.out = @ + 1] /\ (\E x \in Output : out' = Put(out, x)) /\ UNCHANGED <<in, pv>>
     \/ /\ cmd.err < MaxOutput
        /\ cmd' = [cmd EXCEPT !.err = @ + 1] /\ (\E x \in Output : ToErr(x)) /\ UNCHANGED in
  /\ UNCHANGED <<cf, c, feeder, d, sig, err, input, events>>

CommandEnds ==
  /\ cmd.k = "running"
  /\ CommandExit(out, pv)
  /\ UNCHANGED <<cf, c, feeder, d, in, sig, err, input, events>>

-----------------------------------------------------------------------------
(* The parent's relay.                                                     *)

\* A byte on the second connection is a signal for the command's group; the
\* child that has no group of its own yet is missed.
Signal ==
  /\ d.k = "relay" /\ d.s /\ Readable(sig)
  /\ IF AtEOF(sig)
       THEN d' = [d EXCEPT !.s = FALSE] /\ UNCHANGED <<sig, cmd, out, pv>>
       ELSE /\ sig' = Get(sig)
            /\ IF cmd.k \in {"ready", "running"} THEN CommandExit(out, pv) ELSE UNCHANGED <<cmd, out, pv>>
            /\ UNCHANGED d
  /\ UNCHANGED <<cf, c, feeder, in, err, input, events>>

RelaySignal == cf.prog = "rsh" /\ Signal
RexecSignal == cf.prog = "rexec" /\ Signal

\* Faulty variant of RelayError: the second connection stays open.
RelayErrorKeeps ==
  /\ cf.prog = "rsh" /\ d.k = "relay" /\ d.pv /\ Readable(pv)
  /\ IF AtEOF(pv)
       THEN d' = [d EXCEPT !.pv = FALSE] /\ UNCHANGED <<pv, err, sig>>
       ELSE pv' = Get(pv) /\ err' = Put(err, Head(pv.q)) /\ UNCHANGED <<d, sig>>
  /\ UNCHANGED <<cf, c, feeder, cmd, in, out, input, events>>

\* Standard error; its end shuts the second connection down both ways.
StandardError ==
  /\ d.k = "relay" /\ d.pv /\ Readable(pv)
  /\ IF AtEOF(pv)
       THEN d' = [d EXCEPT !.pv = FALSE] /\ err' = Shut(err) /\ sig' = [sig EXCEPT !.eof = TRUE] /\ UNCHANGED pv
       ELSE pv' = Get(pv) /\ err' = Put(err, Head(pv.q)) /\ UNCHANGED <<d, sig>>
  /\ UNCHANGED <<cf, c, feeder, cmd, in, out, input, events>>

RelayError == cf.prog = "rsh" /\ StandardError
RexecError == cf.prog = "rexec" /\ StandardError

\* The loop ends with both descriptors.
RelayEnds ==
  /\ d.k = "relay" /\ ~d.s /\ ~d.pv
  /\ d' = [d EXCEPT !.k = "done"]
  /\ UNCHANGED <<cf, c, feeder, cmd, in, out, sig, err, pv, input, events>>

-----------------------------------------------------------------------------

Client == kcmd \/ FallBack \/ do_rexec \/ Accept \/ RexecAccept \/ Reply \/ RexecReply \/ TalkEnds
ClientErr == TalkErr \/ RexecErr
ClientOut == TalkOut \/ RexecOut
Daemon == \/ port \/ RexecPort \/ hosts \/ getstr \/ RexecGetstr \/ Checks \/ fork \/ RexecFork
          \/ RelaySignal \/ RexecSignal \/ RelayError \/ RexecError \/ RelayEnds
Child == setpgid \/ exec \/ RexecExec
User == sendsig \/ sigpipe

Next == Client \/ ClientErr \/ ClientOut \/ TalkIn \/ Feed \/ Daemon \/ Child \/ Command \/ CommandEnds \/ User

\* Every process is scheduled, select serves each descriptor, the command ends;
\* the user need not type, nor the input end.
Fairness == /\ WF_vars(Client) /\ WF_vars(ClientErr) /\ WF_vars(ClientOut)
            /\ WF_vars(Daemon) /\ WF_vars(Child) /\ WF_vars(CommandEnds)

Spec == Init /\ [][Next]_vars /\ Fairness

-----------------------------------------------------------------------------
(* Properties.                                                             *)

\* A host whose name does not lead back to its address never gets a command
\* run, although the check of the name only leaves a note and all later checks
\* may succeed.  (With PAM the note is not read.)
OnlyAllowed == cmd.k # "none" /\ cf.auth = "hosts" => ~d.errorstr

\* A client that ends its relay by itself has shown all that the command wrote
\* to either output, although the two come over different connections, one of
\* them through the daemon's pipe.  rexec alone drops output: bytes 0 and 1 that
\* come to lie at the front of a read it takes for the status (rexec.c:442), and
\* they are all that it drops.
AllShown ==
  LET seen == IF cf.prog = "rsh" THEN c.shown ELSE [n \in 1 .. 2 |-> c.shown[n] + c.eaten[n]]
  IN  c.k = "done" /\ c.status # 2 /\ cmd.k # "none" /\ ~c.pipe
        => seen = IF cf.second THEN <<cmd.out, cmd.err>> ELSE <<cmd.out + cmd.err, 0>>

\* The end that every command comes to.  The client ends: every end of file,
\* every refusal and every early death of the daemon gets through to it (kcmd
\* alone may wait for ever, in accept, for a daemon that died before it connected
\* back).  And the relaying daemon does not outlive the command.
Over == /\ c.k = "done" \/ (Krb /\ c.k = "accept" /\ d.k = "done")
        /\ ~(d.k = "relay" /\ cmd.k = "done")
=============================================================================
