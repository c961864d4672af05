------------------------------- MODULE Rlogin -------------------------------
(***************************************************************************)
(* A remote login: rlogin and rlogind (src/rlogin.c, src/rlogind.c; the    *)
(* build without Kerberos).                                                *)
(*                                                                         *)
(* The client is two processes.  The parent is the writer: it copies the   *)
(* keyboard to the connection, watches for the escape character and sends  *)
(* the size of the window.  The child is the reader: it copies the         *)
(* connection to the terminal.  They talk by signals.  The daemon relays   *)
(* between the connection and a pseudo terminal in packet mode; what the   *)
(* terminal driver reports, and the request for the window size, travel as *)
(* TCP urgent data, of which only the last byte sent can be received.      *)
(***************************************************************************)
EXTENDS Naturals, Sequences, FiniteSets, SequencesExt

CONSTANTS MaxOutput,  \* pieces of output of the shell
          MaxEvents,  \* keys, new window sizes, failing calls, flushes, late or split arrivals
          Capacity    \* pieces of output in flight

VARIABLES
  sv,    \* the daemon: [k, window, pcc, fcc, win, split]
  sh,    \* login and shell on the pseudo terminal: [k, made, out, ctl, room]
  wr,    \* the writer: [k, urg, usr1, chld, winch, dosigwinch, winsize, bol, local]
  rd,    \* the reader: [k, urg, rcv, shown, missed]
  net,   \* to the client: [q, eof, mark, urg, owner, since, passed]
  toServer, \* to the daemon: [q, eof], keys and window sizes
  term,  \* the user's terminal: [size, noticed]
  events

vars == <<sv, sh, wr, rd, net, toServer, term, events>>

None == 0    \* no piece of output
Typed == 0   \* a key on its way to the daemon, beside the window sizes

Init ==
  /\ sv = [k |-> "auth", window |-> TRUE, pcc |-> None, fcc |-> FALSE, win |-> 0, split |-> FALSE]
  /\ sh = [k |-> "none", made |-> 0, out |-> None, ctl |-> {}, room |-> TRUE]
  /\ wr = [k |-> "connect", urg |-> FALSE, usr1 |-> FALSE, chld |-> FALSE, winch |-> FALSE,
           dosigwinch |-> FALSE, winsize |-> 1, bol |-> TRUE, local |-> FALSE]
  /\ rd = [k |-> "none", urg |-> FALSE, rcv |-> None, shown |-> {}, missed |-> FALSE]
  /\ net = [q |-> <<>>, eof |-> FALSE, mark |-> <<>>, urg |-> {}, owner |-> "parent", since |-> {}, passed |-> FALSE]
  /\ toServer = [q |-> <<>>, eof |-> FALSE]
  /\ term = [size |-> 1, noticed |-> TRUE]
  /\ events = 0

Event == events < MaxEvents /\ events' = events + 1

-----------------------------------------------------------------------------
(* The daemon until it relays.                                             *)

\* One check of rlogind_auth: passed, or the daemon ends with a message.
Check(from, to) ==
  /\ sv.k = from
  /\ \/ sv' = [sv EXCEPT !.k = to] /\ UNCHANGED <<net, events>>
     \/ Event /\ sv' = [sv EXCEPT !.k = "done"] /\ net' = [net EXCEPT !.eof = TRUE]
  /\ UNCHANGED <<sh, wr, rd, toServer, term>>

\* The host's name, if it has to be known and to lead back to the address.
rlogind_auth == Check("auth", "routing")

\* IP options of the connection.
prevent_routing == Check("routing", "request")

\* The port, the strings of the request, the entry of the password file, and
\* whether root may log in.  PAM and the trust files are asked as well; what they
\* say decides on the arguments of login only, never ends the daemon.
do_rlogin == Check("request", "fork")

\* Urgent data: the byte replaces an unread one, the mark moves, and the owner
\* of the socket gets SIGURG.
SendUrgent(flags, n, w, r) ==
  /\ net' = [n EXCEPT !.urg = flags, !.mark = <<Len(n.q)>>, !.since = {}, !.passed = FALSE]
  /\ wr' = IF n.owner = "parent" THEN [w EXCEPT !.urg = w.k # "done"] ELSE w
  /\ rd' = IF n.owner = "child" THEN [r EXCEPT !.urg = r.k # "done"] ELSE r

\* The request for the window size, carried until it is answered.
oobdata == IF sv.window THEN {"window"} ELSE {"null"}

\* forkpty, and the first urgent byte.
rlogind_mainloop ==
  /\ sv.k = "fork"
  /\ \/ /\ sv' = [sv EXCEPT !.k = "relay"]
        /\ sh' = [sh EXCEPT !.k = "running"]
        /\ SendUrgent(oobdata, net, wr, rd)
        /\ UNCHANGED events
     \/ /\ Event
        /\ sv' = [sv EXCEPT !.k = "done"] /\ net' = [net EXCEPT !.eof = TRUE]
        /\ UNCHANGED <<sh, wr, rd>>
  /\ UNCHANGED <<toServer, term>>

-----------------------------------------------------------------------------
(* protocol ().                                                            *)

\* The session ends for the daemon: the shell is hung up, the connection shut.
cleanup ==
  /\ sv' = [sv EXCEPT !.k = "done"]
  /\ sh' = [sh EXCEPT !.k = "done"]
  /\ net' = [net EXCEPT !.eof = TRUE]

\* Faulty variant of PacketControl: the urgent byte is the driver's alone.
PacketControlPlain ==
  /\ sv.k = "relay" /\ sh.ctl # {}
  /\ SendUrgent(sh.ctl, net, wr, rd)
  /\ sv' = IF "flush" \in sh.ctl THEN [sv EXCEPT !.pcc = None] ELSE sv
  /\ sh' = [sh EXCEPT !.ctl = {}]
  /\ UNCHANGED <<toServer, term, events>>

\* A control byte of the terminal driver; a flush drops what was read from the
\* terminal and not yet sent.
PacketControl ==
  /\ sv.k = "relay" /\ sh.ctl # {}
  /\ SendUrgent(sh.ctl \cup oobdata, net, wr, rd)
  /\ sv' = IF "flush" \in sh.ctl THEN [sv EXCEPT !.pcc = None] ELSE sv
  /\ sh' = [sh EXCEPT !.ctl = {}]
  /\ UNCHANGED <<toServer, term, events>>

\* A window size is taken out of the input, unless only part of the message has
\* arrived; then it goes to the terminal like anything else.
control ==
  /\ sv.k = "relay" /\ ~sv.fcc
  /\ toServer.q # <<>> /\ Head(toServer.q) # Typed
  /\ \/ sv' = [sv EXCEPT !.window = FALSE, !.win = Head(toServer.q)] /\ UNCHANGED events
     \/ Event /\ sv' = [sv EXCEPT !.fcc = TRUE, !.split = TRUE]
  /\ toServer' = [toServer EXCEPT !.q = Tail(@)]
  /\ UNCHANGED <<sh, wr, rd, net, term>>

FromNet ==
  /\ sv.k = "relay" /\ ~sv.fcc
  /\ toServer.q # <<>> /\ Head(toServer.q) = Typed
  /\ sv' = [sv EXCEPT !.fcc = TRUE]
  /\ toServer' = [toServer EXCEPT !.q = Tail(@)]
  /\ UNCHANGED <<sh, wr, rd, net, term, events>>

NetEnds ==
  /\ sv.k = "relay" /\ ~sv.fcc /\ toServer.q = <<>> /\ toServer.eof
  /\ cleanup
  /\ UNCHANGED <<wr, rd, toServer, term, events>>

ToPty ==
  /\ sv.k = "relay" /\ sv.fcc /\ sh.room
  /\ sv' = [sv EXCEPT !.fcc = FALSE] /\ sh' = [sh EXCEPT !.room = FALSE]
  /\ UNCHANGED <<wr, rd, net, toServer, term, events>>

FromPty ==
  /\ sv.k = "relay" /\ sv.pcc = None /\ sh.ctl = {} /\ sh.out # None
  /\ sv' = [sv EXCEPT !.pcc = sh.out] /\ sh' = [sh EXCEPT !.out = None]
  /\ UNCHANGED <<wr, rd, net, toServer, term, events>>

ToNet ==
  /\ sv.k = "relay" /\ sv.pcc # None /\ Len(net.q) < Capacity
  /\ net' = [net EXCEPT !.q = Append(@, sv.pcc), !.since = @ \cup {sv.pcc}]
  /\ sv' = [sv EXCEPT !.pcc = None]
  /\ UNCHANGED <<sh, wr, rd, toServer, term, events>>

\* The shell reads what was typed.
ShellReads ==
  /\ sh.k = "running" /\ ~sh.room
  /\ sh' = [sh EXCEPT !.room = TRUE]
  /\ UNCHANGED <<sv, wr, rd, net, toServer, term, events>>

\* The shell writes, is interrupted (the driver flushes its output), turns flow
\* control on or off.
Shell ==
  /\ sh.k = "running"
  /\ \/ /\ sh.out = None /\ sh.made < MaxOutput
        /\ sh' = [sh EXCEPT !.made = @ + 1, !.out = sh.made + 1] /\ UNCHANGED events
     \/ Event /\ sh' = [sh EXCEPT !.out = None, !.ctl = @ \cup {"flush"}]
     \/ Event /\ sh' = [sh EXCEPT !.ctl = @ \cup {"stop"}]
  /\ UNCHANGED <<sv, wr, rd, net, toServer, term>>

\* The shell ends, and SIGCHLD ends the daemon whatever it has not relayed yet.
ShellEnds ==
  /\ sh.k = "running" /\ sv.k = "relay"
  /\ cleanup
  /\ UNCHANGED <<wr, rd, toServer, term, events>>

-----------------------------------------------------------------------------
(* The writer.                                                             *)

\* Connection closed, reader killed.
done ==
  /\ wr' = [wr EXCEPT !.k = "done"]
  /\ rd' = [rd EXCEPT !.k = "done"]
  /\ toServer' = [toServer EXCEPT !.eof = TRUE]

\* rcmd has the daemon's byte 0, or sees it gone; SIGURG and SIGUSR1 are blocked.
main ==
  /\ wr.k = "connect"
  /\ \/ sv.k \in {"fork", "relay"} /\ wr' = [wr EXCEPT !.k = "fork"] /\ UNCHANGED <<rd, toServer>>
     \/ net.eof /\ done
  /\ UNCHANGED <<sv, sh, net, term, events>>

\* fork, the signal mask, the handler of SIGCHLD.
doit ==
  /\ \/ /\ wr.k = "fork"
        /\ \/ wr' = [wr EXCEPT !.k = "masked"] /\ rd' = [rd EXCEPT !.k = "start"] /\ UNCHANGED <<toServer, events>>
           \/ Event /\ done
     \/ wr.k = "masked" /\ wr' = [wr EXCEPT !.k = "unmasked"] /\ UNCHANGED <<rd, toServer, events>>
     \/ wr.k = "unmasked" /\ wr' = [wr EXCEPT !.k = "writing"] /\ UNCHANGED <<rd, toServer, events>>
  /\ UNCHANGED <<sv, sh, net, term>>

Unmasked == wr.k \in {"unmasked", "writing", "resuming"}

\* Faulty variant of copytochild: the urgent data is not for the parent.
copytochildDrops ==
  /\ Unmasked /\ wr.urg
  /\ wr' = [wr EXCEPT !.urg = FALSE]
  /\ UNCHANGED <<sv, sh, rd, net, toServer, term, events>>

\* SIGURG that reached the parent goes to the reader.
copytochild ==
  /\ Unmasked /\ wr.urg
  /\ wr' = [wr EXCEPT !.urg = FALSE]
  /\ rd' = IF rd.k = "done" THEN rd ELSE [rd EXCEPT !.urg = TRUE]
  /\ UNCHANGED <<sv, sh, net, toServer, term, events>>

sendwindow(size) == toServer' = [toServer EXCEPT !.q = Append(@, size)]

\* SIGUSR1, the daemon's wish: the size known so far is sent once, and from now on
\* changes are watched.
writeroob ==
  /\ Unmasked /\ wr.usr1
  /\ wr' = [wr EXCEPT !.usr1 = FALSE, !.dosigwinch = TRUE]
  /\ IF wr.dosigwinch THEN UNCHANGED toServer ELSE sendwindow(wr.winsize)
  /\ UNCHANGED <<sv, sh, rd, net, term, events>>

\* The size is sent if it is watched and has changed.
Look(w) == IF wr.dosigwinch /\ term.size # wr.winsize
             THEN wr' = [w EXCEPT !.winsize = term.size] /\ sendwindow(term.size)
             ELSE wr' = w /\ UNCHANGED toServer

\* SIGWINCH.
sigwinch ==
  /\ Unmasked /\ wr.winch
  /\ Look([wr EXCEPT !.winch = FALSE])
  /\ UNCHANGED <<sv, sh, rd, net, term, events>>

\* Faulty variant of catch_child: the child is waited for and that is all.
catch_childWaits ==
  /\ wr.k = "writing" /\ wr.chld
  /\ wr' = [wr EXCEPT !.chld = FALSE]
  /\ UNCHANGED <<sv, sh, rd, net, toServer, term, events>>

\* SIGCHLD: the reader has ended.
catch_child ==
  /\ wr.k = "writing" /\ wr.chld
  /\ done
  /\ UNCHANGED <<sv, sh, net, term, events>>

\* The writer reads; a signal would be handled first.
Undisturbed == wr.k = "writing" /\ ~(wr.urg \/ wr.usr1 \/ wr.chld \/ wr.winch)

\* What the writer does with a key: a line begins after a newline, an escape
\* character at the begin of a line is held back until the next key.
Key(c) ==
  IF wr.bol /\ c = "escape" THEN "hold"
  ELSE IF ~wr.local THEN "one"
  ELSE CASE c = "dot" -> "quit"
         [] c = "susp" -> "stop"
         [] c = "escape" -> "one"
         [] OTHER -> "both"

\* One turn of writer ().  Once the daemon has closed the connection, a write may
\* raise SIGPIPE, whose handler lostpeer ends the client.
writer ==
  /\ Undisturbed /\ Event
  /\ \E c \in {"key", "newline", "escape", "dot", "susp"} :
       CASE Key(c) = "hold" -> wr' = [wr EXCEPT !.bol = FALSE, !.local = TRUE] /\ UNCHANGED <<rd, toServer>>
         [] Key(c) = "quit" -> done
         [] Key(c) = "stop" -> wr' = [wr EXCEPT !.k = "stopped", !.local = FALSE, !.bol = TRUE] /\ UNCHANGED <<rd, toServer>>
         [] Key(c) \in {"one", "both"} ->
              \/ /\ wr' = [wr EXCEPT !.bol = c \in {"newline", "susp"}, !.local = FALSE]
                 /\ toServer' = [toServer EXCEPT !.q = @ \o IF Key(c) = "both" THEN <<Typed, Typed>> ELSE <<Typed>>]
                 /\ UNCHANGED rd
              \/ sv.k = "done" /\ done
  /\ UNCHANGED <<sv, sh, net, term>>

\* The end of the keyboard's input.
InputEnds ==
  /\ Undisturbed /\ done
  /\ UNCHANGED <<sv, sh, net, term, events>>

\* stop (): parent and reader were stopped together, with SIGCHLD ignored; the
\* user's shell lets both go on, the parent installs its handler again and looks
\* at the window.
Resume ==
  /\ wr.k = "resuming"
  /\ Look([wr EXCEPT !.k = "writing", !.chld = FALSE])
  /\ UNCHANGED <<sv, sh, rd, net, term, events>>

Continue ==
  /\ wr.k = "stopped"
  /\ wr' = [wr EXCEPT !.k = "resuming"]
  /\ UNCHANGED <<sv, sh, rd, net, toServer, term, events>>

\* The user changes the window; SIGWINCH counts only once it is watched.
ChangeSize ==
  /\ wr.k # "done" /\ Event
  /\ term' = [term EXCEPT !.size = @ + 1, !.noticed = wr.dosigwinch]
  /\ wr' = [wr EXCEPT !.winch = wr.dosigwinch]
  /\ UNCHANGED <<sv, sh, rd, net, toServer>>

-----------------------------------------------------------------------------
(* The reader.                                                             *)

Runs == rd.k # "done" /\ wr.k # "stopped"

\* F_SETOWN, the handler of SIGURG, the signal mask.
StartReader ==
  /\ Runs /\ rd.k = "start"
  /\ rd' = [rd EXCEPT !.k = "reading"] /\ net' = [net EXCEPT !.owner = "child"]
  /\ UNCHANGED <<sv, sh, wr, toServer, term, events>>

\* The first piece leaves the connection; a read past the mark forgets an urgent
\* byte nobody has taken.
Take(n) == IF n.mark = <<>> THEN [n EXCEPT !.q = Tail(@)]
           ELSE IF n.mark[1] = 0 THEN [n EXCEPT !.q = Tail(@), !.mark = <<>>, !.passed = n.urg # {}, !.urg = {}]
           ELSE [n EXCEPT !.q = Tail(@), !.mark = <<n.mark[1] - 1>>]

reader ==
  /\ Runs /\ ~rd.urg
  /\ \/ /\ rd.k = "reading" /\ net.q # <<>>
        /\ rd' = [rd EXCEPT !.k = "writing", !.rcv = Head(net.q)] /\ net' = Take(net)
        /\ UNCHANGED wr
     \/ /\ rd.k = "writing"
        /\ rd' = [rd EXCEPT !.k = "reading", !.rcv = None, !.shown = @ \cup {rd.rcv}]
        /\ UNCHANGED <<net, wr>>
     \/ /\ rd.k = "reading" /\ net.q = <<>> /\ net.eof   \* the child exits
        /\ rd' = [rd EXCEPT !.k = "done", !.missed = wr.k \in {"masked", "unmasked", "resuming"}]
        /\ wr' = [wr EXCEPT !.chld = wr.k = "writing"]
        /\ UNCHANGED net
  /\ UNCHANGED <<sv, sh, toServer, term, events>>

\* SIGURG: the urgent byte is taken.  As long as it has not arrived, what comes
\* before it is read into the buffer behind the data there, and not counted, so
\* it is never shown.
oob ==
  /\ Runs /\ rd.urg /\ rd.k \in {"reading", "writing"}
  /\ \/ /\ net.urg # {}
        /\ net' = [net EXCEPT !.urg = {}]
        /\ wr' = [wr EXCEPT !.usr1 = @ \/ ("window" \in net.urg /\ wr.k # "done")]
        /\ rd' = [rd EXCEPT !.urg = FALSE, !.k = IF "flush" \in net.urg THEN "flushing" ELSE @]
        /\ UNCHANGED events
     \/ /\ net.urg = {} /\ rd' = [rd EXCEPT !.urg = FALSE] /\ UNCHANGED <<net, wr, events>>
     \/ /\ net.urg # {} /\ net.mark # <<>> /\ net.mark[1] > 0 /\ Event
        /\ net' = Take(net) /\ UNCHANGED <<wr, rd>>
  /\ UNCHANGED <<sv, sh, toServer, term>>

\* Faulty variant of FlushToMark: all that is there is discarded.
FlushToMarkAll ==
  /\ Runs /\ rd.k = "flushing"
  /\ IF net.q = <<>> THEN rd' = [rd EXCEPT !.k = "reading", !.rcv = None] /\ UNCHANGED net
                     ELSE net' = Take(net) /\ UNCHANGED rd
  /\ UNCHANGED <<sv, sh, wr, toServer, term, events>>

\* A flush: everything up to the mark is discarded, the buffer too.  An urgent
\* byte that arrives meanwhile moves the mark.
FlushToMark ==
  /\ Runs /\ rd.k = "flushing"
  /\ IF net.mark \in {<<>>, <<0>>} \/ net.q = <<>>
       THEN rd' = [rd EXCEPT !.k = "reading", !.rcv = None] /\ UNCHANGED net
       ELSE net' = Take(net) /\ UNCHANGED rd
  /\ UNCHANGED <<sv, sh, wr, toServer, term, events>>

-----------------------------------------------------------------------------

Start == rlogind_auth \/ prevent_routing \/ do_rlogin \/ rlogind_mainloop
Daemon == Start \/ PacketControl \/ control \/ FromNet \/ NetEnds \/ ToPty \/ FromPty \/ ToNet
Writer == main \/ doit \/ copytochild \/ writeroob \/ sigwinch \/ catch_child \/ Resume \/ Continue
Reader == StartReader \/ reader \/ oob \/ FlushToMark
User == writer \/ InputEnds \/ ChangeSize

Next == Daemon \/ Writer \/ Reader \/ User \/ ShellReads \/ Shell \/ ShellEnds

\* The processes run, select serves every descriptor, signals are delivered, the
\* terminal takes output, the shell reads its input and ends sometime, a stopped
\* client is continued.  The user need not do anything else.
Fairness ==
  /\ WF_vars(Start) /\ WF_vars(PacketControl) /\ WF_vars(control \/ FromNet \/ NetEnds)
  /\ WF_vars(ToPty) /\ WF_vars(FromPty) /\ WF_vars(ToNet)
  /\ WF_vars(main \/ doit \/ Resume \/ Continue) /\ WF_vars(copytochild) /\ WF_vars(writeroob) /\ WF_vars(sigwinch)
  /\ WF_vars(catch_child) /\ WF_vars(Reader)
  /\ WF_vars(ShellReads)

Spec == Init /\ [][Next]_vars /\ Fairness

-----------------------------------------------------------------------------
(* Properties.                                                             *)

\* What the daemon sent after its last urgent byte is on the screen, in the
\* reader's buffer or on its way: neither a flush, whose mark moves when the next
\* urgent byte arrives, nor a wait for the urgent byte drops it.  (Output from
\* before the last urgent byte may get lost.)
KeptAfterMark ==
  rd.k # "done" => net.since \subseteq rd.shown \cup Range(net.q) \cup {rd.rcv}

\* The session lasts until somebody ends it.
Lasts == sv.k = "relay" /\ wr.k \notin {"done"} /\ rd.k # "done"

\* What holds in the end.  In a session that lasts the daemon learns the size of the window as the client
\* sees it, and every size the user chooses once the client watches it: the
\* request is repeated with every urgent byte, and SIGURG finds its way to the
\* reader even when it comes before the reader exists.  Excepted are an urgent
\* byte read past before its signal came, and a message taken apart by the
\* network.
WindowAgrees ==
  Lasts /\ ~net.passed /\ ~sv.split
    => wr.dosigwinch /\ sv.win = wr.winsize /\ (term.noticed => wr.winsize = term.size)

\* When the daemon has gone, the client ends without a key being typed, also
\* after it was stopped and continued; unless the reader ends in the moment
\* before the parent has, or has again, its handler of SIGCHLD.
Over == sv.k = "done" => wr.k = "done" \/ rd.missed
=============================================================================
