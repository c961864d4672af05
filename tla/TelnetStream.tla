---------------------------- MODULE TelnetStream ----------------------------
(***************************************************************************)
(* What the user types and what the program prints, between the terminal   *)
(* of telnet and the pseudo terminal of telnetd: the coding of carriage    *)
(* returns and of IAC, commands in the stream, output that is flushed      *)
(* (telnet/telnet.c telsnd, telrcv; telnetd/state.c telrcv,                *)
(* telnetd/telnetd.c telnetd_run, telnetd/utility.c).  Bytes are strings:  *)
(* "a" stands for any ordinary character, "int" for the interrupt          *)
(* character, "esc" and "tilde" for the two escapes.                       *)
(***************************************************************************)
EXTENDS Naturals, Sequences, SequencesExt, FiniteSets

CONSTANTS Settings,  \* modes, and what the user may type at once: [rlogin, line, crlf, icrnl,
                     \* echo, crmod, autoflush, autosynch, chunks]
          Output,    \* what the program may print at once
          MaxMoves,  \* pieces printed and commands; the user types once
          MaxCuts    \* reads and writes that take a part of what there is

VARIABLES
  set,      \* the setting of this session
  cl,       \* the client
  td,       \* telnetd
  up, down, \* bytes on their way
  urg,      \* the place in down of the urgent byte that is not read, or 0
  prog,     \* printed, not yet read by telnetd; flushed: the driver has thrown output away
  flushed,
  typed,    \* the user has typed
  moves, cuts

vars == <<set, cl, td, up, down, urg, prog, flushed, typed, moves, cuts>>

-----------------------------------------------------------------------------
(* telnet, from the user to the network.                                   *)

\* NETADD; meant records what the program is to get.
NetAdd(c, bytes, meant) == [c EXCEPT !.neto = @ \o bytes, !.meant = @ \o meant]

\* doflush: nothing is shown until telnetd answers DO TM.
doflush(c) == [NetAdd(c, <<"iac", "do", "tm">>, <<>>) EXCEPT !.flushout = TRUE, !.tty = <<>>]

\* dosynch
dosynch(c) == NetAdd(c, <<"iac", "dm">>, <<>>)

\* intp, sendbrk, sendabort, sendsusp
intp(c) ==
  LET d == NetAdd(c, <<"iac", "ip">>, <<"int">>)
      f == IF set.autoflush THEN doflush(d) ELSE d
  IN IF set.autosynch THEN dosynch(f) ELSE f

\* xmitAO
xmitAO(c) == LET d == NetAdd(c, <<"iac", "ao">>, <<"flush">>) IN IF set.autoflush THEN doflush(d) ELSE d

\* A character as it is sent.  A line end is sent as CR LF or CR NUL unless the
\* stream is binary.
Encode(c, ch) ==
  CASE ch = "iac" -> NetAdd(c, <<"iac", "iac">>, <<"iac">>)
    [] ~c.binary /\ ch = "lf" /\ set.line -> NetAdd(c, <<"cr", "lf">>, <<"nl">>)
    [] ~c.binary /\ ch = "cr" -> NetAdd(c, <<"cr", IF set.crlf THEN "lf" ELSE "nul">>, <<IF set.line THEN "nl" ELSE "cr">>)
    [] OTHER -> NetAdd(c, <<ch>>, <<ch>>)

\* TerminalSpecialChars: with local characters the interrupt character is a command.
TerminalSpecialChars(c, ch) == IF set.line /\ ch = "int" THEN [intp(c) EXCEPT !.bol = TRUE] ELSE Encode(c, ch)

\* telsnd: q is what is left of the typed chunk.  At the start of a line an rlogin
\* escape makes the next character a command; the escape character starts a
\* command, which takes the rest of the chunk, unless it is doubled.
RECURSIVE telsnd(_, _)
telsnd(c, q) ==
  LET ch == Head(q)
      rest == Tail(q)
      Send(d, x) == telsnd([TerminalSpecialChars(d, x) EXCEPT
                              !.bol = IF x \in {"cr", "lf"} /\ (set.rlogin \/ ~d.binary) THEN TRUE
                                      ELSE IF set.rlogin THEN @ ELSE x = "int" /\ set.line], rest)
  IN IF q = <<>> \/ c.closed THEN c
     ELSE IF set.rlogin THEN
       IF c.bol THEN IF ch = "tilde" THEN telsnd([c EXCEPT !.bol = FALSE, !.local = TRUE], rest)
                     ELSE Send([c EXCEPT !.bol = FALSE], ch)
       ELSE IF ~c.local THEN Send(c, ch)
       ELSE IF ch = "dot" THEN [c EXCEPT !.closed = TRUE]
       ELSE IF ch = "esc" THEN [c EXCEPT !.local = FALSE, !.bol = TRUE]
       ELSE IF ch = "tilde" THEN Send([c EXCEPT !.local = FALSE], ch)
       ELSE telsnd(Encode([c EXCEPT !.local = FALSE], "tilde"), q)
     ELSE IF ch = "esc"
       THEN IF rest # <<>> /\ Head(rest) = "esc" THEN telsnd(Encode([c EXCEPT !.bol = FALSE], "esc"), Tail(rest))
            ELSE [c EXCEPT !.bol = TRUE]
     ELSE Send(c, ch)

-----------------------------------------------------------------------------
(* telnetd, from the network to the pseudo terminal.                       *)

\* pty_output_byte
pty_output_byte(t, ch) == [t EXCEPT !.got = Append(@, ch)]

\* net_output_data of bytes; shows: what of it the user is to see.
net_output_data(t, bytes, shows) ==
  [t EXCEPT !.neto = @ \o bytes, !.owed = @ \o shows, !.written = @ \o shows]

\* nextitem: the place after the item at i, of what lies before the place end; 0 if
\* the item is not all there.
nextitem(b, i, end) ==
  LET len == IF b[i] # "iac" THEN 1
             ELSE IF i + 1 >= end THEN 2
             ELSE IF b[i + 1] \in {"do", "will"} THEN 3 ELSE 2
  IN IF i + len <= end THEN i + len ELSE 0

RECURSIVE ItemAt(_, _, _)
\* The first item before or at the boundary between what is sent and what is not.
ItemAt(b, i, back) ==
  LET next == IF i < back THEN nextitem(b, i, back) ELSE 0
  IN IF next = 0 THEN i ELSE ItemAt(b, next, back)

\* wewant
wewant(b, i) == b[i] = "iac" /\ i + 1 <= Len(b) /\ b[i + 1] # "ec"

RECURSIVE Wanted(_, _)
Wanted(b, i) ==
  LET next == nextitem(b, i, Len(b) + 1) IN
  IF i > Len(b) THEN <<>>
  ELSE (IF wewant(b, i) THEN SubSeq(b, i, (IF next = 0 THEN Len(b) + 1 ELSE next) - 1) ELSE <<>>)
       \o (IF next = 0 THEN <<>> ELSE Wanted(b, next))

\* Faulty variant of netclear: the whole buffer is thrown away.
netclearAll(t) == [t EXCEPT !.neto = <<>>, !.nbackp = 1, !.neturg = 0, !.torn = @ \/ ItemAt(t.neto, 1, t.nbackp) < t.nbackp]

\* netclear: of what is not sent only the commands are kept.  An item of which the
\* first bytes are sent is kept from its first byte on.
netclear(t) ==
  LET first == ItemAt(t.neto, 1, t.nbackp)
  IN [t EXCEPT !.neto = Wanted(@, first), !.nbackp = 1, !.neturg = 0, !.torn = @ \/ first < t.nbackp]

\* IAC DM and set_neturg: the user is owed what follows.
Synch(t) ==
  LET u == net_output_data(netclear(t), <<"iac", "dm">>, <<>>)
  IN [u EXCEPT !.neturg = Len(u.neto), !.owed = <<>>]

\* send_intr, send_brk, send_susp; send_eof: the special character.
send_intr(t) == pty_output_byte(t, "int")

\* recv_ayt
recv_ayt(t) == net_output_data(t, <<"yes">>, <<"yes">>)

\* willoption, dooption, wontoption, dontoption, as far as they touch the stream.
Option(t, cmd, opt) ==
  IF opt = "tm" THEN [net_output_data(t, <<"iac", "will", "tm">>, <<>>) EXCEPT !.owed = <<>>]
  ELSE IF cmd \in {"will", "wont"} THEN net_output_data([t EXCEPT !.binaryIn = cmd = "will"], <<"iac", "do", "bin">>, <<>>)
  ELSE net_output_data([t EXCEPT !.binaryOut = cmd = "do"], <<"iac", "will", "bin">>, <<>>)

\* Faulty variant of TelrcvData: after a carriage return the next byte is data.
TelrcvDataNoCR(t, ch, rest) == IF ch = "iac" THEN [t EXCEPT !.state = "iac"] ELSE pty_output_byte(t, ch)

\* telrcv, state TS_DATA: in line mode CR LF is a newline if both are in the buffer;
\* otherwise the LF or NUL after a CR is dropped.
TelrcvData(t, ch, rest) ==
  IF ch = "iac" THEN [t EXCEPT !.state = "iac"]
  ELSE IF ch = "cr" /\ ~t.binaryIn
    THEN IF set.line /\ rest # <<>> /\ (Head(rest) = "lf" \/ (Head(rest) = "nul" /\ set.icrnl))
         THEN [pty_output_byte(t, "lf") EXCEPT !.state = "skip"]
         ELSE [pty_output_byte(t, "cr") EXCEPT !.state = "cr"]
  ELSE pty_output_byte(t, ch)

\* telrcv, state TS_IAC.
TelrcvIac(t, ch) ==
  LET d == [t EXCEPT !.state = "data"] IN
  CASE ch \in {"will", "wont", "do", "dont"} -> [t EXCEPT !.state = ch]
    [] ch = "ip" -> send_intr(d)
    [] ch = "ayt" -> recv_ayt(d)
    [] ch = "ao" -> Synch(pty_output_byte(d, "flush"))
    [] ch = "ec" -> pty_output_byte(d, "erase")
    [] ch = "iac" -> pty_output_byte(d, "iac")
    [] OTHER -> d

\* telrcv: a buffer is worked off; the state outlives it.
RECURSIVE telrcv(_, _)
telrcv(t, q) ==
  LET ch == Head(q) IN
  IF q = <<>> THEN t
  ELSE telrcv(CASE t.state = "skip" -> [t EXCEPT !.state = "data"]
                [] t.state = "data" -> TelrcvData(t, ch, Tail(q))
                [] t.state = "cr" -> IF ch \in {"nul", "lf"} THEN [t EXCEPT !.state = "data"]
                                     ELSE TelrcvData([t EXCEPT !.state = "data"], ch, Tail(q))
                [] t.state = "iac" -> TelrcvIac(t, ch)
                [] OTHER -> Option([t EXCEPT !.state = "data"], t.state, ch), Tail(q))

\* telnetd_run: what the program has printed, as it is sent.
RECURSIVE ToNet(_, _)
ToNet(t, q) ==
  LET ch == Head(q)
      rest == Tail(q)
  IN IF q = <<>> THEN t
     ELSE IF ch = "iac" THEN ToNet(net_output_data(t, <<"iac", "iac">>, <<"iac">>), rest)
     ELSE IF ch # "cr" \/ t.binaryOut THEN ToNet(net_output_data(t, <<ch>>, <<ch>>), rest)
     ELSE IF rest # <<>> /\ Head(rest) = "lf" THEN ToNet(net_output_data(t, <<"cr", "lf">>, <<"cr", "lf">>), Tail(rest))
     ELSE ToNet(net_output_data(t, <<"cr", "nul">>, <<"cr">>), rest)

-----------------------------------------------------------------------------
(* telnet, from the network to the terminal.                               *)

\* TTYADD
TtyAdd(c, bytes) == [c EXCEPT !.tty = @ \o bytes]

CrLf == IF set.crmod THEN <<"cr", "lf">> ELSE <<"cr">>

\* telrcv, state TS_DATA.
ClientData(c, ch, rest) ==
  IF ch = "iac" THEN [c EXCEPT !.state = "iac"]
  ELSE IF ch # "cr" \/ c.binaryIn THEN TtyAdd(c, <<ch>>)
  ELSE IF rest = <<>> THEN [TtyAdd(c, CrLf) EXCEPT !.state = "cr"]
  ELSE IF Head(rest) = "nul" THEN [TtyAdd(c, <<"cr">>) EXCEPT !.state = "skip"]
  ELSE IF Head(rest) = "lf" /\ ~set.echo THEN [TtyAdd(c, <<"lf">>) EXCEPT !.state = "skip"]
  ELSE TtyAdd(c, CrLf)

\* Faulty variant of ClientIac: after the data mark output is still thrown away.
ClientIacKeeps(c, ch, still) ==
  LET d == [c EXCEPT !.state = "data"] IN
  CASE ch \in {"will", "do"} -> [c EXCEPT !.state = ch]
    [] ch = "dm" -> [d EXCEPT !.tty = <<>>]
    [] ch = "iac" -> TtyAdd(d, <<"iac">>)
    [] OTHER -> d

\* telrcv, state TS_IAC: at the data mark all that came before is thrown away.
ClientIac(c, ch, still) ==
  LET d == [c EXCEPT !.state = "data"] IN
  CASE ch \in {"will", "do"} -> [c EXCEPT !.state = ch]
    [] ch = "dm" -> [d EXCEPT !.tty = <<>>, !.SYNCHing = still]
    [] ch = "iac" -> TtyAdd(d, <<"iac">>)
    [] OTHER -> d

\* willoption, dooption: the answer to DO TM ends the flushing.
ClientOption(c, cmd, opt) == IF opt = "tm" /\ cmd = "will" THEN [c EXCEPT !.flushout = FALSE] ELSE c

RECURSIVE ClientTelrcv(_, _, _)
ClientTelrcv(c, q, still) ==
  LET ch == Head(q) IN
  IF q = <<>> THEN c
  ELSE ClientTelrcv(CASE c.state = "skip" -> [c EXCEPT !.state = "data"]
                      [] c.state = "data" -> ClientData(c, ch, Tail(q))
                      [] c.state = "cr" -> IF ch = "nul" THEN [c EXCEPT !.state = "data"]
                                           ELSE IF ch = "lf" /\ ~set.echo /\ ~set.crmod
                                             THEN TtyAdd([c EXCEPT !.state = "data"], <<"lf">>)
                                           ELSE ClientData([c EXCEPT !.state = "data"], ch, Tail(q))
                      [] c.state = "iac" -> ClientIac(c, ch, still)
                      [] OTHER -> ClientOption([c EXCEPT !.state = "data"], c.state, ch), Tail(q), still)

-----------------------------------------------------------------------------

Init ==
  /\ set \in Settings
  /\ cl = [neto |-> <<>>, meant |-> <<>>, tty |-> <<>>, shown |-> <<>>, flushout |-> FALSE, SYNCHing |-> FALSE,
           state |-> "data", bol |-> TRUE, local |-> FALSE, closed |-> FALSE, binary |-> FALSE, binaryIn |-> FALSE]
  /\ td = [neto |-> <<>>, nbackp |-> 1, neturg |-> 0, got |-> <<>>, owed |-> <<>>, written |-> <<>>,
           state |-> "data", binaryIn |-> FALSE, binaryOut |-> FALSE, torn |-> FALSE]
  /\ up = <<>> /\ down = <<>> /\ urg = 0 /\ prog = <<>> /\ flushed = FALSE
  /\ typed = FALSE /\ moves = 0 /\ cuts = 0

\* n of what there is are taken.
Cut(n, there) == IF n < there THEN cuts < MaxCuts /\ cuts' = cuts + 1 ELSE UNCHANGED cuts

\* The user types, process_rings reads it.
TerminalRead ==
  /\ ~cl.closed /\ ~typed /\ typed' = TRUE
  /\ \E q \in set.chunks : cl' = telsnd(cl, q)
  /\ UNCHANGED <<set, td, up, down, urg, prog, flushed, moves, cuts>>

\* The signals of the terminal (intr, intr2, susp), and its flush character.
TerminalKey ==
  /\ ~cl.closed /\ set.line /\ moves < MaxMoves /\ moves' = moves + 1
  /\ cl' \in {intp(cl), xmitAO(cl)}
  /\ UNCHANGED <<set, td, up, down, urg, prog, flushed, typed, cuts>>

\* sendcmd: send ip, ao, ec, ayt, synch, escape.  No flushing goes with them.
sendcmd ==
  /\ ~cl.closed /\ moves < MaxMoves /\ moves' = moves + 1
  /\ cl' \in {NetAdd(cl, <<"iac", "ip">>, <<"int">>), NetAdd(cl, <<"iac", "ao">>, <<"flush">>),
              NetAdd(cl, <<"iac", "ec">>, <<"erase">>), NetAdd(cl, <<"iac", "ayt">>, <<>>),
              dosynch(cl), NetAdd(cl, <<"esc">>, <<"esc">>)}
  /\ UNCHANGED <<set, td, up, down, urg, prog, flushed, typed, cuts>>

\* togxbinary, togrbinary
togbinary ==
  /\ ~cl.closed /\ moves < MaxMoves /\ moves' = moves + 1
  /\ cl' \in {[NetAdd(cl, <<"iac", IF cl.binary THEN "wont" ELSE "will", "bin">>, <<>>) EXCEPT !.binary = ~@],
              [NetAdd(cl, <<"iac", IF cl.binaryIn THEN "dont" ELSE "do", "bin">>, <<>>) EXCEPT !.binaryIn = ~@]}
  /\ UNCHANGED <<set, td, up, down, urg, prog, flushed, typed, cuts>>

\* netflush of the client.
ClientWrites ==
  /\ cl.neto # <<>> /\ ~cl.closed
  /\ up' = up \o cl.neto /\ cl' = [cl EXCEPT !.neto = <<>>]
  /\ UNCHANGED <<set, td, down, urg, prog, flushed, typed, moves, cuts>>

\* net_read, telrcv.  The terminal driver throws output away at an interrupt
\* character.
ServerReads ==
  /\ up # <<>>
  /\ \E n \in 1..Len(up) :
       LET t == telrcv(td, SubSeq(up, 1, n))
           int == \E i \in Len(td.got) + 1..Len(t.got) : t.got[i] = "int"
       IN /\ Cut(n, Len(up)) /\ td' = t /\ up' = SubSeq(up, n + 1, Len(up))
          /\ prog' = IF int THEN <<>> ELSE prog
          /\ flushed' = (flushed \/ int)
  /\ UNCHANGED <<set, cl, down, urg, typed, moves>>

\* The program prints.
Print_ ==
  /\ moves < MaxMoves /\ moves' = moves + 1
  /\ \E q \in Output : prog' = prog \o q
  /\ UNCHANGED <<set, cl, td, up, down, urg, flushed, typed, cuts>>

\* pty_read and what telnetd_run makes of it, once all output is sent:
\* TIOCPKT_FLUSHWRITE, or data.
ServerReadsPty ==
  /\ td.neto = <<>>
  /\ \/ flushed /\ flushed' = FALSE /\ td' = Synch(td) /\ UNCHANGED <<prog, cuts>>
     \/ /\ ~flushed /\ prog # <<>> /\ UNCHANGED flushed
        /\ \E n \in 1..Len(prog) : Cut(n, Len(prog)) /\ td' = ToNet(td, SubSeq(prog, 1, n)) /\ prog' = SubSeq(prog, n + 1, Len(prog))
  /\ UNCHANGED <<set, cl, up, down, urg, typed, moves>>

\* netflush of telnetd: what the network takes; up to the urgent byte, and that
\* one by itself.
netflush ==
  /\ td.neto # <<>>
  /\ LET left == Len(td.neto) + 1 - td.nbackp
         m == td.neturg - td.nbackp
         sendable == IF td.neturg = 0 THEN left ELSE IF m > 1 THEN m - 1 ELSE 1
         urgent == td.neturg # 0 /\ m <= 1
     IN \E n \in 1..sendable :
          LET back == td.nbackp + n IN
          /\ Cut(n, sendable)
          /\ down' = down \o SubSeq(td.neto, td.nbackp, back - 1)
          /\ urg' = IF urgent THEN Len(down) + 1 ELSE urg
          /\ td' = IF back > Len(td.neto) THEN [td EXCEPT !.neto = <<>>, !.nbackp = 1, !.neturg = 0]
                   ELSE [td EXCEPT !.nbackp = back, !.neturg = IF back >= @ THEN 0 ELSE @]
  /\ UNCHANGED <<set, cl, up, prog, flushed, typed, moves>>

\* process_rings: urgent data, then what is read, up to the urgent byte (recv).
ClientReads ==
  /\ down # <<>> /\ ~cl.closed
  /\ \E n \in 1..Len(down) :
       LET there == IF urg > 1 THEN urg - 1 ELSE Len(down)
           left == IF urg > n THEN urg - n ELSE 0
           c == IF urg > 0 /\ ~cl.SYNCHing THEN [cl EXCEPT !.SYNCHing = TRUE, !.tty = <<>>] ELSE cl
       IN /\ n <= there /\ Cut(n, there)
          /\ cl' = ClientTelrcv(c, SubSeq(down, 1, n), left > 0)
          /\ down' = SubSeq(down, n + 1, Len(down)) /\ urg' = left
  /\ UNCHANGED <<set, td, up, prog, flushed, typed, moves>>

\* ttyflush (SYNCHing | flushout)
ttyflush ==
  /\ cl.tty # <<>>
  /\ cl' = [cl EXCEPT !.tty = <<>>, !.shown = IF cl.SYNCHing \/ cl.flushout THEN @ ELSE @ \o cl.tty]
  /\ UNCHANGED <<set, td, up, down, urg, prog, flushed, typed, moves, cuts>>

Move == ClientWrites \/ ServerReads \/ ServerReadsPty \/ netflush \/ ClientReads \/ ttyflush

Next == Move \/ TerminalRead \/ TerminalKey \/ sendcmd \/ togbinary \/ Print_

Spec == Init /\ [][Next]_vars

-----------------------------------------------------------------------------
(* Properties.                                                             *)

Quiet == cl.closed \/ (/\ cl.neto = <<>> /\ up = <<>> /\ prog = <<>> /\ ~flushed
                       /\ td.neto = <<>> /\ down = <<>> /\ cl.tty = <<>>)

Meets(m, g) == m = g \/ (m = "nl" /\ g \in {"cr", "lf"})

\* What reaches the program is what the user typed and the commands the user gave,
\* in this order, each byte once, wherever reads cut the stream, through every
\* change to and from binary; and in the end it is all of it.
TypedArrives ==
  /\ Len(td.got) <= Len(cl.meant)
  /\ \A i \in 1..Len(td.got) : Meets(cl.meant[i], td.got[i])
  /\ Quiet /\ ~cl.closed => Len(td.got) = Len(cl.meant)

\* The line ends of the terminal left aside, as its modes ask for.
Norm(s) == SelectSeq(s, LAMBDA x : /\ x # "nul" /\ ~(x = "cr" /\ ~set.echo) /\ ~(x = "lf" /\ set.crmod))

IsSubsequence(s, q) ==
  FoldLeft(LAMBDA k, x : IF k < Len(s) /\ s[k + 1] = x THEN k + 1 ELSE k, 0, q) = Len(s)

\* Nothing is shown that was not printed, nor out of order; and what was printed
\* after the last flush (or after the answer to the client's own) is shown, and the
\* client does not go on throwing output away: the marks and the answer survive the
\* flushing of what is around them, as the comment before netclear has it: "we may
\* have sent the first byte or so of a previous TELNET command into the network".
CommandsSurvive ==
  /\ IsSubsequence(Norm(cl.shown), Norm(td.written))
  /\ Quiet /\ ~cl.closed => IsSuffix(Norm(td.owed), Norm(cl.shown)) /\ ~cl.flushout /\ ~cl.SYNCHing

\* The same for every session in which telnetd did not flush when the network had
\* taken a part of a command: netclear then keeps the whole command, its first
\* bytes are sent twice, and the client reads something else.
PrintedIsShown == td.torn \/ CommandsSurvive
=============================================================================
