----------------------------- MODULE TelnetTerm -----------------------------
(***************************************************************************)
(* The terminal that telnetd sets up for telnet: how it asks for the type, *)
(* the speed, the display and the environment before it starts login       *)
(* (telnetd/utility.c getterminaltype), and how window size, line mode and *)
(* flow control follow both ends in the session (telnetd/termstat.c,       *)
(* telnetd/term.c, telnet/telnet.c).  A message is [k, o, v]: its kind,    *)
(* option and value.  telnetd runs without --linemode.                     *)
(***************************************************************************)
EXTENDS Naturals, Sequences, FiniteSets

CONSTANTS NameLists, \* what gettermname may have to offer, in the order it offers it
          Databases, \* the sets of names telnetd's terminal database may have
          Sizes,     \* sizes of the window
          MaxMoves   \* changes by the user and by the program

VARIABLES
  c,            \* the client
  s,            \* telnetd
  known,        \* the names in telnetd's terminal database
  tty,          \* modes of the pseudo terminal: a subset of Flags; before it is there,
                \* what termbuf, of which no call takes notice, holds
  toS, toC,     \* messages on their way
  crossed,      \* a mode was set at one end while a request of the other was on its way
  unheard,      \* modes were changed without TIOCPKT_IOCTL
  moves

vars == <<c, s, known, tty, toS, toC, crossed, unheard, moves>>

Edit == {"edit", "sig"}                   \* MODE_EDIT, MODE_TRAPSIG
Flags == Edit \union {"ext", "flow"}      \* EXTPROC: line mode; IXON
Asked == {"TTYPE", "TSPEED", "XDISPLOC", "NEW_ENVIRON", "OLD_ENVIRON"}
Opts == Asked \union {"LINEMODE", "NAWS", "LFLOW"}

M(k, o, v) == [k |-> k, o |-> o, v |-> v]

\* A request to change the modes that is not an acknowledgement.
Request(m) == m.k = "MODE" /\ m.o = ""
Requests(q) == \E i \in 1..Len(q) : Request(q[i])

-----------------------------------------------------------------------------
(* telnet.                                                                 *)

\* mklist: the names of the terminal, the last one twice.  A terminal that is not
\* in the client's database has the one name (unknown).
mklist(names) == IF Len(names) = 1 THEN names ELSE Append(names, names[Len(names)])

\* gettermname: the next name, and from the start again.
gettermname(x) == [x EXCEPT !.next = IF @ >= Len(x.names) THEN 1 ELSE @ + 1]

Say(x, m) == [x EXCEPT !.out = Append(@, m)]

\* The requests unanswered once an answer has come in (see TelnetOption).
Answered(n, same) == IF n = 0 THEN 0 ELSE IF n > 1 /\ same THEN n - 2 ELSE n - 1

With(set, o, on) == IF on THEN set \union {o} ELSE set \ {o}

\* send_will, send_wont of the client and send_do, send_dont of telnetd, called with
\* init = 1: is, want, resp belong to the option.
Ask(x, is, o, on, m) ==
  IF (x.resp[o] = 0 /\ (o \in is) = on) \/ (o \in x.want) = on THEN x
  ELSE Say([x EXCEPT !.want = With(@, o, on), !.resp[o] = @ + 1], M(m, o, 0))

send_will(x, o) == Ask(x, x.my, o, TRUE, "WILL")
send_wont(x, o) == Ask(x, x.my, o, FALSE, "WONT")

\* sendnaws
sendnaws(x) == IF "NAWS" \in x.my THEN Say(x, M("NAWS", "", x.size)) ELSE x

\* dooption: what the client agrees to, unless it asked itself; the window size
\* follows at once, flow control starts on (telrcv).
dooption(x, o) ==
  LET n == Answered(x.resp[o], o \in x.my)
      ok == o # "OLD_ENVIRON" /\ (o = "XDISPLOC" => x.display)
      y == [x EXCEPT !.my = @ \union {o}, !.resp[o] = n]
      z == IF n > 0 \/ o \in x.want THEN y
           ELSE IF ok THEN Say([y EXCEPT !.want = @ \union {o}], M("WILL", o, 0))
           ELSE Say([y EXCEPT !.resp[o] = 1], M("WONT", o, 0))
  IN IF o = "NAWS" THEN sendnaws(z) ELSE [z EXCEPT !.localflow = @ \/ o = "LFLOW"]

\* dontoption
dontoption(x, o) ==
  LET n == Answered(x.resp[o], o \notin x.my)
      y == [x EXCEPT !.my = @ \ {o}, !.resp[o] = n]
      z == [y EXCEPT !.want = @ \ {o}, !.linemode = IF o = "LINEMODE" THEN {} ELSE @]
  IN IF n > 0 \/ o \notin x.want THEN y ELSE IF o \in x.my THEN Say(z, M("WONT", o, 0)) ELSE z

\* lm_mode: other modes are taken over, and acknowledged when telnetd asked for them.
lm_mode(x, modes, ack, init) ==
  IF (~ack /\ x.linemode = modes) \/ ack THEN x
  ELSE Say([x EXCEPT !.linemode = modes], M("MODE", IF init THEN "" ELSE "ACK", modes))

\* suboption
ClientSuboption(x, m) ==
  CASE m.k = "SEND" /\ m.o \notin x.want -> x
    [] m.k = "SEND" /\ m.o = "TTYPE" -> Say(gettermname(x), M("IS", "TTYPE", x.names[x.next]))
    [] m.k = "SEND" /\ m.o = "XDISPLOC" /\ ~x.display -> send_wont(x, "XDISPLOC")
    [] m.k = "SEND" -> Say(x, M("IS", m.o, 0))
    [] m.k = "MODE" -> IF "LINEMODE" \in x.want THEN lm_mode(x, m.v, m.o = "ACK", FALSE) ELSE x
    [] m.k = "LFLOW" -> IF "LFLOW" \in x.want THEN [x EXCEPT !.localflow = m.v] ELSE x

-----------------------------------------------------------------------------
(* telnetd.                                                                *)

send_do(x, o) == Ask(x, x.his, o, TRUE, "DO")
send_dont(x, o) == Ask(x, x.his, o, FALSE, "DONT")

\* startslave has opened the pseudo terminal.
Open(x) == x.pc \in {"naws", "run"}

\* tty_isediting, tty_istrapsig
useeditmode(t) == t \intersect Edit

\* tty_setedit, tty_setsig: the modes that changed.
SetModes(t, changed, modes) == (t \ changed) \union (changed \intersect modes)

\* tty_setlinemode
tty_setlinemode(t, on) == IF on THEN t \union {"ext"} ELSE t \ {"ext"}

\* flowstat
flowstat(x, t) ==
  IF "LFLOW" \in x.his /\ ("flow" \in t) # x.flowmode
    THEN Say([x EXCEPT !.flowmode = "flow" \in t], M("LFLOW", "", "flow" \in t)) ELSE x

\* defer_terminit: the size that came too early.  It happens once, and for nothing if
\* there is no pseudo terminal yet (early).
defer_terminit(x) ==
  [x EXCEPT !.terminit = TRUE, !.early = ~Open(x), !.winsize = IF x.def = 0 \/ ~Open(x) THEN @ ELSE x.def]

\* localstat: what the terminal has become is told to the client; the first call
\* ends the deferring.  Line mode that is not the terminal's is given up.
localstat(x, t) ==
  LET f == flowstat(x, t)
      g == IF x.linemode /\ "ext" \notin t THEN send_dont([f EXCEPT !.linemode = FALSE], "LINEMODE")
           ELSE IF x.linemode /\ "LINEMODE" \in x.his /\ useeditmode(t) # x.editmode
             THEN Say([f EXCEPT !.editmode = useeditmode(t)], M("MODE", "", useeditmode(t))) ELSE f
  IN IF x.terminit THEN g ELSE defer_terminit(g)

\* clientstat (TELOPT_LINEMODE): the client has turned line mode on or off.
ClientstatLinemode(x, t, on) ==
  IF on = x.linemode THEN [x |-> x, t |-> t]
  ELSE [x |-> IF on THEN Say([x EXCEPT !.linemode = TRUE, !.editmode = useeditmode(t)], M("MODE", "", useeditmode(t)))
              ELSE [x EXCEPT !.linemode = FALSE],
        t |-> tty_setlinemode(t, on)]

\* clientstat (LM_MODE).  In an acknowledgement that is not what telnetd has, the
\* terminal is looked at first (localstat); that overwrites the modes that came,
\* unless line mode is given up.
ClientstatMode(x, t, modes, ack) ==
  LET changed == (modes \ x.editmode) \union (x.editmode \ modes)
      new == IF ack /\ ~(x.linemode /\ "ext" \notin t) THEN useeditmode(t) ELSE modes
      y == IF ack THEN localstat(x, t) ELSE Say(x, M("MODE", "ACK", modes))
  IN IF changed = {} THEN [x |-> x, t |-> t]
     ELSE [x |-> [y EXCEPT !.editmode = new], t |-> SetModes(t, changed, new)]

\* Faulty variant of ClientstatNaws: a size that comes before the terminal is set up
\* is forgotten.
ClientstatNawsForgets(x, size) == IF x.terminit /\ Open(x) THEN [x EXCEPT !.winsize = size, !.def = size] ELSE x

\* clientstat (TELOPT_NAWS)
ClientstatNaws(x, size) == [x EXCEPT !.def = size, !.winsize = IF x.terminit /\ Open(x) THEN size ELSE @]

\* willoption: an offer is accepted.  Once the option is on, line mode is set up,
\* and the client is told of flow control if telnetd had asked (func).
willoption(x, t, o) ==
  LET n == Answered(x.resp[o], o \in x.his)
      y == [x EXCEPT !.his = @ \union {o}, !.resp[o] = n]
      z == IF n > 0 \/ o \in x.want THEN y ELSE Say([y EXCEPT !.want = @ \union {o}], M("DO", o, 0))
  IN IF n = 0 /\ o = "LINEMODE" THEN ClientstatLinemode(z, t, TRUE)
     ELSE [x |-> IF n = 0 /\ o = "LFLOW" /\ o \in x.want THEN flowstat(z, t) ELSE z, t |-> t]

\* wontoption: what telnetd waits for will not come (settimer).
wontoption(x, t, o) ==
  LET n == Answered(x.resp[o], o \notin x.his)
      y == [x EXCEPT !.his = @ \ {o}, !.resp[o] = n]
      z == [y EXCEPT !.want = @ \ {o}, !.come = @ \union {o}]
      w == IF o = "LINEMODE" THEN ClientstatLinemode(z, t, FALSE) ELSE [x |-> z, t |-> t]
  IN IF n > 0 \/ o \notin x.want THEN [x |-> y, t |-> t]
     ELSE IF o \in x.his THEN [w EXCEPT !.x = Say(w.x, M("DONT", o, 0))] ELSE w

\* suboption
ServerSuboption(x, t, m) ==
  CASE m.k = "IS" -> [x |-> [x EXCEPT !.come = @ \union {m.o}, !.terminaltype = IF m.o = "TTYPE" THEN m.v ELSE @], t |-> t]
    [] m.k = "NAWS" -> [x |-> IF "NAWS" \in x.his THEN ClientstatNaws(x, m.v) ELSE x, t |-> t]
    [] m.k = "MODE" -> IF "LINEMODE" \in x.his THEN ClientstatMode(x, t, m.v, m.o = "ACK") ELSE [x |-> x, t |-> t]

\* Faulty variant of _gettermname: the answer to the last question counts as the answer
\* to this one (settimer is forgotten).
_gettermnameStale(x, pc) ==
  IF "TTYPE" \notin x.his THEN [x EXCEPT !.pc = pc]
  ELSE Say([x EXCEPT !.pc = pc], M("SEND", "TTYPE", 0))

\* _gettermname: the next name is asked for and waited for.
_gettermname(x, pc) ==
  IF "TTYPE" \notin x.his THEN [x EXCEPT !.pc = pc]
  ELSE Say([x EXCEPT !.come = @ \ {"TTYPE"}, !.pc = pc], M("SEND", "TTYPE", 0))

\* terminaltypeok
terminaltypeok(x) == x.terminaltype \in known

\* telnetd_run, up to its loop.
telnetd_run(x) ==
  LET l == IF "LINEMODE" \in x.his THEN x ELSE send_do([x EXCEPT !.linemode = FALSE, !.editmode = {}], "LINEMODE")
  IN send_do([send_do(l, "NAWS") EXCEPT !.pc = "naws", !.flowmode = TRUE], "LFLOW")

\* his_will_wont_is_changing
Changing(x, o) == (o \in x.his) # (o \in x.want)

SendAll(x) ==
  LET env == IF "NEW_ENVIRON" \in x.his THEN {"NEW_ENVIRON"} ELSE {"OLD_ENVIRON"}
      Send(o) == IF o \in x.his THEN <<M("SEND", o, 0)>> ELSE <<>>
  IN [x EXCEPT !.pc = "values",
               !.out = @ \o Send("TSPEED") \o Send("XDISPLOC") \o Send(CHOOSE e \in env : TRUE) \o Send("TTYPE")]

\* getterminaltype: all options are asked for, then the values, which are waited for
\* one after the other (what has come, or will not, stays so); the names of the
\* terminal until one is known, or one comes twice in a row, which is the last, and
\* then the first is asked for again.
getterminaltype(x) ==
  CASE x.pc = "start" -> LET d(y, o) == send_do(y, o)
                         IN [d(d(d(d(d(x, "TTYPE"), "TSPEED"), "XDISPLOC"), "NEW_ENVIRON"), "OLD_ENVIRON") EXCEPT !.pc = "options"]
    [] x.pc = "options" /\ (\A o \in Asked : ~Changing(x, o)) -> SendAll(x)
    [] x.pc = "values" /\ (Asked \intersect x.his) \subseteq x.come ->
         IF "TTYPE" \notin x.his \/ terminaltypeok(x) THEN telnetd_run(x)
         ELSE _gettermname([x EXCEPT !.first = x.terminaltype, !.last = x.terminaltype], "cycle")
    [] x.pc = "cycle" /\ "TTYPE" \in x.come ->
         IF terminaltypeok(x) THEN telnetd_run(x)
         ELSE IF x.last # x.terminaltype THEN _gettermname([x EXCEPT !.last = x.terminaltype], "cycle")
         ELSE IF x.first = x.terminaltype THEN telnetd_run(x)
         ELSE _gettermname(x, "again")
    [] x.pc = "again" /\ "TTYPE" \in x.come -> telnetd_run([x EXCEPT !.terminaltype = x.first])
    [] x.pc = "naws" /\ ~Changing(x, "NAWS") -> [localstat(x, tty) EXCEPT !.pc = "run"]
    [] OTHER -> x

-----------------------------------------------------------------------------

Sent(x) == [x EXCEPT !.out = <<>>]

\* telnet: on its own port the client offers what it has.
Offers(x) ==
  LET w(y, o) == send_will(y, o)
      z == w(w(w(w(w(w(x, "TTYPE"), "NAWS"), "TSPEED"), "LFLOW"), "LINEMODE"), "NEW_ENVIRON")
  IN IF x.display THEN w(z, "XDISPLOC") ELSE z

Init ==
  /\ \E names \in NameLists, display \in BOOLEAN, telnetport \in BOOLEAN :
       LET x == [names |-> mklist(names), next |-> 1, size |-> CHOOSE size \in Sizes : TRUE, display |-> display, my |-> {}, want |-> {},
                 resp |-> [o \in Opts |-> 0], linemode |-> {}, localflow |-> FALSE, out |-> <<>>]
           y == IF telnetport THEN Offers(x) ELSE x
       IN c = Sent(y) /\ toS = y.out
  /\ known \in Databases
  /\ s = [pc |-> "start", his |-> {}, want |-> {}, resp |-> [o \in Opts |-> 0], come |-> {},
          terminaltype |-> "", first |-> "", last |-> "", linemode |-> FALSE, editmode |-> {}, flowmode |-> FALSE,
          terminit |-> FALSE, early |-> FALSE, def |-> 0, winsize |-> 0, out |-> <<>>]
  /\ tty = {} /\ toC = <<>> /\ crossed = FALSE /\ unheard = FALSE /\ moves = 0

ClientReceives ==
  /\ toC # <<>>
  /\ LET m == Head(toC)
         x == CASE m.k = "DO" -> dooption(c, m.o)
                [] m.k = "DONT" -> dontoption(c, m.o)
                [] OTHER -> ClientSuboption(c, m)
     IN c' = Sent(x) /\ toS' = toS \o x.out
  /\ toC' = Tail(toC)
  /\ UNCHANGED <<s, known, tty, crossed, unheard, moves>>

ServerReceives ==
  /\ toS # <<>>
  /\ LET m == Head(toS)
         r == CASE m.k = "WILL" -> willoption(s, tty, m.o)
                [] m.k = "WONT" -> wontoption(s, tty, m.o)
                [] OTHER -> ServerSuboption(s, tty, m)
     IN /\ s' = Sent(r.x) /\ tty' = r.t /\ toC' = toC \o r.x.out
        /\ crossed' = (crossed \/ (Requests(r.x.out) /\ Requests(toS)))
  /\ toS' = Tail(toS)
  /\ UNCHANGED <<c, known, unheard, moves>>

ServerGoesOn ==
  /\ getterminaltype(s) # s
  /\ LET x == getterminaltype(s)
     IN /\ s' = Sent(x) /\ toC' = toC \o x.out
        /\ tty' = IF Open(x) /\ ~Open(s) THEN {"edit", "sig", "flow"} ELSE tty
        /\ crossed' = (crossed \/ (Requests(x.out) /\ Requests(toS)))
  /\ UNCHANGED <<c, known, toS, unheard, moves>>

\* The window is resized: sendwin.
sendwin ==
  /\ moves < MaxMoves /\ moves' = moves + 1
  /\ \E size \in Sizes \ {c.size} : LET x == sendnaws([c EXCEPT !.size = size]) IN c' = Sent(x) /\ toS' = toS \o x.out
  /\ UNCHANGED <<s, known, tty, toC, crossed, unheard>>

\* set_mode, clear_mode: dolmmode.
dolmmode ==
  /\ moves < MaxMoves /\ moves' = moves + 1 /\ "LINEMODE" \in c.want
  /\ \E bit \in Edit, on \in BOOLEAN :
       LET x == lm_mode(c, IF on THEN c.linemode \union {bit} ELSE c.linemode \ {bit}, FALSE, TRUE)
       IN c' = Sent(x) /\ toS' = toS \o x.out /\ crossed' = (crossed \/ (x.out # <<>> /\ Requests(toC)))
  /\ UNCHANGED <<s, known, tty, toC, unheard>>

\* docharmode, dolinemode
docharmode ==
  /\ moves < MaxMoves /\ moves' = moves + 1
  /\ \E x \in {send_will(c, "LINEMODE"), send_wont(c, "LINEMODE")} : c' = Sent(x) /\ toS' = toS \o x.out
  /\ UNCHANGED <<s, known, tty, toC, crossed, unheard>>

\* The user gives up the variable DISPLAY.
env_undefine ==
  /\ moves < MaxMoves /\ moves' = moves + 1 /\ c.display
  /\ c' = [c EXCEPT !.display = FALSE]
  /\ UNCHANGED <<s, known, tty, toS, toC, crossed, unheard>>

\* A program changes the modes of the terminal.  In line mode telnetd hears of it
\* (TIOCPKT_IOCTL); otherwise only of flow control (TIOCPKT_DOSTOP), and then it
\* sends the mode that was.
Program ==
  /\ moves < MaxMoves /\ moves' = moves + 1 /\ s.pc = "run"
  /\ \E f \in Flags \ {"ext"} :
       LET t == IF f \in tty THEN tty \ {f} ELSE tty \union {f}
           heard == "ext" \in tty
           x == IF heard THEN localstat(s, t)
                ELSE IF f = "flow" /\ "LFLOW" \in s.his /\ ("flow" \in t) # s.flowmode THEN Say(s, M("LFLOW", "", s.flowmode))
                ELSE s
       IN /\ tty' = t /\ s' = Sent(x) /\ toC' = toC \o x.out
          /\ crossed' = (crossed \/ (Requests(x.out) /\ Requests(toS)))
          /\ unheard' = (unheard \/ ~heard)
  /\ UNCHANGED <<c, known, toS>>

Receive == ClientReceives \/ ServerReceives \/ ServerGoesOn

Next == Receive \/ sendwin \/ dolmmode \/ docharmode \/ env_undefine \/ Program

Fairness == WF_vars(Receive)

Spec == Init /\ [][Next]_vars /\ Fairness

-----------------------------------------------------------------------------
(* Properties.                                                             *)

Quiet == toS = <<>> /\ toC = <<>> /\ s.pc = "run"

\* What holds in the end: telnetd comes through all its waits and the exchange ends.
Settled == Quiet

\* The terminal type is the first name of the client's that telnetd knows, and the
\* client's first name if it knows none.
TypeChosen ==
  s.pc \in {"naws", "run"} =>
    LET good == {i \in 1..Len(c.names) : c.names[i] \in known}
    IN s.terminaltype = c.names[IF good = {} THEN 1 ELSE CHOOSE i \in good : \A j \in good : i <= j]

\* Both ends edit and trap signals in the same way once all is said, as "the server
\* will change to the modes in an ack if it is different from what we currently
\* have" (telnetd/termstat.c) promises.
ModesAgree ==
  Quiet /\ s.linemode /\ "LINEMODE" \in c.want => c.linemode = s.editmode /\ s.editmode = useeditmode(tty)

\* Once all is said the pseudo terminal has the size of the window, however early
\* sizes came (unless an acknowledgement that crossed a request ended the deferring
\* before there was a pseudo terminal, when it has none until the next change); the modes agree unless requests crossed; flow control agrees unless
\* it was changed while telnetd does not hear of changes.
TerminalsAgree ==
  Quiet => /\ s.winsize = c.size \/ (s.early /\ s.winsize = 0)
           /\ ~crossed /\ ~unheard => ModesAgree
           /\ s.linemode = ("LINEMODE" \in c.want) /\ s.linemode = ("ext" \in tty)
           /\ ~unheard /\ "LFLOW" \in c.want => c.localflow = ("flow" \in tty)
=============================================================================
