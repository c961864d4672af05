-------------------------------- MODULE Ftpd --------------------------------
(***************************************************************************)
(* The FTP server (ftpd/ftpd.c, the grammar and scanner of ftpd/ftpcmd.y,  *)
(* ftpd/auth.c, popen.c and server_mode.c) facing a client that may send   *)
(* any command at any time, urgent ones during a transfer included, and    *)
(* that may vanish.                                                        *)
(*                                                                         *)
(* The globals of the process are the fields of one record, and a C        *)
(* function is an operator from that record to that record; what the       *)
(* system answers it is a further argument.  A command is one step, except *)
(* for the ones that transfer data: they wait in accept () ("accept") and  *)
(* in the loop that moves the data ("transfer"), where SIGURG and SIGALRM  *)
(* interrupt them.  Of a reply the model keeps that it was sent: "owed"    *)
(* counts the lines read less the final replies sent.                      *)
(*                                                                         *)
(* Left out: the contents of files, TYPE and the conversions it asks for,  *)
(* addresses, the file system, and debugging and system logs.              *)
(***************************************************************************)
EXTENDS Integers, FiniteSets

CONSTANTS
  Names,      \* what USER may say
  Guest,      \* "ftp" or "anonymous"
  Known,      \* names of the password file
  Denied,     \* names of /etc/ftpusers, or without a valid shell
  Chrooted,   \* names of /etc/ftpchroot
  Rfc2577,    \* the option --non-rfc2577 was not given
  AnonOnly,   \* the option -A
  Attempts,   \* failures forgiven: 5 in the code
  Fds,        \* bound: descriptors a session may have open for data
  MaxOwed     \* bound: how far replies and commands may get out of step

ASSUME FtpdConstants ==
  /\ Known \subseteq Names /\ Denied \subseteq Names /\ Chrooted \subseteq Names
  /\ Guest \in Names /\ Rfc2577 \in BOOLEAN /\ AnonOnly \in BOOLEAN
  /\ Attempts \in Nat \ {0} /\ MaxOwed \in Nat
  /\ Fds \subseteq Nat /\ IsFiniteSet(Fds)

None == -1
NoOne == "nobody"

VARIABLES
  ftpd,   \* the process
  gone    \* the client has closed its connections

vars == <<ftpd, gone>>

(* The globals when the first command is read.  Of the last four, owed,    *)
(* skewed, claim and last, no operator looks at more than owed, and that   *)
(* only for its bound: they record what the properties speak of.           *)
Fresh ==
  [pc |-> "command", cmd |-> "none",
   logged_in |-> FALSE, guest |-> FALSE, dochroot |-> FALSE,
   delayed_reject |-> FALSE, name |-> NoOne,
   askpasswd |-> FALSE, login_attempts |-> 0,
   restart_point |-> FALSE, fromname |-> FALSE, yynerrs |-> FALSE,
   tmpline |-> "none",
   usedefault |-> TRUE, data |-> None, pdata |-> None, dout |-> None,
   listening |-> {}, connected |-> {}, transflag |-> FALSE, alarm |-> TRUE,
   owed |-> 0, skewed |-> FALSE, claim |-> NoOne, last |-> "none"]

Open(s) == s.listening \union s.connected
Unused(s) == Fds \ Open(s)
Close(s, fd) ==
  [s EXCEPT !.listening = @ \ {fd}, !.connected = @ \ {fd}]

-----------------------------------------------------------------------------
(* Replies and the end of the session.                                     *)

(* A reply of the 100s announces another one.                              *)
reply(s, n) == IF n < 200 THEN s ELSE [s EXCEPT !.owed = @ - 1]

(* The line, or the second reply to it, leaves the client out of step.     *)
Skew(s) == [s EXCEPT !.skewed = TRUE]

end_login(s) ==
  [s EXCEPT !.logged_in = FALSE, !.guest = FALSE, !.dochroot = FALSE,
            !.delayed_reject = FALSE, !.name = NoOne]

(* Leaving the process also closes its descriptors.                        *)
dologout(s) ==
  [end_login(s) EXCEPT !.pc = "exited", !.transflag = FALSE, !.alarm = FALSE,
     !.data = None, !.pdata = None, !.dout = None,
     !.listening = {}, !.connected = {}]

-----------------------------------------------------------------------------
(* USER and PASS.                                                          *)

sgetcred(s, n) == IF n \in Known THEN [s EXCEPT !.name = n] ELSE s

(* What auth_user answers, and what it leaves in the credentials.  The     *)
(* guest's branch returns before dochroot is assigned.                     *)
AuthFails(n) == n \notin Known \/ n \in Denied
auth_user(s, n) ==
  LET t == [s EXCEPT !.guest = FALSE, !.claim = n]
      c == IF n = Guest /\ n \in Denied THEN t ELSE sgetcred(t, n)
  IN  IF AuthFails(n) THEN c
      ELSE IF n = Guest THEN [c EXCEPT !.guest = TRUE]
      ELSE [c EXCEPT !.dochroot = n \in Chrooted]

user(s, n) ==
  IF s.logged_in /\ (s.guest \/ s.dochroot) THEN reply(s, 530)
  ELSE
    LET t == auth_user(IF s.logged_in THEN end_login(s) ELSE s, n)
        u == [t EXCEPT !.delayed_reject = AuthFails(n)]
    IN  IF ~Rfc2577 /\ AuthFails(n) THEN reply(t, 530)
        ELSE IF AnonOnly /\ ~u.guest /\ ~u.dochroot THEN reply(u, 530)
        ELSE reply([u EXCEPT !.askpasswd = TRUE], 331)

(* The counter of failures; more than Attempts is the same as Attempts.    *)
Failed(s) ==
  [s EXCEPT !.login_attempts = IF @ < Attempts THEN @ + 1 ELSE @]

(* works: chroot (), chdir () and the changes of identity succeed.         *)
complete_login(s, works) ==
  IF works THEN reply([s EXCEPT !.login_attempts = 0], 230)
  ELSE Failed(reply(end_login(s), 550))

(* auth_pass compares with the password of the name in the credentials.    *)
auth_pass(s, password) == s.name # NoOne /\ password = s.name

(* Faulty variant of pass: the refusal of USER is forgotten.               *)
passForgetsReject(s, password, works) ==
  IF s.logged_in \/ ~s.askpasswd THEN reply(s, 503)
  ELSE
    LET t == [s EXCEPT !.askpasswd = FALSE]
    IN  IF ~t.guest /\ ~auth_pass(t, password)
        THEN reply(Failed(t), 530)
        ELSE complete_login([t EXCEPT !.logged_in = TRUE], works)
pass(s, password, works) ==
  IF s.logged_in \/ ~s.askpasswd THEN reply(s, 503)
  ELSE
    LET t == [s EXCEPT !.askpasswd = FALSE]
    IN  IF ~t.guest /\ (~auth_pass(t, password) \/ t.delayed_reject)
        THEN IF t.login_attempts >= Attempts
             THEN dologout(reply(reply(t, 530), 421))
             ELSE reply(Failed(t), 530)
        ELSE complete_login([t EXCEPT !.logged_in = TRUE], works)

-----------------------------------------------------------------------------
(* Addresses of the data connection.                                       *)

ClosePassive(s) ==
  IF s.pdata = None THEN s ELSE [Close(s, s.pdata) EXCEPT !.pdata = None]

UsePort(s) == [ClosePassive(s) EXCEPT !.usedefault = FALSE]

PORT(s, good) ==
  IF good THEN reply(UsePort(s), 200)
  ELSE reply([s EXCEPT !.usedefault = TRUE], 500)

(* An address long_host_port does not accept is complained of twice.       *)
long_host_port(s, address) ==
  IF address = "invalid" THEN Skew(reply(s, 500)) ELSE s
LPRT(s, address) ==
  IF address = "good" THEN reply(UsePort(s), 200)
  ELSE reply([long_host_port(s, address) EXCEPT !.usedefault = TRUE], 500)

(* EPRT drops the old address before it looks at the login.                *)
EPRT(s, good) ==
  IF s.logged_in THEN reply(UsePort(s), IF good THEN 200 ELSE 500)
  ELSE UsePort(s)

(* A former socket in pdata is overwritten, not closed.                    *)
passive(s, works) ==
  IF works /\ Unused(s) # {}
  THEN LET fd == CHOOSE f \in Unused(s) : \A g \in Unused(s) : f <= g
       IN  reply([s EXCEPT !.pdata = fd, !.listening = @ \union {fd}], 227)
  ELSE reply([s EXCEPT !.pdata = None], 425)

-----------------------------------------------------------------------------
(* The data connection and the transfers.                                  *)

(* Back to the parser.  A command proper forgets REST and RNFR.            *)
NextCommand(s) ==
  IF s.pc = "exited" THEN s
  ELSE [s EXCEPT !.pc = "command", !.cmd = "none", !.alarm = TRUE]

(* Faulty variant of cmd: the offset of REST is kept.                      *)
cmdKeepsRestart(s) == [NextCommand(s) EXCEPT !.fromname = FALSE]
cmd(s) ==
  [NextCommand(s) EXCEPT !.fromname = FALSE, !.restart_point = FALSE]

(* The data connection is open: the loop starts, SIGURG may interrupt it.  *)
Moves(s, fd, code) ==
  [reply(s, code) EXCEPT !.pc = "transfer", !.dout = fd,
                         !.transflag = TRUE, !.alarm = FALSE]

(* getdatasock and connect (), where there is no passive socket.           *)
getdatasock(s, works) ==
  IF works /\ Unused(s) # {}
  THEN LET fd == CHOOSE f \in Unused(s) : \A g \in Unused(s) : f <= g
       IN  Moves([s EXCEPT !.data = fd, !.connected = @ \union {fd}], fd, 150)
  ELSE cmd(reply([s EXCEPT !.data = None], 425))

dataconn(s, works) ==
  IF s.pdata # None THEN [s EXCEPT !.pc = "accept", !.alarm = TRUE]
  ELSE IF s.data # None THEN Moves([s EXCEPT !.usedefault = TRUE], s.data, 125)
  ELSE getdatasock([s EXCEPT !.usedefault = TRUE], works)

(* accept () returns; it fails on a socket that is not listening.          *)
Accepted(s, works) ==
  LET t == Close(s, s.pdata)
      fd == CHOOSE f \in Unused(t) : \A g \in Unused(t) : f <= g
  IN  IF works /\ s.pdata \in s.listening
      THEN Moves([t EXCEPT !.pdata = fd, !.connected = @ \union {fd}], fd, 150)
      ELSE cmd(reply([t EXCEPT !.pdata = None], 425))

(* retrieve: the file, or the output of ls, cannot be read, or not from    *)
(* the offset of REST.                                                     *)
ftpd_popen(file) == file # "missing"
retrieve(s, file, works) ==
  CASE ~ftpd_popen(file) -> cmd(reply(s, 550))
    [] file = "short" -> IF s.restart_point THEN cmd(reply(s, 554))
                         ELSE dataconn(s, works)
    [] OTHER -> dataconn(s, works)

(* gunique: a name for STOU cannot be made.                                *)
gunique(s) == cmd(reply(s, 553))
store(s, file, works) ==
  CASE file = "missing" /\ s.cmd = "STOU" -> gunique(s)
    [] file = "missing" -> cmd(reply(s, 553))
    [] file = "short" -> IF s.restart_point THEN cmd(reply(s, 554))
                         ELSE dataconn(s, works)
    [] OTHER -> dataconn(s, works)

(* send_file_list: nothing matches; there is nothing to list, and then the *)
(* passive socket is forgotten while it is open; or an entry is sent.      *)
send_file_list(s, file, works) ==
  CASE file = "missing" -> cmd(reply(s, 550))
    [] file = "short" ->
         cmd([reply(s, 550) EXCEPT !.data = None, !.pdata = None])
    [] OTHER -> dataconn(s, works)

(* Faulty variant of Closed: the descriptor stays in pdata.                *)
ClosedKeeps(s) ==
  [Close(s, s.dout) EXCEPT !.data = None, !.dout = None, !.transflag = FALSE]
Closed(s) ==
  [Close(s, s.dout) EXCEPT !.data = None, !.pdata = None, !.dout = None,
                           !.transflag = FALSE]

(* The loops of send_data and receive_data end, well or not, and say so.   *)
send_data(s, well) == cmd(Closed(reply(s, IF well THEN 226 ELSE 426)))
receive_data(s, well) == cmd(Closed(reply(s, IF well THEN 226 ELSE 452)))

(* SIGURG: the line read by the handler.  ABOR leaves the loop by longjmp, *)
(* and send_file_list then leaves its stream open.                         *)
Aborted(s) ==
  IF s.cmd = "NLST" THEN cmd([s EXCEPT !.transflag = FALSE, !.dout = None])
  ELSE cmd(Closed(s))

(* A second urgent line finds tmpline in use: telnet_fgets copies the line *)
(* saved there over itself, ends it before its first character, and leaves *)
(* the new one to the scanner.  An unanswered line is lost that way.       *)
Forgotten(s) ==
  [IF s.tmpline = "other" THEN Skew(s) ELSE s EXCEPT !.tmpline = "none"]

(* Faulty variant of myoob: the command interrupted gets no reply.         *)
myoobOneReply(s, line) ==
  LET t == [s EXCEPT !.owed = @ + 1]
  IN  IF s.tmpline # "none" THEN Forgotten(s)
      ELSE CASE line = "ABOR" -> Aborted(reply(t, 226))
             [] line = "STAT" -> [reply(t, 213) EXCEPT !.tmpline = "STAT"]
             [] OTHER -> [t EXCEPT !.tmpline = "other"]

(* Only ABOR is taken out of tmpline again: STAT, answered here, and any   *)
(* other line, which is not, are the next commands the scanner is given.   *)
myoob(s, line) ==
  LET t == [s EXCEPT !.owed = @ + 1]
  IN  IF s.tmpline # "none" THEN Forgotten(s)
      ELSE CASE line = "ABOR" -> Aborted(reply(reply(t, 426), 226))
             [] line = "STAT" -> [reply(t, 213) EXCEPT !.tmpline = "STAT"]
             [] OTHER -> [t EXCEPT !.tmpline = "other"]

-----------------------------------------------------------------------------
(* Commands with one reply and nothing else the model keeps: the codes.    *)

delete == {250, 550}
cwd == {250, 550}
makedir == {257, 550}
removedir == {250, 550}
pwd == {257, 550}
statfilecmd == {211, 551}
statcmd == {211}
help == {214, 502}
sizecmd == {213, 550}
MDTM == {213, 550}
FEAT == {211, 501}
UMASK == {200, 501}
CHMOD == {200, 501, 550}
TYPE == {200, 504}
STRU == {200, 504, 502}
SYST == {215}
ABOR == {225}
NOOP == {200, 202}

(* SITE IDLE sets the time and starts the alarm at once.                   *)
IDLE == {200, 501}

WithLogin ==
  delete \union cwd \union makedir \union removedir \union pwd
    \union statfilecmd \union sizecmd \union MDTM \union FEAT \union UMASK
    \union CHMOD \union IDLE
WithoutLogin ==
  statcmd \union help \union TYPE \union STRU \union SYST \union ABOR
    \union NOOP

renamefrom(s, exists) ==
  IF exists THEN reply([s EXCEPT !.fromname = TRUE], 350)
  ELSE reply([s EXCEPT !.fromname = FALSE], 550)

(* A tilde that leads nowhere is answered when the name is parsed, and a   *)
(* second time by RNTO, which does not look at the result.                 *)
pathname(s, found) == IF found THEN s ELSE Skew(reply(s, 550))
RNTO(s, found) ==
  reply(pathname(s, found), IF s.fromname THEN 250 ELSE 503)

REST(s) == reply([s EXCEPT !.fromname = FALSE, !.restart_point = TRUE], 350)

-----------------------------------------------------------------------------
(* The scanner and the parser.                                             *)

(* The line saved by myoob comes before those of the client, and has been  *)
(* read already.                                                           *)
telnet_fgets(s) ==
  [s EXCEPT !.owed = IF s.tmpline = "none" THEN @ + 1 ELSE @,
            !.tmpline = "none"]

(* The scanner has a line: the alarm is off.                               *)
yylex(s, c) ==
  [telnet_fgets(s) EXCEPT !.alarm = FALSE, !.cmd = c, !.last = c]

(* longjmp (errcatch): the parser starts afresh, REST and RNFR stand.      *)
errcatch(s) == [NextCommand(s) EXCEPT !.yynerrs = FALSE]

(* A line no command begins is answered only when the parser has not       *)
(* complained since it was started.                                        *)
Unrecognised(s) ==
  LET t == [telnet_fgets(s) EXCEPT !.alarm = FALSE]
  IN  errcatch(IF s.yynerrs THEN Skew(t) ELSE reply(t, 500))
Unimplemented(s) ==
  errcatch(reply([telnet_fgets(s) EXCEPT !.alarm = FALSE], 502))

(* yyerror: the arguments do not fit.  Where the login was checked first   *)
(* and missing, that has been said already.  The rest of the line may      *)
(* again be one the scanner gives up on (known: FALSE).                    *)
Malformed(s, checked, known) ==
  LET t == [yylex(s, "error") EXCEPT !.yynerrs = TRUE]
      u == IF checked /\ ~s.logged_in THEN Skew(reply(t, 530)) ELSE t
  IN  IF known THEN cmd(reply(u, 500)) ELSE errcatch(reply(u, 500))

check_login(s) == s.logged_in

InReach == ftpd.owed \in (-MaxOwed)..MaxOwed

(* A line the client chose freely: not the STAT saved by myoob.            *)
Reads == ftpd.pc = "command" /\ ~gone /\ InReach /\ ftpd.tmpline # "STAT"

(* The STAT that myoob has answered is run as a command.                   *)
StatAgain ==
  /\ ftpd.pc = "command" /\ ~gone /\ InReach /\ ftpd.tmpline = "STAT"
  /\ \E n \in statcmd : ftpd' = cmd(Skew(reply(yylex(ftpd, "simple"), n)))
  /\ UNCHANGED gone

(* A command that is refused for want of a login.  The address of an LPRT  *)
(* is looked at nevertheless.                                              *)
LoginFirst(c) ==
  /\ Reads /\ ~check_login(ftpd)
  /\ LET t == reply(yylex(ftpd, c), 530)
     IN  ftpd' = IF c = "EPRT" THEN cmd(EPRT(t, FALSE))
                 ELSE IF c = "LPRT" THEN cmd(long_host_port(t, "invalid"))
                 ELSE IF c = "RNFR"
                 THEN NextCommand([t EXCEPT !.restart_point = FALSE])
                 ELSE cmd(t)
  /\ UNCHANGED gone

Refused == \E c \in {"EPRT", "LPRT", "RNFR", "other"} : LoginFirst(c)

Login ==
  /\ Reads
  /\ \/ \E n \in Names : ftpd' = cmd(user(yylex(ftpd, "USER"), n))
     \/ \E p \in Known, works \in BOOLEAN :
          ftpd' = cmd(pass(yylex(ftpd, "PASS"), p, works))
  /\ UNCHANGED gone

Simple ==
  /\ Reads
  /\ \E n \in IF check_login(ftpd) THEN WithLogin \union WithoutLogin
              ELSE WithoutLogin :
       ftpd' = cmd(reply(yylex(ftpd, "simple"), n))
  /\ UNCHANGED gone

Address ==
  /\ Reads /\ check_login(ftpd)
  /\ \E ok \in BOOLEAN :
       \/ ftpd' = cmd(PORT(yylex(ftpd, "PORT"), ok))
       \/ ftpd' = cmd(EPRT(yylex(ftpd, "EPRT"), ok))
       \/ ftpd' = cmd(passive(yylex(ftpd, "PASV"), ok))
       \/ \E a \in {"good", "foreign", "invalid"} :
            ftpd' = cmd(LPRT(yylex(ftpd, "LPRT"), a))
  /\ UNCHANGED gone

Transfer ==
  /\ Reads /\ check_login(ftpd)
  /\ \E file \in {"missing", "short", "good"}, works \in BOOLEAN :
       \/ \E c \in {"RETR", "LIST"} :
            ftpd' = retrieve(yylex(ftpd, c), file, works)
       \/ \E c \in {"STOR", "APPE", "STOU"} :
            ftpd' = store(yylex(ftpd, c), file, works)
       \/ ftpd' = send_file_list(yylex(ftpd, "NLST"), file, works)
  /\ UNCHANGED gone

(* REST and RNFR are not cmd but rcmd: they prepare the next command.  A   *)
(* name with a tilde that leads nowhere has been answered by pathname, and *)
(* the name of an earlier RNFR stands.                                     *)
Prepare ==
  /\ Reads
  /\ \/ ftpd' = NextCommand(REST(yylex(ftpd, "REST")))
     \/ /\ check_login(ftpd)
        /\ \E exists \in BOOLEAN :
             ftpd' = NextCommand(renamefrom(
               [yylex(ftpd, "RNFR") EXCEPT !.restart_point = FALSE], exists))
     \/ /\ check_login(ftpd)
        /\ ftpd' = NextCommand(reply(
             [yylex(ftpd, "RNFR") EXCEPT !.restart_point = FALSE], 550))
     \/ /\ check_login(ftpd)
        /\ \E found \in BOOLEAN : ftpd' = cmd(RNTO(yylex(ftpd, "RNTO"), found))
  /\ UNCHANGED gone

BadLine ==
  /\ Reads
  /\ \/ ftpd' = Unrecognised(ftpd)
     \/ ftpd' = Unimplemented(ftpd)
     \/ \E checked, known \in BOOLEAN :
          ftpd' = Malformed(ftpd, checked, known)
  /\ UNCHANGED gone

QUIT ==
  /\ Reads
  /\ ftpd' = dologout(reply(yylex(ftpd, "QUIT"), 221))
  /\ UNCHANGED gone

-----------------------------------------------------------------------------
(* What happens to a command that is being carried out.                    *)

Accept ==
  /\ ftpd.pc = "accept" /\ ~gone
  /\ \E works \in BOOLEAN : ftpd' = Accepted(ftpd, works)
  /\ UNCHANGED gone

(* A client that is gone has closed the data connection as well: the       *)
(* transfer ends, and a reply raises SIGPIPE (lostconn).                   *)
TransferEnds ==
  /\ ftpd.pc = "transfer"
  /\ \E well \in BOOLEAN :
       LET t == IF ftpd.cmd \in {"STOR", "APPE", "STOU"}
                THEN receive_data(ftpd, well) ELSE send_data(ftpd, well)
       IN  ftpd' = IF gone THEN dologout(t) ELSE t
  /\ UNCHANGED gone

Urgent ==
  /\ ftpd.pc = "transfer" /\ ftpd.transflag /\ ~gone
  /\ InReach
  /\ \E line \in {"ABOR", "STAT", "other"} : ftpd' = myoob(ftpd, line)
  /\ UNCHANGED gone

(* SIGALRM is caught by toolong, which ends the session.                   *)
(* Faulty variant of toolong: the handler returns, and accept () goes on.  *)
toolongReturns ==
  /\ ftpd.alarm /\ ftpd.pc \in {"command", "accept"}
  /\ UNCHANGED vars
toolong ==
  /\ ftpd.alarm /\ ftpd.pc \in {"command", "accept"}
  /\ ftpd' = dologout(reply(ftpd, 421))
  /\ UNCHANGED gone

(* The end of the input; a line that is saved is answered first, which     *)
(* raises SIGPIPE.                                                         *)
EndOfInput ==
  /\ ftpd.pc = "command" /\ gone
  /\ ftpd' = dologout(ftpd)
  /\ UNCHANGED gone

Vanish == ftpd.pc # "exited" /\ ~gone /\ gone' = TRUE /\ UNCHANGED ftpd

(* server_mode, or inetd, starts a process for the next client.            *)
server_mode ==
  /\ ftpd.pc = "exited"
  /\ ftpd' = Fresh
  /\ gone' = FALSE

Init == ftpd = Fresh /\ gone = FALSE

Next ==
  \/ Refused \/ Login \/ Simple \/ Address \/ Transfer \/ Prepare \/ BadLine
  \/ StatAgain \/ QUIT \/ Accept \/ TransferEnds \/ Urgent \/ toolong \/ EndOfInput
  \/ Vanish \/ server_mode

(* The process runs, its alarms go off, and a connection that is closed    *)
(* ends the loop that reads or writes it.                                  *)
Ends == (toolong /\ ftpd.pc = "accept") \/ EndOfInput \/ (TransferEnds /\ gone)

Spec == Init /\ [][Next]_vars /\ WF_vars(Ends)

-----------------------------------------------------------------------------
TypeOK ==
  /\ gone \in BOOLEAN
  /\ ftpd.pc \in {"command", "accept", "transfer", "exited"}
  /\ ftpd.name \in Known \union {NoOne}
  /\ {ftpd.data, ftpd.pdata, ftpd.dout} \subseteq Fds \union {None}
  /\ ftpd.login_attempts \in 0..Attempts

(* Whoever is logged in is the user the last USER command named, and that  *)
(* name was not refused by auth_user: neither credentials left over from   *)
(* an earlier USER nor a rejection that was put off lets anybody else in.  *)
OnlyApprovedLogIn ==
  ftpd.logged_in => ftpd.name = ftpd.claim /\ ~AuthFails(ftpd.claim)

(* A line that is read and not yet answered waits in tmpline.              *)
Held(line) == IF line = "other" THEN 1 ELSE 0

(* Between commands every line of the client, also the urgent ones, has    *)
(* had exactly one final reply, but for the one that waits in tmpline,     *)
(* unless one of the six lines the code answers twice or not at all was    *)
(* met: an invalid LPRT, a bad tilde in RNTO, an ill-formed command before *)
(* login, an unknown command after a complaint of the parser, an urgent    *)
(* STAT, and an urgent line followed by another one in the same transfer.  *)
InStep ==
  ftpd.pc = "command" /\ ~ftpd.skewed => ftpd.owed = Held(ftpd.tmpline)

(* data and pdata never name a descriptor that has been closed, and never  *)
(* the same one.                                                           *)
DescriptorsLive ==
  /\ ftpd.data # None => ftpd.data \in Open(ftpd)
  /\ ftpd.pdata # None => ftpd.pdata \in Open(ftpd)
  /\ ftpd.data = ftpd.pdata => ftpd.data = None

(* The offset of REST and the name of RNFR are there for the command that  *)
(* follows: when a command is read they are set only if the last line the  *)
(* scanner recognised was that one.                                        *)
RestartFresh ==
  ftpd.pc = "command" =>
    /\ ftpd.restart_point => ftpd.last \in {"REST", "error"}
    /\ ftpd.fromname => ftpd.last \in {"RNFR", "error"}

(* What a command leaves behind does not mislead the next one.             *)
NothingStale == TypeOK /\ DescriptorsLive /\ RestartFresh

(* A client that vanishes does not leave its server behind, whatever the   *)
(* server was doing.                                                       *)
SessionEnds == gone ~> ftpd.pc = "exited"
=============================================================================
