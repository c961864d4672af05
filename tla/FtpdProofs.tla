------------------------------ MODULE FtpdProofs ------------------------------
(* Proofs about Ftpd, for any users, descriptors and bounds.               *)
EXTENDS Ftpd, WellFoundedInduction, TLAPS

(* What the scanner says a line is.                                        *)
Lines ==
  {"none", "USER", "PASS", "simple", "PORT", "EPRT", "PASV", "LPRT", "RETR",
   "LIST", "STOR", "APPE", "STOU", "NLST", "REST", "RNFR", "RNTO", "QUIT",
   "other", "error"}

(* The globals of the process, with their types.                           *)
FtpdType ==
  [pc : {"command", "accept", "transfer", "exited"}, cmd : Lines,
   logged_in : BOOLEAN, guest : BOOLEAN, dochroot : BOOLEAN,
   delayed_reject : BOOLEAN, name : Known \union {NoOne},
   askpasswd : BOOLEAN, login_attempts : 0..Attempts,
   restart_point : BOOLEAN, fromname : BOOLEAN, yynerrs : BOOLEAN,
   tmpline : {"none", "STAT", "other"},
   usedefault : BOOLEAN, data : Fds \union {None}, pdata : Fds \union {None},
   dout : Fds \union {None}, listening : SUBSET Fds, connected : SUBSET Fds,
   transflag : BOOLEAN, alarm : BOOLEAN,
   owed : Int, skewed : BOOLEAN, claim : Names \union {NoOne}, last : Lines]

(* The parts of the state that the invariants are about, unchanged.        *)
SameLogin(s, t) ==
  /\ t.logged_in = s.logged_in /\ t.guest = s.guest /\ t.name = s.name
  /\ t.delayed_reject = s.delayed_reject /\ t.claim = s.claim
SameData(s, t) ==
  /\ t.data = s.data /\ t.pdata = s.pdata
  /\ t.listening = s.listening /\ t.connected = s.connected
SameStep(s, t) ==
  t.owed = s.owed /\ t.skewed = s.skewed /\ t.tmpline = s.tmpline
(* Lines are to be answered, unless the client is out of step anyway; and  *)
(* one is.                                                                 *)
Owes(s, k) == ~s.skewed => s.owed = k + Held(s.tmpline)
OneReply(s, t) ==
  t.skewed = s.skewed /\ t.owed = s.owed - 1 /\ t.tmpline = s.tmpline
SamePrep(s, t) ==
  t.restart_point = s.restart_point /\ t.fromname = s.fromname /\ t.last = s.last

USE DEF Held, Owes, OneReply

(* What each assignment of the code changes, and what it leaves alone.     *)
-----------------------------------------------------------------------------
(* A final reply settles one line.                                         *)
LEMMA ReplyFacts ==
  ASSUME NEW s \in FtpdType, NEW n \in Nat
  PROVE LET t == reply(s, n) IN
        /\ t \in FtpdType /\ SameLogin(s, t) /\ SameData(s, t)
        /\ SamePrep(s, t) /\ t.pc = s.pc /\ t.skewed = s.skewed
        /\ t.owed = IF n < 200 THEN s.owed ELSE s.owed - 1
        /\ t.tmpline = s.tmpline
BY DEF reply, FtpdType, SameLogin, SameData, SamePrep

(* The client is out of step.                                              *)
LEMMA SkewFacts ==
  ASSUME NEW s \in FtpdType
  PROVE LET t == Skew(s) IN
        /\ t \in FtpdType /\ SameLogin(s, t) /\ SameData(s, t)
        /\ SamePrep(s, t) /\ t.pc = s.pc /\ t.skewed = TRUE
        /\ t.owed = s.owed
BY DEF Skew, FtpdType, SameLogin, SameData, SamePrep

(* Nobody is logged in any more.                                           *)
LEMMA EndLoginFacts ==
  ASSUME NEW s \in FtpdType
  PROVE LET t == end_login(s) IN
        /\ t \in FtpdType /\ SameData(s, t) /\ SameStep(s, t)
        /\ SamePrep(s, t) /\ t.pc = s.pc /\ t.logged_in = FALSE
        /\ t.guest = FALSE /\ t.name = NoOne
BY ZenonT(60) DEF end_login, FtpdType, SameData, SameStep, SamePrep

(* exit () closes all descriptors.                                         *)
LEMMA ExitFacts ==
  ASSUME NEW s \in FtpdType
  PROVE LET t == [s EXCEPT !.pc = "exited", !.transflag = FALSE, !.alarm = FALSE,
                            !.data = None, !.pdata = None, !.dout = None,
                            !.listening = {}, !.connected = {}]
        IN  /\ t \in FtpdType /\ SameLogin(s, t) /\ SameStep(s, t)
            /\ SamePrep(s, t) /\ t.pc = "exited" /\ t.data = None
            /\ t.pdata = None
BY ZenonT(60) DEF FtpdType, SameLogin, SameStep, SamePrep

(* auth_user starts.                                                       *)
LEMMA ClaimFacts ==
  ASSUME NEW s \in FtpdType, NEW n \in Names
  PROVE LET t == [s EXCEPT !.guest = FALSE, !.claim = n] IN
        /\ t \in FtpdType /\ SameData(s, t) /\ SameStep(s, t)
        /\ SamePrep(s, t) /\ t.pc = s.pc /\ t.guest = FALSE
        /\ t.claim = n /\ t.logged_in = s.logged_in /\ t.name = s.name
        /\ t.delayed_reject = s.delayed_reject
BY DEF FtpdType, SameData, SameStep, SamePrep

(* sgetcred fills in the credentials.                                      *)
LEMMA NameFacts ==
  ASSUME NEW s \in FtpdType, NEW n \in Known
  PROVE LET t == [s EXCEPT !.name = n] IN
        /\ t \in FtpdType /\ SameData(s, t) /\ SameStep(s, t)
        /\ SamePrep(s, t) /\ t.pc = s.pc /\ t.guest = s.guest
        /\ t.claim = s.claim /\ t.logged_in = s.logged_in
        /\ t.name = n /\ t.delayed_reject = s.delayed_reject
BY DEF FtpdType, SameData, SameStep, SamePrep

(* A guest is accepted.                                                    *)
LEMMA GuestFacts ==
  ASSUME NEW s \in FtpdType
  PROVE LET t == [s EXCEPT !.guest = TRUE] IN
        /\ t \in FtpdType /\ SameData(s, t) /\ SameStep(s, t)
        /\ SamePrep(s, t) /\ t.pc = s.pc /\ t.guest = TRUE
        /\ t.claim = s.claim /\ t.logged_in = s.logged_in
        /\ t.name = s.name /\ t.delayed_reject = s.delayed_reject
BY DEF FtpdType, SameData, SameStep, SamePrep

(* dochroot concerns none of the invariants.                               *)
LEMMA ChrootFacts ==
  ASSUME NEW s \in FtpdType, NEW b \in BOOLEAN
  PROVE LET t == [s EXCEPT !.dochroot = b] IN
        /\ t \in FtpdType /\ SameLogin(s, t) /\ SameData(s, t)
        /\ SameStep(s, t) /\ SamePrep(s, t) /\ t.pc = s.pc
        /\ t.dochroot = b
BY DEF FtpdType, SameLogin, SameData, SameStep, SamePrep

(* USER notes whether to reject after PASS.                                *)
LEMMA RejectFacts ==
  ASSUME NEW s \in FtpdType, NEW b \in BOOLEAN
  PROVE LET t == [s EXCEPT !.delayed_reject = b] IN
        /\ t \in FtpdType /\ SameData(s, t) /\ SameStep(s, t)
        /\ SamePrep(s, t) /\ t.pc = s.pc /\ t.guest = s.guest
        /\ t.claim = s.claim /\ t.logged_in = s.logged_in
        /\ t.name = s.name /\ t.delayed_reject = b
BY DEF FtpdType, SameData, SameStep, SamePrep

(* USER asks for the password, PASS no longer.                             *)
LEMMA AskFacts ==
  ASSUME NEW s \in FtpdType, NEW b \in BOOLEAN
  PROVE LET t == [s EXCEPT !.askpasswd = b] IN
        /\ t \in FtpdType /\ SameLogin(s, t) /\ SameData(s, t)
        /\ SameStep(s, t) /\ SamePrep(s, t) /\ t.pc = s.pc
BY DEF FtpdType, SameLogin, SameData, SameStep, SamePrep

(* PASS logs the user in.                                                  *)
LEMMA LoggedInFacts ==
  ASSUME NEW s \in FtpdType
  PROVE LET t == [s EXCEPT !.logged_in = TRUE] IN
        /\ t \in FtpdType /\ SameData(s, t) /\ SameStep(s, t)
        /\ SamePrep(s, t) /\ t.pc = s.pc /\ t.guest = s.guest
        /\ t.claim = s.claim /\ t.logged_in = TRUE /\ t.name = s.name
        /\ t.delayed_reject = s.delayed_reject
BY DEF FtpdType, SameData, SameStep, SamePrep

(* A login resets the counter of failures.                                 *)
LEMMA ForgivenFacts ==
  ASSUME NEW s \in FtpdType
  PROVE LET t == [s EXCEPT !.login_attempts = 0] IN
        /\ t \in FtpdType /\ SameLogin(s, t) /\ SameData(s, t)
        /\ SameStep(s, t) /\ SamePrep(s, t) /\ t.pc = s.pc
BY FtpdConstants DEF FtpdType, SameLogin, SameData, SameStep, SamePrep

(* A failure is counted.                                                   *)
LEMMA FailedFacts ==
  ASSUME NEW s \in FtpdType
  PROVE LET t == Failed(s) IN
        /\ t \in FtpdType /\ SameLogin(s, t) /\ SameData(s, t)
        /\ SameStep(s, t) /\ SamePrep(s, t) /\ t.pc = s.pc
BY FtpdConstants DEF Failed, FtpdType, SameLogin, SameData, SameStep, SamePrep

(* The address for data connections.                                       *)
LEMMA DefaultFacts ==
  ASSUME NEW s \in FtpdType, NEW b \in BOOLEAN
  PROVE LET t == [s EXCEPT !.usedefault = b] IN
        /\ t \in FtpdType /\ SameLogin(s, t) /\ SameData(s, t)
        /\ SameStep(s, t) /\ SamePrep(s, t) /\ t.pc = s.pc
BY DEF FtpdType, SameLogin, SameData, SameStep, SamePrep

(* pdata alone is changed.                                                 *)
LEMMA PdataFacts ==
  ASSUME NEW s \in FtpdType, NEW fd \in Fds \union {None}
  PROVE LET t == [s EXCEPT !.pdata = fd] IN
        /\ t \in FtpdType /\ SameLogin(s, t) /\ SameStep(s, t)
        /\ SamePrep(s, t) /\ t.pc = s.pc /\ t.pdata = fd
        /\ t.data = s.data /\ t.listening = s.listening
        /\ t.connected = s.connected
BY DEF FtpdType, SameLogin, SameStep, SamePrep

(* The data connection is given up.                                        *)
LEMMA NoDataFacts ==
  ASSUME NEW s \in FtpdType
  PROVE LET t == [s EXCEPT !.data = None] IN
        /\ t \in FtpdType /\ SameLogin(s, t) /\ SameStep(s, t)
        /\ SamePrep(s, t) /\ t.pc = s.pc /\ t.data = None
        /\ t.pdata = s.pdata /\ t.listening = s.listening
        /\ t.connected = s.connected
BY DEF FtpdType, SameLogin, SameStep, SamePrep

(* close () takes one descriptor away.                                     *)
LEMMA CloseFacts ==
  ASSUME NEW s \in FtpdType, NEW fd \in Fds \union {None}
  PROVE LET t == Close(s, fd) IN
        /\ t \in FtpdType /\ SameLogin(s, t) /\ SameStep(s, t)
        /\ SamePrep(s, t) /\ t.pc = s.pc /\ t.data = s.data
        /\ t.pdata = s.pdata /\ Open(t) = Open(s) \ {fd}
BY DEF Close, Open, FtpdType, SameLogin, SameStep, SamePrep

(* passive opens a socket.                                                 *)
LEMMA ListenFacts ==
  ASSUME NEW s \in FtpdType, NEW fd \in Fds
  PROVE LET t == [s EXCEPT !.pdata = fd, !.listening = @ \union {fd}] IN
        /\ t \in FtpdType /\ SameLogin(s, t) /\ SameStep(s, t)
        /\ SamePrep(s, t) /\ t.pc = s.pc /\ t.pdata = fd
        /\ t.data = s.data /\ Open(t) = Open(s) \union {fd}
BY DEF Open, FtpdType, SameLogin, SameStep, SamePrep

(* getdatasock opens and connects one.                                     *)
LEMMA ConnectFacts ==
  ASSUME NEW s \in FtpdType, NEW fd \in Fds
  PROVE LET t == [s EXCEPT !.data = fd, !.connected = @ \union {fd}] IN
        /\ t \in FtpdType /\ SameLogin(s, t) /\ SameStep(s, t)
        /\ SamePrep(s, t) /\ t.pc = s.pc /\ t.pdata = s.pdata
        /\ t.data = fd /\ Open(t) = Open(s) \union {fd}
BY DEF Open, FtpdType, SameLogin, SameStep, SamePrep

(* accept () replaces the passive socket.                                  *)
LEMMA AcceptFacts ==
  ASSUME NEW s \in FtpdType, NEW fd \in Fds
  PROVE LET t == [s EXCEPT !.pdata = fd, !.connected = @ \union {fd}] IN
        /\ t \in FtpdType /\ SameLogin(s, t) /\ SameStep(s, t)
        /\ SamePrep(s, t) /\ t.pc = s.pc /\ t.pdata = fd
        /\ t.data = s.data /\ Open(t) = Open(s) \union {fd}
BY DEF Open, FtpdType, SameLogin, SameStep, SamePrep

(* dataconn waits in accept ().                                            *)
LEMMA WaitFacts ==
  ASSUME NEW s \in FtpdType
  PROVE LET t == [s EXCEPT !.pc = "accept", !.alarm = TRUE] IN
        /\ t \in FtpdType /\ SameLogin(s, t) /\ SameData(s, t)
        /\ SameStep(s, t) /\ SamePrep(s, t) /\ t.pc = "accept"
BY DEF FtpdType, SameLogin, SameData, SameStep, SamePrep

(* The loop of a transfer starts.                                          *)
Looping(s, fd) ==
  [s EXCEPT !.pc = "transfer", !.dout = fd, !.transflag = TRUE, !.alarm = FALSE]

(* It touches nothing the invariants are about.                            *)
LEMMA LoopFacts ==
  ASSUME NEW s \in FtpdType, NEW fd \in Fds \union {None}
  PROVE /\ Looping(s, fd) \in FtpdType /\ SameLogin(s, Looping(s, fd))
        /\ SameStep(s, Looping(s, fd)) /\ SamePrep(s, Looping(s, fd))
        /\ Looping(s, fd).pc = "transfer" /\ SameData(s, Looping(s, fd))
<1> DEFINE t == Looping(s, fd)
<1>1. t \in FtpdType
  BY DEF FtpdType, Looping
<1>2. SameLogin(s, t)
  BY DEF FtpdType, SameLogin, Looping
<1>3. SameStep(s, t)
  BY DEF FtpdType, SameStep, Looping
<1>4. SamePrep(s, t)
  BY DEF FtpdType, SamePrep, Looping
<1>5. SameData(s, t)
  BY DEF FtpdType, SameData, Looping
<1>6. t.pc = "transfer"
  BY DEF FtpdType, Looping
<1>7. QED BY <1>1, <1>2, <1>3, <1>4, <1>5, <1>6

(* data and pdata are forgotten.                                           *)
LEMMA ShutFacts ==
  ASSUME NEW s \in FtpdType
  PROVE LET t == [s EXCEPT !.data = None, !.pdata = None] IN
        /\ t \in FtpdType /\ SameLogin(s, t) /\ SameStep(s, t)
        /\ SamePrep(s, t) /\ t.pc = s.pc /\ t.data = None
        /\ t.pdata = None
BY DEF FtpdType, SameLogin, SameStep, SamePrep

(* The loop has ended.                                                     *)
LEMMA DoneFacts ==
  ASSUME NEW s \in FtpdType
  PROVE LET t == [s EXCEPT !.data = None, !.pdata = None, !.dout = None,
                            !.transflag = FALSE]
        IN  /\ t \in FtpdType /\ SameLogin(s, t) /\ SameStep(s, t)
            /\ SamePrep(s, t) /\ t.pc = s.pc /\ t.data = None
            /\ t.pdata = None
BY ZenonT(60) DEF FtpdType, SameLogin, SameStep, SamePrep

(* send_file_list is left by longjmp.                                      *)
LEMMA LeftFacts ==
  ASSUME NEW s \in FtpdType
  PROVE LET t == [s EXCEPT !.transflag = FALSE, !.dout = None] IN
        /\ t \in FtpdType /\ SameLogin(s, t) /\ SameStep(s, t)
        /\ SamePrep(s, t) /\ t.pc = s.pc /\ SameData(s, t)
<1> DEFINE t == [s EXCEPT !.transflag = FALSE, !.dout = None]
<1>1. t \in FtpdType
  BY DEF FtpdType
<1>2. SameLogin(s, t)
  BY DEF FtpdType, SameLogin
<1>3. SameStep(s, t)
  BY DEF FtpdType, SameStep
<1>4. SamePrep(s, t)
  BY DEF FtpdType, SamePrep
<1>5. SameData(s, t)
  BY DEF FtpdType, SameData
<1>6. t.pc = s.pc
  BY DEF FtpdType
<1>7. QED BY <1>1, <1>2, <1>3, <1>4, <1>5, <1>6

(* Single fields keep the type.                                            *)
LEMMA AlarmType ==
  ASSUME NEW s \in FtpdType, NEW b \in BOOLEAN
  PROVE [s EXCEPT !.alarm = b] \in FtpdType
BY DEF FtpdType

(* tmpline is set or cleared.                                              *)
LEMMA TmplineFacts ==
  ASSUME NEW s \in FtpdType, NEW l \in {"none", "STAT", "other"}
  PROVE LET t == [s EXCEPT !.tmpline = l] IN
        /\ t \in FtpdType /\ SameLogin(s, t) /\ SameData(s, t)
        /\ SamePrep(s, t) /\ t.pc = s.pc /\ t.tmpline = l
        /\ t.owed = s.owed /\ t.skewed = s.skewed
BY DEF FtpdType, SameLogin, SameData, SamePrep

(* So do the name of the command                                           *)
LEMMA CommandType ==
  ASSUME NEW s \in FtpdType, NEW c \in Lines
  PROVE [s EXCEPT !.cmd = c] \in FtpdType /\ [s EXCEPT !.last = c] \in FtpdType
BY DEF FtpdType

(* and the number of lines to be answered.                                 *)
LEMMA OwedType ==
  ASSUME NEW s \in FtpdType, NEW n \in Int
  PROVE [s EXCEPT !.owed = n] \in FtpdType
BY DEF FtpdType

(* A line is taken from tmpline, or from the client.                       *)
LEMMA FgetsFacts ==
  ASSUME NEW s \in FtpdType
  PROVE LET t == telnet_fgets(s) IN
        /\ t \in FtpdType /\ SameLogin(s, t) /\ SameData(s, t)
        /\ SamePrep(s, t) /\ t.pc = s.pc /\ t.tmpline = "none"
        /\ t.owed = (IF s.tmpline = "none" THEN s.owed + 1 ELSE s.owed)
        /\ t.skewed = s.skewed
<1> DEFINE n == IF s.tmpline = "none" THEN s.owed + 1 ELSE s.owed
           u == [s EXCEPT !.owed = n]
           t == telnet_fgets(s)
<1>1. n \in Int
  BY DEF FtpdType
<1>2. t = [u EXCEPT !.tmpline = "none"]
  BY DEF telnet_fgets
<1>3. u.owed = n
  BY DEF FtpdType
<1> HIDE DEF n
<1>4. u \in FtpdType
  BY <1>1, OwedType
<1>5. /\ SameLogin(s, u) /\ SameData(s, u) /\ SamePrep(s, u)
      /\ u.pc = s.pc /\ u.skewed = s.skewed
  BY DEF FtpdType, SameLogin, SameData, SamePrep
<1> HIDE DEF u, t
<1>6. /\ t \in FtpdType /\ SameLogin(u, t) /\ SameData(u, t)
      /\ SamePrep(u, t) /\ t.pc = u.pc /\ t.tmpline = "none"
      /\ t.owed = u.owed /\ t.skewed = u.skewed
  BY <1>2, <1>4, TmplineFacts
<1>7. SameLogin(s, t)
  BY <1>5, <1>6 DEF SameLogin
<1>8. SameData(s, t)
  BY <1>5, <1>6 DEF SameData
<1>9. SamePrep(s, t)
  BY <1>5, <1>6 DEF SamePrep
<1>10. QED BY <1>3, <1>5, <1>6, <1>7, <1>8, <1>9 DEF n, t

(* The scanner has a line, which is to be answered.                        *)
LEMMA ReadFacts ==
  ASSUME NEW s \in FtpdType, NEW c \in Lines
  PROVE LET t == yylex(s, c) IN
        /\ t \in FtpdType /\ SameLogin(s, t) /\ SameData(s, t)
        /\ t.pc = s.pc /\ t.skewed = s.skewed /\ t.tmpline = "none"
        /\ t.owed = (IF s.tmpline = "none" THEN s.owed + 1 ELSE s.owed)
        /\ t.restart_point = s.restart_point
        /\ t.fromname = s.fromname /\ t.last = c
<1> DEFINE g == telnet_fgets(s)
           u == [g EXCEPT !.alarm = FALSE]
           w == [u EXCEPT !.cmd = c]
           t == yylex(s, c)
<1>1. t = [w EXCEPT !.last = c]
  BY DEF yylex
<1>2. /\ g \in FtpdType /\ SameLogin(s, g) /\ SameData(s, g)
      /\ SamePrep(s, g) /\ g.pc = s.pc /\ g.tmpline = "none"
      /\ g.owed = (IF s.tmpline = "none" THEN s.owed + 1 ELSE s.owed)
      /\ g.skewed = s.skewed
  BY FgetsFacts
<1> HIDE DEF g
<1>3. u \in FtpdType
  BY <1>2, AlarmType
<1>4. /\ SameLogin(g, u) /\ SameData(g, u) /\ SamePrep(g, u)
      /\ SameStep(g, u) /\ u.pc = g.pc
  BY <1>2 DEF FtpdType, SameLogin, SameData, SamePrep, SameStep
<1> HIDE DEF u
<1>5. w \in FtpdType
  BY <1>3, CommandType
<1>6. /\ SameLogin(u, w) /\ SameData(u, w) /\ SamePrep(u, w)
      /\ SameStep(u, w) /\ w.pc = u.pc
  BY <1>3 DEF FtpdType, SameLogin, SameData, SamePrep, SameStep
<1> HIDE DEF w, t
<1>7. t \in FtpdType
  BY <1>1, <1>5, CommandType
<1>8. /\ SameLogin(w, t) /\ SameData(w, t) /\ SameStep(w, t)
      /\ t.pc = w.pc /\ t.restart_point = w.restart_point
      /\ t.fromname = w.fromname /\ t.last = c
  BY <1>1, <1>5 DEF FtpdType, SameLogin, SameData, SameStep
<1>9. SameLogin(s, t)
  BY <1>2, <1>4, <1>6, <1>8 DEF SameLogin
<1>10. SameData(s, t)
  BY <1>2, <1>4, <1>6, <1>8 DEF SameData
<1>11. /\ t.pc = s.pc /\ t.skewed = s.skewed /\ t.tmpline = "none"
       /\ t.owed = (IF s.tmpline = "none" THEN s.owed + 1 ELSE s.owed)
  BY <1>2, <1>4, <1>6, <1>8 DEF SameStep
<1>12. t.restart_point = s.restart_point /\ t.fromname = s.fromname
  BY <1>2, <1>4, <1>6, <1>8 DEF SamePrep
<1>13. QED BY <1>7, <1>8, <1>9, <1>10, <1>11, <1>12 DEF t

(* A line that is no command is read.                                      *)
LEMMA LineFacts ==
  ASSUME NEW s \in FtpdType
  PROVE LET t == [telnet_fgets(s) EXCEPT !.alarm = FALSE] IN
        /\ t \in FtpdType /\ SameLogin(s, t) /\ SameData(s, t)
        /\ SamePrep(s, t) /\ t.pc = s.pc /\ t.tmpline = "none"
        /\ t.owed = (IF s.tmpline = "none" THEN s.owed + 1 ELSE s.owed)
        /\ t.skewed = s.skewed
<1> DEFINE g == telnet_fgets(s)
           t == [g EXCEPT !.alarm = FALSE]
<1>1. /\ g \in FtpdType /\ SameLogin(s, g) /\ SameData(s, g)
      /\ SamePrep(s, g) /\ g.pc = s.pc /\ g.tmpline = "none"
      /\ g.owed = (IF s.tmpline = "none" THEN s.owed + 1 ELSE s.owed)
      /\ g.skewed = s.skewed
  BY FgetsFacts
<1> HIDE DEF g
<1>2. t \in FtpdType
  BY <1>1, AlarmType
<1>3. /\ SameLogin(g, t) /\ SameData(g, t) /\ SamePrep(g, t)
      /\ SameStep(g, t) /\ t.pc = g.pc
  BY <1>1 DEF FtpdType, SameLogin, SameData, SamePrep, SameStep
<1> HIDE DEF t
<1>4. SameLogin(s, t)
  BY <1>1, <1>3 DEF SameLogin
<1>5. SameData(s, t)
  BY <1>1, <1>3 DEF SameData
<1>6. SamePrep(s, t)
  BY <1>1, <1>3 DEF SamePrep
<1>7. QED BY <1>1, <1>2, <1>3, <1>4, <1>5, <1>6 DEF SameStep, t, g

(* A line is read by the handler of SIGURG.                                *)
LEMMA UrgentFacts ==
  ASSUME NEW s \in FtpdType
  PROVE LET t == [s EXCEPT !.owed = @ + 1] IN
        /\ t \in FtpdType /\ SameLogin(s, t) /\ SameData(s, t)
        /\ SamePrep(s, t) /\ t.pc = s.pc /\ t.owed = s.owed + 1
        /\ t.skewed = s.skewed /\ t.tmpline = s.tmpline
BY DEF FtpdType, SameLogin, SameData, SamePrep

(* The parser complains, or starts afresh.                                 *)
LEMMA ErrorsFacts ==
  ASSUME NEW s \in FtpdType, NEW b \in BOOLEAN
  PROVE LET t == [s EXCEPT !.yynerrs = b] IN
        /\ t \in FtpdType /\ SameLogin(s, t) /\ SameData(s, t)
        /\ SameStep(s, t) /\ SamePrep(s, t) /\ t.pc = s.pc
BY DEF FtpdType, SameLogin, SameData, SameStep, SamePrep

(* The offset of REST.                                                     *)
LEMMA RestFacts ==
  ASSUME NEW s \in FtpdType, NEW b \in BOOLEAN
  PROVE LET t == [s EXCEPT !.restart_point = b] IN
        /\ t \in FtpdType /\ SameLogin(s, t) /\ SameData(s, t)
        /\ SameStep(s, t) /\ t.pc = s.pc /\ t.restart_point = b
        /\ t.fromname = s.fromname /\ t.last = s.last
BY DEF FtpdType, SameLogin, SameData, SameStep

(* The name of RNFR.                                                       *)
LEMMA FromFacts ==
  ASSUME NEW s \in FtpdType, NEW b \in BOOLEAN
  PROVE LET t == [s EXCEPT !.fromname = b] IN
        /\ t \in FtpdType /\ SameLogin(s, t) /\ SameData(s, t)
        /\ SameStep(s, t) /\ t.pc = s.pc
        /\ t.restart_point = s.restart_point /\ t.fromname = b
        /\ t.last = s.last
BY DEF FtpdType, SameLogin, SameData, SameStep

(* A command proper forgets both.                                          *)
LEMMA ForgetFacts ==
  ASSUME NEW s \in FtpdType, NEW b \in BOOLEAN
  PROVE LET t == [s EXCEPT !.fromname = FALSE, !.restart_point = b] IN
        /\ t \in FtpdType /\ SameLogin(s, t) /\ SameData(s, t)
        /\ SameStep(s, t) /\ t.pc = s.pc /\ t.restart_point = b
        /\ t.fromname = FALSE /\ t.last = s.last
<1> DEFINE t == [s EXCEPT !.fromname = FALSE, !.restart_point = b]
<1>1. t \in FtpdType
  BY DEF FtpdType
<1>2. SameLogin(s, t)
  BY DEF FtpdType, SameLogin
<1>3. SameData(s, t)
  BY DEF FtpdType, SameData
<1>4. SameStep(s, t)
  BY DEF FtpdType, SameStep
<1>5. /\ t.pc = s.pc
      /\ t.restart_point = b
      /\ t.fromname = FALSE
      /\ t.last = s.last
  BY DEF FtpdType
<1>6. QED BY <1>1, <1>2, <1>3, <1>4, <1>5

(* The parser takes up the next line.                                      *)
LEMMA ParserType ==
  ASSUME NEW s \in FtpdType
  PROVE [s EXCEPT !.pc = "command", !.cmd = "none", !.alarm = TRUE] \in FtpdType
<1> DEFINE u == [s EXCEPT !.pc = "command"]
           v == [u EXCEPT !.cmd = "none"]
<1>1. [s EXCEPT !.pc = "command", !.cmd = "none", !.alarm = TRUE] =
        [v EXCEPT !.alarm = TRUE]
  OBVIOUS
<1>2. u \in FtpdType
  BY DEF FtpdType
<1> HIDE DEF u
<1>3. v \in FtpdType
  <2>1. \A c \in Lines : [u EXCEPT !.cmd = c] \in FtpdType
    BY <1>2, CommandType
  <2>2. "none" \in Lines
    BY DEF Lines
  <2>3. QED BY <2>1, <2>2
<1> HIDE DEF v
<1>4. [v EXCEPT !.alarm = TRUE] \in FtpdType
  BY <1>3, AlarmType
<1>5. QED BY <1>1, <1>4

(* Back to the parser.                                                     *)
LEMMA NextCommandFacts ==
  ASSUME NEW s \in FtpdType
  PROVE LET t == NextCommand(s) IN
        /\ t \in FtpdType /\ SameLogin(s, t) /\ SameData(s, t)
        /\ SameStep(s, t) /\ SamePrep(s, t)
        /\ t.pc = (IF s.pc = "exited" THEN "exited" ELSE "command")
<1> DEFINE t == NextCommand(s)
<1>1. t \in FtpdType
  BY ParserType DEF NextCommand
<1>2. SameLogin(s, t)
  BY DEF NextCommand, FtpdType, SameLogin
<1>3. SameData(s, t)
  BY DEF NextCommand, FtpdType, SameData
<1>4. SameStep(s, t)
  BY DEF NextCommand, FtpdType, SameStep
<1>5. SamePrep(s, t)
  BY DEF NextCommand, FtpdType, SamePrep
<1>6. /\ t.pc = (IF s.pc = "exited" THEN "exited" ELSE "command")
  BY DEF NextCommand, FtpdType
<1>7. QED BY <1>1, <1>2, <1>3, <1>4, <1>5, <1>6

-----------------------------------------------------------------------------
(* The invariant, as a predicate on the globals.                           *)

(* Without --non-rfc2577: a login, an accepted guest, and credentials that *)
(* are not marked for rejection are those of the user named last.          *)
LoginOK(s) ==
  Rfc2577 /\ (s.logged_in \/ s.guest \/ (s.name # NoOne /\ ~s.delayed_reject))
    => s.name = s.claim /\ ~AuthFails(s.claim)

LiveOK(s) ==
  /\ s.data # None => s.data \in Open(s)
  /\ s.pdata # None => s.pdata \in Open(s)
  /\ s.data = s.pdata => s.data = None

(* What holds after each assignment, in the middle of a command too.       *)
Sound(s) == s \in FtpdType /\ LoginOK(s) /\ LiveOK(s)

(* A transfer under way is one line that is still to be answered.          *)
StepOK(s) ==
  /\ s.pc = "command" => Owes(s, 0)
  /\ s.pc \in {"accept", "transfer"} => Owes(s, 1)

PrepOK(s) ==
  s.pc = "command" => /\ s.restart_point => s.last \in {"REST", "error"}
                      /\ s.fromname => s.last \in {"RNFR", "error"}

FtpdInv(s) == Sound(s) /\ StepOK(s) /\ PrepOK(s)

(* From s to t the process has exited, or has sent one final reply.        *)
Answered(s, t) ==
  t.pc # "exited" =>
    t.pc = s.pc /\ (~t.skewed => OneReply(s, t))

(* Assignments to other fields keep the state sound.                       *)
LEMMA SoundKept ==
  ASSUME NEW s, Sound(s), NEW t \in FtpdType, SameLogin(s, t), SameData(s, t)
  PROVE Sound(t)
BY DEF Sound, LoginOK, LiveOK, Open, SameLogin, SameData

(* Logins stay sound, descriptors are looked at on their own.              *)
LEMMA LoginKept ==
  ASSUME NEW s, LoginOK(s), NEW t, SameLogin(s, t)
  PROVE LoginOK(t)
BY DEF LoginOK, SameLogin

(* The converse.                                                           *)
LEMMA LiveKept ==
  ASSUME NEW s, LiveOK(s), NEW t, SameData(s, t)
  PROVE LiveOK(t)
BY DEF LiveOK, Open, SameData

(* A final reply.                                                          *)
LEMMA ReplyAnswers ==
  ASSUME NEW s, Sound(s), NEW n \in Nat, n >= 200
  PROVE /\ Sound(reply(s, n)) /\ Answered(s, reply(s, n))
        /\ SamePrep(s, reply(s, n)) /\ reply(s, n).pc = s.pc
        /\ OneReply(s, reply(s, n))
<1>1. s \in FtpdType
  BY DEF Sound
<1>2. /\ reply(s, n) \in FtpdType /\ SameLogin(s, reply(s, n))
      /\ SameData(s, reply(s, n))
  BY <1>1, ReplyFacts
<1>3. /\ SamePrep(s, reply(s, n)) /\ reply(s, n).pc = s.pc
      /\ OneReply(s, reply(s, n))
  BY <1>1, ReplyFacts
<1>4. Sound(reply(s, n))
  BY <1>2, SoundKept
<1>5. QED BY <1>3, <1>4 DEF Answered

(* The session ends.                                                       *)
LEMMA LogoutFacts ==
  ASSUME NEW s \in FtpdType
  PROVE FtpdInv(dologout(s)) /\ dologout(s).pc = "exited"
<1> DEFINE e == end_login(s)
           t == dologout(s)
<1>1. e \in FtpdType /\ e.logged_in = FALSE /\ e.guest = FALSE /\ e.name = NoOne
  BY EndLoginFacts
<1>2. t = [e EXCEPT !.pc = "exited", !.transflag = FALSE, !.alarm = FALSE,
                    !.data = None, !.pdata = None, !.dout = None,
                    !.listening = {}, !.connected = {}]
  BY DEF dologout
<1> HIDE DEF e, t
<1>3. /\ t \in FtpdType /\ SameLogin(e, t) /\ t.pc = "exited"
      /\ t.data = None /\ t.pdata = None
  BY <1>1, <1>2, ExitFacts
<1>4. LoginOK(e)
  BY <1>1 DEF LoginOK
<1>5. LoginOK(t)
  BY <1>3, <1>4, LoginKept
<1>6. LiveOK(t)
  BY <1>3 DEF LiveOK
<1>7. StepOK(t) /\ PrepOK(t)
  BY <1>3 DEF StepOK, PrepOK
<1>8. QED BY <1>3, <1>5, <1>6, <1>7 DEF FtpdInv, Sound, t

(* The end of a command proper.                                            *)
LEMMA CmdFacts ==
  ASSUME NEW s \in FtpdType
  PROVE LET t == cmd(s) IN
        /\ t \in FtpdType /\ SameLogin(s, t) /\ SameData(s, t)
        /\ SameStep(s, t) /\ t.restart_point = FALSE /\ t.fromname = FALSE
        /\ t.pc = (IF s.pc = "exited" THEN "exited" ELSE "command")
<1> DEFINE u == NextCommand(s)
           t == cmd(s)
<1>1. /\ u \in FtpdType /\ SameLogin(s, u) /\ SameData(s, u)
      /\ SameStep(s, u)
      /\ u.pc = (IF s.pc = "exited" THEN "exited" ELSE "command")
  BY NextCommandFacts
<1>2. t = [u EXCEPT !.fromname = FALSE, !.restart_point = FALSE]
  BY DEF cmd
<1> HIDE DEF u, t
<1>3. /\ t \in FtpdType /\ SameLogin(u, t) /\ SameData(u, t)
      /\ SameStep(u, t) /\ t.pc = u.pc /\ t.restart_point = FALSE
      /\ t.fromname = FALSE
  BY <1>1, <1>2, ForgetFacts
<1>4. SameLogin(s, t)
  BY <1>1, <1>3 DEF SameLogin
<1>5. SameData(s, t)
  BY <1>1, <1>3 DEF SameData
<1>6. SameStep(s, t)
  BY <1>1, <1>3 DEF SameStep
<1>7. QED BY <1>1, <1>3, <1>4, <1>5, <1>6 DEF t

(* A command that has been answered leaves the invariant behind it.        *)
LEMMA CmdDone ==
  ASSUME NEW t, Sound(t), t.pc # "exited" => Owes(t, 0)
  PROVE FtpdInv(cmd(t))
<1>1. t \in FtpdType
  BY DEF Sound
<1>2. /\ cmd(t) \in FtpdType /\ SameLogin(t, cmd(t)) /\ SameData(t, cmd(t))
  BY <1>1, CmdFacts
<1>3. /\ SameStep(t, cmd(t)) /\ cmd(t).restart_point = FALSE
      /\ cmd(t).fromname = FALSE
      /\ cmd(t).pc = (IF t.pc = "exited" THEN "exited" ELSE "command")
  BY <1>1, CmdFacts
<1>4. Sound(cmd(t))
  BY <1>2, SoundKept
<1>5. StepOK(cmd(t))
  BY <1>3 DEF StepOK, SameStep
<1>6. PrepOK(cmd(t))
  BY <1>3 DEF PrepOK
<1>7. QED BY <1>4, <1>5, <1>6 DEF FtpdInv

(* A line has been read, and is to be answered.                            *)
LEMMA ReadDone ==
  ASSUME NEW s, FtpdInv(s), s.pc = "command", s.tmpline # "STAT",
         NEW c \in Lines
  PROVE LET t == yylex(s, c) IN
        /\ Sound(t) /\ t.pc = "command" /\ Owes(t, 1)
        /\ t.logged_in = s.logged_in /\ t.restart_point = s.restart_point
        /\ t.fromname = s.fromname /\ t.last = c
<1> DEFINE t == yylex(s, c)
<1>1. s \in FtpdType /\ Sound(s) /\ StepOK(s)
  BY DEF FtpdInv, Sound
<1>2. t \in FtpdType /\ SameLogin(s, t) /\ SameData(s, t)
  BY <1>1, ReadFacts
<1>3. /\ t.pc = s.pc /\ t.skewed = s.skewed /\ t.tmpline = "none"
      /\ t.owed = (IF s.tmpline = "none" THEN s.owed + 1 ELSE s.owed)
      /\ t.restart_point = s.restart_point /\ t.fromname = s.fromname
      /\ t.last = c
  BY <1>1, ReadFacts
<1>4. Sound(t)
  BY <1>1, <1>2, SoundKept
<1>5. t.logged_in = s.logged_in
  BY <1>2 DEF SameLogin
<1> HIDE DEF t
<1>6. Owes(t, 1)
  BY <1>1, <1>3 DEF StepOK, FtpdType
<1>7. QED BY <1>3, <1>4, <1>5, <1>6 DEF t

(* A command that answers the line it read.                                *)
LEMMA AnsweredDone ==
  ASSUME NEW s, FtpdInv(s), s.pc = "command", s.tmpline # "STAT",
         NEW c \in Lines, NEW t, Sound(t), Answered(yylex(s, c), t)
  PROVE FtpdInv(cmd(t))
<1>1. Owes(yylex(s, c), 1)
  BY ReadDone
<1>2. t.pc # "exited" => Owes(t, 0)
  BY <1>1 DEF Answered
<1>3. QED BY <1>2, CmdDone

-----------------------------------------------------------------------------
(* The functions of the code, one by one.                                  *)

(* auth_user: an accepted user is in the credentials.                      *)
LEMMA AuthUserFacts ==
  ASSUME NEW s \in FtpdType, NEW n \in Names
  PROVE LET t == auth_user(s, n) IN
        /\ t \in FtpdType /\ SameData(s, t) /\ SameStep(s, t)
        /\ t.pc = s.pc /\ t.logged_in = s.logged_in /\ t.claim = n
        /\ t.guest => ~AuthFails(n)
        /\ ~AuthFails(n) => t.name = n
<1> DEFINE t == [s EXCEPT !.guest = FALSE, !.claim = n]
           c == IF n = Guest /\ n \in Denied THEN t ELSE sgetcred(t, n)
           g == [c EXCEPT !.guest = TRUE]
           d == [c EXCEPT !.dochroot = n \in Chrooted]
           r == auth_user(s, n)
<1>1. r = IF AuthFails(n) THEN c ELSE IF n = Guest THEN g ELSE d
  BY DEF auth_user
<1>2. /\ t \in FtpdType /\ SameData(s, t) /\ SameStep(s, t)
      /\ t.pc = s.pc /\ t.logged_in = s.logged_in /\ t.claim = n
      /\ t.guest = FALSE
  BY ClaimFacts
<1> HIDE DEF t
<1>3. /\ c \in FtpdType /\ SameData(s, c) /\ SameStep(s, c)
      /\ c.pc = s.pc /\ c.logged_in = s.logged_in /\ c.claim = n
      /\ c.guest = FALSE
      /\ ~AuthFails(n) => c.name = n
  <2>1. CASE n \in Known /\ ~(n = Guest /\ n \in Denied)
    <3> DEFINE k == [t EXCEPT !.name = n]
    <3>1. c = k
      BY <2>1 DEF sgetcred
    <3>2. /\ k \in FtpdType /\ SameData(t, k) /\ SameStep(t, k)
          /\ k.pc = t.pc /\ k.logged_in = t.logged_in /\ k.claim = t.claim
          /\ k.guest = t.guest /\ k.name = n
      BY <1>2, <2>1, NameFacts
    <3> HIDE DEF k
    <3>3. SameData(s, k) /\ SameStep(s, k)
      BY <1>2, <3>2 DEF SameData, SameStep
    <3>4. QED BY <1>2, <3>1, <3>2, <3>3
  <2>2. CASE ~(n \in Known /\ ~(n = Guest /\ n \in Denied))
    <3>1. c = t
      BY <2>2 DEF sgetcred
    <3>2. AuthFails(n)
      BY <2>2 DEF AuthFails
    <3>3. QED BY <1>2, <3>1, <3>2
  <2>3. QED BY <2>1, <2>2
<1> HIDE DEF c
<1>4. /\ g \in FtpdType /\ SameData(c, g) /\ SameStep(c, g)
      /\ g.pc = c.pc /\ g.logged_in = c.logged_in /\ g.claim = c.claim
      /\ g.name = c.name
  BY <1>3, GuestFacts
<1>5. (n \in Chrooted) \in BOOLEAN
  OBVIOUS
<1>6. /\ d \in FtpdType /\ SameLogin(c, d) /\ SameData(c, d)
      /\ SameStep(c, d) /\ d.pc = c.pc
  BY <1>3, <1>5, ChrootFacts
<1> HIDE DEF g, d, r
<1>7. CASE AuthFails(n)
  BY <1>1, <1>3, <1>7 DEF r
<1>8. CASE ~AuthFails(n) /\ n = Guest
  <2>1. r = g
    BY <1>1, <1>8
  <2>2. SameData(s, g) /\ SameStep(s, g)
    BY <1>3, <1>4 DEF SameData, SameStep
  <2>3. QED BY <1>3, <1>4, <1>8, <2>1, <2>2 DEF r
<1>9. CASE ~AuthFails(n) /\ n # Guest
  <2>1. r = d
    BY <1>1, <1>9
  <2>2. SameData(s, d) /\ SameStep(s, d)
    BY <1>3, <1>6 DEF SameData, SameStep
  <2>3. d.logged_in = c.logged_in /\ d.claim = c.claim /\ d.name = c.name
    BY <1>6 DEF SameLogin
  <2>4. QED BY <1>3, <1>6, <1>9, <2>1, <2>2, <2>3 DEF r
<1>10. QED BY <1>7, <1>8, <1>9

(* USER: who was logged in before is not any more, and what auth_user      *)
(* refused is marked for rejection.                                        *)
LEMMA UserAnswers ==
  ASSUME NEW s, Sound(s), NEW n \in Names
  PROVE Sound(user(s, n)) /\ Answered(s, user(s, n))
<1> DEFINE v == IF s.logged_in THEN end_login(s) ELSE s
           t == auth_user(v, n)
           u == [t EXCEPT !.delayed_reject = AuthFails(n)]
           a == [u EXCEPT !.askpasswd = TRUE]
<1>1. s \in FtpdType /\ LiveOK(s)
  BY DEF Sound
<1>2. /\ v \in FtpdType /\ SameData(s, v) /\ SameStep(s, v)
      /\ v.pc = s.pc /\ ~v.logged_in
  <2>1. CASE s.logged_in
    BY <1>1, <2>1, EndLoginFacts
  <2>2. CASE ~s.logged_in
    BY <1>1, <2>2 DEF SameData, SameStep
  <2>3. QED BY <2>1, <2>2
<1> HIDE DEF v
<1>3. /\ t \in FtpdType /\ SameData(v, t) /\ SameStep(v, t)
      /\ t.pc = v.pc /\ t.logged_in = v.logged_in /\ t.claim = n
      /\ t.guest => ~AuthFails(n)
      /\ ~AuthFails(n) => t.name = n
  BY <1>2, AuthUserFacts
<1> HIDE DEF t
<1>4. AuthFails(n) \in BOOLEAN
  BY DEF AuthFails
<1>5. /\ u \in FtpdType /\ SameData(t, u) /\ SameStep(t, u)
      /\ u.pc = t.pc /\ u.guest = t.guest /\ u.claim = t.claim
      /\ u.logged_in = t.logged_in /\ u.name = t.name
      /\ u.delayed_reject = AuthFails(n)
  BY <1>3, <1>4, RejectFacts
<1>6. user(s, n) \in
        {reply(s, 530), reply(u, 530), reply(a, 331)}
          \union (IF Rfc2577 THEN {} ELSE {reply(t, 530)})
  BY DEF user, v, t
<1> HIDE DEF u
<1>7. SameData(s, t) /\ SameStep(s, t) /\ SameData(s, u) /\ SameStep(s, u)
  BY <1>2, <1>3, <1>5 DEF SameData, SameStep
<1>8. LiveOK(t) /\ LiveOK(u)
  BY <1>1, <1>7, LiveKept
<1>9. LoginOK(u)
  BY <1>2, <1>3, <1>5 DEF LoginOK
<1>10. ~Rfc2577 => LoginOK(t)
  BY DEF LoginOK
<1>11. Sound(u) /\ (~Rfc2577 => Sound(t))
  BY <1>3, <1>5, <1>8, <1>9, <1>10 DEF Sound
<1>12. /\ a \in FtpdType /\ SameLogin(u, a) /\ SameData(u, a)
       /\ SameStep(u, a) /\ a.pc = u.pc
  BY <1>5, AskFacts
<1> HIDE DEF a
<1>13. Sound(a)
  BY <1>11, <1>12, SoundKept
<1>14. SameStep(s, a) /\ a.pc = s.pc
  BY <1>2, <1>3, <1>5, <1>7, <1>12 DEF SameStep
<1>15. CASE user(s, n) = reply(s, 530)
  BY <1>15, ReplyAnswers
<1>16. CASE user(s, n) = reply(u, 530)
  <2>1. Sound(reply(u, 530)) /\ Answered(u, reply(u, 530))
    BY <1>11, ReplyAnswers
  <2>2. QED BY <1>2, <1>3, <1>5, <1>7, <1>16, <2>1 DEF Answered, SameStep
<1>17. CASE user(s, n) = reply(a, 331)
  <2>1. Sound(reply(a, 331)) /\ Answered(a, reply(a, 331))
    BY <1>13, ReplyAnswers
  <2>2. QED BY <1>14, <1>17, <2>1 DEF Answered, SameStep
<1>18. CASE ~Rfc2577 /\ user(s, n) = reply(t, 530)
  <2>1. Sound(reply(t, 530)) /\ Answered(t, reply(t, 530))
    BY <1>11, <1>18, ReplyAnswers
  <2>2. QED BY <1>2, <1>3, <1>7, <1>18, <2>1 DEF Answered, SameStep
<1>19. QED BY <1>6, <1>15, <1>16, <1>17, <1>18

(* What complete_login leaves of a login that is sound.                    *)
LEMMA CompleteAnswers ==
  ASSUME NEW s, Sound(s), NEW works \in BOOLEAN
  PROVE /\ Sound(complete_login(s, works))
        /\ Answered(s, complete_login(s, works))
<1> DEFINE f == [s EXCEPT !.login_attempts = 0]
           e == end_login(s)
           r == reply(e, 550)
<1>1. s \in FtpdType /\ LiveOK(s)
  BY DEF Sound
<1>2. CASE works
  <2>1. /\ f \in FtpdType /\ SameLogin(s, f) /\ SameData(s, f)
        /\ SameStep(s, f) /\ f.pc = s.pc
    BY <1>1, ForgivenFacts
  <2>2. complete_login(s, works) = reply(f, 230)
    BY <1>2 DEF complete_login
  <2> HIDE DEF f
  <2>3. Sound(f)
    BY <2>1, SoundKept
  <2>4. Sound(reply(f, 230)) /\ Answered(f, reply(f, 230))
    BY <2>3, ReplyAnswers
  <2>5. QED BY <2>1, <2>2, <2>4 DEF Answered, SameStep
<1>3. CASE ~works
  <2>1. /\ e \in FtpdType /\ SameData(s, e) /\ SameStep(s, e) /\ e.pc = s.pc
        /\ e.logged_in = FALSE /\ e.guest = FALSE /\ e.name = NoOne
    BY <1>1, EndLoginFacts
  <2>2. complete_login(s, works) = Failed(r)
    BY <1>3 DEF complete_login
  <2> HIDE DEF e
  <2>3. LoginOK(e) /\ LiveOK(e)
    BY <1>1, <2>1, LiveKept DEF LoginOK
  <2>4. Sound(e)
    BY <2>1, <2>3 DEF Sound
  <2>5. Sound(r) /\ Answered(e, r)
    BY <2>4, ReplyAnswers
  <2> HIDE DEF r
  <2>6. r \in FtpdType
    BY <2>5 DEF Sound
  <2>7. /\ Failed(r) \in FtpdType /\ SameLogin(r, Failed(r))
        /\ SameData(r, Failed(r)) /\ SameStep(r, Failed(r))
        /\ Failed(r).pc = r.pc
    BY <2>6, FailedFacts
  <2>8. Sound(Failed(r))
    BY <2>5, <2>7, SoundKept
  <2>9. QED BY <2>1, <2>2, <2>5, <2>7, <2>8 DEF Answered, SameStep
<1>4. QED BY <1>2, <1>3

(* PASS: a password that fits, with no rejection put off, or a guest that  *)
(* was accepted, is a login of the user named last.                        *)
LEMMA PassAnswers ==
  ASSUME NEW s, Sound(s), NEW p, NEW works \in BOOLEAN
  PROVE Sound(pass(s, p, works)) /\ Answered(s, pass(s, p, works))
<1> DEFINE t == [s EXCEPT !.askpasswd = FALSE]
           l == [t EXCEPT !.logged_in = TRUE]
<1>1. s \in FtpdType
  BY DEF Sound
<1>2. /\ t \in FtpdType /\ SameLogin(s, t) /\ SameData(s, t)
      /\ SameStep(s, t) /\ t.pc = s.pc
  BY <1>1, AskFacts
<1>3. \/ pass(s, p, works) = reply(s, 503)
      \/ pass(s, p, works) = dologout(reply(reply(t, 530), 421))
      \/ pass(s, p, works) = reply(Failed(t), 530)
      \/ /\ pass(s, p, works) = complete_login(l, works)
         /\ t.guest \/ (auth_pass(t, p) /\ ~t.delayed_reject)
  BY DEF pass
<1> HIDE DEF t
<1>4. Sound(t)
  BY <1>2, SoundKept
<1>5. CASE pass(s, p, works) = reply(s, 503)
  BY <1>5, ReplyAnswers
<1>6. CASE pass(s, p, works) = dologout(reply(reply(t, 530), 421))
  <2>1. Sound(reply(t, 530))
    BY <1>4, ReplyAnswers
  <2>2. Sound(reply(reply(t, 530), 421))
    BY <2>1, ReplyAnswers
  <2>3. reply(reply(t, 530), 421) \in FtpdType
    BY <2>2 DEF Sound
  <2>4. FtpdInv(pass(s, p, works)) /\ pass(s, p, works).pc = "exited"
    BY <1>6, <2>3, LogoutFacts
  <2>5. QED BY <2>4 DEF FtpdInv, Answered
<1>7. CASE pass(s, p, works) = reply(Failed(t), 530)
  <2>1. /\ Failed(t) \in FtpdType /\ SameLogin(t, Failed(t))
        /\ SameData(t, Failed(t)) /\ SameStep(t, Failed(t))
        /\ Failed(t).pc = t.pc
    BY <1>2, FailedFacts
  <2>2. Sound(Failed(t))
    BY <1>4, <2>1, SoundKept
  <2>3. /\ Sound(reply(Failed(t), 530))
        /\ Answered(Failed(t), reply(Failed(t), 530))
    BY <2>2, ReplyAnswers
  <2>4. QED BY <1>2, <1>7, <2>1, <2>3 DEF Answered, SameStep
<1>8. CASE /\ pass(s, p, works) = complete_login(l, works)
           /\ t.guest \/ (auth_pass(t, p) /\ ~t.delayed_reject)
  <2>1. /\ l \in FtpdType /\ SameData(t, l) /\ SameStep(t, l)
        /\ l.pc = t.pc /\ l.guest = t.guest /\ l.claim = t.claim
        /\ l.name = t.name /\ l.delayed_reject = t.delayed_reject
    BY <1>2, LoggedInFacts
  <2> HIDE DEF l
  <2>2. LoginOK(l)
    BY <1>4, <1>8, <2>1 DEF Sound, LoginOK, auth_pass
  <2>3. LiveOK(l)
    BY <1>4, <2>1, LiveKept DEF Sound
  <2>4. Sound(l)
    BY <2>1, <2>2, <2>3 DEF Sound
  <2>5. /\ Sound(complete_login(l, works))
        /\ Answered(l, complete_login(l, works))
    BY <2>4, CompleteAnswers
  <2>6. QED BY <1>2, <1>8, <2>1, <2>5 DEF Answered, SameStep
<1>9. QED BY <1>3, <1>5, <1>6, <1>7, <1>8

-----------------------------------------------------------------------------
(* Data connections.                                                       *)

(* The smallest descriptor that is not used exists, where there is one.    *)
LEMMA LowestUnused ==
  ASSUME NEW s, Unused(s) # {},
         NEW fd, fd = CHOOSE f \in Unused(s) : \A g \in Unused(s) : f <= g
  PROVE fd \in Fds /\ fd \notin Open(s) /\ fd # None
<1> DEFINE R == OpToRel(<, Nat)
           U == Unused(s)
<1>1. U \subseteq Nat /\ U # {}
  BY FtpdConstants DEF Unused
<1>2. IsWellFoundedOn(R, Nat)
  BY NatLessThanWellFounded
<1>3. \E x \in U : \A y \in U : ~(<<y, x>> \in R)
  <2> HIDE DEF R, U
  <2>1. QED BY <1>1, <1>2, WFMin
<1>4. \A x, y \in Nat : x < y => <<x, y>> \in R
  BY DEF OpToRel
<1> HIDE DEF R
<1>5. \E x \in U : \A y \in U : x <= y
  <2>1. PICK x \in U : \A y \in U : ~(<<y, x>> \in R)
    BY <1>3
  <2> HIDE DEF U
  <2>2. ASSUME NEW y \in U PROVE x <= y
    <3>1. x \in Nat /\ y \in Nat
      BY <1>1
    <3>2. ~(y < x)
      BY <1>4, <2>1, <3>1
    <3>3. QED BY <3>1, <3>2
  <2>3. QED BY <2>2
<1>6. fd \in Unused(s)
  BY <1>5
<1>7. fd \in Fds /\ fd \notin Open(s)
  BY <1>6 DEF Unused
<1>8. Fds \subseteq Nat
  BY FtpdConstants
<1>9. fd # None
  <2>1. fd \in Nat
    BY <1>7, <1>8
  <2>2. \A k \in Nat : k # None
    BY DEF None
  <2>3. QED BY <2>1, <2>2
<1>10. QED BY <1>7, <1>9

(* A command that gives an address closes the passive socket.              *)
LEMMA UsePortFacts ==
  ASSUME NEW s, Sound(s)
  PROVE /\ Sound(UsePort(s)) /\ SameStep(s, UsePort(s))
        /\ UsePort(s).pc = s.pc
<1> DEFINE c == Close(s, s.pdata)
           p == [c EXCEPT !.pdata = None]
           k == ClosePassive(s)
           t == UsePort(s)
<1>1. s \in FtpdType /\ LoginOK(s) /\ LiveOK(s)
  BY DEF Sound
<1>2. s.pdata \in Fds \union {None}
  BY <1>1 DEF FtpdType
<1>3. k = IF s.pdata = None THEN s ELSE p
  BY DEF ClosePassive
<1>4. /\ c \in FtpdType /\ SameLogin(s, c) /\ SameStep(s, c) /\ c.pc = s.pc
      /\ c.data = s.data /\ c.pdata = s.pdata /\ Open(c) = Open(s) \ {s.pdata}
  BY <1>1, <1>2, CloseFacts
<1>5. t = [k EXCEPT !.usedefault = FALSE]
  BY DEF UsePort
<1> HIDE DEF c, k, t
<1>6. /\ p \in FtpdType /\ SameLogin(c, p) /\ SameStep(c, p) /\ p.pc = c.pc
      /\ p.pdata = None /\ p.data = c.data /\ p.listening = c.listening
      /\ p.connected = c.connected
  BY <1>4, PdataFacts
<1> HIDE DEF p
<1>7. Sound(k) /\ SameStep(s, k) /\ k.pc = s.pc
  <2>1. CASE s.pdata = None
    BY <1>3, <2>1 DEF SameStep
  <2>2. CASE s.pdata # None
    <3>1. LoginOK(p)
      BY <1>1, <1>4, <1>6, LoginKept
    <3>2. Open(p) = Open(s) \ {s.pdata}
      BY <1>4, <1>6 DEF Open
    <3>3. LiveOK(p)
      BY <1>1, <1>4, <1>6, <3>2 DEF LiveOK
    <3>4. QED BY <1>3, <1>4, <1>6, <2>2, <3>1, <3>3 DEF Sound, SameStep
  <2>3. QED BY <2>1, <2>2
<1>8. k \in FtpdType
  BY <1>7 DEF Sound
<1>9. /\ t \in FtpdType /\ SameLogin(k, t) /\ SameData(k, t)
      /\ SameStep(k, t) /\ t.pc = k.pc
  BY <1>5, <1>8, DefaultFacts
<1>10. Sound(t)
  BY <1>7, <1>9, SoundKept
<1>11. QED BY <1>7, <1>9, <1>10 DEF SameStep, t

(* The address is forgotten.                                               *)
LEMMA DefaultSound ==
  ASSUME NEW s, Sound(s), NEW b \in BOOLEAN
  PROVE LET t == [s EXCEPT !.usedefault = b] IN
        /\ Sound(t) /\ SameStep(s, t) /\ t.pc = s.pc /\ SameData(s, t)
<1>1. s \in FtpdType
  BY DEF Sound
<1> DEFINE t == [s EXCEPT !.usedefault = b]
<1>2. /\ t \in FtpdType /\ SameLogin(s, t) /\ SameData(s, t)
      /\ SameStep(s, t) /\ t.pc = s.pc
  BY <1>1, DefaultFacts
<1> HIDE DEF t
<1>3. Sound(t)
  BY <1>2, SoundKept
<1>4. QED BY <1>2, <1>3 DEF t

(* A final reply after a change that leaves the counters alone.            *)
LEMMA ThenReply ==
  ASSUME NEW s, NEW t, Sound(t), SameStep(s, t), t.pc = s.pc,
         NEW n \in Nat, n >= 200
  PROVE Sound(reply(t, n)) /\ Answered(s, reply(t, n))
<1>1. Sound(reply(t, n)) /\ Answered(t, reply(t, n))
  BY ReplyAnswers
<1>2. QED BY <1>1 DEF Answered, SameStep

(* PORT.                                                                   *)
LEMMA PortAnswers ==
  ASSUME NEW s, Sound(s), NEW good \in BOOLEAN
  PROVE Sound(PORT(s, good)) /\ Answered(s, PORT(s, good))
<1>1. CASE good
  <2>1. PORT(s, good) = reply(UsePort(s), 200)
    BY <1>1 DEF PORT
  <2>2. Sound(UsePort(s)) /\ SameStep(s, UsePort(s)) /\ UsePort(s).pc = s.pc
    BY UsePortFacts
  <2>3. QED BY <2>1, <2>2, ThenReply
<1>2. CASE ~good
  <2> DEFINE t == [s EXCEPT !.usedefault = TRUE]
  <2>1. PORT(s, good) = reply(t, 500)
    BY <1>2 DEF PORT
  <2>2. Sound(t) /\ SameStep(s, t) /\ t.pc = s.pc
    BY DefaultSound
  <2> HIDE DEF t
  <2>3. QED BY <2>1, <2>2, ThenReply
<1>3. QED BY <1>1, <1>2

(* LPRT: the second reply puts the client out of step.                     *)
LEMMA LprtAnswers ==
  ASSUME NEW s, Sound(s), NEW a
  PROVE Sound(LPRT(s, a)) /\ Answered(s, LPRT(s, a))
<1>1. CASE a = "good"
  <2>1. LPRT(s, a) = reply(UsePort(s), 200)
    BY <1>1 DEF LPRT
  <2>2. Sound(UsePort(s)) /\ SameStep(s, UsePort(s)) /\ UsePort(s).pc = s.pc
    BY UsePortFacts
  <2>3. QED BY <2>1, <2>2, ThenReply
<1>2. CASE a # "good"
  <2> DEFINE h == long_host_port(s, a)
             t == [h EXCEPT !.usedefault = TRUE]
             r == reply(s, 500)
  <2>1. LPRT(s, a) = reply(t, 500)
    BY <1>2 DEF LPRT
  <2>2. Sound(h) /\ h.pc = s.pc /\ (SameStep(s, h) \/ h.skewed = TRUE)
    <3>1. CASE a = "invalid"
      <4>1. Sound(r) /\ r.pc = s.pc
        BY ReplyAnswers
      <4>2. h = Skew(r)
        BY <3>1 DEF long_host_port
      <4> HIDE DEF r
      <4>3. r \in FtpdType
        BY <4>1 DEF Sound
      <4>4. /\ Skew(r) \in FtpdType /\ SameLogin(r, Skew(r))
            /\ SameData(r, Skew(r)) /\ Skew(r).pc = r.pc
            /\ Skew(r).skewed = TRUE
        BY <4>3, SkewFacts
      <4>5. Sound(Skew(r))
        BY <4>1, <4>4, SoundKept
      <4>6. QED BY <4>1, <4>2, <4>4, <4>5
    <3>2. CASE a # "invalid"
      BY <3>2 DEF long_host_port, SameStep
    <3>3. QED BY <3>1, <3>2
  <2> HIDE DEF h
  <2>3. Sound(t) /\ SameStep(h, t) /\ t.pc = h.pc
    BY <2>2, DefaultSound
  <2> HIDE DEF t
  <2>4. /\ Sound(reply(t, 500)) /\ reply(t, 500).pc = t.pc
        /\ OneReply(t, reply(t, 500))
    BY <2>3, ReplyAnswers
  <2>5. QED BY <2>1, <2>2, <2>3, <2>4 DEF Answered, SameStep
<1>3. QED BY <1>1, <1>2

(* EPRT, which answers only after a login; check_login did so before.      *)
LEMMA EprtAnswers ==
  ASSUME NEW s, Sound(s), NEW good \in BOOLEAN
  PROVE /\ s.logged_in => Sound(EPRT(s, good)) /\ Answered(s, EPRT(s, good))
        /\ ~s.logged_in => /\ Sound(EPRT(s, good)) /\ SameStep(s, EPRT(s, good))
                           /\ EPRT(s, good).pc = s.pc
<1>1. Sound(UsePort(s)) /\ SameStep(s, UsePort(s)) /\ UsePort(s).pc = s.pc
  BY UsePortFacts
<1>2. CASE s.logged_in
  <2>1. EPRT(s, good) = reply(UsePort(s), IF good THEN 200 ELSE 500)
    BY <1>2 DEF EPRT
  <2>2. (IF good THEN 200 ELSE 500) \in Nat /\ (IF good THEN 200 ELSE 500) >= 200
    OBVIOUS
  <2>3. QED BY <1>1, <1>2, <2>1, <2>2, ThenReply
<1>3. CASE ~s.logged_in
  BY <1>1, <1>3 DEF EPRT
<1>4. QED BY <1>2, <1>3

(* passive: the new socket is not the one in data.                         *)
LEMMA PassiveAnswers ==
  ASSUME NEW s, Sound(s), NEW works \in BOOLEAN
  PROVE Sound(passive(s, works)) /\ Answered(s, passive(s, works))
<1>1. s \in FtpdType /\ LoginOK(s) /\ LiveOK(s)
  BY DEF Sound
<1>2. CASE works /\ Unused(s) # {}
  <2>1. PICK fd : fd = CHOOSE f \in Unused(s) : \A g \in Unused(s) : f <= g
    OBVIOUS
  <2> DEFINE t == [s EXCEPT !.pdata = fd, !.listening = @ \union {fd}]
  <2>2. fd \in Fds /\ fd \notin Open(s) /\ fd # None
    BY <1>2, <2>1, LowestUnused
  <2>3. passive(s, works) = reply(t, 227)
    BY <1>2, <2>1 DEF passive
  <2>4. /\ t \in FtpdType /\ SameLogin(s, t) /\ SameStep(s, t) /\ t.pc = s.pc
        /\ t.pdata = fd /\ t.data = s.data /\ Open(t) = Open(s) \union {fd}
    BY <1>1, <2>2, ListenFacts
  <2> HIDE DEF t
  <2>5. LiveOK(t)
    BY <1>1, <2>2, <2>4 DEF LiveOK
  <2>6. LoginOK(t)
    BY <1>1, <2>4, LoginKept
  <2>7. Sound(t)
    BY <2>4, <2>5, <2>6 DEF Sound
  <2>8. QED BY <2>3, <2>4, <2>7, ThenReply
<1>3. CASE ~(works /\ Unused(s) # {})
  <2> DEFINE t == [s EXCEPT !.pdata = None]
  <2>1. passive(s, works) = reply(t, 425)
    BY <1>3 DEF passive
  <2>2. /\ t \in FtpdType /\ SameLogin(s, t) /\ SameStep(s, t) /\ t.pc = s.pc
        /\ t.pdata = None /\ t.data = s.data /\ t.listening = s.listening
        /\ t.connected = s.connected
    BY <1>1, PdataFacts
  <2> HIDE DEF t
  <2>3. LiveOK(t)
    BY <1>1, <2>2 DEF LiveOK, Open
  <2>4. LoginOK(t)
    BY <1>1, <2>2, LoginKept
  <2>5. Sound(t)
    BY <2>2, <2>3, <2>4 DEF Sound
  <2>6. QED BY <2>1, <2>2, <2>5, ThenReply
<1>4. QED BY <1>2, <1>3

-----------------------------------------------------------------------------
(* Transfers.                                                              *)

(* A command with one more reply to send sends it.                         *)
LEMMA LastReply ==
  ASSUME NEW s, Sound(s), Owes(s, 1), NEW n \in Nat, n >= 200
  PROVE FtpdInv(cmd(reply(s, n)))
<1>1. /\ Sound(reply(s, n)) /\ OneReply(s, reply(s, n))
  BY ReplyAnswers
<1>2. Owes(reply(s, n), 0)
  BY <1>1
<1>3. QED BY <1>1, <1>2, CmdDone

(* The loop starts.                                                        *)
LEMMA MovesDone ==
  ASSUME NEW s, Sound(s), Owes(s, 1), NEW fd \in Fds \union {None},
         NEW n \in {125, 150}
  PROVE FtpdInv(Moves(s, fd, n))
<1> DEFINE t == Looping(s, fd)
<1>1. s \in FtpdType
  BY DEF Sound
<1>2. reply(s, n) = s
  BY DEF reply
<1>3. Moves(s, fd, n) = t
  BY <1>2 DEF Moves, Looping
<1>4. /\ t \in FtpdType /\ SameLogin(s, t) /\ SameData(s, t)
      /\ SameStep(s, t) /\ t.pc = "transfer"
  BY <1>1, LoopFacts
<1> HIDE DEF t
<1>5. Sound(t)
  BY <1>4, SoundKept
<1>6. StepOK(t) /\ PrepOK(t)
  BY <1>4 DEF StepOK, PrepOK, SameStep
<1>7. QED BY <1>3, <1>5, <1>6 DEF FtpdInv

(* The server connects to the client.                                      *)
LEMMA GetdatasockDone ==
  ASSUME NEW s, Sound(s), Owes(s, 1), s.pdata = None,
         NEW works \in BOOLEAN
  PROVE FtpdInv(getdatasock(s, works))
<1>1. s \in FtpdType /\ LoginOK(s)
  BY DEF Sound
<1>2. CASE works /\ Unused(s) # {}
  <2>1. PICK fd : fd = CHOOSE f \in Unused(s) : \A g \in Unused(s) : f <= g
    OBVIOUS
  <2> DEFINE t == [s EXCEPT !.data = fd, !.connected = @ \union {fd}]
  <2>2. fd \in Fds /\ fd # None
    BY <1>2, <2>1, LowestUnused
  <2>3. getdatasock(s, works) = Moves(t, fd, 150)
    BY <1>2, <2>1 DEF getdatasock
  <2>4. /\ t \in FtpdType /\ SameLogin(s, t) /\ SameStep(s, t)
        /\ t.pdata = s.pdata /\ t.data = fd /\ Open(t) = Open(s) \union {fd}
    BY <1>1, <2>2, ConnectFacts
  <2> HIDE DEF t
  <2>5. LiveOK(t)
    BY <2>2, <2>4 DEF LiveOK
  <2>6. Sound(t)
    BY <1>1, <2>4, <2>5, LoginKept DEF Sound
  <2>7. Owes(t, 1)
    BY <2>4 DEF SameStep
  <2>8. QED BY <2>2, <2>3, <2>6, <2>7, MovesDone
<1>3. CASE ~(works /\ Unused(s) # {})
  <2> DEFINE t == [s EXCEPT !.data = None]
  <2>1. getdatasock(s, works) = cmd(reply(t, 425))
    BY <1>3 DEF getdatasock
  <2>2. /\ t \in FtpdType /\ SameLogin(s, t) /\ SameStep(s, t)
        /\ t.data = None /\ t.pdata = s.pdata
    BY <1>1, NoDataFacts
  <2> HIDE DEF t
  <2>3. LiveOK(t)
    BY <2>2 DEF LiveOK
  <2>4. Sound(t)
    BY <1>1, <2>2, <2>3, LoginKept DEF Sound
  <2>5. Owes(t, 1)
    BY <2>2 DEF SameStep
  <2>6. QED BY <2>1, <2>4, <2>5, LastReply
<1>4. QED BY <1>2, <1>3

(* dataconn: wait for the client, use the connection there is, or connect. *)
LEMMA DataconnDone ==
  ASSUME NEW s, Sound(s), Owes(s, 1), NEW works \in BOOLEAN
  PROVE FtpdInv(dataconn(s, works))
<1> DEFINE d == [s EXCEPT !.usedefault = TRUE]
           w == [s EXCEPT !.pc = "accept", !.alarm = TRUE]
<1>1. s \in FtpdType
  BY DEF Sound
<1>2. s.data \in Fds \union {None}
  BY <1>1 DEF FtpdType
<1>3. Sound(d) /\ SameStep(s, d) /\ SameData(s, d)
  BY DefaultSound
<1>4. /\ w \in FtpdType /\ SameLogin(s, w) /\ SameData(s, w)
      /\ SameStep(s, w) /\ w.pc = "accept"
  BY <1>1, WaitFacts
<1>5. dataconn(s, works) = IF s.pdata # None THEN w
                           ELSE IF s.data # None THEN Moves(d, s.data, 125)
                           ELSE getdatasock(d, works)
  BY DEF dataconn
<1> HIDE DEF d, w
<1>6. Owes(d, 1) /\ d.pdata = s.pdata
  BY <1>3 DEF SameStep, SameData
<1>7. CASE s.pdata # None
  <2>1. Sound(w)
    BY <1>4, SoundKept
  <2>2. StepOK(w) /\ PrepOK(w)
    BY <1>4 DEF StepOK, PrepOK, SameStep
  <2>3. QED BY <1>5, <1>7, <2>1, <2>2 DEF FtpdInv
<1>8. CASE s.pdata = None /\ s.data # None
  <2>1. FtpdInv(Moves(d, s.data, 125))
    BY <1>2, <1>3, <1>6, MovesDone
  <2>2. QED BY <1>5, <1>8, <2>1
<1>9. CASE s.pdata = None /\ s.data = None
  <2>1. FtpdInv(getdatasock(d, works))
    BY <1>3, <1>6, <1>9, GetdatasockDone
  <2>2. QED BY <1>5, <1>9, <2>1
<1>10. QED BY <1>7, <1>8, <1>9

(* accept (): the connection takes the place of the passive socket.        *)
LEMMA AcceptedDone ==
  ASSUME NEW s, FtpdInv(s), s.pc = "accept", NEW works \in BOOLEAN
  PROVE FtpdInv(Accepted(s, works))
<1> DEFINE c == Close(s, s.pdata)
<1>1. s \in FtpdType /\ LoginOK(s) /\ LiveOK(s)
  BY DEF FtpdInv, Sound
<1>2. s.pdata \in Fds \union {None} /\ s.listening \subseteq Fds
  BY <1>1 DEF FtpdType
<1>3. Owes(s, 1)
  BY DEF FtpdInv, StepOK
<1>4. /\ c \in FtpdType /\ SameLogin(s, c) /\ SameStep(s, c)
      /\ c.data = s.data /\ Open(c) = Open(s) \ {s.pdata}
  BY <1>1, <1>2, CloseFacts
<1>5. LoginOK(c) /\ Owes(c, 1)
  BY <1>1, <1>3, <1>4, LoginKept DEF SameStep
<1>6. CASE works /\ s.pdata \in s.listening
  <2>1. PICK fd : fd = CHOOSE f \in Unused(c) : \A g \in Unused(c) : f <= g
    OBVIOUS
  <2> DEFINE t == [c EXCEPT !.pdata = fd, !.connected = @ \union {fd}]
  <2>2. Accepted(s, works) = Moves(t, fd, 150)
    BY <1>6, <2>1 DEF Accepted
  <2> HIDE DEF c
  <2>3. s.pdata \in Unused(c)
    BY <1>2, <1>4, <1>6 DEF Unused
  <2>4. fd \in Fds /\ fd \notin Open(c) /\ fd # None
    BY <2>1, <2>3, LowestUnused
  <2>5. /\ t \in FtpdType /\ SameLogin(c, t) /\ SameStep(c, t)
        /\ t.pdata = fd /\ t.data = c.data /\ Open(t) = Open(c) \union {fd}
    BY <1>4, <2>4, AcceptFacts
  <2> HIDE DEF t
  <2>6. LiveOK(t)
    BY <1>1, <1>4, <2>4, <2>5 DEF LiveOK
  <2>7. Sound(t)
    BY <1>5, <2>5, <2>6, LoginKept DEF Sound
  <2>8. Owes(t, 1)
    BY <1>5, <2>5 DEF SameStep
  <2>9. QED BY <2>2, <2>4, <2>7, <2>8, MovesDone
<1>7. CASE ~(works /\ s.pdata \in s.listening)
  <2> DEFINE t == [c EXCEPT !.pdata = None]
  <2>1. Accepted(s, works) = cmd(reply(t, 425))
    BY <1>7 DEF Accepted
  <2> HIDE DEF c
  <2>2. /\ t \in FtpdType /\ SameLogin(c, t) /\ SameStep(c, t)
        /\ t.pdata = None /\ t.data = c.data /\ t.listening = c.listening
        /\ t.connected = c.connected
    BY <1>4, PdataFacts
  <2> HIDE DEF t
  <2>3. Open(t) = Open(c)
    BY <2>2 DEF Open
  <2>4. LiveOK(t)
    BY <1>1, <1>4, <2>2, <2>3 DEF LiveOK
  <2>5. Sound(t)
    BY <1>5, <2>2, <2>4, LoginKept DEF Sound
  <2>6. Owes(t, 1)
    BY <1>5, <2>2 DEF SameStep
  <2>7. QED BY <2>1, <2>5, <2>6, LastReply
<1>8. QED BY <1>6, <1>7

(* RETR and LIST.                                                          *)
LEMMA RetrieveDone ==
  ASSUME NEW s, Sound(s), Owes(s, 1),
         NEW file \in {"missing", "short", "good"}, NEW works \in BOOLEAN
  PROVE FtpdInv(retrieve(s, file, works))
<1>1. \/ retrieve(s, file, works) = cmd(reply(s, 550))
      \/ retrieve(s, file, works) = cmd(reply(s, 554))
      \/ retrieve(s, file, works) = dataconn(s, works)
  BY DEF retrieve, ftpd_popen
<1>2. FtpdInv(cmd(reply(s, 550))) /\ FtpdInv(cmd(reply(s, 554)))
  BY LastReply
<1>3. FtpdInv(dataconn(s, works))
  BY DataconnDone
<1>4. QED BY <1>1, <1>2, <1>3

(* STOR, APPE and STOU.                                                    *)
LEMMA StoreDone ==
  ASSUME NEW s, Sound(s), Owes(s, 1),
         NEW file \in {"missing", "short", "good"}, NEW works \in BOOLEAN
  PROVE FtpdInv(store(s, file, works))
<1>1. \/ store(s, file, works) = cmd(reply(s, 553))
      \/ store(s, file, works) = cmd(reply(s, 554))
      \/ store(s, file, works) = dataconn(s, works)
  BY DEF store, gunique
<1>2. FtpdInv(cmd(reply(s, 553))) /\ FtpdInv(cmd(reply(s, 554)))
  BY LastReply
<1>3. FtpdInv(dataconn(s, works))
  BY DataconnDone
<1>4. QED BY <1>1, <1>2, <1>3

(* NLST.                                                                   *)
LEMMA ListDone ==
  ASSUME NEW s, Sound(s), Owes(s, 1),
         NEW file \in {"missing", "short", "good"}, NEW works \in BOOLEAN
  PROVE FtpdInv(send_file_list(s, file, works))
<1> DEFINE r == reply(s, 550)
           t == [r EXCEPT !.data = None, !.pdata = None]
<1>1. \/ send_file_list(s, file, works) = cmd(reply(s, 550))
      \/ send_file_list(s, file, works) = cmd(t)
      \/ send_file_list(s, file, works) = dataconn(s, works)
  BY DEF send_file_list
<1>2. FtpdInv(cmd(reply(s, 550)))
  BY LastReply
<1>3. FtpdInv(dataconn(s, works))
  BY DataconnDone
<1>4. Sound(r) /\ OneReply(s, r)
  BY ReplyAnswers
<1> HIDE DEF r
<1>5. r \in FtpdType /\ LoginOK(r)
  BY <1>4 DEF Sound
<1>6. /\ t \in FtpdType /\ SameLogin(r, t) /\ SameStep(r, t)
      /\ t.data = None /\ t.pdata = None
  BY <1>5, ShutFacts
<1> HIDE DEF t
<1>7. LiveOK(t)
  BY <1>6 DEF LiveOK
<1>8. Sound(t)
  BY <1>5, <1>6, <1>7, LoginKept DEF Sound
<1>9. Owes(t, 0)
  BY <1>4, <1>6 DEF SameStep
<1>10. FtpdInv(cmd(t))
  BY <1>8, <1>9, CmdDone
<1>11. QED BY <1>1, <1>2, <1>3, <1>10

(* The data connection is closed and forgotten.                            *)
LEMMA ClosedFacts ==
  ASSUME NEW s, Sound(s)
  PROVE Sound(Closed(s)) /\ SameStep(s, Closed(s)) /\ Closed(s).pc = s.pc
<1> DEFINE c == Close(s, s.dout)
           t == Closed(s)
<1>1. s \in FtpdType /\ LoginOK(s)
  BY DEF Sound
<1>2. s.dout \in Fds \union {None}
  BY <1>1 DEF FtpdType
<1>3. c \in FtpdType /\ SameLogin(s, c) /\ SameStep(s, c) /\ c.pc = s.pc
  BY <1>1, <1>2, CloseFacts
<1>4. t = [c EXCEPT !.data = None, !.pdata = None, !.dout = None,
                    !.transflag = FALSE]
  BY DEF Closed
<1> HIDE DEF c, t
<1>5. /\ t \in FtpdType /\ SameLogin(c, t) /\ SameStep(c, t) /\ t.pc = c.pc
      /\ t.data = None /\ t.pdata = None
  BY <1>3, <1>4, DoneFacts
<1>6. LiveOK(t)
  BY <1>5 DEF LiveOK
<1>7. LoginOK(t)
  BY <1>1, <1>3, <1>5, LoginKept
<1>8. QED BY <1>3, <1>5, <1>6, <1>7 DEF Sound, SameStep, t

(* The loops end with one reply.                                           *)
LEMMA TransferDone ==
  ASSUME NEW s, Sound(s), Owes(s, 1), NEW n \in Nat, n >= 200
  PROVE FtpdInv(cmd(Closed(reply(s, n))))
<1> DEFINE r == reply(s, n)
           c == Closed(r)
<1>1. Sound(r) /\ OneReply(s, r)
  BY ReplyAnswers
<1> HIDE DEF r
<1>2. Sound(c) /\ SameStep(r, c)
  BY <1>1, ClosedFacts
<1> HIDE DEF c
<1>3. Owes(c, 0)
  BY <1>1, <1>2 DEF SameStep
<1>4. FtpdInv(cmd(c))
  BY <1>2, <1>3, CmdDone
<1>5. QED BY <1>4 DEF c, r

(* ABOR: both the command and the abort have been answered.                *)
LEMMA AbortedDone ==
  ASSUME NEW s, Sound(s), Owes(s, 0)
  PROVE FtpdInv(Aborted(s))
<1> DEFINE l == [s EXCEPT !.transflag = FALSE, !.dout = None]
           c == Closed(s)
<1>1. s \in FtpdType
  BY DEF Sound
<1>2. Aborted(s) = cmd(l) \/ Aborted(s) = cmd(c)
  BY DEF Aborted
<1>3. /\ l \in FtpdType /\ SameLogin(s, l) /\ SameData(s, l)
      /\ SameStep(s, l)
  BY <1>1, LeftFacts
<1>4. Sound(c) /\ SameStep(s, c)
  BY ClosedFacts
<1> HIDE DEF l, c
<1>5. Sound(l)
  BY <1>3, SoundKept
<1>6. Owes(l, 0) /\ Owes(c, 0)
  BY <1>3, <1>4 DEF SameStep
<1>7. FtpdInv(cmd(l)) /\ FtpdInv(cmd(c))
  BY <1>4, <1>5, <1>6, CmdDone
<1>8. QED BY <1>2, <1>7

(* A second reply to one line, after which the client is out of step.      *)
LEMMA SkewSound ==
  ASSUME NEW s, Sound(s)
  PROVE /\ Sound(Skew(s)) /\ Skew(s).pc = s.pc /\ Skew(s).skewed = TRUE
        /\ SamePrep(s, Skew(s)) /\ Skew(s).owed = s.owed
<1>1. s \in FtpdType
  BY DEF Sound
<1>2. /\ Skew(s) \in FtpdType /\ SameLogin(s, Skew(s)) /\ SameData(s, Skew(s))
      /\ Skew(s).pc = s.pc /\ Skew(s).skewed = TRUE
      /\ SamePrep(s, Skew(s)) /\ Skew(s).owed = s.owed
  BY <1>1, SkewFacts
<1>3. Sound(Skew(s))
  BY <1>2, SoundKept
<1>4. QED BY <1>2, <1>3

(* The line saved before is lost.                                          *)
LEMMA ForgottenDone ==
  ASSUME NEW s, FtpdInv(s), s.pc = "transfer", s.tmpline # "none"
  PROVE FtpdInv(Forgotten(s))
<1> DEFINE k == IF s.tmpline = "other" THEN Skew(s) ELSE s
           t == [k EXCEPT !.tmpline = "none"]
<1>1. Sound(s) /\ StepOK(s) /\ s.tmpline \in {"none", "STAT", "other"}
  BY DEF FtpdInv, Sound, FtpdType
<1>2. Forgotten(s) = t
  BY DEF Forgotten
<1>3. Sound(k) /\ k.pc = s.pc
  BY <1>1, SkewSound
<1>4. ~k.skewed => s.tmpline = "STAT" /\ k = s
  <2>1. s.tmpline = "other" => k.skewed = TRUE
    BY <1>1, SkewSound
  <2>2. QED BY <1>1, <2>1
<1> HIDE DEF k
<1>5. k \in FtpdType
  BY <1>3 DEF Sound
<1>6. /\ t \in FtpdType /\ SameLogin(k, t) /\ SameData(k, t) /\ t.pc = k.pc
      /\ t.tmpline = "none" /\ t.owed = k.owed /\ t.skewed = k.skewed
  BY <1>5, TmplineFacts
<1> HIDE DEF t
<1>7. Sound(t)
  BY <1>3, <1>6, SoundKept
<1>8. StepOK(t) /\ PrepOK(t)
  BY <1>1, <1>3, <1>4, <1>6 DEF StepOK, PrepOK
<1>9. QED BY <1>2, <1>7, <1>8 DEF FtpdInv

(* A line is saved in tmpline.                                             *)
LEMMA SavedDone ==
  ASSUME NEW u, Sound(u), u.pc = "transfer", u.tmpline = "none",
         NEW l \in {"STAT", "other"}, Owes(u, IF l = "other" THEN 2 ELSE 1)
  PROVE FtpdInv([u EXCEPT !.tmpline = l])
<1> DEFINE t == [u EXCEPT !.tmpline = l]
<1>1. u \in FtpdType
  BY DEF Sound
<1>2. /\ t \in FtpdType /\ SameLogin(u, t) /\ SameData(u, t) /\ t.pc = u.pc
      /\ t.tmpline = l /\ t.owed = u.owed /\ t.skewed = u.skewed
  <2> HIDE DEF Held, Owes, OneReply
  <2>1. l \in {"none", "STAT", "other"}
    OBVIOUS
  <2>2. QED BY <1>1, <2>1, TmplineFacts
<1> HIDE DEF t
<1>3. Sound(t)
  BY <1>2, SoundKept
<1>4. StepOK(t) /\ PrepOK(t)
  BY <1>2 DEF StepOK, PrepOK
<1>5. QED BY <1>3, <1>4 DEF FtpdInv, t

(* SIGURG during a transfer.                                               *)
LEMMA UrgentDone ==
  ASSUME NEW s, FtpdInv(s), s.pc = "transfer", NEW line \in {"ABOR", "STAT", "other"}
  PROVE FtpdInv(myoob(s, line))
<1> DEFINE t == [s EXCEPT !.owed = @ + 1]
<1>1. s \in FtpdType /\ Sound(s)
  BY DEF FtpdInv, Sound
<1>2. Owes(s, 1)
  BY DEF FtpdInv, StepOK
<1>3. /\ t \in FtpdType /\ SameLogin(s, t) /\ SameData(s, t)
      /\ t.pc = s.pc /\ t.owed = s.owed + 1 /\ t.skewed = s.skewed
      /\ t.tmpline = s.tmpline
  BY <1>1, UrgentFacts
<1>4. /\ s.tmpline # "none" => myoob(s, line) = Forgotten(s)
      /\ s.tmpline = "none" =>
           /\ line = "ABOR" => myoob(s, line) = Aborted(reply(reply(t, 426), 226))
           /\ line = "STAT" =>
                myoob(s, line) = [reply(t, 213) EXCEPT !.tmpline = "STAT"]
           /\ line = "other" => myoob(s, line) = [t EXCEPT !.tmpline = "other"]
  BY DEF myoob
<1> HIDE DEF t
<1>5. Sound(t)
  BY <1>1, <1>3, SoundKept
<1>6. Owes(t, 2)
  BY <1>1, <1>2, <1>3 DEF FtpdType
<1>7. CASE s.tmpline # "none"
  BY <1>4, <1>7, ForgottenDone
<1>8. CASE s.tmpline = "none" /\ line = "ABOR"
  <2> DEFINE u == reply(t, 426)
             v == reply(u, 226)
  <2>1. Sound(u) /\ OneReply(t, u)
    BY <1>5, ReplyAnswers
  <2> HIDE DEF u
  <2>2. Sound(v) /\ OneReply(u, v)
    BY <2>1, ReplyAnswers
  <2> HIDE DEF v
  <2>3. Owes(v, 0)
    BY <1>6, <2>1, <2>2
  <2>4. FtpdInv(Aborted(v))
    BY <2>2, <2>3, AbortedDone
  <2>5. QED BY <1>4, <1>8, <2>4 DEF u, v
<1>9. CASE s.tmpline = "none" /\ line = "STAT"
  <2> DEFINE u == reply(t, 213)
  <2>1. Sound(u) /\ u.pc = t.pc /\ OneReply(t, u)
    BY <1>5, ReplyAnswers
  <2> HIDE DEF u
  <2>2. Owes(u, 1) /\ u.pc = "transfer" /\ u.tmpline = "none"
    BY <1>3, <1>6, <1>9, <2>1
  <2>3. FtpdInv([u EXCEPT !.tmpline = "STAT"])
    BY <2>1, <2>2, SavedDone
  <2>4. QED BY <1>4, <1>9, <2>3 DEF u
<1>10. CASE s.tmpline = "none" /\ line = "other"
  <2>1. FtpdInv([t EXCEPT !.tmpline = "other"])
    BY <1>3, <1>5, <1>6, <1>10, SavedDone
  <2>2. QED BY <1>4, <1>10, <2>1
<1>11. QED BY <1>7, <1>8, <1>9, <1>10

-----------------------------------------------------------------------------
(* REST and RNFR, and lines that are refused.                              *)

(* The parser goes on without forgetting what was prepared.                *)
LEMMA NextDone ==
  ASSUME NEW t, Sound(t), Owes(t, 0),
         t.restart_point => t.last \in {"REST", "error"},
         t.fromname => t.last \in {"RNFR", "error"}
  PROVE FtpdInv(NextCommand(t))
<1> DEFINE u == NextCommand(t)
<1>1. t \in FtpdType
  BY DEF Sound
<1>2. /\ u \in FtpdType /\ SameLogin(t, u) /\ SameData(t, u)
      /\ SameStep(t, u) /\ SamePrep(t, u)
      /\ u.pc = (IF t.pc = "exited" THEN "exited" ELSE "command")
  BY <1>1, NextCommandFacts
<1> HIDE DEF u
<1>3. Sound(u)
  BY <1>2, SoundKept
<1>4. StepOK(u)
  BY <1>2 DEF StepOK, SameStep
<1>5. PrepOK(u)
  BY <1>2 DEF PrepOK, SamePrep
<1>6. QED BY <1>3, <1>4, <1>5 DEF FtpdInv, u

(* The parser starts afresh.                                               *)
LEMMA ErrcatchDone ==
  ASSUME NEW t, Sound(t), Owes(t, 0),
         t.restart_point => t.last \in {"REST", "error"},
         t.fromname => t.last \in {"RNFR", "error"}
  PROVE FtpdInv(errcatch(t))
<1> DEFINE u == NextCommand(t)
           v == [u EXCEPT !.yynerrs = FALSE]
<1>1. FtpdInv(u)
  BY NextDone
<1>2. errcatch(t) = v
  BY DEF errcatch
<1> HIDE DEF u
<1>3. u \in FtpdType /\ Sound(u)
  BY <1>1 DEF FtpdInv, Sound
<1>4. /\ v \in FtpdType /\ SameLogin(u, v) /\ SameData(u, v)
      /\ SameStep(u, v) /\ SamePrep(u, v) /\ v.pc = u.pc
  BY <1>3, ErrorsFacts
<1> HIDE DEF v
<1>5. Sound(v)
  BY <1>3, <1>4, SoundKept
<1>6. StepOK(v)
  BY <1>1, <1>4 DEF FtpdInv, StepOK, SameStep
<1>7. PrepOK(v)
  BY <1>1, <1>4 DEF FtpdInv, PrepOK, SamePrep
<1>8. QED BY <1>2, <1>5, <1>6, <1>7 DEF FtpdInv

(* The offset of REST is changed.                                          *)
LEMMA RestSound ==
  ASSUME NEW s, Sound(s), NEW b \in BOOLEAN
  PROVE LET t == [s EXCEPT !.restart_point = b] IN
        /\ Sound(t) /\ SameStep(s, t) /\ t.pc = s.pc /\ t.restart_point = b
        /\ t.fromname = s.fromname /\ t.last = s.last
        /\ t.logged_in = s.logged_in
<1> DEFINE t == [s EXCEPT !.restart_point = b]
<1>1. s \in FtpdType
  BY DEF Sound
<1>2. /\ t \in FtpdType /\ SameLogin(s, t) /\ SameData(s, t)
      /\ SameStep(s, t) /\ t.pc = s.pc /\ t.restart_point = b
      /\ t.fromname = s.fromname /\ t.last = s.last
  BY <1>1, RestFacts
<1> HIDE DEF t
<1>3. Sound(t)
  BY <1>2, SoundKept
<1>4. t.logged_in = s.logged_in
  BY <1>2 DEF SameLogin
<1>5. QED BY <1>2, <1>3, <1>4 DEF t

(* The name of RNFR is changed.                                            *)
LEMMA FromSound ==
  ASSUME NEW s, Sound(s), NEW b \in BOOLEAN
  PROVE LET t == [s EXCEPT !.fromname = b] IN
        /\ Sound(t) /\ SameStep(s, t) /\ t.pc = s.pc /\ t.fromname = b
        /\ t.restart_point = s.restart_point /\ t.last = s.last
<1> DEFINE t == [s EXCEPT !.fromname = b]
<1>1. s \in FtpdType
  BY DEF Sound
<1>2. /\ t \in FtpdType /\ SameLogin(s, t) /\ SameData(s, t)
      /\ SameStep(s, t) /\ t.pc = s.pc /\ t.fromname = b
      /\ t.restart_point = s.restart_point /\ t.last = s.last
  BY <1>1, FromFacts
<1> HIDE DEF t
<1>3. Sound(t)
  BY <1>2, SoundKept
<1>4. QED BY <1>2, <1>3 DEF t

(* REST.                                                                   *)
LEMMA RestDone ==
  ASSUME NEW s, Sound(s), Owes(s, 1), s.last = "REST"
  PROVE FtpdInv(NextCommand(REST(s)))
<1> DEFINE t == [s EXCEPT !.fromname = FALSE, !.restart_point = TRUE]
           r == reply(t, 350)
<1>1. s \in FtpdType
  BY DEF Sound
<1>2. /\ t \in FtpdType /\ SameLogin(s, t) /\ SameData(s, t)
      /\ SameStep(s, t) /\ t.restart_point = TRUE /\ t.fromname = FALSE
      /\ t.last = s.last
  BY <1>1, ForgetFacts
<1> HIDE DEF t
<1>3. Sound(t)
  BY <1>2, SoundKept
<1>4. Sound(r) /\ SamePrep(t, r) /\ OneReply(t, r)
  BY <1>3, ReplyAnswers
<1> HIDE DEF r
<1>5. Owes(r, 0) /\ r.fromname = FALSE /\ r.last = "REST"
  BY <1>2, <1>4 DEF SameStep, SamePrep
<1>6. FtpdInv(NextCommand(r))
  BY <1>4, <1>5, NextDone
<1>7. QED BY <1>6 DEF REST, r, t

(* RNFR.                                                                   *)
LEMMA RenamefromDone ==
  ASSUME NEW s, Sound(s), Owes(s, 1), s.last = "RNFR",
         s.restart_point = FALSE, NEW exists \in BOOLEAN
  PROVE FtpdInv(NextCommand(renamefrom(s, exists)))
<1> DEFINE n == IF exists THEN 350 ELSE 550
           t == [s EXCEPT !.fromname = exists]
           r == reply(t, n)
<1>1. n \in Nat /\ n >= 200
  OBVIOUS
<1>2. renamefrom(s, exists) = r
  <2>1. exists = TRUE \/ exists = FALSE
    OBVIOUS
  <2>2. QED BY <2>1 DEF renamefrom
<1> HIDE DEF n
<1>3. /\ Sound(t) /\ SameStep(s, t) /\ t.restart_point = s.restart_point
      /\ t.last = s.last
  BY FromSound
<1> HIDE DEF t
<1>4. /\ Sound(r) /\ SamePrep(t, r) /\ OneReply(t, r)
  BY <1>1, <1>3, ReplyAnswers
<1> HIDE DEF r
<1>5. Owes(r, 0) /\ r.restart_point = FALSE /\ r.last = "RNFR"
  BY <1>3, <1>4 DEF SameStep, SamePrep
<1>6. FtpdInv(NextCommand(r))
  BY <1>4, <1>5, NextDone
<1>7. QED BY <1>2, <1>6

(* RNTO.                                                                   *)
LEMMA RntoDone ==
  ASSUME NEW s, Sound(s), Owes(s, 1), NEW found \in BOOLEAN
  PROVE FtpdInv(cmd(RNTO(s, found)))
<1> DEFINE p == pathname(s, found)
           n == IF s.fromname THEN 250 ELSE 503
<1>1. Sound(p) /\ Owes(p, 1)
  <2>1. CASE found
    BY <2>1 DEF pathname
  <2>2. CASE ~found
    <3>1. Sound(reply(s, 550))
      BY ReplyAnswers
    <3>2. Sound(Skew(reply(s, 550))) /\ Skew(reply(s, 550)).skewed = TRUE
      BY <3>1, SkewSound, ZenonT(60)
    <3>3. QED BY <2>2, <3>2 DEF pathname
  <2>3. QED BY <2>1, <2>2
<1>2. n \in Nat /\ n >= 200
  OBVIOUS
<1>3. RNTO(s, found) = reply(p, n)
  BY DEF RNTO
<1> HIDE DEF p, n
<1>4. QED BY <1>1, <1>2, <1>3, LastReply

(* A line no command begins, and one of a command that is not implemented. *)
LEMMA NoCommandDone ==
  ASSUME NEW s, FtpdInv(s), s.pc = "command", s.tmpline # "STAT"
  PROVE FtpdInv(Unrecognised(s)) /\ FtpdInv(Unimplemented(s))
<1> DEFINE t == [telnet_fgets(s) EXCEPT !.alarm = FALSE]
<1>1. s \in FtpdType /\ Sound(s)
  BY DEF FtpdInv, Sound
<1>2. /\ t \in FtpdType /\ SameLogin(s, t) /\ SameData(s, t)
      /\ SamePrep(s, t) /\ t.skewed = s.skewed /\ t.tmpline = "none"
      /\ t.owed = (IF s.tmpline = "none" THEN s.owed + 1 ELSE s.owed)
  BY <1>1, LineFacts
<1>3. /\ \/ Unrecognised(s) = errcatch(Skew(t))
         \/ Unrecognised(s) = errcatch(reply(t, 500))
      /\ Unimplemented(s) = errcatch(reply(t, 502))
  BY DEF Unrecognised, Unimplemented
<1> HIDE DEF t
<1>4. Sound(t)
  BY <1>1, <1>2, SoundKept
<1>5. /\ Owes(t, 1)
      /\ t.restart_point => t.last \in {"REST", "error"}
      /\ t.fromname => t.last \in {"RNFR", "error"}
  BY <1>1, <1>2 DEF FtpdInv, StepOK, PrepOK, SamePrep, FtpdType
<1>6. FtpdInv(errcatch(Skew(t)))
  <2>1. /\ Sound(Skew(t)) /\ Skew(t).skewed = TRUE /\ SamePrep(t, Skew(t))
    BY <1>4, SkewSound
  <2>2. /\ Skew(t).restart_point => Skew(t).last \in {"REST", "error"}
        /\ Skew(t).fromname => Skew(t).last \in {"RNFR", "error"}
    BY <1>5, <2>1 DEF SamePrep
  <2>3. QED BY <2>1, <2>2, ErrcatchDone
<1>7. ASSUME NEW n \in Nat, n >= 200 PROVE FtpdInv(errcatch(reply(t, n)))
  <2> DEFINE r == reply(t, n)
  <2>1. /\ Sound(r) /\ SamePrep(t, r) /\ OneReply(t, r)
    BY <1>4, <1>7, ReplyAnswers
  <2> HIDE DEF r
  <2>2. /\ Owes(r, 0)
        /\ r.restart_point => r.last \in {"REST", "error"}
        /\ r.fromname => r.last \in {"RNFR", "error"}
    BY <1>5, <2>1 DEF SamePrep
  <2>3. FtpdInv(errcatch(r))
    BY <2>1, <2>2, ErrcatchDone
  <2>4. QED BY <2>3 DEF r
<1>8. FtpdInv(errcatch(reply(t, 500))) /\ FtpdInv(errcatch(reply(t, 502)))
  BY <1>7
<1>9. QED BY <1>3, <1>6, <1>8

(* A command with arguments that do not fit.                               *)
LEMMA MalformedDone ==
  ASSUME NEW s, FtpdInv(s), s.pc = "command", s.tmpline # "STAT",
         NEW checked \in BOOLEAN, NEW known \in BOOLEAN
  PROVE FtpdInv(Malformed(s, checked, known))
<1> DEFINE y == yylex(s, "error")
           t == [y EXCEPT !.yynerrs = TRUE]
           w == reply(t, 530)
           u == IF checked /\ ~s.logged_in THEN Skew(w) ELSE t
           r == reply(u, 500)
<1>1. Malformed(s, checked, known) = IF known THEN cmd(r) ELSE errcatch(r)
  BY DEF Malformed
<1>2. "error" \in Lines
  BY DEF Lines
<1>3. Sound(y) /\ Owes(y, 1) /\ y.last = "error"
  BY <1>2, ReadDone
<1> HIDE DEF y
<1>4. y \in FtpdType
  BY <1>3 DEF Sound
<1>5. /\ t \in FtpdType /\ SameLogin(y, t) /\ SameData(y, t)
      /\ SameStep(y, t) /\ SamePrep(y, t)
  BY <1>4, ErrorsFacts
<1> HIDE DEF t
<1>6. Sound(t)
  BY <1>3, <1>5, SoundKept
<1>7. Owes(t, 1) /\ t.last = "error"
  BY <1>3, <1>5 DEF SameStep, SamePrep
<1>8. Sound(w) /\ SamePrep(t, w)
  BY <1>6, ReplyAnswers
<1> HIDE DEF w
<1>9. Sound(Skew(w)) /\ Skew(w).skewed = TRUE /\ SamePrep(w, Skew(w))
  BY <1>8, SkewSound
<1>10. Skew(w).last = "error"
  BY <1>7, <1>8, <1>9 DEF SamePrep
<1>11. Sound(u) /\ Owes(u, 1) /\ u.last = "error"
  BY <1>6, <1>7, <1>9, <1>10
<1> HIDE DEF u
<1>12. Sound(r) /\ SamePrep(u, r) /\ OneReply(u, r)
  BY <1>11, ReplyAnswers
<1> HIDE DEF r
<1>13. Owes(r, 0) /\ r.last = "error"
  BY <1>11, <1>12 DEF SamePrep
<1>14. FtpdInv(cmd(r))
  BY <1>12, <1>13, CmdDone
<1>15. FtpdInv(errcatch(r))
  BY <1>12, <1>13, ErrcatchDone
<1>16. QED BY <1>1, <1>14, <1>15

-----------------------------------------------------------------------------
(* One lemma for each action.                                              *)

(* Without a login: the reply of check_login is the only one.              *)
LEMMA RefusedDone ==
  ASSUME FtpdInv(ftpd), Refused
  PROVE FtpdInv(ftpd')
<1>1. PICK c \in {"EPRT", "LPRT", "RNFR", "other"} : LoginFirst(c)
  BY DEF Refused
<1> DEFINE y == yylex(ftpd, c)
           t == reply(y, 530)
           e == EPRT(t, FALSE)
           p == [t EXCEPT !.restart_point = FALSE]
           l == long_host_port(t, "invalid")
<1>2. /\ ftpd.pc = "command" /\ ftpd.tmpline # "STAT" /\ ~ftpd.logged_in
      /\ ftpd' = IF c = "EPRT" THEN cmd(e) ELSE IF c = "LPRT" THEN cmd(l)
                 ELSE IF c = "RNFR" THEN NextCommand(p) ELSE cmd(t)
  BY <1>1 DEF LoginFirst, Reads, check_login
<1>3. c \in Lines
  BY DEF Lines
<1>4. /\ Sound(y) /\ Owes(y, 1) /\ y.logged_in = ftpd.logged_in
      /\ y.fromname = ftpd.fromname /\ y.last = c
  BY <1>2, <1>3, ReadDone
<1> HIDE DEF y
<1>5. y \in FtpdType
  BY <1>4 DEF Sound
<1>6. Sound(t) /\ SamePrep(y, t) /\ OneReply(y, t)
  BY <1>4, ReplyAnswers
<1>7. SameLogin(y, t)
  BY <1>5, ReplyFacts
<1> HIDE DEF t
<1>8. Owes(t, 0) /\ ~t.logged_in /\ t.last = c
  BY <1>2, <1>4, <1>6, <1>7 DEF SameLogin, SamePrep
<1>9. CASE c = "EPRT"
  <2>1. Sound(e) /\ SameStep(t, e)
    BY <1>6, <1>8, EprtAnswers
  <2> HIDE DEF e
  <2>2. Owes(e, 0)
    BY <1>8, <2>1 DEF SameStep
  <2>3. FtpdInv(cmd(e))
    BY <2>1, <2>2, CmdDone
  <2>4. QED BY <1>2, <1>9, <2>3
<1>10. CASE c = "RNFR"
  <2>1. /\ Sound(p) /\ SameStep(t, p) /\ p.restart_point = FALSE
        /\ p.last = t.last
    BY <1>6, RestSound
  <2> HIDE DEF p
  <2>2. Owes(p, 0) /\ p.last = "RNFR"
    BY <1>8, <1>10, <2>1 DEF SameStep
  <2>3. FtpdInv(NextCommand(p))
    BY <2>1, <2>2, NextDone
  <2>4. QED BY <1>2, <1>10, <2>3
<1>11. CASE c = "other"
  <2>1. FtpdInv(cmd(t))
    BY <1>6, <1>8, CmdDone
  <2>2. QED BY <1>2, <1>11, <2>1
<1>12. CASE c = "LPRT"
  <2>1. Sound(reply(t, 500))
    BY <1>6, ReplyAnswers
  <2>2. Sound(Skew(reply(t, 500))) /\ Skew(reply(t, 500)).skewed = TRUE
    BY <2>1, SkewSound, ZenonT(60)
  <2>3. l = Skew(reply(t, 500))
    BY DEF long_host_port
  <2> HIDE DEF l
  <2>4. FtpdInv(cmd(l))
    BY <2>2, <2>3, CmdDone
  <2>5. QED BY <1>2, <1>12, <2>4
<1>13. QED BY <1>9, <1>10, <1>11, <1>12

(* USER and PASS.                                                          *)
LEMMA LoginDone ==
  ASSUME FtpdInv(ftpd), Login
  PROVE FtpdInv(ftpd')
<1>1. ftpd.pc = "command" /\ ftpd.tmpline # "STAT"
  BY DEF Login, Reads
<1>2. "USER" \in Lines /\ "PASS" \in Lines
  BY DEF Lines
<1>3. ASSUME NEW n \in Names, ftpd' = cmd(user(yylex(ftpd, "USER"), n))
      PROVE FtpdInv(ftpd')
  <2>1. Sound(yylex(ftpd, "USER"))
    BY <1>1, <1>2, ReadDone
  <2>2. /\ Sound(user(yylex(ftpd, "USER"), n))
        /\ Answered(yylex(ftpd, "USER"), user(yylex(ftpd, "USER"), n))
    BY <2>1, UserAnswers
  <2>3. QED BY <1>1, <1>2, <1>3, <2>2, AnsweredDone
<1>4. ASSUME NEW p \in Known, NEW works \in BOOLEAN,
             ftpd' = cmd(pass(yylex(ftpd, "PASS"), p, works))
      PROVE FtpdInv(ftpd')
  <2>1. Sound(yylex(ftpd, "PASS"))
    BY <1>1, <1>2, ReadDone
  <2>2. /\ Sound(pass(yylex(ftpd, "PASS"), p, works))
        /\ Answered(yylex(ftpd, "PASS"), pass(yylex(ftpd, "PASS"), p, works))
    BY <2>1, PassAnswers
  <2>3. QED BY <1>1, <1>2, <1>4, <2>2, AnsweredDone
<1>5. QED BY <1>3, <1>4 DEF Login

(* Every code of the commands with one reply is that of a final reply.     *)
LEMMA CodesFinal ==
  ASSUME NEW n \in WithLogin \union WithoutLogin
  PROVE n \in Nat /\ n >= 200
BY DEF WithLogin, WithoutLogin, delete, cwd, makedir, removedir, pwd,
       statfilecmd, statcmd, help, sizecmd, MDTM, FEAT, UMASK, CHMOD, TYPE,
       STRU, SYST, ABOR, NOOP, IDLE

(* Commands with one reply and nothing else.                               *)
LEMMA SimpleDone ==
  ASSUME FtpdInv(ftpd), Simple
  PROVE FtpdInv(ftpd')
<1>1. PICK n \in WithLogin \union WithoutLogin :
        ftpd' = cmd(reply(yylex(ftpd, "simple"), n))
  BY DEF Simple
<1>2. ftpd.pc = "command" /\ ftpd.tmpline # "STAT"
  BY DEF Simple, Reads
<1>3. "simple" \in Lines
  BY DEF Lines
<1>4. n \in Nat /\ n >= 200
  BY CodesFinal
<1> DEFINE y == yylex(ftpd, "simple")
<1>5. Sound(y) /\ Owes(y, 1)
  BY <1>2, <1>3, ReadDone
<1> HIDE DEF y
<1>6. FtpdInv(cmd(reply(y, n)))
  BY <1>4, <1>5, LastReply
<1>7. QED BY <1>1, <1>6 DEF y

(* PORT, EPRT, LPRT and PASV.                                              *)
LEMMA AddressDone ==
  ASSUME FtpdInv(ftpd), Address
  PROVE FtpdInv(ftpd')
<1>1. ftpd.pc = "command" /\ ftpd.tmpline # "STAT" /\ ftpd.logged_in
  BY DEF Address, Reads, check_login
<1>2. \A c \in {"PORT", "EPRT", "PASV", "LPRT"} : c \in Lines
  BY DEF Lines
<1>3. ASSUME NEW c \in {"PORT", "EPRT", "PASV", "LPRT"}
      PROVE Sound(yylex(ftpd, c)) /\ yylex(ftpd, c).logged_in = ftpd.logged_in
  BY <1>1, <1>2, ReadDone
<1>4. ASSUME NEW ok \in BOOLEAN, ftpd' = cmd(PORT(yylex(ftpd, "PORT"), ok))
      PROVE FtpdInv(ftpd')
  <2> DEFINE t == PORT(yylex(ftpd, "PORT"), ok)
  <2>1. Sound(t) /\ Answered(yylex(ftpd, "PORT"), t)
    BY <1>3, PortAnswers
  <2> HIDE DEF t
  <2>2. FtpdInv(cmd(t))
    BY <1>1, <1>2, <2>1, AnsweredDone
  <2>3. QED BY <1>4, <2>2 DEF t
<1>5. ASSUME NEW ok \in BOOLEAN, ftpd' = cmd(EPRT(yylex(ftpd, "EPRT"), ok))
      PROVE FtpdInv(ftpd')
  <2> DEFINE t == EPRT(yylex(ftpd, "EPRT"), ok)
  <2>1. Sound(yylex(ftpd, "EPRT")) /\ yylex(ftpd, "EPRT").logged_in
    BY <1>1, <1>3
  <2>2. Sound(t) /\ Answered(yylex(ftpd, "EPRT"), t)
    BY <2>1, EprtAnswers
  <2> HIDE DEF t
  <2>3. FtpdInv(cmd(t))
    BY <1>1, <1>2, <2>2, AnsweredDone
  <2>4. QED BY <1>5, <2>3 DEF t
<1>6. ASSUME NEW ok \in BOOLEAN, ftpd' = cmd(passive(yylex(ftpd, "PASV"), ok))
      PROVE FtpdInv(ftpd')
  <2> DEFINE t == passive(yylex(ftpd, "PASV"), ok)
  <2>1. Sound(t) /\ Answered(yylex(ftpd, "PASV"), t)
    BY <1>3, PassiveAnswers
  <2> HIDE DEF t
  <2>2. FtpdInv(cmd(t))
    BY <1>1, <1>2, <2>1, AnsweredDone
  <2>3. QED BY <1>6, <2>2 DEF t
<1>7. ASSUME NEW a \in {"good", "foreign", "invalid"},
             ftpd' = cmd(LPRT(yylex(ftpd, "LPRT"), a))
      PROVE FtpdInv(ftpd')
  <2> DEFINE t == LPRT(yylex(ftpd, "LPRT"), a)
  <2>1. Sound(t) /\ Answered(yylex(ftpd, "LPRT"), t)
    BY <1>3, LprtAnswers
  <2> HIDE DEF t
  <2>2. FtpdInv(cmd(t))
    BY <1>1, <1>2, <2>1, AnsweredDone
  <2>3. QED BY <1>7, <2>2 DEF t
<1>8. QED BY <1>4, <1>5, <1>6, <1>7 DEF Address

(* RETR, LIST, STOR, APPE, STOU and NLST.                                  *)
LEMMA TransferStarts ==
  ASSUME FtpdInv(ftpd), Transfer
  PROVE FtpdInv(ftpd')
<1>1. ftpd.pc = "command" /\ ftpd.tmpline # "STAT"
  BY DEF Transfer, Reads
<1>2. ASSUME NEW c \in {"RETR", "LIST", "STOR", "APPE", "STOU", "NLST"}
      PROVE LET y == yylex(ftpd, c) IN Sound(y) /\ Owes(y, 1)
  <2>1. c \in Lines
    BY DEF Lines
  <2>2. QED BY <1>1, <2>1, ReadDone
<1>3. ASSUME NEW file \in {"missing", "short", "good"}, NEW works \in BOOLEAN,
             NEW c \in {"RETR", "LIST"},
             ftpd' = retrieve(yylex(ftpd, c), file, works)
      PROVE FtpdInv(ftpd')
  <2> DEFINE y == yylex(ftpd, c)
  <2>1. Sound(y) /\ Owes(y, 1)
    BY <1>2
  <2> HIDE DEF y
  <2>2. FtpdInv(retrieve(y, file, works))
    BY <2>1, RetrieveDone
  <2>3. QED BY <1>3, <2>2 DEF y
<1>4. ASSUME NEW file \in {"missing", "short", "good"}, NEW works \in BOOLEAN,
             NEW c \in {"STOR", "APPE", "STOU"},
             ftpd' = store(yylex(ftpd, c), file, works)
      PROVE FtpdInv(ftpd')
  <2> DEFINE y == yylex(ftpd, c)
  <2>1. Sound(y) /\ Owes(y, 1)
    BY <1>2
  <2> HIDE DEF y
  <2>2. FtpdInv(store(y, file, works))
    BY <2>1, StoreDone
  <2>3. QED BY <1>4, <2>2 DEF y
<1>5. ASSUME NEW file \in {"missing", "short", "good"}, NEW works \in BOOLEAN,
             ftpd' = send_file_list(yylex(ftpd, "NLST"), file, works)
      PROVE FtpdInv(ftpd')
  <2> DEFINE y == yylex(ftpd, "NLST")
  <2>1. Sound(y) /\ Owes(y, 1)
    BY <1>2
  <2> HIDE DEF y
  <2>2. FtpdInv(send_file_list(y, file, works))
    BY <2>1, ListDone
  <2>3. QED BY <1>5, <2>2 DEF y
<1>6. QED BY <1>3, <1>4, <1>5 DEF Transfer

(* REST, RNFR and RNTO.                                                    *)
LEMMA PrepareDone ==
  ASSUME FtpdInv(ftpd), Prepare
  PROVE FtpdInv(ftpd')
<1>1. ftpd.pc = "command" /\ ftpd.tmpline # "STAT"
  BY DEF Prepare, Reads
<1>2. ASSUME NEW c \in {"REST", "RNFR", "RNTO"}
      PROVE LET y == yylex(ftpd, c) IN
            Sound(y) /\ Owes(y, 1) /\ y.last = c
  <2>1. c \in Lines
    BY DEF Lines
  <2>2. QED BY <1>1, <2>1, ReadDone
<1>3. ASSUME ftpd' = NextCommand(REST(yylex(ftpd, "REST")))
      PROVE FtpdInv(ftpd')
  <2> DEFINE y == yylex(ftpd, "REST")
  <2>1. Sound(y) /\ Owes(y, 1) /\ y.last = "REST"
    BY <1>2
  <2> HIDE DEF y
  <2>2. FtpdInv(NextCommand(REST(y)))
    BY <2>1, RestDone
  <2>3. QED BY <1>3, <2>2 DEF y
<1>4. ASSUME NEW exists \in BOOLEAN,
             ftpd' = NextCommand(renamefrom(
               [yylex(ftpd, "RNFR") EXCEPT !.restart_point = FALSE], exists))
      PROVE FtpdInv(ftpd')
  <2> DEFINE y == yylex(ftpd, "RNFR")
             p == [y EXCEPT !.restart_point = FALSE]
  <2>1. Sound(y) /\ Owes(y, 1) /\ y.last = "RNFR"
    BY <1>2
  <2> HIDE DEF y
  <2>2. /\ Sound(p) /\ SameStep(y, p) /\ p.restart_point = FALSE
        /\ p.last = y.last
    BY <2>1, RestSound
  <2> HIDE DEF p
  <2>3. Owes(p, 1)
    BY <2>1, <2>2 DEF SameStep
  <2>4. FtpdInv(NextCommand(renamefrom(p, exists)))
    BY <2>1, <2>2, <2>3, RenamefromDone
  <2>5. QED BY <1>4, <2>4 DEF p, y
<1>5. ASSUME NEW found \in BOOLEAN, ftpd' = cmd(RNTO(yylex(ftpd, "RNTO"), found))
      PROVE FtpdInv(ftpd')
  <2> DEFINE y == yylex(ftpd, "RNTO")
  <2>1. Sound(y) /\ Owes(y, 1)
    BY <1>2
  <2> HIDE DEF y
  <2>2. FtpdInv(cmd(RNTO(y, found)))
    BY <2>1, RntoDone
  <2>3. QED BY <1>5, <2>2 DEF y
<1>6. ASSUME ftpd' = NextCommand(reply(
               [yylex(ftpd, "RNFR") EXCEPT !.restart_point = FALSE], 550))
      PROVE FtpdInv(ftpd')
  <2> DEFINE y == yylex(ftpd, "RNFR")
             p == [y EXCEPT !.restart_point = FALSE]
             r == reply(p, 550)
  <2>1. Sound(y) /\ Owes(y, 1) /\ y.last = "RNFR"
    BY <1>2
  <2> HIDE DEF y
  <2>2. /\ Sound(p) /\ SameStep(y, p) /\ p.restart_point = FALSE
        /\ p.last = y.last
    BY <2>1, RestSound
  <2> HIDE DEF p
  <2>3. Sound(r) /\ SamePrep(p, r) /\ OneReply(p, r)
    BY <2>2, ReplyAnswers
  <2> HIDE DEF r
  <2>4. Owes(r, 0) /\ r.restart_point = FALSE /\ r.last = "RNFR"
    BY <2>1, <2>2, <2>3 DEF SameStep, SamePrep
  <2>5. FtpdInv(NextCommand(r))
    BY <2>3, <2>4, NextDone
  <2>6. QED BY <1>6, <2>5 DEF r, p, y
<1>7. QED BY <1>3, <1>4, <1>5, <1>6 DEF Prepare

(* The STAT that was answered before is answered again.                    *)
LEMMA StatAgainDone ==
  ASSUME FtpdInv(ftpd), StatAgain
  PROVE FtpdInv(ftpd')
<1> DEFINE y == yylex(ftpd, "simple")
<1>1. PICK n \in statcmd : ftpd' = cmd(Skew(reply(y, n)))
  BY DEF StatAgain
<1>2. n \in Nat /\ n >= 200
  BY DEF statcmd
<1>3. "simple" \in Lines /\ ftpd \in FtpdType /\ Sound(ftpd)
  BY DEF Lines, FtpdInv, Sound
<1>4. y \in FtpdType /\ SameLogin(ftpd, y) /\ SameData(ftpd, y)
  BY <1>3, ReadFacts
<1> HIDE DEF y
<1>5. Sound(y)
  BY <1>3, <1>4, SoundKept
<1>6. Sound(reply(y, n))
  BY <1>2, <1>5, ReplyAnswers
<1>7. Sound(Skew(reply(y, n))) /\ Skew(reply(y, n)).skewed = TRUE
  BY <1>6, SkewSound, ZenonT(60)
<1>8. FtpdInv(cmd(Skew(reply(y, n))))
  BY <1>7, CmdDone
<1>9. QED BY <1>1, <1>8

(* A transfer ends by itself.                                              *)
LEMMA TransferEndsDone ==
  ASSUME FtpdInv(ftpd), TransferEnds
  PROVE FtpdInv(ftpd')
<1>1. ftpd.pc = "transfer" /\ Sound(ftpd) /\ StepOK(ftpd)
  BY DEF TransferEnds, FtpdInv
<1>2. Owes(ftpd, 1)
  BY <1>1 DEF StepOK
<1>3. PICK n \in {226, 426, 452} :
        ftpd' = IF gone THEN dologout(cmd(Closed(reply(ftpd, n))))
                ELSE cmd(Closed(reply(ftpd, n)))
  BY DEF TransferEnds, receive_data, send_data
<1>4. FtpdInv(cmd(Closed(reply(ftpd, n))))
  BY <1>1, <1>2, TransferDone
<1>5. cmd(Closed(reply(ftpd, n))) \in FtpdType
  BY <1>4 DEF FtpdInv, Sound
<1>6. FtpdInv(dologout(cmd(Closed(reply(ftpd, n)))))
  BY <1>5, LogoutFacts
<1>7. QED BY <1>3, <1>4, <1>6

(* The sessions that are left: QUIT, toolong and the end of the input.     *)
LEMMA LeaveDone ==
  ASSUME FtpdInv(ftpd), QUIT \/ toolong \/ EndOfInput
  PROVE FtpdInv(ftpd')
<1>1. Sound(ftpd) /\ ftpd \in FtpdType
  BY DEF FtpdInv, Sound
<1>2. CASE QUIT
  <2> DEFINE y == yylex(ftpd, "QUIT")
  <2>1. "QUIT" \in Lines
    BY DEF Lines
  <2>2. y \in FtpdType
    BY <1>1, <2>1, ReadFacts
  <2> HIDE DEF y
  <2>3. reply(y, 221) \in FtpdType
    BY <2>2, ReplyFacts
  <2>4. FtpdInv(dologout(reply(y, 221)))
    BY <2>3, LogoutFacts
  <2>5. QED BY <1>2, <2>4 DEF QUIT, y
<1>3. CASE toolong
  <2>1. reply(ftpd, 421) \in FtpdType
    BY <1>1, ReplyFacts
  <2>2. QED BY <1>3, <2>1, LogoutFacts DEF toolong
<1>4. CASE EndOfInput
  BY <1>1, <1>4, LogoutFacts DEF EndOfInput
<1>5. QED BY <1>2, <1>3, <1>4

(* A process starts.                                                       *)
LEMMA FreshDone == FtpdInv(Fresh)
<1>1. Fresh \in FtpdType
  <2>1. "none" \in Lines
    BY DEF Lines
  <2>2. 0 \in 0..Attempts
    BY FtpdConstants
  <2>3. QED BY <2>1, <2>2 DEF Fresh, FtpdType
<1>2. LoginOK(Fresh)
  BY DEF LoginOK, Fresh
<1>3. LiveOK(Fresh)
  BY DEF LiveOK, Fresh
<1>4. StepOK(Fresh) /\ PrepOK(Fresh)
  BY DEF StepOK, PrepOK, Fresh
<1>5. QED BY <1>1, <1>2, <1>3, <1>4 DEF FtpdInv, Sound

-----------------------------------------------------------------------------
(* The theorems.                                                           *)

(* The invariant of the process, and of the connection.                    *)
Inv == gone \in BOOLEAN /\ FtpdInv(ftpd)

(* Inv holds at the start and every step keeps it.                         *)
LEMMA InvStep == Inv /\ [Next]_vars => Inv'
<1> SUFFICES ASSUME Inv, [Next]_vars PROVE Inv'
  OBVIOUS
<1>1. FtpdInv(ftpd) /\ gone \in BOOLEAN
  BY DEF Inv
<1>2. gone' \in BOOLEAN
  BY <1>1 DEF Next, vars, Refused, LoginFirst, Login, Simple, Address, Transfer,
         Prepare, BadLine, QUIT, Accept, TransferEnds, Urgent, toolong,
         EndOfInput, Vanish, server_mode, StatAgain
<1>3. FtpdInv(ftpd')
  <2>1. CASE Refused
    BY <1>1, <2>1, RefusedDone
  <2>2. CASE Login
    BY <1>1, <2>2, LoginDone
  <2>3. CASE Simple
    BY <1>1, <2>3, SimpleDone
  <2>4. CASE Address
    BY <1>1, <2>4, AddressDone
  <2>5. CASE Transfer
    BY <1>1, <2>5, TransferStarts
  <2>6. CASE Prepare
    BY <1>1, <2>6, PrepareDone
  <2>7. CASE BadLine
    BY <1>1, <2>7, NoCommandDone, MalformedDone DEF BadLine, Reads
  <2>8. CASE QUIT \/ toolong \/ EndOfInput
    BY <1>1, <2>8, LeaveDone
  <2>9. CASE Accept
    BY <1>1, <2>9, AcceptedDone DEF Accept
  <2>10. CASE TransferEnds
    BY <1>1, <2>10, TransferEndsDone
  <2>11. CASE Urgent
    BY <1>1, <2>11, UrgentDone DEF Urgent
  <2>12. CASE Vanish
    BY <1>1, <2>12 DEF Vanish
  <2>13. CASE server_mode
    BY <2>13, FreshDone DEF server_mode
  <2>14. CASE UNCHANGED vars
    BY <1>1, <2>14 DEF vars
  <2>15. CASE StatAgain
    BY <1>1, <2>15, StatAgainDone
  <2>16. QED
    BY <2>15, <2>1, <2>2, <2>3, <2>4, <2>5, <2>6, <2>7, <2>8, <2>9, <2>10, <2>11,
       <2>12, <2>13, <2>14 DEF Next
<1>4. QED BY <1>2, <1>3 DEF Inv

(* Whatever the client sends, urgent lines during a transfer included, the *)
(* process is in a state the invariant describes.                          *)
THEOREM FtpdInvariant == Spec => []Inv
<1>1. Init => Inv
  BY FreshDone DEF Init, Inv
<1>2. QED BY <1>1, InvStep, PTL DEF Spec

(* Between commands every line has had exactly one final reply, unless one *)
(* of the six lines that are answered twice or not at all was met.  For    *)
(* the induction: a transfer that waits or moves data is one line to be    *)
(* answered, the handler of SIGURG adds one and answers one or both, and a *)
(* line it leaves in tmpline is owed its reply until the scanner has it.   *)
THEOREM RepliesInStep == Spec => []InStep
<1>1. Inv => InStep
  BY DEF Inv, FtpdInv, StepOK, InStep
<1>2. QED BY <1>1, FtpdInvariant, PTL

(* data and pdata name open descriptors and never the same one, and the    *)
(* offset of REST and the name of RNFR are there only for the next command.*)
THEOREM NothingLeftStale == Spec => []NothingStale
<1>1. Inv => TypeOK
  <2> SUFFICES ASSUME Inv PROVE TypeOK
    OBVIOUS
  <2>1. ftpd \in FtpdType /\ gone \in BOOLEAN
    BY DEF Inv, FtpdInv, Sound
  <2>2. QED BY <2>1 DEF TypeOK, FtpdType
<1>2. Inv => DescriptorsLive
  BY DEF Inv, FtpdInv, Sound, LiveOK, DescriptorsLive
<1>3. Inv => RestartFresh
  BY DEF Inv, FtpdInv, PrepOK, RestartFresh
<1>4. QED BY <1>1, <1>2, <1>3, FtpdInvariant, PTL DEF NothingStale

(* Without the option --non-rfc2577, whoever is logged in is the user the  *)
(* last USER command named, and auth_user accepted that name: for any      *)
(* sequence of USER, PASS and other commands, failures of complete_login   *)
(* included.                                                               *)
THEOREM OnlyApproved ==
  ASSUME Rfc2577
  PROVE Spec => []OnlyApprovedLogIn
<1>1. Inv => OnlyApprovedLogIn
  BY DEF Inv, FtpdInv, Sound, LoginOK, OnlyApprovedLogIn
<1>2. QED BY <1>1, FtpdInvariant, PTL

===============================================================================
