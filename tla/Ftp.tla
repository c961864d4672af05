-------------------------------- MODULE Ftp ---------------------------------
(***************************************************************************)
(* The FTP client (ftp/ftp.c, ftp/cmds.c, ftp/main.c) and a server of the  *)
(* kind of ftpd: the control connection with its replies, the data         *)
(* connection of a transfer and the local file, the interrupt key, and the *)
(* commands that transfer or delete several files.                         *)
(*                                                                         *)
(* The client waits for replies in many places; "k" says where it goes on  *)
(* with the reply it waits for.  A function of the source that is not      *)
(* interrupted by such a wait is an operator from the record of the        *)
(* client's globals to that record.  ok stands for what the local system   *)
(* answers.                                                                *)
(*                                                                         *)
(* Left out: proxy connections, macros, the mapping of names, .netrc, the  *)
(* arguments a user is asked for, address families, and everything that is *)
(* printed.                                                                *)
(***************************************************************************)
EXTENDS Integers, Sequences, FiniteSetsExt

CONSTANTS
  Files,       \* files a multiple command meets
  NFds,        \* bound: descriptors free for data connections and files
  MaxEvents    \* bound: interrupts, options set and connections dropped

(* The first digit of a reply; code 421 stands for all of the 400s; 500,   *)
(* the reply to an unknown command, and a 227, 228 or 229 that holds no    *)
(* address of the server's host are told apart.                            *)
PRELIM == 1
COMPLETE == 2
CONTINUE == 3
TRANSIENT == 4
ERROR == 5
UNKNOWN == 500
UNUSABLE == 227

VARIABLES
  ftp,      \* the client
  replies,  \* on their way to the client
  server,   \* st: "none", "idle", "transfer" or "closed"; type of transfers;
            \* large: the file sent does not fit the buffers of the sockets
  events    \* interrupts, options set and connections dropped so far

vars == <<ftp, replies, server, events>>

(* handler is what SIGINT leads to, outer what a transfer restores.  out   *)
(* holds the lines on their way to the server.  The last fields serve the  *)
(* properties: an interrupt after which the user did not ask to go on, a   *)
(* client that is out of step or jumps into a function it has left, a      *)
(* change of type that was interrupted, passive mode switched after a      *)
(* transfer.                                                               *)
Start(fromatty, passive) ==
  [pc |-> "prompt", k |-> "none", cmd |-> "none", multi |-> "none", left |-> 0,
   connected |-> FALSE, cpend |-> FALSE, abrtflag |-> FALSE, mflag |-> FALSE,
   handler |-> "intr", outer |-> "intr", stage |-> 1, type |-> "A",
   curtype |-> "A", sendport |-> -1, passivemode |-> passive, doepsv4 |-> FALSE,
   restart_point |-> FALSE, fromatty |-> fromatty, interactive |-> fromatty,
   fds |-> [f \in 1..NFds |-> "free"], data |-> -1, file |-> -1, out |-> <<>>,
   unasked |-> FALSE, astray |-> FALSE, mistyped |-> FALSE, switched |-> FALSE]

-----------------------------------------------------------------------------
(* Descriptors: the lowest free one is taken.  A closed one keeps its      *)
(* number in data.                                                         *)

Free(x) == {f \in 1..NFds : x.fds[f] = "free"}
socket(x) ==
  LET f == Min(Free(x)) IN [x EXCEPT !.fds[f] = "data", !.data = f]
fopen(x) ==
  LET f == Min(Free(x)) IN [x EXCEPT !.fds[f] = "file", !.file = f]
close(x, f) == IF f = -1 THEN x ELSE [x EXCEPT !.fds[f] = "free"]
fclose(x) == [close(x, x.file) EXCEPT !.file = -1]
CloseData(x) == [close(x, x.data) EXCEPT !.data = -1]

-----------------------------------------------------------------------------
(* Commands and replies.                                                   *)

(* Without a connection the call returns at once, see GetReply.            *)
command(x, line, k) ==
  [x EXCEPT !.pc = "reply", !.k = k, !.abrtflag = FALSE,
            !.cpend = @ \/ x.connected,
            !.out = IF x.connected THEN Append(@, line) ELSE @]

(* A reply awaited in its own right.                                       *)
getreply(x, k) == [x EXCEPT !.pc = "reply", !.k = k]

(* pswitch, which lostpeer calls, forgets an interrupt.                    *)
lostpeer(x) ==
  [(IF x.connected THEN CloseData(x) ELSE x) EXCEPT
     !.connected = FALSE, !.abrtflag = FALSE, !.out = <<>>]

disconnect(x) == [x EXCEPT !.connected = FALSE, !.data = -1, !.out = <<>>]

cmdscanner(x) ==
  [x EXCEPT !.pc = "prompt", !.k = "none", !.cmd = "none", !.multi = "none",
            !.left = 0, !.handler = "intr", !.outer = "intr", !.stage = 1,
            !.abrtflag = FALSE, !.mflag = FALSE, !.file = -1,
            !.unasked = FALSE]

(* The next turn of the loop of mput, mget, mdelete and mls.               *)
remglob(x) ==
  IF x.mflag /\ x.left > 0
  THEN [x EXCEPT !.pc = "confirm", !.k = "none", !.left = @ - 1,
                 !.handler = x.outer]
  ELSE cmdscanner(x)

(* sendrequest and recvrequest return.  After an interrupt the user is     *)
(* asked whether to go on, but not when the list of names was being made.  *)
Return(x) ==
  LET t == [x EXCEPT !.handler = x.outer, !.file = -1]
  IN  IF x.multi = "none"
      THEN cmdscanner([t EXCEPT !.restart_point = @ /\ x.cmd # "RETR"])
      ELSE IF x.mflag \/ ~x.fromatty \/ x.cmd = "NLST" THEN remglob(t)
      ELSE [t EXCEPT !.pc = "again", !.k = "none"]

-----------------------------------------------------------------------------
(* A transfer: TYPE, the data connection, REST, the command, the data.     *)

Sends(x) == x.cmd = "STOR"
Wanted(x) == IF x.cmd \in {"NLST", "LIST"} THEN "A" ELSE x.type

(* The first setjmp and the handler abortsend are in force from opening    *)
(* the local file until the data connection is prepared.                   *)
sendrequest(x) ==
  IF x.type # x.curtype THEN command(x, x.type, "type")
  ELSE [x EXCEPT !.pc = "local", !.handler = "abort", !.stage = 1]

(* The same with abortrecv, but TYPE is sent after it was put in force.    *)
recvrequest(x) ==
  LET t == [x EXCEPT !.handler = "abort", !.stage = 1]
  IN  IF Wanted(x) # x.curtype THEN command(t, Wanted(x), "type")
      ELSE [t EXCEPT !.pc = "initconn"]

(* Its failure is not noticed, the transfer goes on.                       *)
(* Faulty variant of changetype: the reply is not looked at.               *)
changetypeAnyway(x, r) ==
  LET t == [x EXCEPT !.curtype = Wanted(x), !.handler = "abort", !.stage = 1]
  IN  [t EXCEPT !.pc = IF Sends(x) THEN "local" ELSE "initconn"]
changetype(x, r) ==
  LET t == [x EXCEPT !.curtype = IF r = COMPLETE THEN Wanted(x) ELSE @,
                     !.handler = "abort", !.stage = 1]
  IN  [t EXCEPT !.pc = IF Sends(x) THEN "local" ELSE "initconn"]

Transfer(x) == command([x EXCEPT !.stage = 2], x.cmd, "transfer")

(* The position in the local file is set before REST is sent; when that    *)
(* fails, ABOR is sent where nothing is being transferred, and a second    *)
(* reply is waited for.                                                    *)
Restart(x, ok) ==
  LET t == [x EXCEPT !.stage = 2]
  IN  IF ~x.restart_point \/ x.cmd \in {"NLST", "LIST"} THEN Transfer(x)
      ELSE IF Sends(x) /\ ~ok
      THEN command([t EXCEPT !.astray = TRUE], "ABOR", "misplaced")
      ELSE command(t, "REST", "rest")

(* REST was refused: the handler of the transfer is left in force, which   *)
(* matters within a multiple command.                                      *)
RestartRefused(x) ==
  Return([(IF Sends(x) THEN fclose(x) ELSE x) EXCEPT
            !.restart_point = @ /\ ~Sends(x),
            !.astray = @ \/ x.multi # "none"])

(* PASV and its kin, or PORT and its kin.                                  *)
Address(x) == IF x.passivemode THEN "passive" ELSE "port"

(* A socket for the data connection; in passive mode the previous one is   *)
(* not closed.  EPSV and EPRT are tried first where wanted.                *)
(* Faulty variant of Prepare: what data names is always closed first.      *)
PrepareCloses(x, ok) ==
  LET t == close(x, x.data)
  IN  IF Free(t) = {} THEN Return(fclose([t EXCEPT !.data = -1]))
      ELSE IF ~x.passivemode /\ x.sendport = 0 THEN Restart(socket(t), ok)
      ELSE IF x.doepsv4 THEN command(socket(t), Address(x), "extended")
      ELSE command(socket(t), Address(x), "plain")
Prepare(x, ok) ==
  LET t == IF x.passivemode THEN x ELSE close(x, x.data)
  IN  IF Free(t) = {} THEN Return(fclose([t EXCEPT !.data = -1]))
      ELSE IF ~x.passivemode /\ x.sendport = 0 THEN Restart(socket(t), ok)
      ELSE IF x.doepsv4 THEN command(socket(t), Address(x), "extended")
      ELSE command(socket(t), Address(x), "plain")

(* initconn with the reply to PASV or PORT, then to LPSV or LPRT.  ABOR is *)
(* sent when the address cannot be used.  A server that refuses them all   *)
(* may still connect to the default port.                                  *)
initconn(x, r, last, ok) ==
  CASE r = UNUSABLE -> command(x, "ABOR", "unusable")
    [] r = COMPLETE /\ x.passivemode /\ ~ok -> Return(fclose(CloseData(x)))
    [] r = COMPLETE -> Restart(x, ok)
    [] r # COMPLETE /\ ~last -> command(x, Address(x), "long")
    [] r \in {ERROR, UNKNOWN} /\ ~x.passivemode /\ x.sendport = -1 ->
         LET t == socket([close(x, x.data) EXCEPT !.sendport = 1])
         IN  IF ok THEN Restart(t, ok) ELSE Return(fclose(CloseData(t)))
    [] OTHER -> Return(fclose(IF x.passivemode THEN CloseData(x) ELSE x))

(* Nothing to wait for in passive mode.                                    *)
dataconn(x) == [x EXCEPT !.pc = IF x.passivemode THEN "opened" ELSE "accept"]

(* ABOR is sent as urgent data, and two replies are awaited, SIGINT being  *)
(* ignored.                                                                *)
(* Faulty variant of abort_remote: ABOR is not sent.                       *)
abort_remoteSilent(x) ==
  [x EXCEPT !.pc = "reply", !.k = "abort", !.handler = "ignore"]
abort_remote(x) ==
  [x EXCEPT !.pc = "reply", !.k = "abort", !.handler = "ignore",
            !.out = Append(@, "urgent ABOR")]

(* The label abort, and the setjmp before it, whose loop ends only when    *)
(* no reply is pending.  Files are left open where no reply is pending.    *)
(* Faulty variant of Aborted: the reply to the command is not awaited.     *)
AbortedForgets(x) ==
  CASE x.stage = 1 /\ x.cpend -> getreply(x, "early")
    [] x.stage = 1 /\ ~x.cpend -> Return(CloseData(x))
    [] x.stage = 2 /\ ~x.cpend -> Return(x)
    [] x.stage = 2 /\ x.cpend /\ Sends(x) -> Return(fclose(CloseData(x)))
    [] OTHER -> abort_remote(x)
Aborted(x) ==
  CASE x.stage = 1 /\ x.cpend -> getreply(x, "early")
    [] x.stage = 1 /\ ~x.cpend -> Return(CloseData(x))
    [] x.stage = 2 /\ ~x.cpend -> Return(x)
    [] x.stage = 2 /\ x.cpend /\ Sends(x) ->
         getreply([CloseData(x) EXCEPT !.handler = x.outer], "failed")
    [] OTHER -> abort_remote(x)

(* Replies awaited by getreply alone, not within command.                  *)
Alone == {"greeting", "quote", "failed", "done", "cancelled", "early",
          "abort", "aborted"}

(* The handler that was in force when SIGINT came: abortsend or abortrecv; *)
(* intr, which returns to the prompt; mabort, which leaves cmdabort in     *)
(* force when command calls it, so that further interrupts are noted at    *)
(* most.  getreply calls it with mabort in force again.                    *)
Interrupted(x) ==
  CASE x.handler = "abort" ->
         Aborted([x EXCEPT !.abrtflag = FALSE, !.mflag = FALSE])
    [] x.handler = "mabort" ->
         [x EXCEPT !.pc = "mabort",
                   !.outer = IF x.k \in Alone THEN @ ELSE "cmdabort"]
    [] OTHER -> cmdscanner(x)

Heeded(x) == x.abrtflag /\ x.handler \in {"abort", "mabort", "intr"} /\ x.k # "early"

-----------------------------------------------------------------------------
(* Where the client goes on with reply r.                                  *)

hookup(x, r) ==
  IF r > COMPLETE THEN cmdscanner(x)
  ELSE command([x EXCEPT !.connected = TRUE, !.type = "A", !.curtype = "A"],
               "USER", "login")

login(x, r) ==
  CASE x.k = "login" /\ r = CONTINUE -> command(x, "PASS", "password")
    [] x.k = "password" /\ r = CONTINUE -> command(x, "plain", "account")
    [] OTHER -> command(x, "plain", "setpeer")

setpeer(x, r) ==
  cmdscanner([x EXCEPT !.type = IF r = COMPLETE THEN "I" ELSE @])

(* user: an account is sent when it was given, or asked for.               *)
userlogin(x, r) ==
  CASE x.k = "user" /\ r = CONTINUE -> command(x, "PASS", "userpass")
    [] x.k = "userpass" /\ r = CONTINUE -> command(x, "plain", "simple")
    [] OTHER -> cmdscanner(x)

renamefile(x, r) ==
  IF r = CONTINUE THEN command(x, "plain", "simple") ELSE cmdscanner(x)

(* CWD, CDUP, PWD, MKD and RMD have older names.                           *)
Older(x, r) ==
  IF r = UNKNOWN THEN command(x, "plain", "simple") ELSE cmdscanner(x)

quote1(x, r) == IF r = PRELIM THEN getreply(x, "quote") ELSE cmdscanner(x)

(* newer: the dates are compared.                                          *)
newer(x, r, ok) ==
  IF r = COMPLETE /\ ok THEN recvrequest([x EXCEPT !.cmd = "RETR"])
  ELSE cmdscanner(x)

settype(x, r, t) ==
  cmdscanner(IF r = COMPLETE THEN [x EXCEPT !.type = t, !.curtype = t] ELSE x)

Resume(x, r, ok) ==
  CASE x.k = "greeting" -> hookup(x, r)
    [] x.k \in {"login", "password", "account"} -> login(x, r)
    [] x.k = "setpeer" -> setpeer(x, r)
    [] x.k \in {"user", "userpass"} -> userlogin(x, r)
    [] x.k = "noop" -> IF r = COMPLETE THEN cmdscanner(x)
                       ELSE command(x, "QUIT", "quit")
    [] x.k = "quit" -> cmdscanner(disconnect(x))
    [] x.k = "rename" -> renamefile(x, r)
    [] x.k = "older" -> Older(x, r)
    [] x.k = "quote" -> quote1(x, r)
    [] x.k = "newer" -> newer(x, r, ok)
    [] x.k = "setascii" -> settype(x, r, "A")
    [] x.k = "setbinary" -> settype(x, r, "I")
    [] x.k = "simple" -> IF x.multi = "none" THEN cmdscanner(x) ELSE remglob(x)
    [] x.k = "type" -> changetype(x, r)
    [] x.k = "extended" ->
         IF r \in {COMPLETE, UNUSABLE} THEN initconn(x, r, FALSE, ok)
         ELSE command([x EXCEPT !.doepsv4 = FALSE], Address(x), "plain")
    [] x.k = "plain" -> initconn(x, r, FALSE, ok)
    [] x.k = "long" -> initconn(x, r, TRUE, ok)
    [] x.k = "unusable" -> Return(fclose(CloseData(x)))
    [] x.k = "rest" ->
         IF r = CONTINUE
         THEN Transfer([x EXCEPT !.restart_point = @ /\ ~Sends(x)])
         ELSE RestartRefused(x)
    [] x.k = "misplaced" ->
         getreply(fclose([x EXCEPT !.restart_point = FALSE]), "failed")
    [] x.k = "transfer" ->
         IF r = PRELIM THEN dataconn(x)
         ELSE Return(IF Sends(x) THEN fclose(x) ELSE x)
    [] x.k = "early" ->
         IF x.cpend THEN x
         ELSE Return([CloseData(x) EXCEPT !.file = -1,
                        !.outer = IF ok THEN @ ELSE "cmdabort"])
    [] x.k = "cancel" -> getreply(x, "cancelled")
    [] x.k = "cancelled" ->
         Return(fclose([x EXCEPT !.astray = @ \/ x.multi # "none"]))
    [] x.k = "abort" -> getreply(x, "aborted")
    [] x.k = "aborted" -> Return(fclose(CloseData(x)))
    [] OTHER -> Return(fclose(x))

(* SIGINT that came during the wait takes effect after the reply.          *)
Answered(x, r, ok) ==
  LET t == [x EXCEPT !.cpend = @ /\ r = PRELIM]
      u == IF r = TRANSIENT THEN lostpeer(t) ELSE t
  IN  IF Heeded(u)
      THEN Interrupted([u EXCEPT
             !.mistyped = @ \/ (r = COMPLETE
                               /\ x.k \in {"type", "setascii", "setbinary"}),
             !.astray = @ \/ (x.k = "quote" /\ r = PRELIM) \/ x.k = "cancel"])
      ELSE Resume(u, r, ok)

(* At the end of the input the pending reply stays pending.  A command     *)
(* without a connection returns zero.                                      *)
EndOfInput(x, ok) ==
  IF x.k = "quit" THEN Resume(x, 0, ok)
  ELSE Resume(lostpeer(x), TRANSIENT, ok)

GetReply ==
  /\ ftp.pc = "reply"
  /\ \E ok \in BOOLEAN :
       \/ /\ ftp.connected \/ ftp.k = "greeting"
          /\ replies # <<>>
          /\ ftp' = Answered(ftp, Head(replies), ok)
          /\ replies' = Tail(replies)
       \/ /\ ftp.connected \/ ftp.k = "greeting"
          /\ replies = <<>> /\ server.st \in {"none", "closed"}
          /\ ftp' = EndOfInput(ftp, ok)
          /\ UNCHANGED replies
       \/ /\ ~ftp.connected /\ ftp.k # "greeting"
          /\ ftp' = Resume(ftp, 0, ok)
          /\ replies' = <<>>
  /\ UNCHANGED <<server, events>>

-----------------------------------------------------------------------------
(* What the user asks for.                                                 *)

(* The prompt.  A client that went astray is not followed any further.     *)
Asking == ftp.pc = "prompt" /\ ~ftp.astray

Open ==
  /\ Asking
  /\ IF ftp.connected
     THEN ftp' = command(ftp, "plain", "noop") /\ UNCHANGED <<replies, server>>
     ELSE \/ UNCHANGED <<ftp, replies, server>>
          \/ /\ ftp' = getreply([ftp EXCEPT !.mistyped = FALSE], "greeting")
             /\ \E r \in {COMPLETE, TRANSIENT} : replies' = <<r>>
             /\ server' = [st |-> "idle", type |-> "A", large |-> FALSE]
  /\ UNCHANGED events

(* Commands of one or two lines.                                           *)
user(x) == command(x, "USER", "user")
cd(x) == command(x, "unknown", "older")
cdup(x) == command(x, "unknown", "older")
pwd(x) == command(x, "unknown", "older")
makedir(x) == command(x, "unknown", "older")
removedir(x) == command(x, "unknown", "older")
delete(x) == command(x, "plain", "simple")
account(x) == command(x, "plain", "simple")
do_chmod(x) == command(x, "plain", "simple")
do_umask(x) == command(x, "plain", "simple")
site_idle(x) == command(x, "plain", "simple")
rmthelp(x) == command(x, "plain", "simple")
sizecmd(x) == command(x, "plain", "simple")
modtime(x) == command(x, "plain", "simple")
rmtstatus(x) == command(x, "plain", "simple")
syst(x) == command(x, "plain", "simple")
rename(x) == command(x, "RNFR", "rename")
quote(x) == command(x, "quoted", "quote")
site(x) == command(x, "quoted", "quote")
quit(x) == command(x, "QUIT", "quit")
setascii(x) == command(x, "A", "setascii")
setbinary(x) == command(x, "I", "setbinary")

Simple ==
  /\ Asking /\ ftp.connected
  /\ ftp' \in {user(ftp), cd(ftp), cdup(ftp), pwd(ftp), makedir(ftp),
               removedir(ftp), delete(ftp), account(ftp), do_chmod(ftp),
               do_umask(ftp), site_idle(ftp), rmthelp(ftp), sizecmd(ftp),
               modtime(ftp), rmtstatus(ftp), syst(ftp), rename(ftp),
               quote(ftp), site(ftp), quit(ftp), setascii(ftp), setbinary(ftp)}
  /\ UNCHANGED <<replies, server, events>>

(* Options.                                                                *)
setpassive(x) ==
  [x EXCEPT !.passivemode = ~@, !.switched = @ \/ x.data # -1]
setepsv4(x) == [x EXCEPT !.doepsv4 = ~@]
setport(x) == [x EXCEPT !.sendport = IF @ = 0 THEN 1 ELSE 0]
setprompt(x) == [x EXCEPT !.interactive = ~@]
restart(x) == [x EXCEPT !.restart_point = TRUE]

SetOption ==
  /\ Asking /\ events < MaxEvents
  /\ ftp' \in {setpassive(ftp), setepsv4(ftp), setport(ftp), setprompt(ftp),
              restart(ftp)}
  /\ events' = events + 1
  /\ UNCHANGED <<replies, server>>

put(x) == sendrequest([x EXCEPT !.cmd = "STOR"])
get(x) == recvrequest([x EXCEPT !.cmd = "RETR"])
reget(x) == recvrequest([x EXCEPT !.cmd = "RETR", !.restart_point = TRUE])
askdate(x) == command(x, "plain", "newer")
ls(x) == recvrequest([x EXCEPT !.cmd = "LIST"])

Begin(x, m) ==
  [x EXCEPT !.multi = m, !.mflag = TRUE, !.left = Files, !.outer = "mabort",
            !.handler = "mabort"]
mput(x) == remglob(Begin(x, "mput"))
mls(x) == remglob(Begin(x, "mls"))
(* The names are asked for first.                                          *)
mget(x) == recvrequest([Begin(x, "mget") EXCEPT !.cmd = "NLST"])
mdelete(x) == recvrequest([Begin(x, "mdelete") EXCEPT !.cmd = "NLST"])

TransferCommand ==
  /\ Asking /\ ftp.connected
  /\ ftp' \in {put(ftp), get(ftp), reget(ftp), askdate(ftp), ls(ftp),
               mput(ftp), mget(ftp), mdelete(ftp), mls(ftp)}
  /\ UNCHANGED <<replies, server, events>>

(* The answers a user may give to a question.                              *)
confirm(x) == IF x.interactive THEN BOOLEAN ELSE {TRUE}

OneFile(x) ==
  CASE x.multi = "mdelete" -> command(x, "plain", "simple")
    [] x.multi = "mput" -> sendrequest([x EXCEPT !.cmd = "STOR"])
    [] x.multi = "mget" -> recvrequest([x EXCEPT !.cmd = "RETR"])
    [] x.multi = "mls" -> recvrequest([x EXCEPT !.cmd = "LIST"])

NextFile ==
  /\ ftp.pc = "confirm"
  /\ \E yes \in IF ftp.multi = "mls" THEN {TRUE} ELSE confirm(ftp) :
       ftp' = IF yes THEN OneFile(ftp) ELSE remglob(ftp)
  /\ UNCHANGED <<replies, server, events>>

(* After an interrupted transfer.                                          *)
Continue ==
  /\ ftp.pc = "again"
  /\ \E yes \in BOOLEAN :
       ftp' = remglob([ftp EXCEPT !.mflag = yes, !.unasked = ~yes])
  /\ UNCHANGED <<replies, server, events>>

(* The handler; mput and mls then begin anew.                              *)
(* Faulty variant of mabort: the answer of the user is not looked at.      *)
mabortGoesOn ==
  /\ ftp.pc = "mabort"
  /\ \E yes \in IF ftp.mflag /\ ftp.fromatty THEN BOOLEAN ELSE {FALSE} :
       ftp' = remglob([ftp EXCEPT !.abrtflag = FALSE, !.unasked = ~yes,
                         !.left = IF ftp.multi \in {"mput", "mls"} THEN Files
                                  ELSE @])
  /\ UNCHANGED <<replies, server, events>>
mabort ==
  /\ ftp.pc = "mabort"
  /\ \E yes \in IF ftp.mflag /\ ftp.fromatty THEN BOOLEAN ELSE {FALSE} :
       ftp' = remglob([ftp EXCEPT !.abrtflag = FALSE, !.mflag = yes,
                         !.unasked = ~yes,
                         !.left = IF ftp.multi \in {"mput", "mls"} THEN Files
                                  ELSE @])
  /\ UNCHANGED <<replies, server, events>>

-----------------------------------------------------------------------------
(* What happens while a transfer is prepared or under way.                 *)

(* The local file of put is opened after TYPE was settled.                 *)
LocalFile ==
  /\ ftp.pc = "local"
  /\ \/ /\ Free(ftp) # {}
        /\ ftp' = [fopen(ftp) EXCEPT !.pc = "initconn"]
     \/ ftp' = Return(ftp)
  /\ UNCHANGED <<replies, server, events>>

DataSocket ==
  /\ ftp.pc = "initconn"
  /\ \E ok \in BOOLEAN : ftp' = Prepare(ftp, ok)
  /\ UNCHANGED <<replies, server, events>>

(* accept () returns a descriptor, or fails.                               *)
Accept ==
  /\ ftp.pc = "accept"
  /\ \/ /\ Free(ftp) # {}
        /\ ftp' = [close(socket(ftp), ftp.data) EXCEPT !.pc = "opened"]
     \/ ftp' = Aborted(CloseData(ftp))
  /\ UNCHANGED <<replies, server, events>>

(* The local file of get, and the buffer.                                  *)
OutputFile ==
  /\ ftp.pc = "opened"
  /\ \/ /\ Sends(ftp) \/ Free(ftp) # {}
        /\ ftp' = [(IF Sends(ftp) THEN ftp ELSE fopen(ftp)) EXCEPT !.pc = "data"]
     \/ ftp' = Aborted(ftp)
  /\ UNCHANGED <<replies, server, events>>

(* The loop ends and the reply is awaited; or the position in the local    *)
(* file cannot be set.  Then the reply is not awaited in a binary          *)
(* transfer; in a text transfer ABOR is sent, not as urgent data, and two  *)
(* replies are awaited.  Both return with the data connection open and     *)
(* the handler of the transfer in force.                                   *)
Copy ==
  /\ ftp.pc = "data"
  /\ \/ /\ Sends(ftp) \/ server.st # "transfer"
        /\ ftp' = getreply([close(fclose(ftp), ftp.data) EXCEPT
                     !.handler = IF Sends(ftp) THEN @ ELSE ftp.outer], "done")
     \/ /\ ftp.cmd = "RETR" /\ ftp.restart_point /\ ftp.curtype = "I"
        /\ ftp' = Return(fclose([ftp EXCEPT !.astray = TRUE]))
     \/ /\ ftp.cmd = "RETR" /\ ftp.restart_point /\ ftp.curtype = "A"
        /\ ftp' = command(ftp, "ABOR", "cancel")
  /\ UNCHANGED <<replies, server, events>>

(* SIGINT.  While a reply is awaited it is only noted.  The handler that   *)
(* mabort leaves behind swallows it.                                       *)
cmdabort ==
  /\ ftp.pc \in {"reply", "accept", "opened", "data", "local"}
  /\ events < MaxEvents /\ (ftp.connected \/ ftp.k = "greeting")
  /\ LET t == [ftp EXCEPT
                 !.unasked = @ \/ ftp.handler \in {"abort", "mabort"}]
     IN  ftp' = IF ftp.pc = "reply" THEN [t EXCEPT !.abrtflag = TRUE]
                ELSE Interrupted(t)
  /\ events' = events + 1
  /\ UNCHANGED <<replies, server>>

(* Nothing comes within ten seconds of ABOR.                               *)
AbortTimesOut ==
  /\ ftp.pc = "reply" /\ ftp.k = "abort" /\ ftp.connected /\ replies = <<>>
  /\ ftp' = lostpeer(ftp) /\ server' = [server EXCEPT !.st = "closed", !.large = FALSE]
  /\ UNCHANGED <<replies, events>>

-----------------------------------------------------------------------------
(* The server.                                                             *)

Answers(line) ==
  CASE line \in {"STOR", "RETR", "NLST", "LIST"} -> {PRELIM, ERROR}
    [] line = "quoted" -> {PRELIM, COMPLETE}
    [] line \in {"USER", "PASS"} -> {COMPLETE, CONTINUE, ERROR}
    [] line \in {"REST", "RNFR"} -> {CONTINUE, ERROR}
    [] line = "unknown" -> {COMPLETE, UNKNOWN}
    [] line \in {"ABOR", "urgent ABOR", "QUIT"} -> {COMPLETE}
    [] line = "passive" -> {COMPLETE, UNUSABLE, ERROR}
    [] OTHER -> {COMPLETE, ERROR}

Serve ==
  /\ server.st = "idle" /\ ftp.out # <<>>
  /\ LET line == Head(ftp.out)
     IN  \E r \in Answers(line), large \in BOOLEAN :
           /\ large => line = "RETR" /\ r = PRELIM
           /\ replies' = Append(replies, r)
           /\ server' =
                [st |-> IF r = PRELIM THEN "transfer"
                        ELSE IF line = "QUIT" THEN "closed" ELSE "idle",
                 type |-> IF line \in {"A", "I"} /\ r = COMPLETE THEN line
                          ELSE server.type,
                 large |-> large]
  /\ ftp' = [ftp EXCEPT !.out = Tail(@)]
  /\ UNCHANGED events

(* A large file is sent to its end only to a client that reads it, and     *)
(* given up when the client has closed the connection.                     *)
Unread ==
  /\ server.st = "transfer" /\ server.large
  /\ ftp.pc # "data" /\ ftp.data # -1 /\ ftp.fds[ftp.data] = "data"

TransferDone ==
  /\ server.st = "transfer" /\ ~Unread
  /\ \E r \in {COMPLETE, ERROR} : replies' = Append(replies, r)
  /\ server' = [server EXCEPT !.st = "idle", !.large = FALSE]
  /\ UNCHANGED <<ftp, events>>

(* As myoob of ftpd does: 426 and 226.                                     *)
TransferAborted ==
  /\ server.st = "transfer" /\ ftp.out # <<>> /\ Head(ftp.out) = "urgent ABOR"
  /\ replies' = replies \o <<ERROR, COMPLETE>>
  /\ server' = [server EXCEPT !.st = "idle", !.large = FALSE]
  /\ ftp' = [ftp EXCEPT !.out = Tail(@)]
  /\ UNCHANGED events

Drop ==
  /\ server.st \in {"idle", "transfer"} /\ events < MaxEvents
  /\ server' = [server EXCEPT !.st = "closed", !.large = FALSE]
  /\ events' = events + 1
  /\ replies' \in {replies, Append(replies, TRANSIENT)}
  /\ UNCHANGED ftp

Init ==
  /\ \E fromatty, passive \in BOOLEAN : ftp = Start(fromatty, passive)
  /\ replies = <<>> /\ events = 0
  /\ server = [st |-> "none", type |-> "A", large |-> FALSE]

Client ==
  \/ GetReply \/ LocalFile \/ DataSocket \/ Accept \/ OutputFile \/ Copy
User ==
  \/ Open \/ Simple \/ SetOption \/ TransferCommand
  \/ NextFile \/ Continue \/ mabort \/ cmdabort
Server == Serve \/ TransferDone \/ TransferAborted

Next == Client \/ User \/ Server \/ Drop \/ AbortTimesOut

(* Client and server run; the user need not answer or interrupt.           *)
Spec == Init /\ [][Next]_vars /\ WF_vars(Client) /\ WF_vars(Server)

-----------------------------------------------------------------------------
TypeOK ==
  /\ ftp.pc \in {"prompt", "reply", "local", "initconn", "accept", "opened",
                 "data", "confirm", "again", "mabort"}
  /\ server.st \in {"none", "idle", "transfer", "closed"}
  /\ ftp.fds \in [1..NFds -> {"free", "file", "data"}]
  /\ ftp.left \in 0..Files /\ events \in 0..MaxEvents

Asked == ftp.pc \in {"prompt", "confirm", "again", "mabort"}

(* Whenever the user is asked for a command or a decision, every reply to  *)
(* the commands before it has been read, whatever was interrupted and      *)
(* whenever: the next reply is the one to the next command.  A client that *)
(* went astray is exempt.                                                  *)
NoReplyLeft ==
  Asked /\ ftp.connected /\ ~ftp.astray /\ server.st # "closed"
    => replies = <<>> /\ ~ftp.cpend /\ ftp.out = <<>> /\ server.st = "idle"

(* After an interrupt, a command for several files meets its next file     *)
(* only when the user has said that it should go on: no interrupt that is  *)
(* heeded is forgotten while the connection lasts, and a refusal to go on  *)
(* is obeyed.                                                              *)
AskedToGoOn == ftp.pc = "confirm" /\ ftp.connected => ~ftp.unasked

(* Client and server convert a file in the same way: the client's record   *)
(* of the type is the server's type, unless a change of it was interrupted *)
(* or the client went astray.                                              *)
SameType ==
  ftp.pc = "data" /\ ~ftp.mistyped /\ ~ftp.astray
    => ftp.curtype = server.type

(* The descriptor of the local file is open and the file's until the       *)
(* client has done with it, although data keeps the numbers of descriptors *)
(* that are closed; passive mode switched after a transfer is exempt.      *)
FileStaysOpen ==
  ftp.file # -1 /\ ~ftp.switched => ftp.fds[ftp.file] = "file"

Waiting == ftp.pc = "reply"
Cancelling == Waiting /\ ftp.k \in {"cancel", "cancelled"}
Served ==
  Asked \/ (ftp.cpend /\ ~ftp.connected) \/ ftp.astray \/ (Cancelling /\ Unread)

(* Every command ends or asks the user, also when it is interrupted or the *)
(* server goes away, unless a reply is pending on a connection that was    *)
(* lost (the loop of the first setjmp), the client went astray, or its     *)
(* ABOR, not being urgent, waits at the server behind a large file that    *)
(* the client has stopped to read.                                         *)
CommandEnds == Waiting ~> Served
=============================================================================
