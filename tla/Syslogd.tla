------------------------------ MODULE Syslogd ------------------------------
(***************************************************************************)
(* syslogd (src/syslogd.c): messages go from the sockets through logmsg to *)
(* the entries of the configuration; a line equal to the one before is     *)
(* counted instead of written, and "last message repeated n times" is      *)
(* written later by logmsg, by the SIGALRM handler domark, or when the     *)
(* entry is closed by init or die.                                         *)
(*                                                                         *)
(* The handlers run in the middle of whatever the main loop does, except   *)
(* that logmsg blocks SIGALRM and SIGHUP; an entry that cannot be written  *)
(* to makes fprintlog call logmsg again.  The state therefore has the call *)
(* stack, of which every step executes a part of the innermost call.       *)
(***************************************************************************)
EXTENDS Integers, Sequences, FiniteSets

CONSTANTS
  Confs,           \* configurations: lines, a sequence of [type, sel], or
                   \* NoFile; inputs, what arrives, <<socket, text>>; repeats,
                   \* a bound: nothing arrives while a count is this large
  NoFile,          \* the configuration file cannot be opened
  Local, Remote,   \* host names
  LongTexts,       \* texts of MAXSVLINE bytes and more
  NoHops,          \* messages of remote hosts are not forwarded
  TimerIntvl,      \* TIMERINTVL, in units of time
  RepeatInterval,  \* repeatinterval
  SuspendTime,     \* INET_SUSPEND_TIME
  InetRetryMax,    \* INET_RETRY_MAX
  MarkInterval,    \* MarkInterval, in units of TIMERINTVL; 0: no marks
  MaxAge           \* bound: how long ago something was, at most

Types == {"UNUSED", "FILE", "CONSOLE", "PIPE", "WALL", "FORW", "FORW_SUSP",
          "FORW_UNKN"}
(* Facility and priority: emergencies of users, kernel printf, the errors  *)
(* and the information of syslogd itself, and marks.                       *)
Classes == {"user", "kern", "error", "info", "mark"}

ASSUME SyslogdConstants ==
  /\ Local # Remote
  /\ \A c \in Confs : c.repeats \in Nat /\
       (c.lines = NoFile \/
        c.lines \in Seq([type : {"FILE", "CONSOLE", "PIPE", "WALL", "FORW"},
                        sel : SUBSET Classes]))
  /\ NoHops \in BOOLEAN /\ TimerIntvl \in Nat \ {0}
  /\ RepeatInterval \in Seq(Nat \ {0}) /\ RepeatInterval # <<>>
  /\ {SuspendTime, InetRetryMax, MarkInterval, MaxAge} \subseteq Nat
  /\ SuspendTime \in 1..MaxAge /\ \A k \in DOMAIN RepeatInterval :
                                RepeatInterval[k] < MaxAge

VARIABLES
  conf,         \* the configuration that was read
  files,        \* Files
  initialized, restart, reenter,
  markseq,      \* MarkSeq
  stack,        \* the calls main and the handlers are in, innermost first
  woken,        \* poll was interrupted by a handler
  late,         \* how long ago now was set
  alarm,        \* time until SIGALRM, pending when 0
  was_initialized, masked,  \* what die saved, and whether it interrupted a
                            \* call that blocks SIGALRM
  status,       \* "up", "exited", or "undefined": freed memory was used
  wrong,        \* history: a file says what was not logged to it,
  torn,         \* a handler interrupted fprintlog before it reset the count,
  hopped        \* a message of a remote host was forwarded

history == <<wrong, torn, hopped>>
saved == <<was_initialized, masked>>
vars == <<conf, files, initialized, restart, reenter, markseq, stack,
          woken, late, alarm, was_initialized, masked, status, history>>

(* Messages, and what an entry remembers of one: f_prevline, f_prevhost.   *)
Message(text, from, class) == [text |-> text, from |-> from, class |-> class]
Key(m) == [text |-> m.text, from |-> m.from]
None == [text |-> "none", from |-> "none"]
NoMessage == Message("none", "none", "none")
ErrorMessage == Message("error", Local, "error")
RestartMessage == Message("restart", Local, "info")
ExitMessage == Message("exiting on signal", Local, "error")
MarkMessage == Message("-- MARK --", Local, "mark")

(* printline and printsys: only the kernel device makes kernel messages.   *)
Received(input) ==
  Message(input[2], IF input[1] = "inet" THEN Remote ELSE Local,
          IF input[1] = "klog" THEN "kern" ELSE "user")

Smaller(m, n) == IF m < n THEN m ELSE n

(* cfline: an entry and the type it gets when the file is opened or the    *)
(* host looked up.  History: owed, the lines logged to the entry and not   *)
(* written yet; last, the line that a reader of the file sees last.        *)
Opened(type) ==
  {type} \cup (IF type = "FORW" THEN {"FORW_UNKN"} ELSE {})
         \cup (IF type = "WALL" THEN {} ELSE {"UNUSED"})
cfline(entry, type) ==
  [type |-> type, sel |-> entry.sel, prev |-> None, repeatcount |-> 0,
   prevcount |-> IF type = "FORW_UNKN" THEN InetRetryMax ELSE 0,
   age |-> IF entry.type = "FORW" /\ type # "FORW" THEN 0 ELSE MaxAge,
   owed |-> <<>>, last |-> None]

(* load_conffile: each line is inserted at the head of the list.           *)
Emergency == <<[type |-> "CONSOLE", sel |-> {"user", "kern", "error"}],
               [type |-> "WALL", sel |-> {"user"}]>>
Table(lines) == IF lines = NoFile THEN Emergency
                ELSE [i \in DOMAIN lines |-> lines[Len(lines) + 1 - i]]
Loaded(c) ==
  LET table == Table(c.lines) IN
  {[i \in DOMAIN table |-> cfline(table[i], type[i])] :
     type \in {t \in [DOMAIN table -> Types] :
                 \A i \in DOMAIN table : t[i] \in Opened(table[i].type)}}

(* What logging the restart leaves when the daemon has started.            *)
Started(f) ==
  IF "info" \notin f.sel THEN f
  ELSE [f EXCEPT !.prev = Key(RestartMessage), !.last = Key(RestartMessage),
                 !.age = 0]

Init ==
  /\ conf \in Confs
  /\ \E fs \in Loaded(conf) : files = [i \in DOMAIN fs |-> Started(fs[i])]
  /\ initialized = TRUE /\ restart = FALSE /\ reenter = FALSE
  /\ markseq = 0 /\ stack = <<>> /\ woken = FALSE
  /\ late = 0 /\ alarm = TimerIntvl /\ status = "up"
  /\ was_initialized = TRUE /\ masked = FALSE
  /\ wrong = FALSE /\ torn = FALSE /\ hopped = FALSE
-----------------------------------------------------------------------------
Frame(op, i, at, m) == [op |-> op, i |-> i, at |-> at, m |-> m]
Call(op) == Frame(op, 1, "start", NoMessage)
Top == Head(stack)
In(op) == status = "up" /\ stack # <<>> /\ Top.op = op
Goes(at) == <<[Top EXCEPT !.at = at]>> \o Tail(stack)
NextEntry == <<[Top EXCEPT !.at = "start", !.i = @ + 1]>> \o Tail(stack)
Calling(op) == \E k \in DOMAIN stack : stack[k].op = op

(* logmsg (m), called on top of the calls below.  It sets now; before      *)
(* init has finished it only writes to the console.                        *)
Logging(m, below) ==
  IF initialized THEN <<Frame("logmsg", 1, "start", m)>> \o below ELSE below

(* The entries whose lines are accounted for: a named pipe that is full, a *)
(* host that does not answer and a terminal lose what is sent to them.     *)
Tracked(f) == f.type \in {"FILE", "CONSOLE"}

(* The line that fprintlog makes: a text, or n repetitions of the last     *)
(* one.  A reader takes these for what the last line says.                 *)
Line(f, m) == [m |-> IF m = NoMessage THEN f.prev ELSE Key(m),
               n |-> IF m = NoMessage /\ f.prevcount > 1 THEN f.prevcount
                     ELSE 0]
Meaning(f, line) ==
  IF line.n = 0 THEN <<line.m>> ELSE [k \in 1..line.n |-> f.last]
IsOwed(f, line) ==
  LET says == Meaning(f, line) IN
  Len(says) <= Len(f.owed) /\ SubSeq(f.owed, 1, Len(says)) = says
Written(f, line) ==
  [f EXCEPT !.age = late, !.last = Meaning(f, line)[1],
            !.owed = SubSeq(@, Len(Meaning(f, line)) + 1, Len(@))]
Stamped(f) == [f EXCEPT !.age = late]
(* Faulty variant of Unused: the type is changed after logerror.           *)
UnusedLater(f) == [f EXCEPT !.owed = <<>>]

Unused(f) == [f EXCEPT !.type = "UNUSED", !.owed = <<>>]

(* fprintlog on an entry f that writes to a descriptor.  logerror is       *)
(* called when the entry is already out of use.                            *)
ToDescriptor(i, f, line, fs, ret) ==
  /\ f.type \in {"FILE", "CONSOLE", "PIPE"}
  /\ \/ /\ files' = [fs EXCEPT ![i] = Written(f, line)] /\ stack' = ret
        /\ wrong' = (wrong \/ (Tracked(f) /\ ~IsOwed(f, line)))
        /\ UNCHANGED late
     \/ /\ files' = [fs EXCEPT ![i] = Unused(f)]
        /\ stack' = Logging(ErrorMessage, ret) /\ late' = 0
        /\ UNCHANGED wrong
     \/ /\ f.type = "PIPE" /\ files' = [fs EXCEPT ![i] = Stamped(f)]
        /\ stack' = ret /\ UNCHANGED <<late, wrong>>
  /\ UNCHANGED <<reenter, hopped>>

(* The case F_FORW, also of a host found or tried again: the line is kept  *)
(* back, cannot be sent for want of a socket, is sent, or comes back.      *)
Forward(i, f, from, line, fs, ret) ==
  /\ \/ /\ files' = [fs EXCEPT ![i] = f] /\ stack' = ret
        /\ UNCHANGED <<late, hopped>>
     \/ /\ ~(NoHops /\ from # Local)
        /\ files' = [fs EXCEPT ![i] = Stamped(f)] /\ stack' = ret
        /\ hopped' = (hopped \/ line.m.from = Remote) /\ UNCHANGED late
     \/ /\ ~(NoHops /\ from # Local)
        /\ files' = [fs EXCEPT ![i] = [f EXCEPT !.age = late,
                                                !.type = "FORW_SUSP"]]
        /\ stack' = Logging(ErrorMessage, ret) /\ late' = 0 /\ UNCHANGED hopped
  /\ UNCHANGED <<reenter, wrong>>

ToHost(i, f, from, line, fs, ret) ==
  \/ /\ f.type = "FORW" \/ (f.type = "FORW_SUSP" /\ f.age >= SuspendTime)
     /\ Forward(i, [f EXCEPT !.type = "FORW"], from, line, fs, ret)
  \/ /\ f.type = "FORW_UNKN" /\ f.age >= SuspendTime
     /\ Forward(i, [f EXCEPT !.type = "FORW", !.prevcount = 0], from, line, fs,
                ret)
  \/ /\ \/ /\ f.type \in {"FORW_SUSP", "FORW_UNKN"} /\ f.age < SuspendTime
           /\ files' = fs
        \/ /\ f.type = "FORW_UNKN" /\ f.age >= SuspendTime
           /\ files' = [fs EXCEPT ![i] =
                          IF f.prevcount = 0 THEN Unused(f)
                          ELSE [f EXCEPT !.prevcount = @ - 1]]
     /\ stack' = ret /\ UNCHANGED <<late, reenter, wrong, hopped>>

(* wallmsg: utmp cannot be read; or every terminal gets the line, after    *)
(* which a terminal that failed is reported.                               *)
ToUsers(i, f, fs, ret) ==
  /\ f.type = "WALL" /\ files' = [fs EXCEPT ![i] = Stamped(f)]
  /\ \/ /\ reenter /\ stack' = ret /\ UNCHANGED <<reenter, late>>
     \/ /\ ~reenter /\ reenter' = TRUE
        /\ stack' = Logging(ErrorMessage, ret) /\ late' = 0
     \/ /\ ~reenter /\ stack' = ret /\ UNCHANGED <<reenter, late>>
     \/ /\ ~reenter /\ reenter' = TRUE /\ late' = 0
        /\ stack' = Logging(ErrorMessage,
                     <<[Head(ret) EXCEPT !.at = "endutent"]>> \o Tail(ret))
  /\ UNCHANGED <<wrong, hopped>>

(* fprintlog (f, from, flags, m) up to the statement that resets the       *)
(* count; fs are the entries as the caller leaves them, below its calls.   *)
Fprintlog(i, from, m, fs, below) ==
  LET f == fs[i]
      line == Line(f, m)
      ret == <<Frame("fprintlog", i, "reset", NoMessage)>> \o below
  IN \/ ToDescriptor(i, f, line, fs, ret)
     \/ ToHost(i, f, from, line, fs, ret)
     \/ ToUsers(i, f, fs, ret)
     \/ /\ f.type = "UNUSED" /\ files' = [fs EXCEPT ![i] = Stamped(f)]
        /\ stack' = ret /\ UNCHANGED <<late, reenter, wrong, hopped>>

(* Faulty variant of Reset: the count is kept.                             *)
ResetNot ==
  /\ In("fprintlog") /\ stack' = Tail(stack)
  /\ reenter' = (reenter /\ Top.at # "endutent")
  /\ UNCHANGED <<conf, files, initialized, restart, markseq, woken, late,
                 alarm, saved, status, history>>

(* The end of fprintlog.                                                   *)
Reset ==
  /\ In("fprintlog")
  /\ files' = [files EXCEPT ![Top.i].prevcount =
                 IF files[Top.i].type = "FORW_UNKN" THEN @ ELSE 0]
  /\ reenter' = (reenter /\ Top.at # "endutent")
  /\ stack' = Tail(stack)
  /\ UNCHANGED <<conf, initialized, restart, markseq, woken, late, alarm,
                 saved, status, history>>
-----------------------------------------------------------------------------
unchanged_by_logmsg == <<conf, initialized, restart, markseq, woken, alarm,
                         saved, status, torn>>

Interval(f) == RepeatInterval[f.repeatcount + 1]

Backoff(f) ==
  [f EXCEPT !.repeatcount = Smaller(@ + 1, Len(RepeatInterval) - 1)]

Selected(f, m) ==
  /\ m.class \in f.sel
  /\ ~(f.type = "CONSOLE" /\ m.class = "kern")
  /\ ~(m.class = "mark" /\ 2 * f.age < MarkInterval * TimerIntvl)

IsRepeat(f, m) == m.class # "mark" /\ f.prev = Key(m)

Owe(f, m) == IF Tracked(f) THEN [f EXCEPT !.owed = Append(@, Key(m))] ELSE f

(* logmsg is done with the last entry.                                     *)
LogmsgEnds ==
  /\ In("logmsg") /\ Top.i > Len(files)
  /\ stack' = Tail(stack)
  /\ UNCHANGED <<unchanged_by_logmsg, files, reenter, late, wrong, hopped>>

(* The entry does not want the message.                                    *)
LogmsgSkips ==
  /\ In("logmsg") /\ Top.i <= Len(files) /\ Top.at = "start"
  /\ ~Selected(files[Top.i], Top.m)
  /\ stack' = NextEntry
  /\ UNCHANGED <<unchanged_by_logmsg, files, reenter, late, wrong, hopped>>

(* The line equals the one before: counted, and written with the others    *)
(* if domark would have written them by now.                               *)
LogmsgCounts ==
  /\ In("logmsg") /\ Top.i <= Len(files) /\ Top.at = "start"
  /\ LET i == Top.i
         f == files[i]
         fs == [files EXCEPT ![i] = Owe([f EXCEPT !.prevcount = @ + 1], Top.m)]
     IN /\ Selected(f, Top.m) /\ IsRepeat(f, Top.m)
        /\ \/ /\ f.age > Interval(f)
              /\ Fprintlog(i, Top.m.from, NoMessage, fs, Goes("backoff"))
           \/ /\ f.age <= Interval(f) /\ files' = fs /\ stack' = NextEntry
              /\ UNCHANGED <<reenter, late, wrong, hopped>>
  /\ UNCHANGED unchanged_by_logmsg

(* BACKOFF, in logmsg and in domark.                                       *)
BacksOff ==
  /\ (In("logmsg") \/ In("domark")) /\ Top.at = "backoff"
  /\ files' = [files EXCEPT ![Top.i] = Backoff(@)]
  /\ stack' = NextEntry
  /\ UNCHANGED <<unchanged_by_logmsg, reenter, late, wrong, hopped>>

(* A new line: first the repetitions of the last one.                      *)
LogmsgFlushes ==
  /\ In("logmsg") /\ Top.i <= Len(files) /\ Top.at = "start"
  /\ LET f == files[Top.i] IN
     /\ Selected(f, Top.m) /\ ~IsRepeat(f, Top.m) /\ f.prevcount > 0
     /\ Fprintlog(Top.i, Top.m.from, NoMessage, files, Goes("save"))
  /\ UNCHANGED unchanged_by_logmsg

(* Faulty variant of LogmsgSaves: a line that is too long to be remembered *)
(* leaves the one before it remembered.                                    *)
LogmsgSavesNot ==
  /\ In("logmsg") /\ Top.i <= Len(files)
  /\ LET i == Top.i
         f == files[i]
         m == Top.m
         long == m.text \in LongTexts
         fs == [files EXCEPT ![i] =
                  Owe([f EXCEPT !.repeatcount = 0,
                                !.prev = IF long THEN @ ELSE Key(m)], m)]
     IN /\ \/ Top.at = "save"
           \/ /\ Top.at = "start" /\ f.prevcount = 0
              /\ Selected(f, m) /\ ~IsRepeat(f, m)
        /\ Fprintlog(i, m.from, IF long THEN m ELSE NoMessage, fs, NextEntry)
  /\ UNCHANGED unchanged_by_logmsg

(* Then the line itself, remembered unless it is too long.                 *)
LogmsgSaves ==
  /\ In("logmsg") /\ Top.i <= Len(files)
  /\ LET i == Top.i
         f == files[i]
         m == Top.m
         long == m.text \in LongTexts
         kept == IF long THEN [Key(m) EXCEPT !.text = ""] ELSE Key(m)
         fs == [files EXCEPT ![i] =
                  Owe([f EXCEPT !.repeatcount = 0, !.prev = kept], m)]
     IN /\ \/ Top.at = "save"
           \/ /\ Top.at = "start" /\ f.prevcount = 0
              /\ Selected(f, m) /\ ~IsRepeat(f, m)
        /\ Fprintlog(i, m.from, IF long THEN m ELSE NoMessage, fs, NextEntry)
  /\ UNCHANGED unchanged_by_logmsg
-----------------------------------------------------------------------------
(* The list that domark and die walk has entries that init has freed.      *)
Freed == \E k \in DOMAIN stack :
           stack[k].op = "init" /\ stack[k].at \in {"start", "free"}
           /\ stack[k].i > 1

(* SIGALRM, which logmsg and its own handler block.                        *)
Blocked == Calling("logmsg") \/ Calling("domark") \/ masked

(* domark up to its loop.                                                  *)
Alarm ==
  /\ status = "up" /\ alarm = 0 /\ ~Blocked
  /\ LET due == MarkInterval > 0 /\ markseq + 1 >= MarkInterval
         walk == <<Call("domark")>> \o stack
     IN /\ markseq' = IF MarkInterval = 0 \/ due THEN 0 ELSE markseq + 1
        /\ stack' = IF Freed THEN <<>>
                    ELSE IF due THEN Logging(MarkMessage, walk) ELSE walk
  /\ late' = 0 /\ torn' = (torn \/ Calling("fprintlog"))
  /\ status' = IF Freed THEN "undefined" ELSE "up"
  /\ UNCHANGED <<conf, files, initialized, restart, reenter, woken, alarm,
                 saved, wrong, hopped>>

(* Faulty variant of DomarkSkips: the loop ends at an entry without count. *)
DomarkSkipsAll ==
  /\ In("domark") /\ Top.at = "start" /\ Top.i <= Len(files)
  /\ LET f == files[Top.i] IN f.prevcount = 0 \/ f.age < Interval(f)
  /\ stack' = <<[Top EXCEPT !.i = Len(files) + 1]>> \o Tail(stack)
  /\ UNCHANGED <<unchanged_by_logmsg, files, reenter, late, wrong, hopped>>

(* The loop of domark.                                                     *)
DomarkSkips ==
  /\ In("domark") /\ Top.at = "start" /\ Top.i <= Len(files)
  /\ LET f == files[Top.i] IN f.prevcount = 0 \/ f.age < Interval(f)
  /\ stack' = NextEntry
  /\ UNCHANGED <<unchanged_by_logmsg, files, reenter, late, wrong, hopped>>

DomarkFlushes ==
  /\ In("domark") /\ Top.at = "start" /\ Top.i <= Len(files)
  /\ LET f == files[Top.i] IN f.prevcount > 0 /\ f.age >= Interval(f)
  /\ Fprintlog(Top.i, Local, NoMessage, files, Goes("backoff"))
  /\ UNCHANGED unchanged_by_logmsg

(* alarm () again, and the return to what was interrupted: poll then fails *)
(* with EINTR, SA_RESTART or not.                                          *)
DomarkEnds ==
  /\ In("domark") /\ Top.at = "start" /\ Top.i > Len(files)
  /\ alarm' = TimerIntvl /\ stack' = Tail(stack)
  /\ woken' = (woken \/ Len(stack) = 1)
  /\ UNCHANGED <<conf, files, initialized, restart, reenter, markseq, late,
                 saved, status, history>>
-----------------------------------------------------------------------------
(* The main loop after poll: only now restart is looked at.                *)
Returns ==
  /\ status = "up" /\ stack = <<>> /\ alarm > 0
  /\ woken' = FALSE
  /\ UNCHANGED <<conf, files, restart, reenter, markseq, alarm, saved, status,
                 history>>
Restarts ==
  /\ restart /\ initialized' = FALSE /\ stack' = <<Call("init")>>
  /\ UNCHANGED late

(* Faulty variant of Poll: EINTR is looked at before restart.              *)
PollContinues == woken /\ Returns /\ UNCHANGED <<initialized, stack, late>>

(* poll was interrupted by a handler.                                      *)
Poll ==
  /\ woken /\ Returns
  /\ Restarts \/ (~restart /\ UNCHANGED <<initialized, stack, late>>)

(* There is a message in a socket; when the daemon restarts it stays there.*)
Receive ==
  /\ ~woken /\ Returns
  /\ \A i \in DOMAIN files :
       files[i].prevcount < conf.repeats +
         (IF files[i].type = "FORW_UNKN" THEN InetRetryMax ELSE 0)
  /\ \/ Restarts
     \/ /\ ~restart /\ late' = 0 /\ UNCHANGED initialized
        /\ \E input \in conf.inputs : stack' = Logging(Received(input), <<>>)

unchanged_by_init == <<markseq, woken, alarm, saved, status>>

(* init: pending output of an entry is flushed ...                         *)
InitFlushes ==
  /\ In("init") /\ Top.at = "start" /\ Top.i <= Len(files)
  /\ files[Top.i].prevcount > 0
  /\ Fprintlog(Top.i, Local, NoMessage, files, Goes("free"))
  /\ UNCHANGED <<conf, unchanged_by_init, initialized, restart, torn>>

(* Faulty variant of InitFrees: a count is freed with its entry.           *)
InitFreesCounts ==
  /\ In("init") /\ Top.i <= Len(files) /\ Top.at \in {"start", "free"}
  /\ stack' = NextEntry
  /\ UNCHANGED <<conf, unchanged_by_init, initialized, restart, files, reenter,
                 late, history>>

(* ... before it is closed and freed.                                      *)
InitFrees ==
  /\ In("init") /\ Top.i <= Len(files)
  /\ Top.at = "free" \/ (Top.at = "start" /\ files[Top.i].prevcount = 0)
  /\ stack' = NextEntry
  /\ UNCHANGED <<conf, unchanged_by_init, initialized, restart, files, reenter,
                 late, history>>

(* The table is read, whatever it is by now.                               *)
InitLoads ==
  /\ In("init") /\ Top.at = "start" /\ Top.i > Len(files)
  /\ conf' \in Confs /\ files' \in Loaded(conf')
  /\ initialized' = TRUE /\ late' = 0
  /\ stack' = <<Frame("logmsg", 1, "start", RestartMessage)>> \o Goes("done")
  /\ wrong' = FALSE /\ torn' = FALSE /\ hopped' = FALSE
  /\ UNCHANGED <<unchanged_by_init, restart, reenter>>

(* Back in main, which resets the flag only now.                           *)
InitEnds ==
  /\ In("init") /\ Top.at = "done"
  /\ restart' = FALSE /\ stack' = Tail(stack)
  /\ UNCHANGED <<conf, unchanged_by_init, initialized, files, reenter, late,
                 history>>
-----------------------------------------------------------------------------
unchanged_by_die == <<conf, restart, markseq, woken, alarm, saved, torn>>

(* SIGTERM, which nothing but its own handler blocks.  The handler does    *)
(* not return, so what it interrupts is forgotten.                         *)
Term ==
  /\ status = "up" /\ ~Calling("die")
  /\ was_initialized' = initialized /\ initialized' = FALSE
  /\ masked' = Blocked
  /\ torn' = (torn \/ Calling("fprintlog"))
  /\ stack' = IF Freed THEN <<>> ELSE <<Call("die")>>
  /\ status' = IF Freed THEN "undefined" ELSE "up"
  /\ UNCHANGED <<conf, files, restart, reenter, markseq, woken, late, alarm,
                 wrong, hopped>>

(* The loop of die.                                                        *)
DieFlushes ==
  /\ In("die") /\ Top.at = "start" /\ Top.i <= Len(files)
  /\ \/ /\ files[Top.i].prevcount > 0
        /\ Fprintlog(Top.i, Local, NoMessage, files, NextEntry)
     \/ /\ files[Top.i].prevcount = 0 /\ stack' = NextEntry
        /\ UNCHANGED <<files, reenter, late, wrong, hopped>>
  /\ UNCHANGED <<unchanged_by_die, initialized, status>>

DieLogs ==
  /\ In("die") /\ Top.at = "start" /\ Top.i > Len(files)
  /\ initialized' = was_initialized /\ late' = 0
  /\ stack' = (IF was_initialized
                 THEN <<Frame("logmsg", 1, "start", ExitMessage)>> ELSE <<>>)
               \o Goes("exit")
  /\ UNCHANGED <<unchanged_by_die, files, reenter, wrong, hopped, status>>

DieExits ==
  /\ In("die") /\ Top.at = "exit"
  /\ status' = "exited" /\ stack' = <<>>
  /\ UNCHANGED <<unchanged_by_die, files, initialized, reenter, late, wrong,
                 hopped>>
-----------------------------------------------------------------------------
(* SIGHUP: trigger_restart.  While die runs nobody looks at the flag.      *)
Hup ==
  /\ status = "up" /\ ~Calling("die")
  /\ restart' = TRUE /\ woken' = (woken \/ stack = <<>>)
  /\ UNCHANGED <<conf, files, initialized, reenter, markseq, stack, late,
                 alarm, saved, status, history>>

(* Time passes, though logmsg takes none, nor the return from poll.        *)
Tick ==
  /\ status = "up" /\ ~Blocked /\ ~woken /\ alarm > 0
  /\ alarm' = alarm - 1 /\ late' = Smaller(late + 1, MaxAge)
  /\ files' = [i \in DOMAIN files |->
                 [files[i] EXCEPT !.age = Smaller(@ + 1, MaxAge)]]
  /\ UNCHANGED <<conf, initialized, restart, reenter, markseq, stack, woken,
                 saved, status, history>>

Done == status # "up" /\ UNCHANGED vars

Run ==
  \/ Poll \/ Reset \/ Alarm
  \/ LogmsgEnds \/ LogmsgSkips \/ LogmsgCounts \/ LogmsgFlushes \/ LogmsgSaves
  \/ BacksOff \/ DomarkSkips \/ DomarkFlushes \/ DomarkEnds
  \/ InitFlushes \/ InitFrees \/ InitLoads \/ InitEnds
  \/ DieFlushes \/ DieLogs \/ DieExits

Next == Run \/ Receive \/ Term \/ Hup \/ Tick \/ Done

(* The process runs, and time passes however many messages are logged.     *)
(* Messages and signals need not come.                                     *)
Fairness == WF_vars(Run) /\ SF_vars(Tick)
Spec == Init /\ [][Next]_vars /\ Fairness
-----------------------------------------------------------------------------
TypeOK ==
  /\ conf \in Confs
  /\ \A i \in DOMAIN files :
       /\ files[i].type \in Types /\ files[i].age \in 0..MaxAge
       /\ files[i].prevcount \in Nat
       /\ files[i].repeatcount \in 0..(Len(RepeatInterval) - 1)
  /\ {initialized, restart, reenter, woken, was_initialized, masked, wrong,
      torn, hopped} \subseteq BOOLEAN
  /\ markseq \in 0..MarkInterval /\ late \in 0..MaxAge
  /\ alarm \in 0..TimerIntvl
  /\ status \in {"up", "exited", "undefined"}
  /\ \A k \in DOMAIN stack :
       stack[k].op \in {"logmsg", "fprintlog", "domark", "init", "die"}

(* Nothing is lost or invented by the counting: what was logged to a file  *)
(* and is not in it is counted, whoever is in the middle of writing.       *)
Accounted ==
  status = "up" /\ ~torn =>
    \A i \in DOMAIN files : Tracked(files[i]) =>
      LET f == files[i]
          written == \E k \in DOMAIN stack :
                       stack[k].op = "fprintlog" /\ stack[k].i = i
      IN f.owed = IF written THEN <<>> ELSE [k \in 1..f.prevcount |-> f.prev]

(* A line "last message repeated n times" follows the message it is about, *)
(* and that message was logged n times more.  Only a handler that comes    *)
(* between the writing and the reset of the count writes it twice.         *)
NothingInvented == wrong => torn

(* When an entry is closed by init, and when the daemon exits, no count is *)
(* left, except for an error that was reported twice while it exited.      *)
FlushedWhenClosed ==
  /\ \A k \in DOMAIN stack : stack[k].op = "init" /\ stack[k].at # "done" =>
       \A j \in 1..(stack[k].i - 1) : files[j].owed = <<>>
  /\ status = "exited" =>
       \A i \in DOMAIN files : \A k \in DOMAIN files[i].owed :
         files[i].owed[k] = Key(ErrorMessage)

(* An error while an error is logged takes an entry out of use first, so   *)
(* the calls of logmsg in each other are limited by the entries.           *)
RecursionBounded ==
  Cardinality({k \in DOMAIN stack : stack[k].op = "logmsg"})
    <= Len(files) + 1

(* The entries are being closed, or were.                                  *)
Closing == Calling("init") \/ Calling("die") \/ status # "up"

(* A repetition is not kept back for ever.                                 *)
RepeatsFlushed ==
  LET held(i) == i \in DOMAIN files /\ Tracked(files[i])
                 /\ files[i].prevcount > 0
      indices == UNION {DOMAIN Table(c.lines) : c \in Confs}
  IN \A i \in indices : held(i) ~> (~held(i) \/ Closing)

(* A SIGHUP that does not come while init runs makes it run, though poll   *)
(* may be entered with the flag set.                                       *)
RestartServed ==
  (restart /\ ~Calling("init")) ~> Closing

(* Without --hop no message of a remote host is forwarded, at least as     *)
(* long as no handler interrupts fprintlog.                                *)
RemoteNotForwarded == NoHops /\ ~torn => ~hopped

(* The files and the counts together hold what was logged, no more and no  *)
(* less, and no failure makes logmsg call itself without end.              *)
NothingLost == TypeOK /\ Accounted /\ NothingInvented /\ RecursionBounded

(* What waits is served: repetitions are written, SIGHUP is heeded.        *)
NothingStays == RepeatsFlushed /\ RestartServed
=============================================================================
