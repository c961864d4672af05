--------------------------- MODULE SyslogdProofs ---------------------------
(***************************************************************************)
(* Proofs about Syslogd: the lines that were logged to a file are in it or *)
(* counted, no failure makes logmsg call itself without end, and nothing   *)
(* is left behind when an entry is closed.                                 *)
(***************************************************************************)
EXTENDS Syslogd, SequenceTheorems, FiniteSetTheorems, TLAPS

(* What the texts of messages must not be, for some of the results.  An    *)
(* empty line after one that was too long to be remembered is taken for a  *)
(* repetition of it; a line that says what die logs makes that message a   *)
(* repetition, which nobody writes any more.                               *)
TextsNotEmpty == \A c \in Confs : \A input \in c.inputs : input[2] # ""
ExitTextOwn ==
  \A c \in Confs : \A input \in c.inputs : input[2] # ExitMessage.text

Texts ==
  {"", "none", "error", "restart", "exiting on signal", "-- MARK --"} \cup
  UNION {{input[2] : input \in c.inputs} : c \in Confs}
Keys == [text : Texts, from : {Local, Remote, "none"}]
Messages == [text : Texts, from : {Local, Remote}, class : Classes]

(* An entry of the table.                                                  *)
Entries ==
  [type : Types, sel : SUBSET Classes, prev : Keys,
   repeatcount : 0..(Len(RepeatInterval) - 1), prevcount : Nat,
   age : 0..MaxAge, owed : Seq(Keys), last : Keys]

(* A call.                                                                 *)
Frames ==
  [op : {"logmsg", "fprintlog", "domark", "init", "die"}, i : Nat,
   at : {"start", "backoff", "save", "reset", "endutent", "free", "done",
         "exit"},
   m : Messages \cup {NoMessage}]

(* The call at height d of the stack; the outermost one is at height 1.    *)
At(s, d) == s[Len(s) + 1 - d]
Height == Len(stack)

(* The places of a call in its function, when there are z entries.         *)
FrameOK(r, z) ==
  /\ r.op = "logmsg" =>
       /\ r.m \in Messages /\ r.at \in {"start", "backoff", "save"}
       /\ r.i \in 1..(z + 1)
       /\ r.at # "start" => r.i <= z
  /\ r.op = "fprintlog" =>
       r.at \in {"reset", "endutent"} /\ r.i \in 1..z
  /\ r.op = "domark" =>
       /\ r.at \in {"start", "backoff"} /\ r.i \in 1..(z + 1)
       /\ r.at # "start" => r.i <= z
  /\ r.op = "init" =>
       /\ r.at \in {"start", "free", "done"}
       /\ r.at # "done" => r.i \in 1..(z + 1)
       /\ r.at = "free" => r.i <= z
  /\ r.op = "die" =>
       /\ r.at \in {"start", "exit"}
       /\ r.at = "start" => r.i \in 1..(z + 1)

(* Types; TypeOK in more detail.                                           *)
ScalarsOK ==
  /\ conf \in Confs
  /\ initialized \in BOOLEAN /\ restart \in BOOLEAN /\ reenter \in BOOLEAN
  /\ woken \in BOOLEAN /\ was_initialized \in BOOLEAN /\ masked \in BOOLEAN
  /\ wrong \in BOOLEAN /\ torn \in BOOLEAN /\ hopped \in BOOLEAN
  /\ markseq \in 0..MarkInterval /\ late \in 0..MaxAge
  /\ alarm \in 0..TimerIntvl /\ status \in {"up", "exited", "undefined"}
FilesOK == files \in Seq(Entries)
FramesOK ==
  stack \in Seq(Frames) /\ \A d \in 1..Height : FrameOK(At(stack, d), Len(files))

(* The lines owed to an entry are no more than its count says.             *)
EntryOK(f) == /\ Len(f.owed) <= f.prevcount
              /\ ~Tracked(f) => f.owed = <<>>
EntriesOK == \A i \in 1..Len(files) : EntryOK(files[i])

(* What is counted is what a reader of the file sees last.                 *)
LastRight(f) == f.last = f.prev \/ (f.prev.text = "" /\ f.prevcount = 0)
LastOK == TextsNotEmpty =>
            \A i \in 1..Len(files) : Tracked(files[i]) => LastRight(files[i])

(* Accounted, where only the innermost call can be in the middle of        *)
(* writing to a file.                                                      *)
Copies(f) == [k \in 1..f.prevcount |-> f.prev]
TopPrints(i) ==
  /\ Height > 0
  /\ At(stack, Height).op = "fprintlog" /\ At(stack, Height).i = i
CountOK ==
  ~torn => \A i \in 1..Len(files) : Tracked(files[i]) =>
             files[i].owed = IF TopPrints(i) THEN <<>> ELSE Copies(files[i])
TopOK ==
  ~torn \/ initialized => \A d \in 1..(Height - 1) :
             At(stack, d).op = "fprintlog" => ~Tracked(files[At(stack, d).i])
PendingOK ==
  \A d \in 1..Height :
    At(stack, d).op = "fprintlog" => files[At(stack, d).i].owed = <<>>
WrongOK == TextsNotEmpty /\ wrong => torn

(* init and die are the outermost calls; nothing is logged while they      *)
(* close the entries.                                                      *)
ModeOK ==
  /\ \A d \in 1..Height : At(stack, d).op \in {"init", "die"} => d = 1
  /\ \A d \in 1..Height : At(stack, d).op = "logmsg" => initialized
  /\ \A d \in 1..Height :
       \/ At(stack, d).op = "init" /\ At(stack, d).at # "done"
       \/ At(stack, d).op = "die" /\ At(stack, d).at = "start"
       => ~initialized
  /\ \A d \in 1..Height :
       At(stack, d).op \in {"logmsg", "domark"} => late = 0

(* An entry to which fprintlog does not write, so that it cannot fail.     *)
Out(f, r) == \/ f.type = "UNUSED"
             \/ f.type = "FORW_SUSP" /\ f.age < SuspendTime
             \/ f.type = "WALL" /\ r

(* Who called fprintlog.                                                   *)
CallerOK ==
  \A d \in 1..Height : At(stack, d).op = "fprintlog" =>
    /\ d > 1
    /\ \/ At(stack, d - 1).op \in {"logmsg", "domark"}
       \/ At(stack, d - 1).op = "init" /\ At(stack, d - 1).at = "free"
       \/ At(stack, d - 1).op = "die" /\ At(stack, d - 1).at = "start"

(* Who called logmsg: main, or one of these.                               *)
Reports(d) ==
  /\ d > 1 /\ At(stack, d).op = "logmsg" /\ At(stack, d - 1).op = "fprintlog"
LogOverOK ==
  \A d \in 2..Height : At(stack, d).op = "logmsg" =>
    \/ /\ At(stack, d - 1).op = "fprintlog"
       /\ Out(files[At(stack, d - 1).i], reenter)
    \/ At(stack, d - 1).op = "domark"
    \/ At(stack, d - 1).op = "init" /\ At(stack, d - 1).at = "done"
    \/ At(stack, d - 1).op = "die" /\ At(stack, d - 1).at = "exit"
DomarkOK ==
  \A d, e \in 1..Height : At(stack, d).op = "domark" /\ e < d =>
    At(stack, e).op \notin {"logmsg", "domark"}
(* Each failure that is being reported is one of another entry.            *)
CausesOK ==
  \A d, e \in 1..Height : Reports(d) /\ Reports(e) /\ d # e =>
    At(stack, d - 1).i # At(stack, e - 1).i

(* The calls of wallmsg that have set reenter and will or must not reset   *)
(* it before they are done: there is one at a time.                        *)
Walling(d) ==
  /\ At(stack, d).op = "fprintlog"
  /\ \/ At(stack, d).at = "endutent"
     \/ /\ d < Height /\ At(stack, d + 1).op = "logmsg"
        /\ files[At(stack, d).i].type = "WALL"
WallOK ==
  \A d \in 1..Height : Walling(d) =>
    reenter /\ \A e \in 1..Height : Walling(e) => e = d

(* logmsg has flushed the repetitions when it saves a new line.            *)
SaveOK ==
  \A d \in 1..Height :
    At(stack, d).op = "logmsg" /\ At(stack, d).at = "save" =>
      \/ /\ d < Height /\ At(stack, d + 1).op = "fprintlog"
         /\ At(stack, d + 1).i = At(stack, d).i
      \/ /\ d = Height
         /\ Tracked(files[At(stack, d).i]) =>
              files[At(stack, d).i].prevcount = 0

(* The entries that init and die are done with.                            *)
Flushed(r, fs) ==
  /\ \A j \in 1..Len(fs) : j < r.i => fs[j].owed = <<>>
  /\ r.at = "free" => fs[r.i].owed = <<>>
FlushedOK ==
  \A d \in 1..Height :
    \/ At(stack, d).op = "init" /\ At(stack, d).at # "done"
    \/ At(stack, d).op = "die" /\ At(stack, d).at = "start"
    => Flushed(At(stack, d), files)

(* From the message about the exit on only errors can be repeated.         *)
Exiting == \/ status = "exited"
           \/ \E d \in 1..Height :
                At(stack, d).op = "die" /\ At(stack, d).at = "exit"
OnlyErrors(f) == \A k \in 1..Len(f.owed) : f.owed[k] = Key(ErrorMessage)
ExitOK ==
  ExitTextOwn =>
    /\ Exiting => \A i \in 1..Len(files) : OnlyErrors(files[i])
    /\ ~Exiting => \A i \in 1..Len(files) : files[i].prev # Key(ExitMessage)
    /\ \A d \in 1..Height : At(stack, d).op = "logmsg" =>
         /\ Exiting => At(stack, d).m \in {ErrorMessage, ExitMessage, MarkMessage}
         /\ Key(At(stack, d).m) = Key(ExitMessage) =>
              /\ d = 2 /\ Exiting /\ At(stack, d).m = ExitMessage
              /\ \A i \in 1..Len(files) : i >= At(stack, d).i =>
                   files[i].prev # Key(ExitMessage)
TextOK ==
  TextsNotEmpty => \A d \in 1..Height :
    At(stack, d).op = "logmsg" => At(stack, d).m.text # ""

TypesInv == ScalarsOK /\ FilesOK /\ FramesOK
CountInv == EntriesOK /\ LastOK /\ CountOK /\ TopOK /\ PendingOK
            /\ WrongOK /\ TextOK
CallInv == ModeOK /\ CallerOK /\ LogOverOK /\ DomarkOK /\ CausesOK /\ WallOK
           /\ SaveOK
CloseInv == FlushedOK /\ ExitOK
SyslogdInv == TypesInv /\ CountInv /\ CallInv /\ CloseInv
-----------------------------------------------------------------------------

(* What is assumed of the constants, in the form the proofs use.           *)
LEMMA ConstantFacts ==
  /\ Local # Remote /\ SuspendTime \in Nat /\ SuspendTime > 0
  /\ MaxAge \in Nat /\ SuspendTime <= MaxAge
  /\ InetRetryMax \in Nat /\ MarkInterval \in Nat
  /\ TimerIntvl \in Nat /\ TimerIntvl > 0
  /\ Len(RepeatInterval) \in Nat /\ Len(RepeatInterval) > 0
<1>1. RepeatInterval \in Seq(Nat \ {0}) /\ RepeatInterval # <<>>
  BY SyslogdConstants
<1>2. Len(RepeatInterval) \in Nat /\ Len(RepeatInterval) > 0
  BY <1>1
<1>3. QED BY <1>2, SyslogdConstants

(* A call on top of others.                                                *)
LEMMA OnTop ==
  ASSUME NEW S, NEW s \in Seq(S), NEW x \in S
  PROVE /\ <<x>> \o s \in Seq(S) /\ Len(<<x>> \o s) = Len(s) + 1
        /\ At(<<x>> \o s, Len(s) + 1) = x
        /\ \A d \in 1..Len(s) : At(<<x>> \o s, d) = At(s, d)
<1> DEFINE t == <<x>> \o s
<1>1. <<x>> \in Seq(S) /\ Len(<<x>>) = 1 /\ <<x>>[1] = x
  OBVIOUS
<1>2. t \in Seq(S) /\ Len(t) = Len(s) + 1
  BY <1>1
<1>3. Len(s) \in Nat
  OBVIOUS
<1>4. t[1] = x
  BY <1>1
<1>5. \A d \in 1..Len(s) : t[Len(s) + 2 - d] = s[Len(s) + 1 - d]
  <2>1. SUFFICES ASSUME NEW d \in 1..Len(s)
                 PROVE t[Len(s) + 2 - d] = s[Len(s) + 1 - d]
    OBVIOUS
  <2>2. Len(s) + 2 - d \in 2..(Len(s) + 1)
    BY <1>3
  <2>3. QED BY <1>1, <1>3, <2>2
<1> HIDE DEF t
<1>6. /\ At(t, Len(s) + 1) = x
      /\ \A d \in 1..Len(s) : At(t, d) = At(s, d)
  <2>1. At(t, Len(s) + 1) = t[1]
    BY <1>2, <1>3 DEF At
  <2>2. ASSUME NEW d \in 1..Len(s) PROVE At(t, d) = At(s, d)
    <3>1. Len(t) + 1 - d = Len(s) + 2 - d
      BY <1>2, <1>3
    <3>2. QED BY <1>5, <3>1 DEF At
  <2>3. QED BY <1>4, <2>1, <2>2
<1>7. QED BY <1>2, <1>6 DEF t

(* The calls below the innermost one.                                      *)
LEMMA Beneath ==
  ASSUME NEW S, NEW s \in Seq(S), s # <<>>
  PROVE /\ Tail(s) \in Seq(S) /\ Len(Tail(s)) = Len(s) - 1
        /\ Len(s) \in Nat /\ Len(s) > 0
        /\ Head(s) = At(s, Len(s)) /\ Head(s) \in S
        /\ \A d \in 1..(Len(s) - 1) : At(Tail(s), d) = At(s, d)
<1>1. /\ Tail(s) \in Seq(S) /\ Len(Tail(s)) = Len(s) - 1
      /\ Len(s) \in Nat /\ Len(s) > 0 /\ Head(s) = s[1] /\ s[1] \in S
      /\ \A k \in 1..(Len(s) - 1) : Tail(s)[k] = s[k + 1]
  OBVIOUS
<1>2. Head(s) = At(s, Len(s))
  BY <1>1 DEF At
<1>3. ASSUME NEW d \in 1..(Len(s) - 1) PROVE At(Tail(s), d) = At(s, d)
  <2>1. Len(s) - d \in 1..(Len(s) - 1) /\ Len(s) - d + 1 = Len(s) + 1 - d
    BY <1>1
  <2>2. Len(Tail(s)) + 1 - d = Len(s) - d
    BY <1>1
  <2>3. QED BY <1>1, <2>1, <2>2 DEF At
<1>4. QED BY <1>1, <1>2, <1>3

(* Every call of the stack has a height.                                   *)
LEMMA Heights ==
  ASSUME NEW S, NEW s \in Seq(S)
  PROVE /\ Len(s) \in Nat /\ DOMAIN s = 1..Len(s)
        /\ \A d \in 1..Len(s) : At(s, d) \in S
        /\ \A k \in 1..Len(s) : /\ Len(s) + 1 - k \in 1..Len(s)
                                /\ s[k] = At(s, Len(s) + 1 - k)
        /\ \A d \in 1..Len(s) : /\ Len(s) + 1 - d \in 1..Len(s)
                                /\ At(s, d) = s[Len(s) + 1 - d]
<1>1. Len(s) \in Nat /\ DOMAIN s = 1..Len(s) /\ \A k \in 1..Len(s) : s[k] \in S
  OBVIOUS
<1>2. \A k \in 1..Len(s) : /\ Len(s) + 1 - k \in 1..Len(s)
                           /\ Len(s) + 1 - (Len(s) + 1 - k) = k
  BY <1>1
<1>3. QED BY <1>1, <1>2 DEF At

(* Whether a function is being called, by heights.                         *)
LEMMA CallingByHeight ==
  ASSUME FramesOK, NEW o
  PROVE Calling(o) <=> \E d \in 1..Height : At(stack, d).op = o
<1>1. stack \in Seq(Frames)
  BY DEF FramesOK
<1>2. QED BY <1>1, Heights DEF Calling, Height

(* Entries are changed field by field.                                     *)
LEMMA EntryFacts ==
  ASSUME NEW f \in Entries
  PROVE /\ f.type \in Types /\ f.sel \in SUBSET Classes /\ f.prev \in Keys
        /\ f.repeatcount \in 0..(Len(RepeatInterval) - 1)
        /\ f.prevcount \in Nat /\ f.age \in 0..MaxAge
        /\ f.owed \in Seq(Keys) /\ f.last \in Keys
BY DEF Entries


-----------------------------------------------------------------------------
(* fprintlog.  m is the message it was given, g the entry.                 *)

(* The call of fprintlog that is left to be ended, and that of logmsg by   *)
(* logerror.                                                               *)
Left(i, at) == Frame("fprintlog", i, at, NoMessage)
Report == Frame("logmsg", 1, "start", ErrorMessage)

(* What is said of the entry.                                              *)
Says(g, m) == Meaning(g, Line(g, m))

(* The three ways fprintlog ends: done, done but for endutent, failed.     *)
PrintsQuietly(i, at, below) ==
  /\ stack' = <<Left(i, at)>> \o below
  /\ at = "endutent" => ~reenter /\ reenter'
PrintFails(i, at, g, below) ==
  /\ stack' = <<Report>> \o (<<Left(i, at)>> \o below)
  /\ initialized /\ late' = 0
  /\ ~Tracked(files'[i]) /\ ~Out(g, reenter) /\ Out(files'[i], reenter')
  /\ at = "endutent" \/ g.type = "WALL" => ~reenter /\ reenter'

(* What fprintlog does to entry i, which its caller leaves as fs[i].       *)
EntryPrinted(g, h, m) ==
  /\ h.prev = g.prev /\ h.sel = g.sel /\ h.owed = <<>>
  /\ Tracked(h) => /\ Tracked(g) /\ h.prevcount = g.prevcount
                   /\ h.last = Says(g, m)[1]
  /\ h.type = "WALL" <=> g.type = "WALL"
Printed(i, m, fs, below) ==
  /\ files' \in Seq(Entries) /\ Len(files') = Len(fs)
  /\ \A j \in 1..Len(fs) : j # i => files'[j] = fs[j]
  /\ EntryPrinted(fs[i], files'[i], m)
  /\ Out(fs[i], reenter) => Out(files'[i], reenter')
  /\ \E at \in {"reset", "endutent"} :
       PrintsQuietly(i, at, below) \/ PrintFails(i, at, fs[i], below)
  /\ reenter' \in BOOLEAN /\ hopped' \in BOOLEAN /\ wrong' \in BOOLEAN
  /\ reenter => reenter'
  /\ late' \in {0, late}
  /\ wrong' => wrong \/ (Tracked(fs[i]) /\ ~IsOwed(fs[i], Line(fs[i], m)))

(* The new entry is put in its place.                                      *)
LEMMA PutBack ==
  ASSUME NEW fs \in Seq(Entries), NEW i \in 1..Len(fs), NEW h \in Entries,
         files' = [fs EXCEPT ![i] = h]
  PROVE /\ files' \in Seq(Entries) /\ Len(files') = Len(fs)
        /\ \A j \in 1..Len(fs) : j # i => files'[j] = fs[j]
        /\ files'[i] = h
OBVIOUS

(* What is said is at least one line, and all that is counted.             *)
LEMMA SaysFacts ==
  ASSUME NEW g \in Entries, NEW m \in Messages \cup {NoMessage}
  PROVE /\ Says(g, m) \in Seq(Keys) /\ Len(Says(g, m)) >= 1
        /\ Says(g, m)[1] \in Keys
        /\ Len(Says(g, m)) \in Nat
        /\ m = NoMessage => Len(Says(g, m)) >= g.prevcount
<1> DEFINE line == Line(g, m)
<1>1. g.prev \in Keys /\ g.last \in Keys /\ g.prevcount \in Nat
  BY EntryFacts
<1>2. m # NoMessage => Key(m) \in Keys
  BY DEF Key, Keys, Messages
<1>3. line.m \in Keys
  BY <1>1, <1>2 DEF Line
<1>4. /\ line.n = IF m = NoMessage /\ g.prevcount > 1 THEN g.prevcount ELSE 0
      /\ line.n \in Nat
  BY <1>1 DEF Line
<1>5. Says(g, m) = IF line.n = 0 THEN <<line.m>> ELSE [k \in 1..line.n |-> g.last]
  BY DEF Says, Meaning
<1> HIDE DEF line
<1>6. CASE line.n = 0
  <2>1. Says(g, m) = <<line.m>>
    BY <1>5, <1>6
  <2>2. m = NoMessage => g.prevcount <= 1
    BY <1>1, <1>4, <1>6
  <2>3. QED BY <1>1, <1>3, <2>1, <2>2
<1>7. CASE line.n # 0
  <2>1. Says(g, m) = [k \in 1..line.n |-> g.last]
    BY <1>5, <1>7
  <2>2. Says(g, m) \in Seq(Keys) /\ Len(Says(g, m)) = line.n
    BY <1>1, <1>4, <2>1
  <2>3. Says(g, m)[1] = g.last
    BY <1>4, <1>7, <2>1
  <2>4. QED BY <1>1, <1>4, <1>7, <2>2, <2>3
<1>8. QED BY <1>6, <1>7

(* What is left of the lines owed when all of them were said.              *)
LEMMA NothingLeft ==
  ASSUME NEW g \in Entries, NEW n \in Nat, Len(g.owed) <= n
  PROVE SubSeq(g.owed, n + 1, Len(g.owed)) = <<>>
<1>1. g.owed \in Seq(Keys) /\ Len(g.owed) \in Nat
  BY EntryFacts
<1>2. n + 1 \in Nat /\ n + 1 > Len(g.owed)
  BY <1>1
<1>3. QED BY <1>1, <1>2

(* The line is written.                                                    *)
LEMMA WrittenFacts ==
  ASSUME NEW g \in Entries, NEW m \in Messages \cup {NoMessage},
         Len(g.owed) <= Len(Says(g, m)), late \in 0..MaxAge
  PROVE /\ Written(g, Line(g, m)) \in Entries
        /\ EntryPrinted(g, Written(g, Line(g, m)), m)
        /\ Written(g, Line(g, m)).type = g.type
<1> DEFINE h == Written(g, Line(g, m))
<1>1. Says(g, m)[1] \in Keys /\ Len(Says(g, m)) \in Nat
  BY SaysFacts
<1>2. SubSeq(g.owed, Len(Says(g, m)) + 1, Len(g.owed)) = <<>>
  BY <1>1, NothingLeft
<1>3. h = [g EXCEPT !.age = late, !.last = Says(g, m)[1], !.owed = <<>>]
  BY <1>2 DEF Written, Says
<1>4. <<>> \in Seq(Keys)
  OBVIOUS
<1> HIDE DEF h
<1>5. h \in Entries
  BY <1>1, <1>3, <1>4 DEF Entries
<1>6. /\ h.prev = g.prev /\ h.sel = g.sel /\ h.owed = <<>> /\ h.type = g.type
      /\ h.prevcount = g.prevcount /\ h.last = Says(g, m)[1]
  BY <1>3 DEF Entries
<1>7. QED BY <1>5, <1>6 DEF EntryPrinted, Tracked, h

(* Any other change of an entry by fprintlog.                              *)
Changed(g, type, n, a) ==
  [type |-> type, sel |-> g.sel, prev |-> g.prev,
   repeatcount |-> g.repeatcount, prevcount |-> n, age |-> a,
   owed |-> <<>>, last |-> g.last]

(* What every such change does.                                            *)
LEMMA ChangeFacts ==
  ASSUME NEW g \in Entries, NEW m, NEW type \in Types, NEW n \in Nat,
         NEW a \in 0..MaxAge, type \notin {"FILE", "CONSOLE"},
         type = "WALL" <=> g.type = "WALL"
  PROVE /\ Changed(g, type, n, a) \in Entries
        /\ EntryPrinted(g, Changed(g, type, n, a), m)
        /\ ~Tracked(Changed(g, type, n, a))
        /\ Changed(g, type, n, a).type = type /\ Changed(g, type, n, a).age = a
<1> DEFINE h == Changed(g, type, n, a)
<1>1. <<>> \in Seq(Keys)
  OBVIOUS
<1>2. h \in Entries
  BY <1>1, EntryFacts DEF Entries, Changed
<1>3. /\ h.prev = g.prev /\ h.sel = g.sel /\ h.owed = <<>> /\ h.type = type
      /\ h.age = a
  BY DEF Changed
<1> HIDE DEF h
<1>4. ~Tracked(h)
  BY <1>3 DEF Tracked
<1>5. EntryPrinted(g, h, m)
  BY <1>3, <1>4 DEF EntryPrinted
<1>6. QED BY <1>2, <1>3, <1>4, <1>5 DEF h

(* An entry, field by field.                                               *)
LEMMA EntryIs ==
  ASSUME NEW g \in Entries
  PROVE g = [type |-> g.type, sel |-> g.sel, prev |-> g.prev,
             repeatcount |-> g.repeatcount, prevcount |-> g.prevcount,
             age |-> g.age, owed |-> g.owed, last |-> g.last]
BY DEF Entries

(* The changes there are.                                                  *)
LEMMA Changes ==
  ASSUME NEW g \in Entries
  PROVE /\ Unused(g) = Changed(g, "UNUSED", g.prevcount, g.age)
        /\ g.owed = <<>> =>
             /\ g = Changed(g, g.type, g.prevcount, g.age)
             /\ Stamped(g) = Changed(g, g.type, g.prevcount, late)
             /\ [g EXCEPT !.type = "FORW"]
                  = Changed(g, "FORW", g.prevcount, g.age)
             /\ [g EXCEPT !.type = "FORW", !.prevcount = 0]
                  = Changed(g, "FORW", 0, g.age)
             /\ [g EXCEPT !.prevcount = @ - 1]
                  = Changed(g, g.type, g.prevcount - 1, g.age)
             /\ [g EXCEPT !.age = late, !.type = "FORW_SUSP"]
                  = Changed(g, "FORW_SUSP", g.prevcount, late)
<1>1. PICK t, s, p, r, n, a, o, l :
        g = [type |-> t, sel |-> s, prev |-> p, repeatcount |-> r,
             prevcount |-> n, age |-> a, owed |-> o, last |-> l]
  BY EntryIs
<1>2. /\ g.type = t /\ g.sel = s /\ g.prev = p /\ g.repeatcount = r
      /\ g.prevcount = n /\ g.age = a /\ g.owed = o /\ g.last = l
  BY <1>1
<1> DEFINE rec(ty, nn, aa, oo) ==
             [type |-> ty, sel |-> s, prev |-> p, repeatcount |-> r,
              prevcount |-> nn, age |-> aa, owed |-> oo, last |-> l]
<1>3. \A ty, nn, aa : Changed(g, ty, nn, aa) = rec(ty, nn, aa, <<>>)
  BY <1>2 DEF Changed
<1>4. /\ \A ty : [g EXCEPT !.type = ty] = rec(ty, n, a, o)
      /\ [g EXCEPT !.age = late] = rec(t, n, late, o)
      /\ [g EXCEPT !.prevcount = @ - 1] = rec(t, n - 1, a, o)
  <2>1. \A ty : [g EXCEPT !.type = ty] = rec(ty, n, a, o)
    BY <1>1
  <2>2. [g EXCEPT !.age = late] = rec(t, n, late, o)
    BY <1>1
  <2>3. [g EXCEPT !.prevcount = @ - 1] = rec(t, n - 1, a, o)
    BY <1>1
  <2>4. QED BY <2>1, <2>2, <2>3
<1>5. Unused(g) = rec("UNUSED", n, a, <<>>)
  <2>1. PICK h : h = rec("UNUSED", n, a, o)
    OBVIOUS
  <2>2. Unused(g) = [[g EXCEPT !.type = "UNUSED"] EXCEPT !.owed = <<>>]
    BY DEF Unused
  <2>3. [g EXCEPT !.type = "UNUSED"] = h
    BY <1>4, <2>1
  <2>4. [h EXCEPT !.owed = <<>>] = rec("UNUSED", n, a, <<>>)
    BY <2>1
  <2>5. QED BY <2>2, <2>3, <2>4
<1>6. [g EXCEPT !.type = "FORW", !.prevcount = 0] = rec("FORW", 0, a, o)
  <2>1. PICK h : h = rec("FORW", n, a, o)
    OBVIOUS
  <2>2. [g EXCEPT !.type = "FORW", !.prevcount = 0]
          = [[g EXCEPT !.type = "FORW"] EXCEPT !.prevcount = 0]
    OBVIOUS
  <2>3. [g EXCEPT !.type = "FORW"] = h
    BY <1>4, <2>1
  <2>4. [h EXCEPT !.prevcount = 0] = rec("FORW", 0, a, o)
    BY <2>1
  <2>5. QED BY <2>2, <2>3, <2>4
<1>7. [g EXCEPT !.age = late, !.type = "FORW_SUSP"]
        = rec("FORW_SUSP", n, late, o)
  <2>1. PICK h : h = rec(t, n, late, o)
    OBVIOUS
  <2>2. [g EXCEPT !.age = late, !.type = "FORW_SUSP"]
          = [[g EXCEPT !.age = late] EXCEPT !.type = "FORW_SUSP"]
    OBVIOUS
  <2>3. [g EXCEPT !.age = late] = h
    BY <1>4, <2>1
  <2>4. [h EXCEPT !.type = "FORW_SUSP"] = rec("FORW_SUSP", n, late, o)
    BY <2>1
  <2>5. QED BY <2>2, <2>3, <2>4
<1>8. g = rec(t, n, a, o) /\ Stamped(g) = rec(t, n, late, o)
  BY <1>1, <1>4 DEF Stamped
<1> HIDE DEF rec
<1>9. QED BY <1>2, <1>3, <1>4, <1>5, <1>6, <1>7, <1>8

(* What ToDescriptor, ToHost and ToUsers are called with.                  *)
Prepared(i, m, fs, below) ==
  /\ fs \in Seq(Entries) /\ i \in 1..Len(fs) /\ m \in Messages \cup {NoMessage}
  /\ below \in Seq(Frames)
  /\ late \in 0..MaxAge /\ reenter \in BOOLEAN /\ wrong \in BOOLEAN
  /\ hopped \in BOOLEAN /\ initialized \in BOOLEAN
  /\ initialized => late = 0
  /\ ~Tracked(fs[i]) => fs[i].owed = <<>>
  /\ Len(fs[i].owed) <= Len(Says(fs[i], m))

(* The rest of Printed once the entry is known.                            *)
LEMMA PrintedFacts ==
  ASSUME NEW i, NEW m, NEW fs, NEW below, NEW h, Prepared(i, m, fs, below),
         h \in Entries, files' = [fs EXCEPT ![i] = h],
         EntryPrinted(fs[i], h, m),
         Out(fs[i], reenter) => Out(h, reenter'),
         \E at \in {"reset", "endutent"} :
           \/ PrintsQuietly(i, at, below)
           \/ /\ stack' = <<Report>> \o (<<Left(i, at)>> \o below)
              /\ initialized /\ late' = 0
              /\ ~Tracked(h) /\ ~Out(fs[i], reenter) /\ Out(h, reenter')
              /\ at = "endutent" \/ fs[i].type = "WALL" => ~reenter /\ reenter',
         reenter' \in BOOLEAN, hopped' \in BOOLEAN, wrong' \in BOOLEAN,
         reenter => reenter', late' \in {0, late},
         wrong' => wrong \/ (Tracked(fs[i]) /\ ~IsOwed(fs[i], Line(fs[i], m)))
  PROVE Printed(i, m, fs, below)
<1>1. fs \in Seq(Entries) /\ i \in 1..Len(fs)
  BY DEF Prepared
<1>2. /\ files' \in Seq(Entries) /\ Len(files') = Len(fs)
      /\ \A j \in 1..Len(fs) : j # i => files'[j] = fs[j]
      /\ files'[i] = h
  BY <1>1, PutBack
<1>3. QED BY <1>2 DEF Printed, PrintFails

(* logerror, in the two states of the daemon.                              *)
LEMMA Logged ==
  ASSUME NEW ret, stack' = Logging(ErrorMessage, ret), initialized \in BOOLEAN
  PROVE \/ ~initialized /\ stack' = ret
        \/ initialized /\ stack' = <<Report>> \o ret
BY DEF Logging, Report

(* fprintlog to a file, the console or a pipe.                             *)
LEMMA DescriptorFacts ==
  ASSUME NEW i, NEW m, NEW fs, NEW below, Prepared(i, m, fs, below),
         ToDescriptor(i, fs[i], Line(fs[i], m), fs,
                      <<Left(i, "reset")>> \o below)
  PROVE Printed(i, m, fs, below)
<1> DEFINE g == fs[i]  ret == <<Left(i, "reset")>> \o below
<1>0. /\ fs \in Seq(Entries) /\ i \in 1..Len(fs)
      /\ m \in Messages \cup {NoMessage} /\ late \in 0..MaxAge
      /\ ~Tracked(g) => g.owed = <<>>
      /\ Len(g.owed) <= Len(Says(g, m))
      /\ initialized \in BOOLEAN /\ reenter \in BOOLEAN /\ hopped \in BOOLEAN
      /\ wrong \in BOOLEAN
      /\ initialized => late = 0
  BY DEF Prepared
<1>1. g \in Entries
  BY <1>0
<1>2. /\ g.type \in {"FILE", "CONSOLE", "PIPE"} /\ reenter' = reenter
      /\ hopped' = hopped
  BY DEF ToDescriptor
<1>3. ~Out(g, reenter) /\ g.type # "WALL"
  BY <1>2 DEF Out
<1>4. g.prevcount \in Nat /\ g.age \in 0..MaxAge
  BY <1>1, EntryFacts
<1>5. CASE /\ files' = [fs EXCEPT ![i] = Written(g, Line(g, m))]
           /\ stack' = ret /\ late' = late
           /\ wrong' = (wrong \/ (Tracked(g) /\ ~IsOwed(g, Line(g, m))))
  <2>1. /\ Written(g, Line(g, m)) \in Entries
        /\ EntryPrinted(g, Written(g, Line(g, m)), m)
    BY <1>0, <1>1, WrittenFacts
  <2>2. PrintsQuietly(i, "reset", below)
    BY <1>5 DEF PrintsQuietly
  <2>3. wrong' \in BOOLEAN
    BY <1>5
  <2>4. QED BY <1>0, <1>2, <1>3, <1>5, <2>1, <2>2, <2>3, PrintedFacts
<1>6. CASE /\ files' = [fs EXCEPT ![i] = Unused(g)]
           /\ stack' = Logging(ErrorMessage, ret) /\ late' = 0
           /\ wrong' = wrong
  <2>1. /\ Unused(g) \in Entries /\ EntryPrinted(g, Unused(g), m)
        /\ ~Tracked(Unused(g)) /\ Unused(g).type = "UNUSED"
    <3>1. Unused(g) = Changed(g, "UNUSED", g.prevcount, g.age)
      BY <1>1, Changes
    <3>2. "UNUSED" \in Types
      BY DEF Types
    <3>3. PICK n, a : n = g.prevcount /\ a = g.age
      OBVIOUS
    <3> HIDE DEF g
    <3>4. QED BY <1>1, <1>3, <1>4, <3>1, <3>2, <3>3, ChangeFacts
  <2>2. Out(Unused(g), reenter')
    BY <2>1 DEF Out
  <2>3. \/ PrintsQuietly(i, "reset", below)
        \/ initialized /\ stack' = <<Report>> \o ret
    BY <1>0, <1>6, Logged DEF PrintsQuietly
  <2>4. QED BY <1>0, <1>2, <1>3, <1>6, <2>1, <2>2, <2>3, PrintedFacts
<1>7. CASE /\ g.type = "PIPE" /\ files' = [fs EXCEPT ![i] = Stamped(g)]
           /\ stack' = ret /\ late' = late /\ wrong' = wrong
  <2>0. ~Tracked(g)
    BY <1>7 DEF Tracked
  <2>1. Stamped(g) \in Entries /\ EntryPrinted(g, Stamped(g), m)
    <3>1. PICK n, a : n = g.prevcount /\ a = late
      OBVIOUS
    <3>2. Stamped(g) = Changed(g, "PIPE", n, a)
      BY <1>0, <1>1, <1>7, <2>0, <3>1, Changes
    <3>3. "PIPE" \in Types /\ n \in Nat /\ a \in 0..MaxAge
      BY <1>0, <1>4, <3>1 DEF Types
    <3> HIDE DEF g
    <3>4. QED BY <1>1, <1>3, <3>2, <3>3, ChangeFacts
  <2>2. PrintsQuietly(i, "reset", below)
    BY <1>7 DEF PrintsQuietly
  <2>3. QED BY <1>0, <1>2, <1>3, <1>7, <2>1, <2>2, PrintedFacts
<1>8. QED BY <1>5, <1>6, <1>7 DEF ToDescriptor

(* fprintlog to a host: the entry g or a version of it with type FORW.     *)
LEMMA ForwardFacts ==
  ASSUME NEW i, NEW m, NEW fs, NEW below, Prepared(i, m, fs, below),
         NEW n \in Nat, NEW from, NEW line,
         fs[i].type \in {"FORW", "FORW_SUSP", "FORW_UNKN"},
         ~Out(fs[i], reenter),
         Forward(i, Changed(fs[i], "FORW", n, fs[i].age), from, line, fs,
                 <<Left(i, "reset")>> \o below)
  PROVE Printed(i, m, fs, below)
<1> DEFINE g == fs[i]  ret == <<Left(i, "reset")>> \o below
           f == Changed(g, "FORW", n, g.age)
<1>0. /\ fs \in Seq(Entries) /\ i \in 1..Len(fs)
      /\ late \in 0..MaxAge
      /\ initialized \in BOOLEAN /\ reenter \in BOOLEAN /\ hopped \in BOOLEAN
      /\ wrong \in BOOLEAN
      /\ initialized => late = 0
  BY DEF Prepared
<1>1. g \in Entries
  BY <1>0
<1>2. PICK a : a = g.age
  OBVIOUS
<1>3. a \in 0..MaxAge /\ g.type # "WALL"
  BY <1>1, <1>2, EntryFacts
<1>4. "FORW" \in Types /\ "FORW_SUSP" \in Types
  BY DEF Types
<1>5. /\ f \in Entries /\ EntryPrinted(g, f, m)
      /\ f.type = "FORW" /\ f.owed = <<>> /\ f.prevcount = n /\ f.age = a
  <2>1. f.owed = <<>> /\ f.prevcount = n
    BY DEF Changed
  <2>2. f = Changed(g, "FORW", n, a)
    BY <1>2
  <2> HIDE DEF g, f
  <2>3. /\ Changed(g, "FORW", n, a) \in Entries
        /\ EntryPrinted(g, Changed(g, "FORW", n, a), m)
        /\ Changed(g, "FORW", n, a).type = "FORW"
        /\ Changed(g, "FORW", n, a).age = a
    BY <1>1, <1>3, <1>4, ChangeFacts
  <2>4. QED BY <2>1, <2>2, <2>3
<1>6. /\ reenter' = reenter /\ wrong' = wrong
  BY DEF Forward
<1>7. ASSUME NEW h, NEW type \in {"FORW", "FORW_SUSP"}, NEW b \in 0..MaxAge,
             h = Changed(f, type, n, b)
      PROVE /\ h \in Entries /\ EntryPrinted(g, h, m) /\ ~Tracked(h)
            /\ h.type = type /\ h.age = b
  <2>1. h = Changed(g, type, n, b)
    BY <1>7 DEF Changed
  <2>2. type \in Types
    BY <1>4
  <2> HIDE DEF g, f
  <2>3. QED BY <1>1, <1>3, <2>1, <2>2, ChangeFacts
<1>8. /\ f = Changed(f, "FORW", n, a)
      /\ Stamped(f) = Changed(f, "FORW", n, late)
      /\ [f EXCEPT !.age = late, !.type = "FORW_SUSP"]
           = Changed(f, "FORW_SUSP", n, late)
  <2> HIDE DEF f
  <2>1. QED BY <1>5, Changes
<1>9. PICK c : c = late
  OBVIOUS
<1>10. CASE /\ files' = [fs EXCEPT ![i] = f] /\ stack' = ret
            /\ late' = late /\ hopped' = hopped
  <2>1. PrintsQuietly(i, "reset", below)
    BY <1>10 DEF PrintsQuietly
  <2> HIDE DEF f
  <2>2. QED BY <1>0, <1>5, <1>6, <1>10, <2>1, PrintedFacts
<1>11. CASE /\ files' = [fs EXCEPT ![i] = Stamped(f)] /\ stack' = ret
            /\ late' = late /\ hopped' = (hopped \/ line.m.from = Remote)
  <2>1. PrintsQuietly(i, "reset", below)
    BY <1>11 DEF PrintsQuietly
  <2>2. hopped' \in BOOLEAN
    BY <1>11
  <2> HIDE DEF f
  <2>3. PICK h : h = Stamped(f)
    OBVIOUS
  <2>4. h \in Entries /\ EntryPrinted(g, h, m)
    BY <1>0, <1>7, <1>8, <1>9, <2>3
  <2>5. QED BY <1>0, <1>6, <1>11, <2>1, <2>2, <2>3, <2>4, PrintedFacts
<1>12. CASE /\ files' = [fs EXCEPT ![i] = [f EXCEPT !.age = late,
                                                    !.type = "FORW_SUSP"]]
            /\ stack' = Logging(ErrorMessage, ret) /\ late' = 0
            /\ hopped' = hopped
  <2>1. \/ PrintsQuietly(i, "reset", below)
        \/ initialized /\ stack' = <<Report>> \o ret
    BY <1>0, <1>12, Logged DEF PrintsQuietly
  <2> HIDE DEF f
  <2>2. PICK h : h = [f EXCEPT !.age = late, !.type = "FORW_SUSP"]
    OBVIOUS
  <2>3. /\ h \in Entries /\ EntryPrinted(g, h, m) /\ ~Tracked(h)
        /\ h.type = "FORW_SUSP" /\ h.age = late
    BY <1>0, <1>7, <1>8, <1>9, <2>2
  <2>4. initialized => Out(h, reenter')
    BY <1>0, <2>3, ConstantFacts DEF Out
  <2>5. files' = [fs EXCEPT ![i] = h]
    BY <1>12, <2>2
  <2>6. QED BY <1>0, <1>3, <1>6, <1>12, <2>1, <2>3, <2>4, <2>5, PrintedFacts
<1>13. QED BY <1>10, <1>11, <1>12 DEF Forward

(* fprintlog to a host, found or not, in every state of the entry.         *)
LEMMA HostFacts ==
  ASSUME NEW i, NEW m, NEW fs, NEW below, Prepared(i, m, fs, below),
         NEW from,
         ToHost(i, fs[i], from, Line(fs[i], m), fs,
                <<Left(i, "reset")>> \o below)
  PROVE Printed(i, m, fs, below)
<1> DEFINE g == fs[i]  ret == <<Left(i, "reset")>> \o below
<1>0. /\ fs \in Seq(Entries) /\ i \in 1..Len(fs)
      /\ late \in 0..MaxAge
      /\ ~Tracked(g) => g.owed = <<>>
      /\ initialized \in BOOLEAN /\ reenter \in BOOLEAN /\ hopped \in BOOLEAN
      /\ wrong \in BOOLEAN
  BY DEF Prepared
<1>1. g \in Entries
  BY <1>0
<1>2. g.type \in {"FORW", "FORW_SUSP", "FORW_UNKN"}
  BY DEF ToHost
<1>3. /\ g.owed = <<>> /\ g.type # "WALL" /\ g.prevcount \in Nat
      /\ g.age \in 0..MaxAge
  BY <1>0, <1>1, <1>2, EntryFacts DEF Tracked
<1>4. g.type \in Types /\ "UNUSED" \in Types
  BY <1>1, EntryFacts DEF Types
<1>5. CASE /\ g.type = "FORW" \/ (g.type = "FORW_SUSP" /\ g.age >= SuspendTime)
           /\ Forward(i, [g EXCEPT !.type = "FORW"], from, Line(g, m), fs, ret)
  <2>1. ~Out(g, reenter)
    BY <1>3, <1>5, ConstantFacts DEF Out
  <2>2. [g EXCEPT !.type = "FORW"] = Changed(g, "FORW", g.prevcount, g.age)
    BY <1>1, <1>3, Changes
  <2>3. PICK n \in Nat : n = g.prevcount
    BY <1>3
  <2>4. Forward(i, Changed(g, "FORW", n, g.age), from, Line(g, m), fs, ret)
    BY <1>5, <2>2, <2>3
  <2>5. QED BY <1>2, <2>1, <2>4, ForwardFacts
<1>6. CASE /\ g.type = "FORW_UNKN" /\ g.age >= SuspendTime
           /\ Forward(i, [g EXCEPT !.type = "FORW", !.prevcount = 0], from,
                      Line(g, m), fs, ret)
  <2>1. ~Out(g, reenter)
    BY <1>6 DEF Out
  <2>2. [g EXCEPT !.type = "FORW", !.prevcount = 0] = Changed(g, "FORW", 0, g.age)
    BY <1>1, <1>3, Changes
  <2>3. Forward(i, Changed(g, "FORW", 0, g.age), from, Line(g, m), fs, ret)
    BY <1>6, <2>2
  <2>4. QED BY <1>2, <2>1, <2>3, ForwardFacts
<1>7. ASSUME /\ stack' = ret /\ late' = late /\ reenter' = reenter
             /\ wrong' = wrong /\ hopped' = hopped,
             NEW h, h \in Entries, EntryPrinted(g, h, m),
             files' = [fs EXCEPT ![i] = h],
             Out(g, reenter) => Out(h, reenter)
      PROVE Printed(i, m, fs, below)
  <2>1. PrintsQuietly(i, "reset", below)
    BY <1>7 DEF PrintsQuietly
  <2>2. QED BY <1>0, <1>7, <2>1, PrintedFacts
<1>8. CASE /\ g.type \in {"FORW_SUSP", "FORW_UNKN"} /\ g.age < SuspendTime
           /\ files' = fs
           /\ stack' = ret /\ late' = late /\ reenter' = reenter
           /\ wrong' = wrong /\ hopped' = hopped
  <2>1. fs = [fs EXCEPT ![i] = g]
    BY <1>0
  <2>2. EntryPrinted(g, g, m)
    BY <1>2, <1>3 DEF EntryPrinted, Tracked
  <2>3. QED BY <1>1, <1>7, <1>8, <2>1, <2>2
<1>9. CASE /\ g.type = "FORW_UNKN" /\ g.age >= SuspendTime
           /\ files' = [fs EXCEPT ![i] =
                          IF g.prevcount = 0 THEN Unused(g)
                          ELSE [g EXCEPT !.prevcount = @ - 1]]
           /\ stack' = ret /\ late' = late /\ reenter' = reenter
           /\ wrong' = wrong /\ hopped' = hopped
  <2>1. ~Out(g, reenter)
    BY <1>9 DEF Out
  <2>2. PICK n, a : n = g.prevcount /\ a = g.age
    OBVIOUS
  <2>3. Unused(g) \in Entries /\ EntryPrinted(g, Unused(g), m)
    <3>1. Unused(g) = Changed(g, "UNUSED", n, a)
      BY <1>1, <2>2, Changes
    <3> HIDE DEF g
    <3>2. QED BY <1>1, <1>3, <1>4, <2>2, <3>1, ChangeFacts
  <2>4. CASE n # 0
    <3>1. n - 1 \in Nat
      BY <1>3, <2>2, <2>4
    <3>2. PICK h : h = [g EXCEPT !.prevcount = @ - 1]
      OBVIOUS
    <3>3. PICK q : q = n - 1
      OBVIOUS
    <3>4. h = Changed(g, "FORW_UNKN", q, a)
      BY <1>1, <1>3, <1>9, <2>2, <3>2, <3>3, Changes
    <3>5. h \in Entries /\ EntryPrinted(g, h, m)
      <4> HIDE DEF g
      <4>1. q \in Nat /\ a \in 0..MaxAge
        BY <1>3, <1>4, <2>2, <3>1, <3>3
      <4>2. /\ "FORW_UNKN" \in Types /\ "FORW_UNKN" \notin {"FILE", "CONSOLE"}
            /\ "FORW_UNKN" = "WALL" <=> g.type = "WALL"
        BY <1>9 DEF Types
      <4>3. g \in Entries
        BY <1>1
      <4>4. QED BY <3>4, <4>1, <4>2, <4>3, ChangeFacts
    <3>6. QED BY <1>7, <1>9, <2>1, <2>2, <2>4, <3>2, <3>5
  <2>5. CASE n = 0
    BY <1>7, <1>9, <2>1, <2>2, <2>3, <2>5
  <2>6. QED BY <2>4, <2>5
<1>10. QED BY <1>5, <1>6, <1>8, <1>9 DEF ToHost

(* fprintlog to users, by wallmsg.                                         *)
LEMMA UsersFacts ==
  ASSUME NEW i, NEW m, NEW fs, NEW below, Prepared(i, m, fs, below),
         ToUsers(i, fs[i], fs, <<Left(i, "reset")>> \o below)
  PROVE Printed(i, m, fs, below)
<1> DEFINE g == fs[i]  ret == <<Left(i, "reset")>> \o below
<1>0. /\ fs \in Seq(Entries) /\ i \in 1..Len(fs)
      /\ late \in 0..MaxAge /\ below \in Seq(Frames)
      /\ ~Tracked(g) => g.owed = <<>>
      /\ initialized \in BOOLEAN /\ reenter \in BOOLEAN /\ hopped \in BOOLEAN
      /\ wrong \in BOOLEAN
  BY DEF Prepared
<1>1. g \in Entries /\ g.type = "WALL"
  BY <1>0 DEF ToUsers
<1>2. /\ files' = [fs EXCEPT ![i] = Stamped(g)] /\ wrong' = wrong
      /\ hopped' = hopped
  BY DEF ToUsers
<1>3. PICK n, a : n = g.prevcount /\ a = late
  OBVIOUS
<1>4. PICK h : h = Stamped(g)
  OBVIOUS
<1>5. /\ h \in Entries /\ EntryPrinted(g, h, m) /\ ~Tracked(h)
      /\ h.type = "WALL"
  <2>1. ~Tracked(g) /\ "WALL" \in Types /\ n \in Nat /\ a \in 0..MaxAge
    BY <1>0, <1>1, <1>3, EntryFacts DEF Tracked, Types
  <2>2. h = Changed(g, "WALL", n, a)
    BY <1>0, <1>1, <1>3, <1>4, <2>1, Changes
  <2> HIDE DEF g
  <2>3. QED BY <1>1, <2>1, <2>2, ChangeFacts
<1>6. [Head(ret) EXCEPT !.at = "endutent"] = Left(i, "endutent")
      /\ Tail(ret) = below
  <2>1. Head(ret) = Left(i, "reset")
    BY <1>0
  <2>2. [Left(i, "reset") EXCEPT !.at = "endutent"] = Left(i, "endutent")
    BY DEF Left, Frame
  <2>3. Tail(ret) = below
    BY <1>0
  <2>4. QED BY <2>1, <2>2, <2>3
<1>7. ASSUME \/ PrintsQuietly(i, "reset", below) /\ late' \in {0, late}
             \/ PrintsQuietly(i, "endutent", below) /\ late' = 0
             \/ /\ stack' = <<Report>> \o ret
                /\ initialized /\ late' = 0 /\ ~reenter /\ reenter'
             \/ /\ stack' = <<Report>> \o (<<Left(i, "endutent")>> \o below)
                /\ initialized /\ late' = 0 /\ ~reenter /\ reenter',
             reenter' \in BOOLEAN, reenter => reenter'
      PROVE Printed(i, m, fs, below)
  <2>1. Out(g, reenter) => Out(h, reenter')
    BY <1>1, <1>5, <1>7 DEF Out
  <2>2. reenter' => Out(h, reenter')
    BY <1>5 DEF Out
  <2>3. ~reenter => ~Out(g, reenter)
    BY <1>1 DEF Out
  <2>4. QED BY <1>0, <1>1, <1>2, <1>4, <1>5, <1>7, <2>1, <2>2, <2>3, PrintedFacts
<1>8. CASE /\ stack' = ret /\ reenter' = reenter /\ late' = late
  <2>1. PrintsQuietly(i, "reset", below)
    BY <1>8 DEF PrintsQuietly
  <2>2. QED BY <1>0, <1>7, <1>8, <2>1
<1>9. CASE /\ ~reenter /\ reenter' = TRUE /\ late' = 0
           /\ stack' = Logging(ErrorMessage, ret)
  <2>1. \/ PrintsQuietly(i, "reset", below)
        \/ initialized /\ stack' = <<Report>> \o ret
    BY <1>0, <1>9, Logged DEF PrintsQuietly
  <2>2. QED BY <1>0, <1>7, <1>9, <2>1
<1>10. CASE /\ ~reenter /\ reenter' = TRUE /\ late' = 0
            /\ stack' = Logging(ErrorMessage,
                         <<[Head(ret) EXCEPT !.at = "endutent"]>> \o Tail(ret))
  <2>1. stack' = Logging(ErrorMessage, <<Left(i, "endutent")>> \o below)
    BY <1>6, <1>10
  <2>2. \/ PrintsQuietly(i, "endutent", below)
        \/ /\ initialized
           /\ stack' = <<Report>> \o (<<Left(i, "endutent")>> \o below)
    BY <1>0, <1>10, <2>1, Logged DEF PrintsQuietly
  <2>3. QED BY <1>0, <1>7, <1>10, <2>2
<1>11. QED BY <1>8, <1>9, <1>10 DEF ToUsers

(* fprintlog.                                                              *)
LEMMA PrintFacts ==
  ASSUME NEW i, NEW m, NEW fs, NEW below, NEW from,
         Prepared(i, m, fs, below), Fprintlog(i, from, m, fs, below)
  PROVE Printed(i, m, fs, below)
<1> DEFINE g == fs[i]  ret == <<Left(i, "reset")>> \o below
<1>1. \/ ToDescriptor(i, g, Line(g, m), fs, ret)
      \/ ToHost(i, g, from, Line(g, m), fs, ret)
      \/ ToUsers(i, g, fs, ret)
      \/ /\ g.type = "UNUSED" /\ files' = [fs EXCEPT ![i] = Stamped(g)]
         /\ stack' = ret /\ UNCHANGED <<late, reenter, wrong, hopped>>
  BY DEF Fprintlog, Left
<1>2. CASE /\ g.type = "UNUSED" /\ files' = [fs EXCEPT ![i] = Stamped(g)]
           /\ stack' = ret /\ UNCHANGED <<late, reenter, wrong, hopped>>
  <2>0. /\ fs \in Seq(Entries) /\ i \in 1..Len(fs) /\ late \in 0..MaxAge
        /\ ~Tracked(g) => g.owed = <<>>
        /\ reenter \in BOOLEAN /\ hopped \in BOOLEAN /\ wrong \in BOOLEAN
    BY DEF Prepared
  <2>1. g \in Entries /\ ~Tracked(g)
    BY <1>2, <2>0 DEF Tracked
  <2>2. PICK n, a : n = g.prevcount /\ a = late
    OBVIOUS
  <2>3. PICK h : h = Stamped(g)
    OBVIOUS
  <2>4. h \in Entries /\ EntryPrinted(g, h, m) /\ h.type = "UNUSED"
    <3>1. "UNUSED" \in Types /\ n \in Nat /\ a \in 0..MaxAge
      BY <2>0, <2>1, <2>2, EntryFacts DEF Types
    <3>2. h = Changed(g, "UNUSED", n, a)
      BY <1>2, <2>0, <2>1, <2>2, <2>3, Changes
    <3>3. g.type = "UNUSED" /\ g \in Entries
      BY <1>2, <2>1
    <3> HIDE DEF g
    <3>4. "UNUSED" = "WALL" <=> g.type = "WALL"
      BY <3>3
    <3>5. /\ Changed(g, "UNUSED", n, a) \in Entries
          /\ EntryPrinted(g, Changed(g, "UNUSED", n, a), m)
          /\ Changed(g, "UNUSED", n, a).type = "UNUSED"
      BY <3>1, <3>3, <3>4, ChangeFacts
    <3>6. QED BY <3>2, <3>5
  <2>5. Out(h, reenter')
    BY <2>4 DEF Out
  <2>6. PrintsQuietly(i, "reset", below)
    BY <1>2 DEF PrintsQuietly
  <2>7. QED BY <1>2, <2>0, <2>3, <2>4, <2>5, <2>6, PrintedFacts
<1>3. QED BY <1>1, <1>2, DescriptorFacts, HostFacts, UsersFacts


-----------------------------------------------------------------------------
(* A call of fprintlog by the innermost call, which leaves the entries as  *)
(* fs and goes on at fr.                                                   *)
Caller(i, m, fs, fr) ==
  /\ stack # <<>> /\ i = Top.i /\ i \in 1..Len(files)
  /\ Top.op \in {"logmsg", "domark", "init", "die"}
  /\ Top.op \in {"init", "die"} => Top.at = "start"
  /\ fs \in Seq(Entries) /\ Len(fs) = Len(files)
  /\ \A j \in 1..Len(files) : j # i => fs[j] = files[j]
  /\ fs[i].type = files[i].type /\ fs[i].age = files[i].age
  /\ m \in Messages \cup {NoMessage}
  /\ ~Tracked(fs[i]) => fs[i].owed = <<>>
  /\ Len(fs[i].owed) <= Len(Says(fs[i], m))
  /\ Tracked(fs[i]) /\ TextsNotEmpty =>
       \/ Says(fs[i], m)[1] = fs[i].prev
       \/ fs[i].prev.text = "" /\ fs[i].prevcount = 0
  /\ Tracked(fs[i]) /\ TextsNotEmpty /\ ~torn => IsOwed(fs[i], Line(fs[i], m))
  /\ fr \in Frames /\ fr.op = Top.op /\ fr.m = Top.m
  /\ \/ fr.i = i + 1 /\ fr.at = "start" /\ Top.op \in {"logmsg", "die"}
     \/ fr.i = i /\ fr.at = "backoff" /\ Top.op \in {"logmsg", "domark"}
     \/ fr.i = i /\ fr.at = "save" /\ Top.op = "logmsg"
     \/ fr.i = i /\ fr.at = "free" /\ Top.op = "init"
  /\ \/ fs[i].prev = files[i].prev
     \/ /\ Top.op = "logmsg" /\ fr.at = "start"
        /\ fs[i].prev \in {Key(Top.m), [Key(Top.m) EXCEPT !.text = ""]}
PrintStep(i, m, fs, fr) ==
  /\ Printed(i, m, fs, <<fr>> \o Tail(stack))
  /\ UNCHANGED <<conf, initialized, restart, markseq, woken, alarm,
                 was_initialized, masked, status, torn>>

(* Frames there are.                                                       *)
LEMMA FrameFacts ==
  /\ ErrorMessage \in Messages /\ Report \in Frames
  /\ Report.op = "logmsg" /\ Report.i = 1 /\ Report.at = "start"
  /\ Report.m = ErrorMessage /\ ErrorMessage.text = "error"
  /\ Key(ErrorMessage) # Key(ExitMessage)
  /\ \A i \in Nat : \A at \in {"reset", "endutent"} :
       /\ Left(i, at) \in Frames /\ Left(i, at).op = "fprintlog"
       /\ Left(i, at).i = i /\ Left(i, at).at = at
<1>1. ErrorMessage \in Messages /\ ErrorMessage.text = "error"
  BY DEF ErrorMessage, Message, Messages, Texts, Classes
<1>2. /\ Report = [op |-> "logmsg", i |-> 1, at |-> "start", m |-> ErrorMessage]
  BY DEF Report, Frame
<1>3. Report \in Frames
  BY <1>1, <1>2 DEF Frames
<1>4. Key(ErrorMessage) # Key(ExitMessage)
  BY DEF Key, ErrorMessage, ExitMessage, Message
<1>5. \A i \in Nat : \A at \in {"reset", "endutent"} :
       /\ Left(i, at) \in Frames /\ Left(i, at).op = "fprintlog"
       /\ Left(i, at).i = i /\ Left(i, at).at = at
  BY DEF Left, Frame, Frames
<1>6. QED BY <1>1, <1>2, <1>3, <1>4, <1>5

(* The stack after the call, by heights.                                   *)
LEMMA PrintHeights ==
  ASSUME FramesOK, NEW i \in Nat, NEW m, NEW fs, NEW fr \in Frames,
         stack # <<>>, Printed(i, m, fs, <<fr>> \o Tail(stack)),
         NEW n, n = Height
  PROVE \E at \in {"reset", "endutent"} :
          /\ stack' \in Seq(Frames) /\ n \in Nat /\ n > 0
          /\ At(stack', n) = fr /\ At(stack', n + 1) = Left(i, at)
          /\ \A d \in 1..(n - 1) : At(stack', d) = At(stack, d)
          /\ \/ /\ Len(stack') = n + 1
                /\ at = "endutent" => ~reenter /\ reenter'
             \/ /\ Len(stack') = n + 2 /\ At(stack', n + 2) = Report
                /\ initialized /\ late' = 0
                /\ ~Tracked(files'[i])
                /\ ~Out(fs[i], reenter) /\ Out(files'[i], reenter')
                /\ at = "endutent" \/ fs[i].type = "WALL" => ~reenter /\ reenter'
<1> DEFINE below == <<fr>> \o Tail(stack)
<1>0. stack \in Seq(Frames) /\ n = Len(stack)
  BY DEF FramesOK, Height
<1>1. /\ Tail(stack) \in Seq(Frames) /\ Len(Tail(stack)) = n - 1
      /\ n \in Nat /\ n > 0
      /\ \A d \in 1..(n - 1) : At(Tail(stack), d) = At(stack, d)
  BY <1>0, Beneath
<1>2. /\ below \in Seq(Frames) /\ Len(below) = n /\ At(below, n) = fr
      /\ \A d \in 1..(n - 1) : At(below, d) = At(stack, d)
  <2>1. PICK s \in Seq(Frames) : s = Tail(stack)
    BY <1>1
  <2>2. Len(s) + 1 = n /\ Len(s) = n - 1
    BY <1>1, <2>1
  <2>3. /\ <<fr>> \o s \in Seq(Frames) /\ Len(<<fr>> \o s) = Len(s) + 1
        /\ At(<<fr>> \o s, Len(s) + 1) = fr
        /\ \A d \in 1..Len(s) : At(<<fr>> \o s, d) = At(s, d)
    BY OnTop
  <2>4. QED BY <1>1, <2>1, <2>2, <2>3
<1>3. PICK at \in {"reset", "endutent"} :
        PrintsQuietly(i, at, below) \/ PrintFails(i, at, fs[i], below)
  BY DEF Printed
<1>4. PICK a \in Frames : a = Left(i, at)
  BY FrameFacts
<1> HIDE DEF below
<1>5. PICK b \in Seq(Frames) : b = <<a>> \o below
  BY <1>2, OnTop
<1>6. /\ Len(b) = n + 1 /\ At(b, n) = fr /\ At(b, n + 1) = a
      /\ \A d \in 1..(n - 1) : At(b, d) = At(stack, d)
  <2>1. /\ Len(b) = Len(below) + 1 /\ At(b, Len(below) + 1) = a
        /\ \A d \in 1..Len(below) : At(b, d) = At(below, d)
    BY <1>2, <1>5, OnTop
  <2>2. n \in 1..n
    BY <1>1
  <2>3. QED BY <1>1, <1>2, <2>1, <2>2
<1>7. CASE PrintsQuietly(i, at, below)
  <2>1. stack' = b /\ (at = "endutent" => ~reenter /\ reenter')
    BY <1>4, <1>5, <1>7 DEF PrintsQuietly
  <2>2. QED BY <1>1, <1>4, <1>6, <2>1
<1>8. CASE PrintFails(i, at, fs[i], below)
  <2>1. stack' = <<Report>> \o b
    BY <1>4, <1>5, <1>8 DEF PrintFails
  <2>2. /\ stack' \in Seq(Frames) /\ Len(stack') = Len(b) + 1
        /\ At(stack', Len(b) + 1) = Report
        /\ \A d \in 1..Len(b) : At(stack', d) = At(b, d)
    BY <2>1, FrameFacts, OnTop
  <2>3. n \in 1..Len(b) /\ n + 1 \in 1..Len(b) /\ Len(b) + 1 = n + 2
        /\ \A d \in 1..(n - 1) : d \in 1..Len(b)
    BY <1>1, <1>6
  <2>4. /\ stack' \in Seq(Frames) /\ Len(stack') = n + 2
        /\ At(stack', n + 2) = Report
        /\ At(stack', n) = fr /\ At(stack', n + 1) = a
        /\ \A d \in 1..(n - 1) : At(stack', d) = At(stack, d)
    BY <1>6, <2>2, <2>3
  <2>5. /\ initialized /\ late' = 0
        /\ ~Tracked(files'[i])
        /\ ~Out(fs[i], reenter) /\ Out(files'[i], reenter')
        /\ at = "endutent" \/ fs[i].type = "WALL" => ~reenter /\ reenter'
    BY <1>8 DEF PrintFails
  <2>6. QED BY <1>1, <1>4, <2>4, <2>5
<1>9. QED BY <1>3, <1>7, <1>8


(* What the call of fprintlog leaves of each entry.                        *)
LEMMA PrintEntries ==
  ASSUME FilesOK, NEW i, NEW m, NEW fs, NEW fr, Caller(i, m, fs, fr),
         Printed(i, m, fs, <<fr>> \o Tail(stack))
  PROVE /\ Len(files') = Len(files) /\ Len(files) \in Nat
        /\ i \in 1..Len(files) /\ i \in Nat
        /\ \A j \in 1..Len(files) : j # i => files'[j] = files[j]
        /\ files'[i].owed = <<>> /\ files'[i].prev = fs[i].prev
        /\ files'[i] \in Entries
        /\ \A j \in 1..Len(files) :
             /\ Tracked(files'[j]) => Tracked(files[j])
             /\ files'[j].type = "WALL" <=> files[j].type = "WALL"
             /\ Out(files[j], reenter) => Out(files'[j], reenter')
        /\ Out(files[i], reenter) <=> Out(fs[i], reenter)
        /\ reenter => reenter'
<1>1. files \in Seq(Entries) /\ Len(files) \in Nat
  BY DEF FilesOK
<1>2. /\ i \in 1..Len(files) /\ fs \in Seq(Entries) /\ Len(fs) = Len(files)
      /\ \A j \in 1..Len(files) : j # i => fs[j] = files[j]
      /\ fs[i].type = files[i].type /\ fs[i].age = files[i].age
  BY DEF Caller
<1>3. /\ files' \in Seq(Entries) /\ Len(files') = Len(fs)
      /\ \A j \in 1..Len(fs) : j # i => files'[j] = fs[j]
      /\ EntryPrinted(fs[i], files'[i], m)
      /\ Out(fs[i], reenter) => Out(files'[i], reenter')
      /\ reenter => reenter'
  BY DEF Printed
<1>4. Out(files[i], reenter) <=> Out(fs[i], reenter)
  BY <1>2 DEF Out
<1>5. /\ files'[i].owed = <<>> /\ files'[i].prev = fs[i].prev
      /\ Tracked(files'[i]) => Tracked(fs[i])
      /\ files'[i].type = "WALL" <=> fs[i].type = "WALL"
  BY <1>3 DEF EntryPrinted
<1>6. ASSUME NEW j \in 1..Len(files)
      PROVE /\ Tracked(files'[j]) => Tracked(files[j])
            /\ files'[j].type = "WALL" <=> files[j].type = "WALL"
            /\ Out(files[j], reenter) => Out(files'[j], reenter')
  <2>1. CASE j = i
    <3>1. Tracked(fs[i]) <=> Tracked(files[i])
      BY <1>2 DEF Tracked
    <3>2. QED BY <1>2, <1>3, <1>4, <1>5, <2>1, <3>1
  <2>2. CASE j # i
    <3>1. files'[j] = files[j]
      BY <1>2, <1>3, <2>2
    <3>2. Out(files[j], reenter) => Out(files[j], reenter')
      BY <1>3 DEF Out
    <3>3. QED BY <3>1, <3>2
  <2>3. QED BY <2>1, <2>2
<1>7. i \in Nat
  BY <1>1, <1>2
<1>8. files'[i] \in Entries
  BY <1>2, <1>3
<1>9. QED BY <1>1, <1>2, <1>3, <1>4, <1>5, <1>6, <1>7, <1>8

(* Every call of the stack afterwards: one that was there before, what the *)
(* caller became, fprintlog, or the report of its failure.                 *)
Grown(n, i, at, fr) ==
  /\ stack' \in Seq(Frames) /\ n \in Nat /\ n > 0
  /\ Len(stack') \in {n + 1, n + 2}
  /\ \A d \in 1..Len(stack') :
       \/ d < n /\ d \in 1..(n - 1) /\ At(stack', d) = At(stack, d)
       \/ d = n /\ At(stack', d) = fr
       \/ d = n + 1 /\ At(stack', d) = Left(i, at)
       \/ d = n + 2 /\ Len(stack') = n + 2 /\ At(stack', d) = Report

(* After a call of fprintlog the stack is such.                            *)
LEMMA PrintGrown ==
  ASSUME FramesOK, FilesOK, NEW i, NEW m, NEW fs, NEW fr, Caller(i, m, fs, fr),
         Printed(i, m, fs, <<fr>> \o Tail(stack)), NEW n, n = Height
  PROVE \E at \in {"reset", "endutent"} :
          /\ Grown(n, i, at, fr)
          /\ at = "endutent" => ~reenter /\ reenter'
          /\ At(stack', n) = fr /\ At(stack', n + 1) = Left(i, at)
          /\ Len(stack') = n + 2 =>
                /\ At(stack', n + 2) = Report
                /\ initialized /\ late' = 0
                /\ ~Tracked(files'[i])
                /\ ~Out(files[i], reenter) /\ Out(files'[i], reenter')
                /\ files[i].type = "WALL" => ~reenter /\ reenter'
<1>1. i \in Nat /\ fr \in Frames /\ stack # <<>> /\ fs[i].type = files[i].type
      /\ (Out(files[i], reenter) <=> Out(fs[i], reenter))
  <2>1. fr \in Frames /\ stack # <<>> /\ fs[i].type = files[i].type
    BY DEF Caller
  <2>2. i \in Nat /\ (Out(files[i], reenter) <=> Out(fs[i], reenter))
    BY PrintEntries
  <2>3. QED BY <2>1, <2>2
<1>2. PICK at \in {"reset", "endutent"} :
          /\ stack' \in Seq(Frames) /\ n \in Nat /\ n > 0
          /\ At(stack', n) = fr /\ At(stack', n + 1) = Left(i, at)
          /\ \A d \in 1..(n - 1) : At(stack', d) = At(stack, d)
          /\ \/ /\ Len(stack') = n + 1
                /\ at = "endutent" => ~reenter /\ reenter'
             \/ /\ Len(stack') = n + 2 /\ At(stack', n + 2) = Report
                /\ initialized /\ late' = 0
                /\ ~Tracked(files'[i])
                /\ ~Out(fs[i], reenter) /\ Out(files'[i], reenter')
                /\ at = "endutent" \/ fs[i].type = "WALL" => ~reenter /\ reenter'
  BY <1>1, PrintHeights
<1>3. ASSUME NEW d \in 1..Len(stack')
      PROVE \/ d < n /\ d \in 1..(n - 1) /\ At(stack', d) = At(stack, d)
            \/ d = n /\ At(stack', d) = fr
            \/ d = n + 1 /\ At(stack', d) = Left(i, at)
            \/ d = n + 2 /\ Len(stack') = n + 2 /\ At(stack', d) = Report
  <2>1. d \in Nat /\ d >= 1 /\ (d < n \/ d = n \/ d = n + 1 \/ d = n + 2)
    BY <1>2
  <2>2. d < n => d \in 1..(n - 1)
    BY <1>2, <2>1
  <2>3. d = n + 2 => Len(stack') = n + 2
    BY <1>2
  <2>4. QED BY <1>2, <2>1, <2>2, <2>3
<1>4. Grown(n, i, at, fr)
  BY <1>2, <1>3 DEF Grown
<1>5. Len(stack') = n + 2 => Len(stack') # n + 1
  BY <1>2
<1>6. QED BY <1>1, <1>2, <1>4, <1>5


(* The innermost call.                                                     *)
LEMMA TopFacts ==
  ASSUME FramesOK, stack # <<>>, NEW n, n = Height
  PROVE /\ n \in Nat /\ n > 0 /\ n \in 1..n /\ Top = At(stack, n)
        /\ Top \in Frames /\ FrameOK(Top, Len(files)) /\ stack \in Seq(Frames)
        /\ n = Len(stack)
<1>1. stack \in Seq(Frames) /\ n = Len(stack)
  BY DEF FramesOK, Height
<1>2. n \in Nat /\ n > 0 /\ Top = At(stack, n) /\ Top \in Frames
  BY <1>1, Beneath DEF Top
<1>3. n \in 1..n
  BY <1>2
<1>4. FrameOK(At(stack, n), Len(files))
  BY <1>3 DEF FramesOK
<1>5. QED BY <1>1, <1>2, <1>3, <1>4

(* fprintlog keeps types.                                                  *)
LEMMA PrintTypes ==
  ASSUME TypesInv, NEW i, NEW m, NEW fs, NEW fr, Caller(i, m, fs, fr),
         PrintStep(i, m, fs, fr)
  PROVE TypesInv'
<1>0. FramesOK /\ FilesOK /\ ScalarsOK /\ Printed(i, m, fs, <<fr>> \o Tail(stack))
  BY DEF TypesInv, PrintStep
<1>1. ScalarsOK'
  <2>1. /\ late' \in {0, late} /\ reenter' \in BOOLEAN /\ wrong' \in BOOLEAN
        /\ hopped' \in BOOLEAN
    BY <1>0 DEF Printed
  <2>2. late' \in 0..MaxAge
    BY <1>0, <2>1, ConstantFacts DEF ScalarsOK
  <2>3. QED BY <1>0, <2>1, <2>2 DEF ScalarsOK, PrintStep
<1>2. FilesOK'
  BY <1>0 DEF Printed, FilesOK
<1>3. PICK n : n = Height
  OBVIOUS
<1>4. PICK at \in {"reset", "endutent"} : Grown(n, i, at, fr)
  BY <1>0, <1>3, PrintGrown
<1>5. /\ Len(files') = Len(files) /\ Len(files) \in Nat /\ i \in 1..Len(files)
      /\ i \in Nat
  BY <1>0, PrintEntries
<1>6. stack # <<>>
  BY DEF Caller
<1>7. Top \in Frames /\ FrameOK(Top, Len(files))
  BY <1>0, <1>3, <1>6, TopFacts
<1>8. FrameOK(fr, Len(files))
  <2>1. fr.op = Top.op /\ fr.m = Top.m /\ i = Top.i
    BY DEF Caller
  <2>2. /\ \/ fr.i = i + 1 /\ fr.at = "start" /\ Top.op \in {"logmsg", "die"}
           \/ fr.i = i /\ fr.at = "backoff" /\ Top.op \in {"logmsg", "domark"}
           \/ fr.i = i /\ fr.at = "save" /\ Top.op = "logmsg"
           \/ fr.i = i /\ fr.at = "free" /\ Top.op = "init"
    BY DEF Caller
  <2>3. i + 1 \in 1..(Len(files) + 1) /\ i \in 1..(Len(files) + 1)
        /\ i <= Len(files)
    BY <1>5
  <2>4. QED BY <1>7, <2>1, <2>2, <2>3 DEF FrameOK
<1>9. FrameOK(Left(i, at), Len(files))
  BY <1>5, FrameFacts DEF FrameOK
<1>10. FrameOK(Report, Len(files))
  <2>1. 1 \in 1..(Len(files) + 1)
    BY <1>5
  <2>2. QED BY <2>1, FrameFacts DEF FrameOK
<1>11. \A d \in 1..(n - 1) : FrameOK(At(stack, d), Len(files))
  <2>1. \A d \in 1..(n - 1) : d \in 1..n
    BY <1>4 DEF Grown
  <2>2. QED BY <1>0, <1>3, <2>1 DEF FramesOK
<1>12. FramesOK'
  <2>1. \A d \in 1..Len(stack') : FrameOK(At(stack', d), Len(files'))
    BY <1>4, <1>5, <1>8, <1>9, <1>10, <1>11 DEF Grown
  <2>2. QED BY <1>4, <2>1 DEF FramesOK, Height, Grown
<1>13. QED BY <1>1, <1>2, <1>12 DEF TypesInv

(* fprintlog keeps the counts.                                             *)
LEMMA PrintCounts ==
  ASSUME TypesInv, CountInv, NEW i, NEW m, NEW fs, NEW fr,
         Caller(i, m, fs, fr), PrintStep(i, m, fs, fr)
  PROVE CountInv'
<1>0. FramesOK /\ FilesOK /\ ScalarsOK /\ Printed(i, m, fs, <<fr>> \o Tail(stack))
  BY DEF TypesInv, PrintStep
<1>1. /\ Len(files') = Len(files) /\ Len(files) \in Nat /\ i \in 1..Len(files)
      /\ \A j \in 1..Len(files) : j # i => files'[j] = files[j]
      /\ files'[i].owed = <<>> /\ files'[i].prev = fs[i].prev
      /\ files'[i] \in Entries /\ i \in Nat
      /\ \A j \in 1..Len(files) : Tracked(files'[j]) => Tracked(files[j])
  BY <1>0, PrintEntries
<1>2. PICK n : n = Height
  OBVIOUS
<1>3. PICK at \in {"reset", "endutent"} :
        /\ Grown(n, i, at, fr)
        /\ At(stack', n) = fr /\ At(stack', n + 1) = Left(i, at)
        /\ Len(stack') = n + 2 => /\ At(stack', n + 2) = Report
                                  /\ ~Tracked(files'[i])
  BY <1>0, <1>2, PrintGrown
<1>4. /\ torn' = torn /\ (Tracked(files'[i]) => Tracked(fs[i]))
      /\ Tracked(files'[i]) => /\ files'[i].prevcount = fs[i].prevcount
                               /\ files'[i].last = Says(fs[i], m)[1]
  BY <1>0 DEF PrintStep, Printed, EntryPrinted
<1>5. EntriesOK'
  <2>1. EntryOK(files'[i])
    BY <1>1, EntryFacts DEF EntryOK
  <2>2. \A j \in 1..Len(files) : EntryOK(files[j])
    BY DEF CountInv, EntriesOK
  <2>3. \A j \in 1..Len(files') : EntryOK(files'[j])
    BY <1>1, <2>1, <2>2
  <2>4. QED BY <2>3 DEF EntriesOK
<1>6. LastOK'
  <2>1. SUFFICES ASSUME TextsNotEmpty, NEW j \in 1..Len(files),
                        Tracked(files'[j])
                 PROVE LastRight(files'[j])
    BY <1>1 DEF LastOK
  <2>2. CASE j = i
    <3>1. \/ Says(fs[i], m)[1] = fs[i].prev
          \/ fs[i].prev.text = "" /\ fs[i].prevcount = 0
      BY <1>4, <2>1, <2>2 DEF Caller
    <3>2. QED BY <1>1, <1>4, <2>1, <2>2, <3>1 DEF LastRight
  <2>3. CASE j # i
    BY <1>1, <2>1, <2>3 DEF CountInv, LastOK
  <2>4. QED BY <2>2, <2>3
<1>7. /\ Top = At(stack, n) /\ n \in Nat /\ n > 0 /\ n = Len(stack)
      /\ Top.op # "fprintlog"
  <2>1. stack # <<>> /\ Top.op \in {"logmsg", "domark", "init", "die"}
    BY DEF Caller
  <2>2. QED BY <1>0, <1>2, <2>1, TopFacts
<1>8. CountOK'
  <2>1. SUFFICES ASSUME ~torn, NEW j \in 1..Len(files), Tracked(files'[j])
                 PROVE (files[j].owed = IF TopPrints(j) THEN <<>>
                                        ELSE Copies(files[j]))'
    BY <1>1, <1>4 DEF CountOK
  <2>2. CASE j = i
    <3>1. Len(stack') = n + 1
      BY <1>3, <2>1, <2>2 DEF Grown
    <3>2. At(stack', Len(stack')) = Left(i, at) /\ Len(stack') > 0
      BY <1>3, <1>7, <3>1
    <3>3. TopPrints(j)'
      BY <1>1, <2>2, <3>2, FrameFacts DEF TopPrints, Height
    <3>4. QED BY <1>1, <2>2, <3>3
  <2>3. CASE j # i
    <3>1. files'[j] = files[j]
      BY <1>1, <2>3
    <3>2. ~TopPrints(j)
      BY <1>2, <1>7 DEF TopPrints, Height
    <3>3. files[j].owed = Copies(files[j])
      BY <2>1, <3>1, <3>2 DEF CountInv, CountOK
    <3>4. ~TopPrints(j)'
      <4>1. CASE Len(stack') = n + 1
        BY <1>1, <1>3, <2>3, <4>1, FrameFacts DEF TopPrints, Height
      <4>2. CASE Len(stack') = n + 2
        BY <1>3, <4>2, FrameFacts DEF TopPrints, Height
      <4>3. QED BY <1>3, <4>1, <4>2 DEF Grown
    <3>5. Copies(files[j])' = Copies(files[j])
      BY <3>1 DEF Copies
    <3>6. QED BY <3>1, <3>3, <3>4, <3>5
  <2>4. QED BY <2>2, <2>3
<1>9. TopOK'
  <2>1. SUFFICES ASSUME ~torn \/ initialized, NEW d \in 1..(Len(stack') - 1),
                        At(stack', d).op = "fprintlog"
                 PROVE ~Tracked(files'[At(stack', d).i])
    BY <1>4 DEF TopOK, Height, PrintStep
  <2>2. d \in 1..Len(stack')
    BY <1>3, <1>7, <2>1 DEF Grown
  <2>3. CASE d < n /\ d \in 1..(n - 1) /\ At(stack', d) = At(stack, d)
    <3>1. ~Tracked(files[At(stack, d).i])
      BY <1>2, <2>1, <2>3 DEF CountInv, TopOK
    <3>2. At(stack, d).i \in 1..Len(files)
      <4>1. d \in 1..n
        BY <1>7, <2>3
      <4>2. FrameOK(At(stack, d), Len(files))
        BY <1>0, <1>2, <4>1 DEF FramesOK
      <4>3. QED BY <2>1, <2>3, <4>2 DEF FrameOK
    <3>3. QED BY <1>1, <2>3, <3>1, <3>2
  <2>4. CASE d = n /\ At(stack', d) = fr
    <3>1. fr.op = Top.op
      BY DEF Caller
    <3>2. QED BY <1>7, <2>1, <2>4, <3>1
  <2>5. CASE d = n + 1 /\ At(stack', d) = Left(i, at)
    <3>1. Len(stack') = n + 2
      BY <1>3, <1>7, <2>1, <2>5 DEF Grown
    <3>2. QED BY <1>1, <1>3, <2>5, <3>1, FrameFacts
  <2>6. CASE d = n + 2 /\ Len(stack') = n + 2 /\ At(stack', d) = Report
    BY <2>1, <2>6, FrameFacts
  <2>7. QED BY <1>3, <2>2, <2>3, <2>4, <2>5, <2>6 DEF Grown
<1>10. WrongOK'
  <2>1. SUFFICES ASSUME TextsNotEmpty, wrong', ~torn PROVE FALSE
    BY <1>0, <1>4 DEF WrongOK, ScalarsOK
  <2>2. wrong \/ (Tracked(fs[i]) /\ ~IsOwed(fs[i], Line(fs[i], m)))
    BY <1>0, <2>1 DEF Printed
  <2>3. ~wrong
    BY <2>1 DEF CountInv, WrongOK
  <2>4. Tracked(fs[i]) => IsOwed(fs[i], Line(fs[i], m))
    BY <2>1 DEF Caller
  <2>5. QED BY <2>2, <2>3, <2>4
<1>11. TextOK'
  <2>1. SUFFICES ASSUME TextsNotEmpty, NEW d \in 1..Len(stack'),
                        At(stack', d).op = "logmsg"
                 PROVE At(stack', d).m.text # ""
    BY DEF TextOK, Height
  <2>2. \A e \in 1..n : At(stack, e).op = "logmsg" => At(stack, e).m.text # ""
    BY <1>2, <2>1 DEF CountInv, TextOK
  <2>3. CASE d < n /\ d \in 1..(n - 1) /\ At(stack', d) = At(stack, d)
    <3>1. d \in 1..n
      BY <1>7, <2>3
    <3>2. QED BY <2>1, <2>2, <2>3, <3>1
  <2>4. CASE d = n /\ At(stack', d) = fr
    <3>1. fr.op = Top.op /\ fr.m = Top.m
      BY DEF Caller
    <3>2. n \in 1..n
      BY <1>7
    <3>3. QED BY <1>7, <2>1, <2>2, <2>4, <3>1, <3>2
  <2>5. CASE d = n + 1 /\ At(stack', d) = Left(i, at)
    BY <1>1, <2>1, <2>5, FrameFacts
  <2>6. CASE d = n + 2 /\ Len(stack') = n + 2 /\ At(stack', d) = Report
    BY <2>6, FrameFacts
  <2>7. QED BY <1>3, <2>3, <2>4, <2>5, <2>6 DEF Grown
<1>12. PendingOK'
  <2>1. SUFFICES ASSUME NEW d \in 1..Len(stack'), At(stack', d).op = "fprintlog"
                 PROVE files'[At(stack', d).i].owed = <<>>
    BY DEF PendingOK, Height
  <2>2. CASE d < n /\ d \in 1..(n - 1) /\ At(stack', d) = At(stack, d)
    <3>1. d \in 1..n
      BY <1>7, <2>2
    <3>2. FrameOK(At(stack, d), Len(files))
      BY <1>0, <1>2, <3>1 DEF FramesOK
    <3>3. At(stack, d).i \in 1..Len(files)
      BY <2>1, <2>2, <3>2 DEF FrameOK
    <3>4. files[At(stack, d).i].owed = <<>>
      BY <1>2, <2>1, <2>2, <3>1 DEF CountInv, PendingOK
    <3>5. QED BY <1>1, <2>2, <3>3, <3>4
  <2>3. CASE d = n /\ At(stack', d) = fr
    <3>1. fr.op = Top.op
      BY DEF Caller
    <3>2. QED BY <1>7, <2>1, <2>3, <3>1
  <2>4. CASE d = n + 1 /\ At(stack', d) = Left(i, at)
    BY <1>1, <2>4, FrameFacts
  <2>5. CASE d = n + 2 /\ Len(stack') = n + 2 /\ At(stack', d) = Report
    BY <2>1, <2>5, FrameFacts
  <2>6. QED BY <1>3, <2>2, <2>3, <2>4, <2>5 DEF Grown
<1>13. QED BY <1>5, <1>6, <1>8, <1>9, <1>10, <1>11, <1>12 DEF CountInv


(* fprintlog keeps one wallmsg at a time, and what logmsg has flushed.     *)
LEMMA PrintCalls2 ==
  ASSUME TypesInv, CallInv, NEW i, NEW m, NEW fs, NEW fr,
         Caller(i, m, fs, fr), PrintStep(i, m, fs, fr)
  PROVE WallOK' /\ SaveOK'
<1>0. FramesOK /\ FilesOK /\ ScalarsOK /\ Printed(i, m, fs, <<fr>> \o Tail(stack))
      /\ initialized' = initialized
  BY DEF TypesInv, PrintStep
<1>1. /\ Len(files') = Len(files) /\ Len(files) \in Nat /\ i \in 1..Len(files)
      /\ i \in Nat
      /\ \A j \in 1..Len(files) : j # i => files'[j] = files[j]
      /\ \A j \in 1..Len(files) :
           /\ Tracked(files'[j]) => Tracked(files[j])
           /\ files'[j].type = "WALL" <=> files[j].type = "WALL"
           /\ Out(files[j], reenter) => Out(files'[j], reenter')
      /\ reenter => reenter'
  BY <1>0, PrintEntries
<1>2. PICK n : n = Height
  OBVIOUS
<1>3. PICK at \in {"reset", "endutent"} :
        /\ Grown(n, i, at, fr)
        /\ at = "endutent" => ~reenter /\ reenter'
        /\ At(stack', n) = fr /\ At(stack', n + 1) = Left(i, at)
        /\ Len(stack') = n + 2 =>
             /\ At(stack', n + 2) = Report
             /\ initialized /\ late' = 0
             /\ ~Tracked(files'[i])
             /\ ~Out(files[i], reenter) /\ Out(files'[i], reenter')
             /\ files[i].type = "WALL" => ~reenter /\ reenter'
  BY <1>0, <1>2, PrintGrown
<1>4. /\ stack # <<>> /\ i = Top.i
      /\ Top.op \in {"logmsg", "domark", "init", "die"}
      /\ Top.op \in {"init", "die"} => Top.at = "start"
      /\ fr.op = Top.op
      /\ \/ fr.at \in {"start", "backoff"}
         \/ fr.i = i /\ fr.at = "save" /\ Top.op = "logmsg"
         \/ fr.i = i /\ fr.at = "free" /\ Top.op = "init"
      /\ Top.op = "die" => fr.at = "start"
  BY DEF Caller
<1>5. /\ Top = At(stack, n) /\ n \in Nat /\ n > 0 /\ n = Len(stack)
      /\ n \in 1..n
  BY <1>0, <1>2, <1>4, TopFacts
<1>6. /\ Left(i, at).op = "fprintlog" /\ Left(i, at).i = i /\ Left(i, at).at = at
      /\ Report.op = "logmsg" /\ Report.at = "start"
  BY <1>1, FrameFacts
<1>7. /\ ModeOK /\ CallerOK /\ LogOverOK /\ DomarkOK /\ CausesOK /\ WallOK
      /\ SaveOK
  BY DEF CallInv
<1>8. \A d \in 1..(n - 1) : d \in 1..n /\ d \in Nat /\ d < n
  BY <1>5
<1>9. late' \in {0, late}
  BY <1>0 DEF Printed
<1>10. \A d \in 1..n : At(stack, d).op = "fprintlog" =>
         At(stack, d).i \in 1..Len(files)
  BY <1>0, <1>2 DEF FramesOK, FrameOK
<1>11. \A d \in 1..Len(stack') :
         Walling(d)' <=>
           \/ d \in 1..(n - 1) /\ Walling(d)
           \/ d = n + 1 /\ (at = "endutent" \/ (Len(stack') = n + 2
                                                /\ files[i].type = "WALL"))
  <2>1. SUFFICES ASSUME NEW d \in 1..Len(stack')
                 PROVE Walling(d)' <=>
                         \/ d \in 1..(n - 1) /\ Walling(d)
                         \/ /\ d = n + 1
                            /\ \/ at = "endutent"
                               \/ Len(stack') = n + 2 /\ files[i].type = "WALL"
    OBVIOUS
  <2>2. Walling(d)' <=>
          /\ At(stack', d).op = "fprintlog"
          /\ \/ At(stack', d).at = "endutent"
             \/ /\ d < Len(stack') /\ At(stack', d + 1).op = "logmsg"
                /\ files'[At(stack', d).i].type = "WALL"
    BY DEF Walling, Height
  <2>3. CASE d \in 1..(n - 1)
    <3>1. At(stack', d) = At(stack, d) /\ d # n + 1 /\ d < n
      BY <1>3, <1>5, <2>1, <2>3 DEF Grown
    <3>2. d < Len(stack') /\ d + 1 \in 1..Len(stack') /\ d + 1 \in 1..n
      BY <1>3, <1>5, <2>3 DEF Grown
    <3>3. At(stack', d + 1).op = At(stack, d + 1).op
      BY <1>3, <1>4, <1>5, <3>2 DEF Grown
    <3>4. At(stack, d).op = "fprintlog" => At(stack, d).i \in 1..Len(files)
      BY <1>8, <1>10, <2>3
    <3>5. QED BY <1>1, <1>2, <2>2, <2>3, <3>1, <3>2, <3>3, <3>4 DEF Walling
  <2>4. CASE d = n
    <3>1. d \notin 1..(n - 1) /\ d # n + 1
      BY <1>5, <2>4
    <3>2. At(stack', d).op # "fprintlog"
      BY <1>3, <1>4, <2>4
    <3>3. QED BY <2>2, <3>1, <3>2
  <2>5. CASE d = n + 1
    <3>1. d \notin 1..(n - 1) /\ d + 1 = n + 2
          /\ (d < Len(stack') <=> Len(stack') = n + 2)
      BY <1>3, <1>5, <2>5 DEF Grown
    <3>2. QED BY <1>1, <1>3, <1>6, <2>2, <2>5, <3>1
  <2>6. CASE d = n + 2 /\ Len(stack') = n + 2
    <3>1. d \notin 1..(n - 1) /\ d # n + 1
      BY <1>5, <2>6
    <3>2. QED BY <1>3, <1>6, <2>2, <2>6, <3>1
  <2>7. d \in 1..(n - 1) \/ d = n \/ d = n + 1 \/ (d = n + 2 /\ Len(stack') = n + 2)
    BY <1>3, <1>5, <2>1 DEF Grown
  <2>8. QED BY <2>3, <2>4, <2>5, <2>6, <2>7
<1>12. WallOK'
  <2>1. SUFFICES ASSUME NEW d \in 1..Len(stack'), Walling(d)'
                 PROVE /\ reenter'
                       /\ \A e \in 1..Len(stack') : Walling(e)' => e = d
    BY DEF WallOK, Height
  <2>2. CASE d \in 1..(n - 1) /\ Walling(d)
    <3>1. reenter /\ \A e \in 1..n : Walling(e) => e = d
      BY <1>2, <1>7, <1>8, <2>2 DEF WallOK
    <3>2. QED BY <1>1, <1>3, <1>8, <1>11, <3>1
  <2>3. CASE /\ d = n + 1
             /\ at = "endutent" \/ (Len(stack') = n + 2 /\ files[i].type = "WALL")
    <3>1. ~reenter /\ reenter'
      BY <1>3, <2>3
    <3>2. \A e \in 1..n : ~Walling(e)
      BY <1>2, <1>7, <3>1 DEF WallOK
    <3>3. QED BY <1>8, <1>11, <2>3, <3>1, <3>2
  <2>4. QED BY <1>11, <2>1, <2>2, <2>3
<1>13. SaveOK'
  <2>1. SUFFICES ASSUME NEW d \in 1..Len(stack'),
                        At(stack', d).op = "logmsg", At(stack', d).at = "save"
                 PROVE /\ d < Len(stack') /\ At(stack', d + 1).op = "fprintlog"
                       /\ At(stack', d + 1).i = At(stack', d).i
    BY DEF SaveOK, Height
  <2>2. CASE d \in 1..(n - 1)
    <3>1. At(stack', d) = At(stack, d) /\ d # n /\ d \in 1..n
      BY <1>3, <1>5, <2>1, <2>2 DEF Grown
    <3>2. d < Len(stack') /\ d + 1 \in 1..Len(stack') /\ d + 1 \in 1..n
      BY <1>3, <1>5, <2>2 DEF Grown
    <3>3. /\ At(stack, d + 1).op = "fprintlog"
          /\ At(stack, d + 1).i = At(stack, d).i
      BY <1>2, <1>7, <2>1, <3>1 DEF SaveOK
    <3>4. d + 1 # n
      BY <1>4, <1>5, <3>3
    <3>5. At(stack', d + 1) = At(stack, d + 1)
      BY <1>3, <1>5, <3>2, <3>4 DEF Grown
    <3>6. QED BY <3>1, <3>2, <3>3, <3>5
  <2>3. CASE d = n
    <3>1. fr.i = i
      BY <1>3, <1>4, <2>1, <2>3
    <3>2. n < Len(stack')
      BY <1>3, <1>5 DEF Grown
    <3>3. QED BY <1>3, <1>6, <2>3, <3>1, <3>2
  <2>4. CASE d = n + 1 \/ (d = n + 2 /\ Len(stack') = n + 2)
    BY <1>3, <1>6, <2>1, <2>4
  <2>5. d \in 1..(n - 1) \/ d = n \/ d = n + 1 \/ (d = n + 2 /\ Len(stack') = n + 2)
    BY <1>3, <1>5, <2>1 DEF Grown
  <2>6. QED BY <2>2, <2>3, <2>4, <2>5
<1>14. QED BY <1>12, <1>13

(* fprintlog keeps the calls in order.                                     *)
LEMMA PrintCalls ==
  ASSUME TypesInv, CallInv, NEW i, NEW m, NEW fs, NEW fr,
         Caller(i, m, fs, fr), PrintStep(i, m, fs, fr)
  PROVE CallInv'
<1>0. FramesOK /\ FilesOK /\ ScalarsOK /\ Printed(i, m, fs, <<fr>> \o Tail(stack))
      /\ initialized' = initialized
  BY DEF TypesInv, PrintStep
<1>1. /\ Len(files') = Len(files) /\ Len(files) \in Nat /\ i \in 1..Len(files)
      /\ i \in Nat
      /\ \A j \in 1..Len(files) : j # i => files'[j] = files[j]
      /\ \A j \in 1..Len(files) :
           /\ Tracked(files'[j]) => Tracked(files[j])
           /\ files'[j].type = "WALL" <=> files[j].type = "WALL"
           /\ Out(files[j], reenter) => Out(files'[j], reenter')
      /\ reenter => reenter'
  BY <1>0, PrintEntries
<1>2. PICK n : n = Height
  OBVIOUS
<1>3. PICK at \in {"reset", "endutent"} :
        /\ Grown(n, i, at, fr)
        /\ at = "endutent" => ~reenter /\ reenter'
        /\ At(stack', n) = fr /\ At(stack', n + 1) = Left(i, at)
        /\ Len(stack') = n + 2 =>
             /\ At(stack', n + 2) = Report
             /\ initialized /\ late' = 0
             /\ ~Tracked(files'[i])
             /\ ~Out(files[i], reenter) /\ Out(files'[i], reenter')
             /\ files[i].type = "WALL" => ~reenter /\ reenter'
  BY <1>0, <1>2, PrintGrown
<1>4. /\ stack # <<>> /\ i = Top.i
      /\ Top.op \in {"logmsg", "domark", "init", "die"}
      /\ Top.op \in {"init", "die"} => Top.at = "start"
      /\ fr.op = Top.op
      /\ \/ fr.at \in {"start", "backoff"}
         \/ fr.i = i /\ fr.at = "save" /\ Top.op = "logmsg"
         \/ fr.i = i /\ fr.at = "free" /\ Top.op = "init"
      /\ Top.op = "die" => fr.at = "start"
  BY DEF Caller
<1>5. /\ Top = At(stack, n) /\ n \in Nat /\ n > 0 /\ n = Len(stack)
      /\ n \in 1..n
  BY <1>0, <1>2, <1>4, TopFacts
<1>6. /\ Left(i, at).op = "fprintlog" /\ Left(i, at).i = i /\ Left(i, at).at = at
      /\ Report.op = "logmsg" /\ Report.at = "start"
  BY <1>1, FrameFacts
<1>7. /\ ModeOK /\ CallerOK /\ LogOverOK /\ DomarkOK /\ CausesOK /\ WallOK
      /\ SaveOK
  BY DEF CallInv
<1>8. \A d \in 1..(n - 1) : d \in 1..n /\ d \in Nat /\ d < n
  BY <1>5
<1>9. late' \in {0, late}
  BY <1>0 DEF Printed
<1>10. \A d \in 1..n : At(stack, d).op = "fprintlog" =>
         At(stack, d).i \in 1..Len(files)
  BY <1>0, <1>2 DEF FramesOK, FrameOK
<1>11. ModeOK'
  <2>1. ASSUME NEW d \in 1..Len(stack')
        PROVE /\ At(stack', d).op \in {"init", "die"} => d = 1
              /\ At(stack', d).op = "logmsg" => initialized
              /\ \/ At(stack', d).op = "init" /\ At(stack', d).at # "done"
                 \/ At(stack', d).op = "die" /\ At(stack', d).at = "start"
                 => ~initialized
              /\ At(stack', d).op \in {"logmsg", "domark"} => late' = 0
    <3>1. CASE d < n /\ d \in 1..(n - 1) /\ At(stack', d) = At(stack, d)
      BY <1>2, <1>7, <1>8, <1>9, <3>1 DEF ModeOK
    <3>2. CASE d = n /\ At(stack', d) = fr
      BY <1>2, <1>4, <1>5, <1>7, <1>9, <3>2 DEF ModeOK
    <3>3. CASE d = n + 1 /\ At(stack', d) = Left(i, at)
      BY <1>6, <3>3
    <3>4. CASE d = n + 2 /\ Len(stack') = n + 2 /\ At(stack', d) = Report
      BY <1>3, <1>6, <3>4
    <3>5. QED BY <1>3, <3>1, <3>2, <3>3, <3>4 DEF Grown
  <2>2. QED BY <1>0, <2>1 DEF ModeOK, Height
<1>12. LogOverOK'
  <2>1. SUFFICES ASSUME NEW d \in 2..Len(stack'), At(stack', d).op = "logmsg"
                 PROVE \/ /\ At(stack', d - 1).op = "fprintlog"
                          /\ Out(files'[At(stack', d - 1).i], reenter')
                       \/ At(stack', d - 1).op = "domark"
                       \/ /\ At(stack', d - 1).op = "init"
                          /\ At(stack', d - 1).at = "done"
                       \/ /\ At(stack', d - 1).op = "die"
                          /\ At(stack', d - 1).at = "exit"
    BY DEF LogOverOK, Height
  <2>2. d \in 1..Len(stack') /\ d - 1 \in 1..Len(stack')
    BY <1>3, <1>5, <2>1 DEF Grown
  <2>3. CASE d \in 1..n
    <3>1. d - 1 \in 1..(n - 1) /\ At(stack', d - 1) = At(stack, d - 1)
      BY <1>3, <1>5, <2>1, <2>2, <2>3 DEF Grown
    <3>2. At(stack, d).op = "logmsg" /\ d \in 2..n
      BY <1>3, <1>4, <1>5, <2>1, <2>2, <2>3 DEF Grown
    <3>3. \/ /\ At(stack, d - 1).op = "fprintlog"
             /\ Out(files[At(stack, d - 1).i], reenter)
          \/ At(stack, d - 1).op = "domark"
          \/ At(stack, d - 1).op = "init" /\ At(stack, d - 1).at = "done"
          \/ At(stack, d - 1).op = "die" /\ At(stack, d - 1).at = "exit"
      BY <1>2, <1>7, <3>2 DEF LogOverOK
    <3>4. At(stack, d - 1).op = "fprintlog" => At(stack, d - 1).i \in 1..Len(files)
      BY <1>8, <1>10, <3>1
    <3>5. QED BY <1>1, <3>1, <3>3, <3>4
  <2>4. CASE d = n + 1
    BY <1>3, <1>6, <2>1, <2>4
  <2>5. CASE d = n + 2 /\ Len(stack') = n + 2
    <3>1. d - 1 = n + 1
      BY <1>5, <2>5
    <3>2. QED BY <1>3, <1>6, <2>5, <3>1
  <2>6. QED
    <3>1. d \in 1..n \/ d = n + 1 \/ (d = n + 2 /\ Len(stack') = n + 2)
      BY <1>3, <1>5, <2>2 DEF Grown
    <3>2. QED BY <2>3, <2>4, <2>5, <3>1
<1>13. DomarkOK'
  <2>1. SUFFICES ASSUME NEW d \in 1..Len(stack'), NEW e \in 1..Len(stack'),
                        At(stack', d).op = "domark", e < d
                 PROVE At(stack', e).op \notin {"logmsg", "domark"}
    BY DEF DomarkOK, Height
  <2>2. d \in 1..n /\ At(stack, d).op = "domark"
    BY <1>3, <1>4, <1>5, <1>6, <1>8, <2>1 DEF Grown
  <2>3. e \in 1..(n - 1) /\ At(stack', e) = At(stack, e)
    BY <1>3, <1>5, <2>1, <2>2 DEF Grown
  <2>4. QED BY <1>2, <1>7, <1>8, <2>1, <2>2, <2>3 DEF DomarkOK
<1>14. \A d \in 1..Len(stack') :
         Reports(d)' <=> \/ d \in 1..n /\ Reports(d)
                         \/ d = n + 2 /\ Len(stack') = n + 2
  <2>1. SUFFICES ASSUME NEW d \in 1..Len(stack')
                 PROVE Reports(d)' <=> \/ d \in 1..n /\ Reports(d)
                                       \/ d = n + 2 /\ Len(stack') = n + 2
    OBVIOUS
  <2>2. Reports(d)' <=> /\ d > 1 /\ At(stack', d).op = "logmsg"
                        /\ At(stack', d - 1).op = "fprintlog"
    BY DEF Reports
  <2>3. CASE d \in 1..n
    <3>1. At(stack', d).op = At(stack, d).op
      BY <1>3, <1>4, <1>5, <2>1, <2>3 DEF Grown
    <3>2. d > 1 => d - 1 \in 1..Len(stack') /\ d - 1 < n
      BY <1>3, <1>5, <2>1, <2>3 DEF Grown
    <3>3. d > 1 => At(stack', d - 1) = At(stack, d - 1)
      BY <1>3, <1>5, <3>2 DEF Grown
    <3>4. d # n + 2
      BY <1>5, <2>3
    <3>5. QED BY <2>2, <2>3, <3>1, <3>3, <3>4 DEF Reports
  <2>4. CASE d = n + 1
    <3>1. d \notin 1..n /\ d # n + 2
      BY <1>5, <2>4
    <3>2. QED BY <1>3, <1>6, <2>2, <2>4, <3>1
  <2>5. CASE d = n + 2 /\ Len(stack') = n + 2
    <3>1. d > 1 /\ d - 1 = n + 1
      BY <1>5, <2>5
    <3>2. QED BY <1>3, <1>6, <2>2, <2>5, <3>1
  <2>6. d \in 1..n \/ d = n + 1 \/ (d = n + 2 /\ Len(stack') = n + 2)
    BY <1>3, <1>5, <2>1 DEF Grown
  <2>7. QED BY <2>3, <2>4, <2>5, <2>6
<1>15. \A d \in 1..n : Reports(d) =>
         /\ d - 1 \in 1..(n - 1) /\ At(stack', d - 1) = At(stack, d - 1)
         /\ At(stack, d - 1).i \in 1..Len(files)
         /\ Out(files[At(stack, d - 1).i], reenter)
  <2>1. SUFFICES ASSUME NEW d \in 1..n, Reports(d)
                 PROVE /\ d - 1 \in 1..(n - 1)
                       /\ At(stack', d - 1) = At(stack, d - 1)
                       /\ At(stack, d - 1).i \in 1..Len(files)
                       /\ Out(files[At(stack, d - 1).i], reenter)
    OBVIOUS
  <2>2. /\ d > 1 /\ At(stack, d).op = "logmsg"
        /\ At(stack, d - 1).op = "fprintlog"
    BY <2>1 DEF Reports
  <2>3. d - 1 \in 1..(n - 1) /\ d \in 2..n /\ d - 1 \in 1..Len(stack')
        /\ d - 1 < n
    BY <1>3, <1>5, <2>1, <2>2 DEF Grown
  <2>4. At(stack', d - 1) = At(stack, d - 1)
    BY <1>3, <1>5, <2>3 DEF Grown
  <2>5. At(stack, d - 1).i \in 1..Len(files)
    BY <1>8, <1>10, <2>2, <2>3
  <2>6. Out(files[At(stack, d - 1).i], reenter)
    BY <1>2, <1>7, <2>2, <2>3 DEF LogOverOK
  <2>7. QED BY <2>3, <2>4, <2>5, <2>6
<1>16. CausesOK'
  <2>1. SUFFICES ASSUME NEW d \in 1..Len(stack'), NEW e \in 1..Len(stack'),
                        Reports(d)', Reports(e)', d # e
                 PROVE At(stack', d - 1).i # At(stack', e - 1).i
    BY DEF CausesOK, Height
  <2>2. CASE d \in 1..n /\ Reports(d) /\ e \in 1..n /\ Reports(e)
    BY <1>2, <1>7, <1>15, <2>1, <2>2 DEF CausesOK
  <2>3. ASSUME NEW a \in 1..n, Reports(a), Len(stack') = n + 2
        PROVE At(stack', a - 1).i # i
    BY <1>3, <1>15, <2>3
  <2>4. At(stack', (n + 2) - 1) = At(stack', n + 1)
    <3>1. (n + 2) - 1 = n + 1
      BY <1>5
    <3>2. QED BY <3>1
  <2>5. QED BY <1>3, <1>6, <1>14, <2>1, <2>2, <2>3, <2>4
<1>17. CallerOK'
  <2>1. SUFFICES ASSUME NEW d \in 1..Len(stack'), At(stack', d).op = "fprintlog"
                 PROVE /\ d > 1
                       /\ \/ At(stack', d - 1).op \in {"logmsg", "domark"}
                          \/ /\ At(stack', d - 1).op = "init"
                             /\ At(stack', d - 1).at = "free"
                          \/ /\ At(stack', d - 1).op = "die"
                             /\ At(stack', d - 1).at = "start"
    BY DEF CallerOK, Height
  <2>2. CASE d < n /\ d \in 1..(n - 1) /\ At(stack', d) = At(stack, d)
    <3>1. /\ d > 1
          /\ \/ At(stack, d - 1).op \in {"logmsg", "domark"}
             \/ At(stack, d - 1).op = "init" /\ At(stack, d - 1).at = "free"
             \/ At(stack, d - 1).op = "die" /\ At(stack, d - 1).at = "start"
      BY <1>2, <1>7, <1>8, <2>1, <2>2 DEF CallerOK
    <3>2. d - 1 \in 1..Len(stack') /\ d - 1 < n
      BY <1>3, <1>5, <2>2, <3>1 DEF Grown
    <3>3. At(stack', d - 1) = At(stack, d - 1)
      BY <1>3, <1>5, <3>2 DEF Grown
    <3>4. QED BY <3>1, <3>3
  <2>3. CASE d = n /\ At(stack', d) = fr
    BY <1>4, <2>1, <2>3
  <2>4. CASE d = n + 1 /\ At(stack', d) = Left(i, at)
    <3>1. d > 1 /\ d - 1 = n
      BY <1>5, <2>4
    <3>2. fr.op \in {"logmsg", "domark", "init", "die"}
          /\ (fr.op = "init" => fr.at = "free")
          /\ (fr.op = "die" => fr.at = "start")
      BY DEF Caller
    <3>3. QED BY <1>3, <3>1, <3>2
  <2>5. CASE d = n + 2 /\ Len(stack') = n + 2 /\ At(stack', d) = Report
    BY <1>6, <2>1, <2>5
  <2>6. QED BY <1>3, <2>2, <2>3, <2>4, <2>5 DEF Grown
<1>18. QED BY <1>11, <1>12, <1>13, <1>16, <1>17, PrintCalls2 DEF CallInv


(* Keys of messages and of what is remembered of a long one.               *)
LEMMA KeyFacts ==
  /\ \A m \in Messages : [Key(m) EXCEPT !.text = ""] # Key(ExitMessage)
  /\ \A m \in Messages :
       /\ Key(m) \in Keys /\ [Key(m) EXCEPT !.text = ""] \in Keys
       /\ Key(m).text = m.text /\ [Key(m) EXCEPT !.text = ""].text = ""
       /\ m # NoMessage
<1>1. ASSUME NEW m \in Messages
      PROVE /\ [Key(m) EXCEPT !.text = ""] # Key(ExitMessage)
            /\ [Key(m) EXCEPT !.text = ""].text = ""
            /\ Key(m).text = m.text
  BY DEF Key, ExitMessage, Message
<1>2. ASSUME NEW m \in Messages
      PROVE Key(m) \in Keys /\ [Key(m) EXCEPT !.text = ""] \in Keys
  BY DEF Key, Keys, Messages, Texts
<1>3. ASSUME NEW m \in Messages PROVE m # NoMessage
  BY DEF Messages, NoMessage, Message, Classes
<1>4. QED BY <1>1, <1>2, <1>3

(* fprintlog keeps what init and die have flushed.                         *)
LEMMA PrintCloses ==
  ASSUME TypesInv, CloseInv, NEW i, NEW m, NEW fs, NEW fr,
         Caller(i, m, fs, fr), PrintStep(i, m, fs, fr)
  PROVE CloseInv'
<1>0. FramesOK /\ FilesOK /\ ScalarsOK /\ Printed(i, m, fs, <<fr>> \o Tail(stack))
      /\ status' = status /\ FlushedOK /\ ExitOK
  BY DEF TypesInv, PrintStep, CloseInv
<1>1. /\ Len(files') = Len(files) /\ Len(files) \in Nat /\ i \in 1..Len(files)
      /\ i \in Nat
      /\ \A j \in 1..Len(files) : j # i => files'[j] = files[j]
      /\ files'[i].owed = <<>> /\ files'[i].prev = fs[i].prev
  BY <1>0, PrintEntries
<1>2. PICK n : n = Height
  OBVIOUS
<1>3. PICK at \in {"reset", "endutent"} :
        /\ Grown(n, i, at, fr)
        /\ At(stack', n) = fr /\ At(stack', n + 1) = Left(i, at)
  BY <1>0, <1>2, PrintGrown
<1>4. /\ stack # <<>> /\ i = Top.i
      /\ Top.op \in {"init", "die"} => Top.at = "start"
      /\ fr.op = Top.op /\ fr.m = Top.m
      /\ \/ fr.i = i + 1 /\ fr.at = "start" /\ Top.op \in {"logmsg", "die"}
         \/ fr.i = i /\ fr.at = "backoff" /\ Top.op \in {"logmsg", "domark"}
         \/ fr.i = i /\ fr.at = "save" /\ Top.op = "logmsg"
         \/ fr.i = i /\ fr.at = "free" /\ Top.op = "init"
      /\ \/ fs[i].prev = files[i].prev
         \/ /\ Top.op = "logmsg" /\ fr.at = "start" /\ fr.i = i + 1
            /\ fs[i].prev \in {Key(Top.m), [Key(Top.m) EXCEPT !.text = ""]}
  BY DEF Caller
<1>5. /\ Top = At(stack, n) /\ n \in Nat /\ n > 0 /\ n = Len(stack)
      /\ n \in 1..n /\ FrameOK(Top, Len(files)) /\ stack \in Seq(Frames)
  BY <1>0, <1>2, <1>4, TopFacts
<1>6. /\ Left(i, at).op = "fprintlog" /\ Report.op = "logmsg"
      /\ Report.m = ErrorMessage /\ Key(ErrorMessage) # Key(ExitMessage)
  BY <1>1, FrameFacts
<1>7. \A d \in 1..(n - 1) : d \in 1..n /\ d \in Nat /\ d < n
  BY <1>5
<1>8. \A j \in 1..Len(files) : files'[j].owed = <<>> \/ files'[j].owed = files[j].owed
  BY <1>1
<1>9. FlushedOK'
  <2>1. SUFFICES ASSUME NEW d \in 1..Len(stack'),
                        \/ At(stack', d).op = "init" /\ At(stack', d).at # "done"
                        \/ At(stack', d).op = "die" /\ At(stack', d).at = "start"
                 PROVE Flushed(At(stack', d), files')
    BY DEF FlushedOK, Height
  <2>2. CASE d < n /\ d \in 1..(n - 1) /\ At(stack', d) = At(stack, d)
    <3>1. Flushed(At(stack, d), files)
      BY <1>0, <1>2, <1>7, <2>1, <2>2 DEF FlushedOK
    <3>2. FrameOK(At(stack, d), Len(files))
      BY <1>0, <1>2, <1>7, <2>2 DEF FramesOK
    <3>3. At(stack, d).at = "free" => At(stack, d).i \in 1..Len(files)
      BY <1>1, <2>1, <2>2, <3>2 DEF FrameOK
    <3>4. QED BY <1>1, <1>8, <2>2, <3>1, <3>3 DEF Flushed
  <2>3. CASE d = n /\ At(stack', d) = fr
    <3>1. Top.at = "start" /\ Top.op \in {"init", "die"}
      BY <1>4, <2>1, <2>3
    <3>2. Flushed(Top, files)
      BY <1>0, <1>2, <1>5, <3>1 DEF FlushedOK
    <3>3. fr.i \in {i, i + 1} /\ (fr.at = "free" => fr.i = i)
      BY <1>4
    <3>4. \A j \in 1..Len(files) : j < fr.i => j < i \/ j = i
      BY <1>1, <3>3
    <3>5. \A j \in 1..Len(files) : j < i => files[j].owed = <<>>
      BY <1>4, <3>2 DEF Flushed
    <3>6. QED BY <1>1, <1>8, <2>3, <3>3, <3>4, <3>5 DEF Flushed
  <2>4. CASE d = n + 1 /\ At(stack', d) = Left(i, at)
    BY <1>6, <2>1, <2>4
  <2>5. CASE d = n + 2 /\ Len(stack') = n + 2 /\ At(stack', d) = Report
    BY <1>6, <2>1, <2>5
  <2>6. QED BY <1>3, <2>2, <2>3, <2>4, <2>5 DEF Grown
<1>10. Exiting' <=> Exiting
  <2>1. Exiting' <=> \/ status = "exited"
                     \/ \E d \in 1..Len(stack') : /\ At(stack', d).op = "die"
                                                  /\ At(stack', d).at = "exit"
    BY <1>0 DEF Exiting, Height
  <2>2. ASSUME NEW d \in 1..Len(stack'), At(stack', d).op = "die",
               At(stack', d).at = "exit"
        PROVE Exiting
    <3>1. d < n /\ d \in 1..(n - 1) /\ At(stack', d) = At(stack, d)
      BY <1>3, <1>4, <1>6, <2>2 DEF Grown
    <3>2. QED BY <1>2, <1>7, <2>2, <3>1 DEF Exiting
  <2>3. ASSUME NEW d \in 1..n, At(stack, d).op = "die", At(stack, d).at = "exit"
        PROVE Exiting'
    <3>1. d # n
      BY <1>4, <1>5, <2>3
    <3>2. d \in 1..Len(stack') /\ d < n
      BY <1>3, <1>5, <2>3, <3>1 DEF Grown
    <3>3. At(stack', d) = At(stack, d)
      BY <1>3, <1>5, <3>2 DEF Grown
    <3>4. QED BY <2>1, <2>3, <3>2, <3>3
  <2>4. QED BY <1>2, <2>1, <2>2, <2>3 DEF Exiting
<1>11. ExitOK'
  <2>1. SUFFICES ASSUME ExitTextOwn
                 PROVE /\ Exiting => \A j \in 1..Len(files) : OnlyErrors(files'[j])
                       /\ ~Exiting => \A j \in 1..Len(files) :
                                        files'[j].prev # Key(ExitMessage)
                       /\ \A d \in 1..Len(stack') : At(stack', d).op = "logmsg" =>
                            /\ Exiting => At(stack', d).m \in
                                            {ErrorMessage, ExitMessage, MarkMessage}
                            /\ Key(At(stack', d).m) = Key(ExitMessage) =>
                                 /\ d = 2 /\ Exiting
                                 /\ At(stack', d).m = ExitMessage
                                 /\ \A j \in 1..Len(files) : j >= At(stack', d).i =>
                                      files'[j].prev # Key(ExitMessage)
    BY <1>1, <1>10 DEF ExitOK, Height
  <2>2. /\ Exiting => \A j \in 1..Len(files) : OnlyErrors(files[j])
        /\ ~Exiting => \A j \in 1..Len(files) : files[j].prev # Key(ExitMessage)
        /\ \A d \in 1..n : At(stack, d).op = "logmsg" =>
             /\ Exiting => At(stack, d).m \in {ErrorMessage, ExitMessage, MarkMessage}
             /\ Key(At(stack, d).m) = Key(ExitMessage) =>
                  /\ d = 2 /\ Exiting /\ At(stack, d).m = ExitMessage
                  /\ \A j \in 1..Len(files) : j >= At(stack, d).i =>
                       files[j].prev # Key(ExitMessage)
    BY <1>0, <1>2, <2>1 DEF ExitOK
  <2>3. Exiting => \A j \in 1..Len(files) : OnlyErrors(files'[j])
    BY <1>1, <1>8, <2>2 DEF OnlyErrors
  <2>4. Top.op = "logmsg" => Top.m \in Messages
    BY <1>5 DEF FrameOK
  <2>5. \/ files'[i].prev = files[i].prev
        \/ Top.op = "logmsg" /\ fr.i = i + 1 /\ files'[i].prev = Key(Top.m)
        \/ files'[i].prev # Key(ExitMessage)
    <3>1. Top.op = "logmsg" => [Key(Top.m) EXCEPT !.text = ""] # Key(ExitMessage)
      BY <2>4, KeyFacts
    <3>2. QED BY <1>1, <1>4, <3>1
  <2>6. Key(Top.m) = Key(ExitMessage) /\ Top.op = "logmsg" =>
          /\ n = 2 /\ Exiting /\ Top.m = ExitMessage
          /\ \A j \in 1..Len(files) : j >= i => files[j].prev # Key(ExitMessage)
    BY <1>4, <1>5, <2>2
  <2>7. ~Exiting => \A j \in 1..Len(files) : files'[j].prev # Key(ExitMessage)
    BY <1>1, <2>2, <2>5, <2>6
  <2>8. ASSUME NEW d \in 1..Len(stack'), At(stack', d).op = "logmsg"
        PROVE /\ Exiting => At(stack', d).m \in
                              {ErrorMessage, ExitMessage, MarkMessage}
              /\ Key(At(stack', d).m) = Key(ExitMessage) =>
                   /\ d = 2 /\ Exiting /\ At(stack', d).m = ExitMessage
                   /\ \A j \in 1..Len(files) : j >= At(stack', d).i =>
                        files'[j].prev # Key(ExitMessage)
    <3>1. CASE d < n /\ d \in 1..(n - 1) /\ At(stack', d) = At(stack, d)
      <4>1. ASSUME Key(At(stack, d).m) = Key(ExitMessage)
            PROVE ~(Top.op = "logmsg" /\ Key(Top.m) = Key(ExitMessage))
        BY <1>7, <2>2, <2>6, <2>8, <3>1, <4>1
      <4>2. ASSUME Key(At(stack, d).m) = Key(ExitMessage),
                   NEW j \in 1..Len(files), j >= At(stack, d).i
            PROVE files'[j].prev # Key(ExitMessage)
        <5>1. files[j].prev # Key(ExitMessage)
          BY <1>7, <2>2, <2>8, <3>1, <4>2
        <5>2. QED BY <1>1, <2>5, <4>1, <4>2, <5>1
      <4>3. QED BY <1>7, <2>2, <2>8, <3>1, <4>2
    <3>2. CASE d = n /\ At(stack', d) = fr
      <4>1. Top.op = "logmsg" /\ fr.i \in {i, i + 1}
        BY <1>4, <2>8, <3>2
      <4>2. Exiting => Top.m \in {ErrorMessage, ExitMessage, MarkMessage}
        BY <1>5, <2>2, <4>1
      <4>3. ASSUME Key(Top.m) = Key(ExitMessage),
                   NEW j \in 1..Len(files), j >= fr.i
            PROVE files'[j].prev # Key(ExitMessage)
        <5>1. j >= i /\ (fr.i = i + 1 => j # i)
          BY <1>1, <4>1, <4>3
        <5>2. files[j].prev # Key(ExitMessage)
          BY <2>6, <4>1, <4>3, <5>1
        <5>3. QED BY <1>1, <2>5, <5>1, <5>2
      <4>4. QED BY <1>4, <2>6, <3>2, <4>1, <4>2, <4>3
    <3>3. CASE d = n + 1 /\ At(stack', d) = Left(i, at)
      BY <1>6, <2>8, <3>3
    <3>4. CASE d = n + 2 /\ Len(stack') = n + 2 /\ At(stack', d) = Report
      BY <1>6, <3>4
    <3>5. QED BY <1>3, <3>1, <3>2, <3>3, <3>4 DEF Grown
  <2>9. QED BY <2>3, <2>7, <2>8
<1>12. QED BY <1>9, <1>11 DEF CloseInv

(* A call of fprintlog keeps the invariant.                                *)
LEMMA PrintKept ==
  ASSUME SyslogdInv, NEW i, NEW m, NEW fs, NEW fr, NEW from,
         Caller(i, m, fs, fr),
         Fprintlog(i, from, m, fs, <<fr>> \o Tail(stack)),
         UNCHANGED <<conf, initialized, restart, markseq, woken, alarm,
                     was_initialized, masked, status, torn>>
  PROVE SyslogdInv'
<1>0. TypesInv /\ CountInv /\ CallInv /\ CloseInv
  BY DEF SyslogdInv
<1>1. FramesOK /\ FilesOK /\ ScalarsOK /\ ModeOK
  BY <1>0 DEF TypesInv, CallInv
<1>2. PICK n : n = Height
  OBVIOUS
<1>3. /\ stack # <<>> /\ i \in 1..Len(files) /\ Len(fs) = Len(files)
      /\ fs \in Seq(Entries) /\ m \in Messages \cup {NoMessage}
      /\ fr \in Frames /\ (~Tracked(fs[i]) => fs[i].owed = <<>>)
      /\ Len(fs[i].owed) <= Len(Says(fs[i], m))
      /\ Top.op \in {"logmsg", "domark", "init", "die"}
      /\ Top.op \in {"init", "die"} => Top.at = "start"
  BY DEF Caller
<1>4. stack \in Seq(Frames) /\ Top = At(stack, n) /\ n \in 1..n
  BY <1>1, <1>2, <1>3, TopFacts
<1>5. <<fr>> \o Tail(stack) \in Seq(Frames)
  <2>1. Tail(stack) \in Seq(Frames)
    BY <1>3, <1>4, Beneath
  <2>2. QED BY <1>3, <2>1, OnTop
<1>6. initialized => late = 0
  BY <1>1, <1>2, <1>3, <1>4 DEF ModeOK
<1>7. Prepared(i, m, fs, <<fr>> \o Tail(stack))
  BY <1>1, <1>3, <1>5, <1>6 DEF Prepared, ScalarsOK
<1>8. PrintStep(i, m, fs, fr)
  BY <1>7, PrintFacts DEF PrintStep
<1>9. QED BY <1>0, <1>8, PrintTypes, PrintCounts, PrintCalls, PrintCloses
          DEF SyslogdInv


-----------------------------------------------------------------------------
(* Steps that go on to the next entry, and change the present one at most  *)
(* in its counts.                                                          *)
MovesOn(i, h, fr) ==
  /\ stack # <<>> /\ i = Top.i /\ i \in 1..Len(files)
  /\ Top.op # "fprintlog"
  /\ Top.op = "init" => Top.at # "done"
  /\ Top.op = "die" => Top.at = "start"
  /\ fr \in Frames /\ fr.op = Top.op /\ fr.m = Top.m /\ fr.at = "start"
  /\ fr.i = i + 1
  /\ h \in Entries /\ h.type = files[i].type /\ h.age = files[i].age
  /\ h.prev = files[i].prev /\ EntryOK(h)
  /\ TextsNotEmpty /\ Tracked(h) => LastRight(h)
  /\ ~torn /\ Tracked(h) => h.owed = Copies(h)
  /\ Top.op \in {"init", "die"} => h.owed = <<>>
  /\ h.owed = files[i].owed \/ Top.op = "logmsg"
  /\ ExitTextOwn /\ Exiting => OnlyErrors(h)
  /\ files' = [files EXCEPT ![i] = h]
  /\ stack' = <<fr>> \o Tail(stack)
  /\ UNCHANGED <<conf, initialized, restart, reenter, markseq, woken, late,
                 alarm, was_initialized, masked, status, wrong, torn, hopped>>

(* Such a step, by heights and entries.                                    *)
LEMMA MovesOnFacts ==
  ASSUME TypesInv, NEW i, NEW h, NEW fr, MovesOn(i, h, fr), NEW n, n = Height
  PROVE /\ n \in Nat /\ n > 0 /\ n \in 1..n /\ Len(stack') = n
        /\ Len(stack) = n /\ Top = At(stack, n)
        /\ stack' \in Seq(Frames) /\ At(stack', n) = fr
        /\ \A d \in 1..(n - 1) : /\ At(stack', d) = At(stack, d)
                                 /\ d \in 1..n /\ d < n /\ d + 1 \in 1..n
        /\ \A d \in 1..n : d \in 1..(n - 1) \/ d = n
        /\ \A d \in 1..n : At(stack', d).op = At(stack, d).op
        /\ files' \in Seq(Entries) /\ Len(files') = Len(files)
        /\ Len(files) \in Nat /\ files'[i] = h
        /\ \A j \in 1..Len(files) : j # i => files'[j] = files[j]
        /\ \A j \in 1..Len(files) :
             /\ files'[j].type = files[j].type /\ files'[j].age = files[j].age
             /\ files'[j].prev = files[j].prev
             /\ Tracked(files'[j]) <=> Tracked(files[j])
             /\ Out(files[j], reenter) <=> Out(files'[j], reenter)
        /\ Top \in Frames /\ FrameOK(Top, Len(files))
<1>0. FramesOK /\ files \in Seq(Entries) /\ Len(files) \in Nat
  BY DEF TypesInv, FilesOK
<1>1. /\ stack # <<>> /\ fr \in Frames /\ stack' = <<fr>> \o Tail(stack)
      /\ fr.op = Top.op
      /\ h \in Entries /\ i \in 1..Len(files) /\ files' = [files EXCEPT ![i] = h]
      /\ h.type = files[i].type /\ h.age = files[i].age
      /\ h.prev = files[i].prev
  BY DEF MovesOn
<1>2. /\ n \in Nat /\ n > 0 /\ n \in 1..n /\ Top = At(stack, n) /\ n = Len(stack)
      /\ Top \in Frames /\ FrameOK(Top, Len(files)) /\ stack \in Seq(Frames)
  BY <1>0, <1>1, TopFacts
<1>3. PICK s \in Seq(Frames) : s = Tail(stack)
  BY <1>1, <1>2, Beneath
<1>4. /\ Len(s) = n - 1 /\ Len(s) + 1 = n
      /\ \A d \in 1..(n - 1) : At(s, d) = At(stack, d)
  BY <1>1, <1>2, <1>3, Beneath
<1>5. /\ <<fr>> \o s \in Seq(Frames) /\ Len(<<fr>> \o s) = Len(s) + 1
      /\ At(<<fr>> \o s, Len(s) + 1) = fr
      /\ \A d \in 1..Len(s) : At(<<fr>> \o s, d) = At(s, d)
  BY <1>1, OnTop
<1>6. /\ stack' \in Seq(Frames) /\ Len(stack') = n /\ At(stack', n) = fr
      /\ \A d \in 1..(n - 1) : At(stack', d) = At(stack, d)
  BY <1>1, <1>3, <1>4, <1>5
<1>7. /\ \A d \in 1..(n - 1) : d \in 1..n /\ d < n /\ d + 1 \in 1..n
      /\ \A d \in 1..n : d \in 1..(n - 1) \/ d = n
  BY <1>2
<1>8. \A d \in 1..n : At(stack', d).op = At(stack, d).op
  BY <1>1, <1>2, <1>6, <1>7
<1>9. /\ files' \in Seq(Entries) /\ Len(files') = Len(files)
      /\ \A j \in 1..Len(files) : j # i => files'[j] = files[j]
      /\ files'[i] = h
  BY <1>0, <1>1
<1>10. \A j \in 1..Len(files) :
             /\ files'[j].type = files[j].type /\ files'[j].age = files[j].age
             /\ files'[j].prev = files[j].prev
  BY <1>1, <1>9
<1>11. \A j \in 1..Len(files) :
             /\ Tracked(files'[j]) <=> Tracked(files[j])
             /\ Out(files[j], reenter) <=> Out(files'[j], reenter)
  BY <1>10 DEF Tracked, Out
<1>12. QED BY <1>0, <1>2, <1>6, <1>7, <1>8, <1>9, <1>10, <1>11

(* Such a step keeps the invariant.                                        *)
LEMMA MovesOnKept ==
  ASSUME SyslogdInv, NEW i, NEW h, NEW fr, MovesOn(i, h, fr)
  PROVE SyslogdInv'
<1>0. TypesInv /\ CountInv /\ CallInv /\ CloseInv
  BY DEF SyslogdInv
<1>1. FramesOK /\ FilesOK /\ ScalarsOK
  BY <1>0 DEF TypesInv
<1>2. PICK n : n = Height
  OBVIOUS
<1>3. /\ n \in Nat /\ n > 0 /\ n \in 1..n /\ Len(stack') = n
      /\ Len(stack) = n /\ Top = At(stack, n)
      /\ stack' \in Seq(Frames) /\ At(stack', n) = fr
      /\ \A d \in 1..(n - 1) : /\ At(stack', d) = At(stack, d)
                               /\ d \in 1..n /\ d < n /\ d + 1 \in 1..n
      /\ \A d \in 1..n : d \in 1..(n - 1) \/ d = n
      /\ \A d \in 1..n : At(stack', d).op = At(stack, d).op
  BY <1>0, <1>2, MovesOnFacts
<1>4. /\ files' \in Seq(Entries) /\ Len(files') = Len(files)
      /\ Len(files) \in Nat /\ files'[i] = h
      /\ \A j \in 1..Len(files) : j # i => files'[j] = files[j]
      /\ \A j \in 1..Len(files) :
           /\ files'[j].type = files[j].type /\ files'[j].age = files[j].age
           /\ files'[j].prev = files[j].prev
           /\ Tracked(files'[j]) <=> Tracked(files[j])
           /\ Out(files[j], reenter) <=> Out(files'[j], reenter)
      /\ Top \in Frames /\ FrameOK(Top, Len(files))
  BY <1>0, <1>2, MovesOnFacts
<1>5. /\ i = Top.i /\ i \in 1..Len(files)
      /\ Top.op # "fprintlog"
      /\ Top.op = "init" => Top.at # "done"
      /\ Top.op = "die" => Top.at = "start"
      /\ fr \in Frames /\ fr.op = Top.op /\ fr.m = Top.m /\ fr.at = "start"
      /\ fr.i = i + 1
      /\ Top.op \in {"init", "die"} => h.owed = <<>>
      /\ h.owed = files[i].owed \/ Top.op = "logmsg"
  BY DEF MovesOn
<1>6. /\ EntryOK(h)
      /\ TextsNotEmpty /\ Tracked(h) => LastRight(h)
      /\ ~torn /\ Tracked(h) => h.owed = Copies(h)
      /\ ExitTextOwn /\ Exiting => OnlyErrors(h)
  BY DEF MovesOn
<1>7. /\ initialized' = initialized /\ reenter' = reenter /\ late' = late
      /\ status' = status /\ wrong' = wrong /\ torn' = torn
  BY DEF MovesOn
<1>8. ScalarsOK'
  BY <1>1 DEF ScalarsOK, MovesOn
<1>9. FilesOK'
  BY <1>4 DEF FilesOK
<1>10. \A d \in 1..n : FrameOK(At(stack, d), Len(files))
  BY <1>1, <1>2 DEF FramesOK
<1>11. FramesOK'
  <2>1. i + 1 \in 1..(Len(files) + 1)
    BY <1>4, <1>5
  <2>2. FrameOK(fr, Len(files))
    BY <1>4, <1>5, <2>1 DEF FrameOK
  <2>3. \A d \in 1..n : FrameOK(At(stack', d), Len(files'))
    BY <1>3, <1>4, <1>10, <2>2
  <2>4. QED BY <1>3, <2>3 DEF FramesOK, Height
<1>12. EntriesOK'
  BY <1>0, <1>4, <1>6 DEF EntriesOK, CountInv
<1>13. LastOK'
  BY <1>0, <1>4, <1>6 DEF LastOK, CountInv
<1>14. CountOK'
  <2>1. SUFFICES ASSUME ~torn, NEW j \in 1..Len(files), Tracked(files'[j])
                 PROVE (files[j].owed = IF TopPrints(j) THEN <<>>
                                        ELSE Copies(files[j]))'
    BY <1>4, <1>7 DEF CountOK
  <2>2. ~TopPrints(j)' /\ ~TopPrints(j)
    BY <1>2, <1>3, <1>5 DEF TopPrints, Height
  <2>3. CASE j = i
    <3>1. h.owed = Copies(h)
      BY <1>4, <1>6, <2>1, <2>3
    <3>2. Copies(files[j])' = Copies(h)
      BY <1>4, <2>3 DEF Copies
    <3>3. QED BY <1>4, <2>2, <2>3, <3>1, <3>2
  <2>4. CASE j # i
    <3>1. files'[j] = files[j] /\ Tracked(files[j])
      BY <1>4, <2>1, <2>4
    <3>2. files[j].owed = Copies(files[j])
      BY <1>0, <2>1, <2>2, <3>1 DEF CountInv, CountOK
    <3>3. Copies(files[j])' = Copies(files[j])
      BY <3>1 DEF Copies
    <3>4. QED BY <2>2, <3>1, <3>2, <3>3
  <2>5. QED BY <2>3, <2>4
<1>15. \A d \in 1..n : At(stack, d).op = "fprintlog" =>
         At(stack, d).i \in 1..Len(files)
  BY <1>10 DEF FrameOK
<1>16. TopOK'
  <2>1. SUFFICES ASSUME ~torn \/ initialized, NEW d \in 1..(n - 1),
                        At(stack', d).op = "fprintlog"
                 PROVE ~Tracked(files'[At(stack', d).i])
    BY <1>3, <1>7 DEF TopOK, Height
  <2>2. ~Tracked(files[At(stack, d).i])
    BY <1>0, <1>2, <1>3, <2>1 DEF CountInv, TopOK
  <2>3. QED BY <1>3, <1>4, <1>15, <2>1, <2>2
<1>17. WrongOK'
  BY <1>0, <1>7 DEF WrongOK, CountInv
<1>18. TextOK'
  <2>1. TextsNotEmpty => \A d \in 1..n :
          At(stack, d).op = "logmsg" => At(stack, d).m.text # ""
    BY <1>0, <1>2 DEF CountInv, TextOK
  <2>2. TextsNotEmpty => \A d \in 1..n :
          At(stack', d).op = "logmsg" => At(stack', d).m.text # ""
    <3>1. n \in 1..n /\ At(stack, n) = Top /\ At(stack', n) = fr
      BY <1>2, <1>3
    <3>2. fr.op = Top.op /\ fr.m = Top.m
      BY <1>5
    <3>3. ASSUME NEW d \in 1..n
          PROVE /\ At(stack', d).op = At(stack, d).op
                /\ At(stack', d).m = At(stack, d).m
      BY <1>3, <3>1, <3>2
    <3>4. QED BY <2>1, <3>3
  <2>3. QED BY <1>3, <2>2 DEF TextOK, Height
<1>19. ModeOK'
  <2>1. \A d \in 1..n :
          /\ At(stack, d).op \in {"init", "die"} => d = 1
          /\ At(stack, d).op = "logmsg" => initialized
          /\ \/ At(stack, d).op = "init" /\ At(stack, d).at # "done"
             \/ At(stack, d).op = "die" /\ At(stack, d).at = "start"
             => ~initialized
          /\ At(stack, d).op \in {"logmsg", "domark"} => late = 0
    BY <1>0, <1>2 DEF CallInv, ModeOK
  <2>2. \A d \in 1..n :
          /\ At(stack', d).op \in {"init", "die"} => d = 1
          /\ At(stack', d).op = "logmsg" => initialized
          /\ \/ At(stack', d).op = "init" /\ At(stack', d).at # "done"
             \/ At(stack', d).op = "die" /\ At(stack', d).at = "start"
             => ~initialized
          /\ At(stack', d).op \in {"logmsg", "domark"} => late = 0
    BY <1>3, <1>5, <2>1
  <2>3. QED BY <1>3, <1>7, <2>2 DEF ModeOK, Height
<1>20. LogOverOK'
  <2>1. SUFFICES ASSUME NEW d \in 2..n, At(stack', d).op = "logmsg"
                 PROVE \/ /\ At(stack', d - 1).op = "fprintlog"
                          /\ Out(files'[At(stack', d - 1).i], reenter)
                       \/ At(stack', d - 1).op = "domark"
                       \/ /\ At(stack', d - 1).op = "init"
                          /\ At(stack', d - 1).at = "done"
                       \/ /\ At(stack', d - 1).op = "die"
                          /\ At(stack', d - 1).at = "exit"
    BY <1>3, <1>7 DEF LogOverOK, Height
  <2>2. d \in 1..n /\ d - 1 \in 1..(n - 1) /\ d - 1 \in 1..n
    BY <1>3, <2>1
  <2>3. At(stack, d).op = "logmsg" /\ At(stack', d - 1) = At(stack, d - 1)
    BY <1>3, <2>1, <2>2
  <2>4. \/ /\ At(stack, d - 1).op = "fprintlog"
           /\ Out(files[At(stack, d - 1).i], reenter)
        \/ At(stack, d - 1).op = "domark"
        \/ At(stack, d - 1).op = "init" /\ At(stack, d - 1).at = "done"
        \/ At(stack, d - 1).op = "die" /\ At(stack, d - 1).at = "exit"
    BY <1>0, <1>2, <2>1, <2>3 DEF CallInv, LogOverOK
  <2>5. QED BY <1>4, <1>15, <2>2, <2>3, <2>4
<1>21. DomarkOK'
  BY <1>0, <1>2, <1>3 DEF DomarkOK, Height, CallInv
<1>22. \A d \in 1..n : Reports(d)' <=> Reports(d)
  <2>1. SUFFICES ASSUME NEW d \in 1..n PROVE Reports(d)' <=> Reports(d)
    OBVIOUS
  <2>2. d > 1 => d - 1 \in 1..n
    BY <1>3, <2>1
  <2>3. QED BY <1>3, <2>1, <2>2 DEF Reports
<1>23. CausesOK'
  <2>1. \A d \in 1..n : Reports(d) => At(stack', d - 1) = At(stack, d - 1)
    <3>1. \A d \in 1..n : d > 1 => d - 1 \in 1..(n - 1)
      BY <1>3
    <3>2. QED BY <1>3, <3>1 DEF Reports
  <2>2. \A d, e \in 1..n : Reports(d) /\ Reports(e) /\ d # e =>
          At(stack', d - 1).i # At(stack', e - 1).i
    BY <1>0, <1>2, <2>1 DEF CallInv, CausesOK
  <2>3. QED BY <1>3, <1>22, <2>2 DEF CausesOK, Height
<1>24. \A d \in 1..n : Walling(d)' <=> Walling(d)
  <2>1. SUFFICES ASSUME NEW d \in 1..n PROVE Walling(d)' <=> Walling(d)
    OBVIOUS
  <2>2. CASE d = n
    BY <1>2, <1>3, <1>5, <2>2 DEF Walling, Height
  <2>3. CASE d \in 1..(n - 1)
    BY <1>2, <1>3, <1>4, <1>15, <2>3 DEF Walling, Height
  <2>4. QED BY <1>3, <2>2, <2>3
<1>25. WallOK'
  <2>1. \A d \in 1..n : Walling(d) =>
          reenter /\ \A e \in 1..n : Walling(e) => e = d
    BY <1>0, <1>2 DEF CallInv, WallOK
  <2>2. QED BY <1>3, <1>7, <1>24, <2>1 DEF WallOK, Height
<1>26. SaveOK'
  <2>1. SUFFICES ASSUME NEW d \in 1..n,
                        At(stack', d).op = "logmsg", At(stack', d).at = "save"
                 PROVE /\ d < n /\ At(stack', d + 1).op = "fprintlog"
                       /\ At(stack', d + 1).i = At(stack', d).i
    BY <1>3 DEF SaveOK, Height
  <2>2. d \in 1..(n - 1) /\ d # n
    BY <1>3, <1>5, <2>1
  <2>3. /\ At(stack, d + 1).op = "fprintlog"
        /\ At(stack, d + 1).i = At(stack, d).i
    BY <1>0, <1>2, <1>3, <2>1, <2>2 DEF CallInv, SaveOK
  <2>4. d + 1 \in 1..(n - 1)
    BY <1>3, <1>5, <2>2, <2>3
  <2>5. QED BY <1>3, <2>2, <2>3, <2>4
<1>27. FlushedOK'
  <2>1. SUFFICES ASSUME NEW d \in 1..n,
                        \/ At(stack', d).op = "init" /\ At(stack', d).at # "done"
                        \/ At(stack', d).op = "die" /\ At(stack', d).at = "start"
                 PROVE Flushed(At(stack', d), files')
    BY <1>3 DEF FlushedOK, Height
  <2>2. CASE d \in 1..(n - 1)
    <3>1. Flushed(At(stack, d), files)
      BY <1>0, <1>2, <1>3, <2>1, <2>2 DEF CloseInv, FlushedOK
    <3>2. ~initialized
      BY <1>0, <1>2, <1>3, <2>1, <2>2 DEF CallInv, ModeOK
    <3>3. Top.op # "logmsg"
      BY <1>0, <1>2, <1>3, <3>2 DEF CallInv, ModeOK
    <3>4. \A j \in 1..Len(files) : files'[j].owed = files[j].owed
      BY <1>4, <1>5, <3>3
    <3>5. At(stack, d).at = "free" => At(stack, d).i \in 1..Len(files)
      BY <1>3, <1>4, <1>10, <2>1, <2>2 DEF FrameOK
    <3>6. QED BY <1>3, <1>4, <2>2, <3>1, <3>4, <3>5 DEF Flushed
  <2>3. CASE d = n
    <3>1. Top.op \in {"init", "die"} /\ At(stack', d) = fr
      BY <1>3, <1>5, <2>1, <2>3
    <3>2. Flushed(Top, files)
      BY <1>0, <1>2, <1>3, <1>5, <3>1 DEF CloseInv, FlushedOK
    <3>3. \A j \in 1..Len(files) : j < i => files[j].owed = <<>>
      BY <1>5, <3>2 DEF Flushed
    <3>4. \A j \in 1..Len(files) : j < i + 1 => j = i \/ (j < i /\ j # i)
      BY <1>4, <1>5
    <3>5. \A j \in 1..Len(files') : j < fr.i => files'[j].owed = <<>>
      BY <1>4, <1>5, <3>1, <3>3, <3>4
    <3>6. QED BY <1>5, <3>1, <3>5 DEF Flushed
  <2>4. QED BY <1>3, <2>2, <2>3
<1>28. Exiting' <=> Exiting
  <2>1. Exiting' <=> \/ status = "exited"
                     \/ \E d \in 1..n : /\ At(stack', d).op = "die"
                                        /\ At(stack', d).at = "exit"
    BY <1>3, <1>7 DEF Exiting, Height
  <2>2. \A d \in 1..n : /\ At(stack', d).op = "die" /\ At(stack', d).at = "exit"
                        <=> At(stack, d).op = "die" /\ At(stack, d).at = "exit"
    BY <1>3, <1>5
  <2>3. QED BY <1>2, <2>1, <2>2 DEF Exiting
<1>29. ExitOK'
  <2>1. SUFFICES ASSUME ExitTextOwn
                 PROVE /\ Exiting => \A j \in 1..Len(files) : OnlyErrors(files'[j])
                       /\ ~Exiting => \A j \in 1..Len(files) :
                                        files'[j].prev # Key(ExitMessage)
                       /\ \A d \in 1..n : At(stack', d).op = "logmsg" =>
                            /\ Exiting => At(stack', d).m \in
                                            {ErrorMessage, ExitMessage, MarkMessage}
                            /\ Key(At(stack', d).m) = Key(ExitMessage) =>
                                 /\ d = 2 /\ Exiting
                                 /\ At(stack', d).m = ExitMessage
                                 /\ \A j \in 1..Len(files) : j >= At(stack', d).i =>
                                      files'[j].prev # Key(ExitMessage)
    BY <1>3, <1>4, <1>28 DEF ExitOK, Height
  <2>2. /\ Exiting => \A j \in 1..Len(files) : OnlyErrors(files[j])
        /\ ~Exiting => \A j \in 1..Len(files) : files[j].prev # Key(ExitMessage)
        /\ \A d \in 1..n : At(stack, d).op = "logmsg" =>
             /\ Exiting => At(stack, d).m \in {ErrorMessage, ExitMessage, MarkMessage}
             /\ Key(At(stack, d).m) = Key(ExitMessage) =>
                  /\ d = 2 /\ Exiting /\ At(stack, d).m = ExitMessage
                  /\ \A j \in 1..Len(files) : j >= At(stack, d).i =>
                       files[j].prev # Key(ExitMessage)
    BY <1>0, <1>2, <2>1 DEF CloseInv, ExitOK
  <2>3. Exiting => \A j \in 1..Len(files) : OnlyErrors(files'[j])
    BY <1>4, <1>6, <2>1, <2>2
  <2>4. ~Exiting => \A j \in 1..Len(files) : files'[j].prev # Key(ExitMessage)
    BY <1>4, <2>2
  <2>5. \A d \in 1..n : At(stack', d).m = At(stack, d).m
    BY <1>3, <1>5
  <2>6. \A d \in 1..n : \A j \in 1..Len(files) :
          j >= At(stack', d).i => j >= At(stack, d).i
    <3>1. \A j \in 1..Len(files) : j >= i + 1 => j >= i
      BY <1>4, <1>5
    <3>2. QED BY <1>3, <1>5, <3>1
  <2>7. QED BY <1>3, <1>4, <2>2, <2>3, <2>4, <2>5, <2>6
<1>30. PendingOK'
  <2>1. SUFFICES ASSUME NEW d \in 1..n, At(stack', d).op = "fprintlog"
                 PROVE files'[At(stack', d).i].owed = <<>>
    BY <1>3 DEF PendingOK, Height
  <2>2. d \in 1..(n - 1) /\ At(stack', d) = At(stack, d)
        /\ At(stack, d).op = "fprintlog"
    BY <1>3, <1>5, <2>1
  <2>3. files[At(stack, d).i].owed = <<>> /\ At(stack, d).i \in 1..Len(files)
    BY <1>0, <1>2, <1>15, <2>1, <2>2 DEF CountInv, PendingOK
  <2>4. CASE At(stack, d).i # i
    BY <1>4, <2>2, <2>3, <2>4
  <2>5. CASE At(stack, d).i = i /\ Top.op = "logmsg"
    <3>1. initialized
      BY <1>0, <1>2, <1>3, <2>5 DEF CallInv, ModeOK
    <3>2. ~Tracked(files[i])
      BY <1>0, <1>2, <2>2, <2>5, <3>1 DEF CountInv, TopOK
    <3>3. ~Tracked(h)
      BY <1>4, <1>5, <3>2
    <3>4. QED BY <1>4, <1>6, <2>2, <2>5, <3>3 DEF EntryOK
  <2>6. CASE At(stack, d).i = i /\ Top.op # "logmsg"
    BY <1>4, <1>5, <2>2, <2>3, <2>6
  <2>7. QED BY <2>4, <2>5, <2>6
<1>31. CallerOK'
  <2>1. SUFFICES ASSUME NEW d \in 1..n, At(stack', d).op = "fprintlog"
                 PROVE /\ d > 1
                       /\ \/ At(stack', d - 1).op \in {"logmsg", "domark"}
                          \/ /\ At(stack', d - 1).op = "init"
                             /\ At(stack', d - 1).at = "free"
                          \/ /\ At(stack', d - 1).op = "die"
                             /\ At(stack', d - 1).at = "start"
    BY <1>3 DEF CallerOK, Height
  <2>2. d \in 1..(n - 1) /\ At(stack, d).op = "fprintlog"
    BY <1>3, <1>5, <2>1
  <2>3. /\ d > 1
        /\ \/ At(stack, d - 1).op \in {"logmsg", "domark"}
           \/ At(stack, d - 1).op = "init" /\ At(stack, d - 1).at = "free"
           \/ At(stack, d - 1).op = "die" /\ At(stack, d - 1).at = "start"
    BY <1>0, <1>2, <2>1, <2>2 DEF CallInv, CallerOK
  <2>4. d - 1 \in 1..(n - 1)
    BY <1>3, <2>2, <2>3
  <2>5. QED BY <1>3, <2>3, <2>4
<1>32. QED
  BY <1>30, <1>31, <1>8, <1>9, <1>11, <1>12, <1>13, <1>14, <1>16, <1>17, <1>18, <1>19, <1>20,
     <1>21, <1>23, <1>25, <1>26, <1>27, <1>29
  DEF SyslogdInv, TypesInv, CountInv, CallInv, CloseInv


-----------------------------------------------------------------------------
(* Returns from a call.  The end of fprintlog resets the count.            *)
ReturnsFrom(t) ==
  /\ stack # <<>> /\ t = Top /\ t.op # "die" /\ stack' = Tail(stack)
  /\ FilesOK' /\ Len(files') = Len(files)
  /\ \A j \in 1..Len(files) :
       \/ files'[j] = files[j]
       \/ t.op = "fprintlog" /\ t.i = j
  /\ t.op = "fprintlog" =>
       /\ files'[t.i].type = files[t.i].type /\ files'[t.i].age = files[t.i].age
       /\ files'[t.i].prev = files[t.i].prev
       /\ files'[t.i].owed = files[t.i].owed
       /\ files'[t.i].last = files[t.i].last
       /\ files[t.i].type # "FORW_UNKN" => files'[t.i].prevcount = 0
  /\ reenter' => reenter
  /\ reenter => reenter' \/ (t.op = "fprintlog" /\ t.at = "endutent")
  /\ ScalarsOK'
  /\ UNCHANGED <<initialized, late, status, wrong, torn>>

(* Such a step keeps the invariant.                                        *)
LEMMA ReturnKept ==
  ASSUME SyslogdInv, NEW t, ReturnsFrom(t)
  PROVE SyslogdInv'
<1>0. TypesInv /\ CountInv /\ CallInv /\ CloseInv
  BY DEF SyslogdInv
<1>1. FramesOK /\ files \in Seq(Entries) /\ Len(files) \in Nat
  BY <1>0 DEF TypesInv, FilesOK
<1>2. PICK n : n = Height
  OBVIOUS
<1>3. /\ n \in Nat /\ n > 0 /\ n \in 1..n /\ Len(stack) = n /\ t = At(stack, n)
      /\ stack \in Seq(Frames) /\ FrameOK(t, Len(files))
  BY <1>1, <1>2, TopFacts DEF ReturnsFrom
<1>4. /\ stack' \in Seq(Frames) /\ Len(stack') = n - 1
      /\ \A d \in 1..(n - 1) : At(stack', d) = At(stack, d)
  BY <1>1, <1>3, Beneath DEF ReturnsFrom
<1>5. \A d \in 1..(n - 1) : d \in 1..n /\ d < n /\ d # n
  BY <1>3
<1>6. /\ t.op # "die" /\ Len(files') = Len(files) /\ files' \in Seq(Entries)
      /\ \A j \in 1..Len(files) :
           \/ files'[j] = files[j]
           \/ t.op = "fprintlog" /\ t.i = j
      /\ t.op = "fprintlog" => t.i \in 1..Len(files)
  BY <1>3 DEF ReturnsFrom, FilesOK, FrameOK
<1>7. /\ initialized' = initialized /\ late' = late /\ status' = status
      /\ wrong' = wrong /\ torn' = torn
      /\ reenter' => reenter
      /\ reenter => reenter' \/ (t.op = "fprintlog" /\ t.at = "endutent")
  BY DEF ReturnsFrom
<1>8. \A j \in 1..Len(files) :
        /\ files'[j].type = files[j].type /\ files'[j].age = files[j].age
        /\ files'[j].prev = files[j].prev /\ files'[j].owed = files[j].owed
        /\ files'[j].last = files[j].last
  BY <1>6 DEF ReturnsFrom
<1>9. \A j \in 1..Len(files) : Tracked(files'[j]) <=> Tracked(files[j])
  BY <1>8 DEF Tracked
<1>10. \A d \in 1..n : FrameOK(At(stack, d), Len(files))
  BY <1>1, <1>2 DEF FramesOK
<1>11. FramesOK'
  BY <1>4, <1>5, <1>6, <1>10 DEF FramesOK, Height
<1>12. t.op = "fprintlog" /\ Tracked(files[t.i]) => files'[t.i].prevcount = 0
  BY DEF ReturnsFrom, Tracked
<1>13. t.op = "fprintlog" => files[t.i].owed = <<>>
  BY <1>0, <1>2, <1>3 DEF CountInv, PendingOK
<1>14. EntriesOK'
  <2>1. SUFFICES ASSUME NEW j \in 1..Len(files) PROVE EntryOK(files'[j])
    BY <1>6 DEF EntriesOK
  <2>2. EntryOK(files[j])
    BY <1>0 DEF CountInv, EntriesOK
  <2>3. CASE files'[j] = files[j]
    BY <2>2, <2>3
  <2>4. CASE t.op = "fprintlog" /\ t.i = j
    <3>1. files'[j].owed = <<>> /\ files'[j].prevcount \in Nat
      BY <1>6, <1>8, <1>13, <2>4, EntryFacts
    <3>2. QED BY <3>1 DEF EntryOK
  <2>5. QED BY <1>6, <2>3, <2>4
<1>15. LastOK'
  <2>1. SUFFICES ASSUME TextsNotEmpty, NEW j \in 1..Len(files),
                        Tracked(files'[j])
                 PROVE LastRight(files'[j])
    BY <1>6 DEF LastOK
  <2>2. LastRight(files[j])
    BY <1>0, <1>9, <2>1 DEF CountInv, LastOK
  <2>3. CASE files'[j] = files[j]
    BY <2>2, <2>3
  <2>4. CASE t.op = "fprintlog" /\ t.i = j
    <3>1. files'[j].prevcount = 0
      BY <1>9, <1>12, <2>1, <2>4
    <3>2. files'[j].last = files[j].last /\ files'[j].prev = files[j].prev
      BY <1>8
    <3>3. files[j].last = files[j].prev \/ files[j].prev.text = ""
      BY <2>2 DEF LastRight
    <3>4. files'[j].last = files'[j].prev \/ files'[j].prev.text = ""
      BY <3>2, <3>3
    <3>5. QED BY <3>1, <3>4 DEF LastRight
  <2>5. QED BY <1>6, <2>3, <2>4
<1>16. TopOK'
  <2>1. SUFFICES ASSUME ~torn \/ initialized, NEW d \in 1..(n - 1),
                        At(stack, d).op = "fprintlog"
                 PROVE ~Tracked(files'[At(stack, d).i])
    <3>1. \A d \in 1..((n - 1) - 1) : d \in 1..(n - 1)
      BY <1>3
    <3>2. QED BY <1>4, <1>7, <3>1 DEF TopOK, Height
  <2>2. ~Tracked(files[At(stack, d).i])
    BY <1>0, <1>2, <2>1 DEF CountInv, TopOK
  <2>3. At(stack, d).i \in 1..Len(files)
    BY <1>5, <1>10, <2>1 DEF FrameOK
  <2>4. QED BY <1>9, <2>2, <2>3
<1>17. CountOK'
  <2>1. SUFFICES ASSUME ~torn, NEW j \in 1..Len(files), Tracked(files'[j])
                 PROVE (files[j].owed = IF TopPrints(j) THEN <<>>
                                        ELSE Copies(files[j]))'
    BY <1>6, <1>7 DEF CountOK
  <2>2. ~TopPrints(j)'
    <3>1. SUFFICES ASSUME n - 1 > 0, At(stack, n - 1).op = "fprintlog",
                          At(stack, n - 1).i = j
                   PROVE FALSE
      <4>1. n - 1 > 0 => n - 1 \in 1..(n - 1)
        BY <1>3
      <4>2. QED BY <1>4, <4>1 DEF TopPrints, Height
    <3>2. n - 1 \in 1..(n - 1)
      BY <1>3, <3>1
    <3>3. ~Tracked(files[j])
      BY <1>0, <1>2, <2>1, <3>1, <3>2 DEF CountInv, TopOK
    <3>4. QED BY <1>9, <2>1, <3>3
  <2>3. CASE t.op = "fprintlog" /\ t.i = j
    <3>1. files'[j].prevcount = 0 /\ files'[j].owed = <<>>
      BY <1>8, <1>9, <1>12, <1>13, <2>1, <2>3
    <3>2. Copies(files[j])' = <<>>
      BY <3>1 DEF Copies
    <3>3. QED BY <2>2, <3>1, <3>2
  <2>4. CASE ~(t.op = "fprintlog" /\ t.i = j)
    <3>1. files'[j] = files[j]
      BY <1>6, <2>4
    <3>2. ~TopPrints(j)
      BY <1>2, <1>3, <2>4 DEF TopPrints, Height
    <3>3. files[j].owed = Copies(files[j])
      BY <1>0, <1>9, <2>1, <3>2 DEF CountInv, CountOK
    <3>4. Copies(files[j])' = Copies(files[j])
      BY <3>1 DEF Copies
    <3>5. QED BY <2>2, <3>1, <3>3, <3>4
  <2>5. QED BY <2>3, <2>4
<1>18. PendingOK'
  <2>1. \A d \in 1..(n - 1) : At(stack, d).op = "fprintlog" =>
          At(stack, d).i \in 1..Len(files) /\ files[At(stack, d).i].owed = <<>>
    BY <1>0, <1>2, <1>5, <1>10 DEF CountInv, PendingOK, FrameOK
  <2>2. QED BY <1>4, <1>8, <2>1 DEF PendingOK, Height
<1>19. WrongOK'
  BY <1>0, <1>7 DEF CountInv, WrongOK
<1>20. TextOK'
  BY <1>0, <1>2, <1>4, <1>5 DEF CountInv, TextOK, Height
<1>21. ModeOK'
  BY <1>0, <1>2, <1>4, <1>5, <1>7 DEF CallInv, ModeOK, Height
<1>22. \A d \in 1..(n - 1) : d > 1 => /\ d - 1 \in 1..(n - 1)
                                      /\ At(stack', d - 1) = At(stack, d - 1)
  <2>1. \A d \in 1..(n - 1) : d > 1 => d - 1 \in 1..(n - 1)
    BY <1>3
  <2>2. QED BY <1>4, <2>1
<1>23. CallerOK'
  <2>1. SUFFICES ASSUME NEW d \in 1..(n - 1), At(stack, d).op = "fprintlog"
                 PROVE /\ d > 1
                       /\ \/ At(stack', d - 1).op \in {"logmsg", "domark"}
                          \/ /\ At(stack', d - 1).op = "init"
                             /\ At(stack', d - 1).at = "free"
                          \/ /\ At(stack', d - 1).op = "die"
                             /\ At(stack', d - 1).at = "start"
    BY <1>4 DEF CallerOK, Height
  <2>2. /\ d > 1
        /\ \/ At(stack, d - 1).op \in {"logmsg", "domark"}
           \/ At(stack, d - 1).op = "init" /\ At(stack, d - 1).at = "free"
           \/ At(stack, d - 1).op = "die" /\ At(stack, d - 1).at = "start"
    BY <1>0, <1>2, <1>5, <2>1 DEF CallInv, CallerOK
  <2>3. QED BY <1>22, <2>1, <2>2
<1>24. ASSUME t.op = "fprintlog", t.at = "endutent", NEW d \in 1..(n - 1)
       PROVE ~Walling(d)
  <2>1. Walling(n)
    BY <1>3, <1>24 DEF Walling
  <2>2. QED BY <1>0, <1>2, <1>3, <1>5, <1>24, <2>1 DEF CallInv, WallOK
<1>25. LogOverOK'
  <2>1. SUFFICES ASSUME NEW d \in 1..(n - 1), d > 1, At(stack, d).op = "logmsg"
                 PROVE \/ /\ At(stack, d - 1).op = "fprintlog"
                          /\ Out(files'[At(stack, d - 1).i], reenter')
                       \/ At(stack, d - 1).op = "domark"
                       \/ /\ At(stack, d - 1).op = "init"
                          /\ At(stack, d - 1).at = "done"
                       \/ /\ At(stack, d - 1).op = "die"
                          /\ At(stack, d - 1).at = "exit"
    <3>1. \A d \in 2..(n - 1) : d \in 1..(n - 1) /\ d > 1
      BY <1>3
    <3>2. QED BY <1>4, <1>22, <3>1 DEF LogOverOK, Height
  <2>2. d \in 2..n
    BY <1>3, <2>1
  <2>3. \/ /\ At(stack, d - 1).op = "fprintlog"
           /\ Out(files[At(stack, d - 1).i], reenter)
        \/ At(stack, d - 1).op = "domark"
        \/ At(stack, d - 1).op = "init" /\ At(stack, d - 1).at = "done"
        \/ At(stack, d - 1).op = "die" /\ At(stack, d - 1).at = "exit"
    BY <1>0, <1>2, <2>1, <2>2 DEF CallInv, LogOverOK
  <2>4. ASSUME At(stack, d - 1).op = "fprintlog",
               Out(files[At(stack, d - 1).i], reenter)
        PROVE Out(files'[At(stack, d - 1).i], reenter')
    <3>1. d - 1 \in 1..(n - 1) /\ d - 1 < n /\ (d - 1) + 1 = d
      BY <1>3, <2>1
    <3>2. At(stack, d - 1).i \in 1..Len(files)
      BY <1>5, <1>10, <2>4, <3>1 DEF FrameOK
    <3>3. CASE files[At(stack, d - 1).i].type = "WALL"
      <4>1. Walling(d - 1)
        BY <1>2, <2>1, <2>4, <3>1, <3>3 DEF Walling
      <4>2. reenter
        BY <2>4, <3>3 DEF Out
      <4>3. reenter'
        BY <1>7, <1>24, <3>1, <4>1, <4>2
      <4>4. QED BY <1>8, <3>2, <3>3, <4>3 DEF Out
    <3>4. CASE files[At(stack, d - 1).i].type # "WALL"
      BY <1>8, <2>4, <3>2, <3>4 DEF Out
    <3>5. QED BY <3>3, <3>4
  <2>5. QED BY <2>3, <2>4
<1>26. DomarkOK'
  BY <1>0, <1>2, <1>4, <1>5 DEF CallInv, DomarkOK, Height
<1>27. CausesOK'
  <2>1. \A d \in 1..(n - 1) : Reports(d)' => Reports(d) /\ d > 1
    BY <1>4, <1>22 DEF Reports
  <2>2. \A d, e \in 1..n : Reports(d) /\ Reports(e) /\ d # e =>
          At(stack, d - 1).i # At(stack, e - 1).i
    BY <1>0, <1>2 DEF CallInv, CausesOK
  <2>3. \A d, e \in 1..(n - 1) : Reports(d)' /\ Reports(e)' /\ d # e =>
          At(stack', d - 1).i # At(stack', e - 1).i
    BY <1>5, <1>22, <2>1, <2>2
  <2>4. QED BY <1>4, <2>3 DEF CausesOK, Height
<1>28. \A d \in 1..(n - 1) : Walling(d)' => Walling(d)
  <2>1. SUFFICES ASSUME NEW d \in 1..(n - 1), Walling(d)' PROVE Walling(d)
    OBVIOUS
  <2>2. /\ At(stack, d).op = "fprintlog"
        /\ \/ At(stack, d).at = "endutent"
           \/ /\ d < n - 1 /\ At(stack', d + 1).op = "logmsg"
              /\ files'[At(stack, d).i].type = "WALL"
    BY <1>4, <2>1 DEF Walling, Height
  <2>3. CASE At(stack, d).at = "endutent"
    BY <2>2, <2>3 DEF Walling
  <2>4. CASE /\ d < n - 1 /\ At(stack', d + 1).op = "logmsg"
             /\ files'[At(stack, d).i].type = "WALL"
    <3>1. d + 1 \in 1..(n - 1) /\ d < n
      BY <1>3, <2>1, <2>4
    <3>2. At(stack, d).i \in 1..Len(files)
      BY <1>5, <1>10, <2>1, <2>2 DEF FrameOK
    <3>3. QED BY <1>2, <1>4, <1>8, <2>2, <2>4, <3>1, <3>2 DEF Walling
  <2>5. QED BY <2>2, <2>3, <2>4
<1>29. WallOK'
  <2>1. SUFFICES ASSUME NEW d \in 1..(n - 1), Walling(d)'
                 PROVE reenter' /\ \A e \in 1..(n - 1) : Walling(e)' => e = d
    BY <1>4 DEF WallOK, Height
  <2>2. Walling(d)
    BY <1>28, <2>1
  <2>3. reenter /\ \A e \in 1..n : Walling(e) => e = d
    BY <1>0, <1>2, <1>5, <2>2 DEF CallInv, WallOK
  <2>4. QED BY <1>5, <1>7, <1>24, <1>28, <2>2, <2>3
<1>30. SaveOK'
  <2>1. SUFFICES ASSUME NEW d \in 1..(n - 1),
                        At(stack, d).op = "logmsg", At(stack, d).at = "save"
                 PROVE \/ /\ d < n - 1 /\ At(stack', d + 1).op = "fprintlog"
                          /\ At(stack', d + 1).i = At(stack, d).i
                       \/ /\ d = n - 1
                          /\ Tracked(files'[At(stack, d).i]) =>
                               files'[At(stack, d).i].prevcount = 0
    BY <1>4 DEF SaveOK, Height
  <2>2. /\ At(stack, d + 1).op = "fprintlog"
        /\ At(stack, d + 1).i = At(stack, d).i
    BY <1>0, <1>2, <1>5, <2>1 DEF CallInv, SaveOK
  <2>3. CASE d = n - 1
    <3>1. d + 1 = n
      BY <1>3, <2>3
    <3>2. t.op = "fprintlog" /\ t.i = At(stack, d).i
      BY <1>3, <2>2, <3>1
    <3>3. QED BY <1>6, <1>9, <1>12, <2>3, <3>2
  <2>4. CASE d # n - 1
    <3>1. d < n - 1 /\ d + 1 \in 1..(n - 1)
      BY <1>3, <2>1, <2>4
    <3>2. QED BY <1>4, <2>2, <3>1
  <2>5. QED BY <2>3, <2>4
<1>31. FlushedOK'
  <2>1. SUFFICES ASSUME NEW d \in 1..(n - 1),
                        \/ At(stack, d).op = "init" /\ At(stack, d).at # "done"
                        \/ At(stack, d).op = "die" /\ At(stack, d).at = "start"
                 PROVE Flushed(At(stack, d), files')
    BY <1>4 DEF FlushedOK, Height
  <2>2. Flushed(At(stack, d), files)
    BY <1>0, <1>2, <1>5, <2>1 DEF CloseInv, FlushedOK
  <2>3. At(stack, d).at = "free" => At(stack, d).i \in 1..Len(files)
    BY <1>1, <1>5, <1>10, <2>1 DEF FrameOK
  <2>4. QED BY <1>6, <1>8, <2>2, <2>3 DEF Flushed
<1>32. Exiting' <=> Exiting
  <2>1. Exiting' <=> \/ status = "exited"
                     \/ \E d \in 1..(n - 1) : /\ At(stack, d).op = "die"
                                              /\ At(stack, d).at = "exit"
    BY <1>4, <1>7 DEF Exiting, Height
  <2>2. \A d \in 1..n : d \in 1..(n - 1) \/ d = n
    BY <1>3
  <2>3. QED BY <1>2, <1>3, <1>5, <1>6, <2>1, <2>2 DEF Exiting
<1>33. ExitOK'
  <2>1. SUFFICES ASSUME ExitTextOwn
                 PROVE /\ Exiting => \A j \in 1..Len(files) : OnlyErrors(files'[j])
                       /\ ~Exiting => \A j \in 1..Len(files) :
                                        files'[j].prev # Key(ExitMessage)
                       /\ \A d \in 1..(n - 1) : At(stack, d).op = "logmsg" =>
                            /\ Exiting => At(stack, d).m \in
                                            {ErrorMessage, ExitMessage, MarkMessage}
                            /\ Key(At(stack, d).m) = Key(ExitMessage) =>
                                 /\ d = 2 /\ Exiting
                                 /\ At(stack, d).m = ExitMessage
                                 /\ \A j \in 1..Len(files) : j >= At(stack, d).i =>
                                      files'[j].prev # Key(ExitMessage)
    BY <1>4, <1>6, <1>32 DEF ExitOK, Height
  <2>2. /\ Exiting => \A j \in 1..Len(files) : OnlyErrors(files[j])
        /\ ~Exiting => \A j \in 1..Len(files) : files[j].prev # Key(ExitMessage)
        /\ \A d \in 1..n : At(stack, d).op = "logmsg" =>
             /\ Exiting => At(stack, d).m \in {ErrorMessage, ExitMessage, MarkMessage}
             /\ Key(At(stack, d).m) = Key(ExitMessage) =>
                  /\ d = 2 /\ Exiting /\ At(stack, d).m = ExitMessage
                  /\ \A j \in 1..Len(files) : j >= At(stack, d).i =>
                       files[j].prev # Key(ExitMessage)
    BY <1>0, <1>2, <2>1 DEF CloseInv, ExitOK
  <2>3. \A j \in 1..Len(files) : OnlyErrors(files[j]) => OnlyErrors(files'[j])
    BY <1>8 DEF OnlyErrors
  <2>4. QED BY <1>5, <1>8, <2>2, <2>3
<1>34. ScalarsOK' /\ FilesOK'
  BY DEF ReturnsFrom
<1>35. QED
  BY <1>11, <1>14, <1>15, <1>16, <1>17, <1>18, <1>19, <1>20, <1>21, <1>23, <1>25,
     <1>26, <1>27, <1>29, <1>30, <1>31, <1>33, <1>34
  DEF SyslogdInv, TypesInv, CountInv, CallInv, CloseInv


-----------------------------------------------------------------------------
(* The end of fprintlog keeps the invariant.                               *)
LEMMA ResetKept ==
  ASSUME SyslogdInv, Reset
  PROVE SyslogdInv'
<1>1. FramesOK /\ ScalarsOK /\ files \in Seq(Entries) /\ Len(files) \in Nat
  BY DEF SyslogdInv, TypesInv, FilesOK
<1>2. PICK t : t = Top
  OBVIOUS
<1>3. stack # <<>> /\ t.op = "fprintlog"
  BY <1>2 DEF Reset, In
<1>4. t.i \in 1..Len(files)
  BY <1>1, <1>2, <1>3, TopFacts DEF FrameOK
<1>5. PICK f \in Entries : f = files[t.i]
  BY <1>1, <1>4
<1>6. PICK n : n = IF f.type = "FORW_UNKN" THEN f.prevcount ELSE 0
  OBVIOUS
<1>7. n \in Nat
  BY <1>6, EntryFacts
<1>8. PICK h : h = [f EXCEPT !.prevcount = n]
  OBVIOUS
<1>9. h \in Entries
  BY <1>7, <1>8 DEF Entries
<1>10. /\ h.type = f.type /\ h.age = f.age /\ h.prev = f.prev /\ h.owed = f.owed
       /\ h.last = f.last /\ h.prevcount = n
  BY <1>8 DEF Entries
<1>11. files' = [files EXCEPT ![t.i] = h]
  BY <1>1, <1>2, <1>4, <1>5, <1>6, <1>8 DEF Reset
<1>12. /\ files' \in Seq(Entries) /\ Len(files') = Len(files)
       /\ \A j \in 1..Len(files) : j # t.i => files'[j] = files[j]
       /\ files'[t.i] = h
  BY <1>1, <1>4, <1>9, <1>11, PutBack
<1>13. /\ stack' = Tail(stack) /\ reenter' = (reenter /\ t.at # "endutent")
       /\ UNCHANGED <<conf, initialized, restart, markseq, woken, late, alarm,
                      was_initialized, masked, status, wrong, torn, hopped>>
  BY <1>2 DEF Reset, saved, history
<1>14. ScalarsOK'
  BY <1>1, <1>13 DEF ScalarsOK
<1>15. ReturnsFrom(t)
  BY <1>2, <1>3, <1>5, <1>6, <1>10, <1>12, <1>13, <1>14 DEF ReturnsFrom, FilesOK
<1>16. QED BY <1>15, ReturnKept

(* The other returns keep it.                                              *)
LEMMA EndsKept ==
  ASSUME SyslogdInv, LogmsgEnds \/ DomarkEnds \/ InitEnds
  PROVE SyslogdInv'
<1>1. ScalarsOK /\ FilesOK
  BY DEF SyslogdInv, TypesInv
<1>2. PICK t : t = Top
  OBVIOUS
<1>3. stack # <<>> /\ t.op \in {"logmsg", "domark", "init"} /\ stack' = Tail(stack)
  BY <1>2 DEF LogmsgEnds, DomarkEnds, InitEnds, In
<1>4. /\ UNCHANGED <<conf, files, initialized, reenter, markseq, late,
                     was_initialized, masked, status, wrong, torn, hopped>>
      /\ restart' \in {restart, FALSE} /\ alarm' \in {alarm, TimerIntvl}
      /\ woken' \in BOOLEAN
  BY <1>1 DEF LogmsgEnds, DomarkEnds, InitEnds, unchanged_by_logmsg, saved,
              history, unchanged_by_init, ScalarsOK
<1>5. ScalarsOK'
  <2>1. TimerIntvl \in 0..TimerIntvl
    BY ConstantFacts
  <2>2. QED BY <1>1, <1>4, <2>1 DEF ScalarsOK
<1>6. FilesOK'
  BY <1>1, <1>4 DEF FilesOK
<1>7. ReturnsFrom(t)
  BY <1>2, <1>3, <1>4, <1>5, <1>6 DEF ReturnsFrom
<1>8. QED BY <1>7, ReturnKept
-----------------------------------------------------------------------------
(* How the innermost call goes on.                                         *)
LEMMA GoesOn ==
  ASSUME TypesInv, stack # <<>>
  PROVE /\ \E fr \in Frames :
             /\ NextEntry = <<fr>> \o Tail(stack)
             /\ fr.op = Top.op /\ fr.m = Top.m /\ fr.at = "start"
             /\ fr.i = Top.i + 1
        /\ \A at \in {"backoff", "save", "free", "done", "exit"} :
             \E fr \in Frames :
               /\ Goes(at) = <<fr>> \o Tail(stack)
               /\ fr.op = Top.op /\ fr.m = Top.m /\ fr.at = at
               /\ fr.i = Top.i
<1>1. FramesOK
  BY DEF TypesInv
<1>2. PICK t \in Frames : t = Top
  BY <1>1, TopFacts
<1>3. /\ t.op \in {"logmsg", "fprintlog", "domark", "init", "die"} /\ t.i \in Nat
      /\ t.m \in Messages \cup {NoMessage}
  BY DEF Frames
<1>4. \E fr \in Frames :
        /\ NextEntry = <<fr>> \o Tail(stack)
        /\ fr.op = Top.op /\ fr.m = Top.m /\ fr.at = "start"
        /\ fr.i = Top.i + 1
  <2>1. PICK fr : fr = [t EXCEPT !.at = "start", !.i = t.i + 1]
    OBVIOUS
  <2>2. NextEntry = <<fr>> \o Tail(stack)
    BY <1>2, <2>1 DEF NextEntry
  <2>3. PICK g : g = [t EXCEPT !.at = "start"]
    OBVIOUS
  <2>4. /\ g \in Frames /\ g.op = t.op /\ g.m = t.m /\ g.at = "start"
    BY <1>3, <2>3 DEF Frames
  <2>5. fr = [g EXCEPT !.i = t.i + 1]
    BY <2>1, <2>3
  <2>6. t.i + 1 \in Nat
    BY <1>3
  <2>7. fr \in Frames /\ fr.op = g.op /\ fr.m = g.m /\ fr.at = g.at
        /\ fr.i = t.i + 1
    BY <2>4, <2>5, <2>6 DEF Frames
  <2>8. QED BY <1>2, <2>2, <2>4, <2>7
<1>5. ASSUME NEW at \in {"backoff", "save", "free", "done", "exit"}
      PROVE \E fr \in Frames :
               /\ Goes(at) = <<fr>> \o Tail(stack)
               /\ fr.op = Top.op /\ fr.m = Top.m /\ fr.at = at
               /\ fr.i = Top.i
  <2>1. PICK fr : fr = [t EXCEPT !.at = at]
    OBVIOUS
  <2>2. Goes(at) = <<fr>> \o Tail(stack)
    BY <1>2, <2>1 DEF Goes
  <2>3. /\ fr \in Frames /\ fr.op = t.op /\ fr.m = t.m /\ fr.at = at
        /\ fr.i = t.i
    BY <1>3, <2>1 DEF Frames
  <2>4. QED BY <1>2, <2>2, <2>3
<1>6. QED BY <1>4, <1>5

(* What is known of an entry that nobody is writing to.                    *)
Settled(f) ==
  /\ f \in Entries /\ EntryOK(f)
  /\ TextsNotEmpty /\ Tracked(f) => LastRight(f)
  /\ ~torn /\ Tracked(f) => f.owed = Copies(f)
  /\ ExitTextOwn /\ Exiting => OnlyErrors(f)

(* No entry is being written to when the innermost call is not fprintlog.  *)
LEMMA SettledEntries ==
  ASSUME SyslogdInv, stack # <<>>, Top.op # "fprintlog",
         NEW i \in 1..Len(files)
  PROVE Settled(files[i])
<1>1. FramesOK /\ files \in Seq(Entries) /\ CountInv /\ CloseInv
  BY DEF SyslogdInv, TypesInv, FilesOK
<1>2. ~TopPrints(i)
  <2>1. Top = At(stack, Height)
    BY <1>1, TopFacts
  <2>2. QED BY <2>1 DEF TopPrints
<1>3. files[i] \in Entries
  BY <1>1
<1>4. /\ EntryOK(files[i])
      /\ TextsNotEmpty /\ Tracked(files[i]) => LastRight(files[i])
      /\ ~torn /\ Tracked(files[i]) => files[i].owed = Copies(files[i])
  BY <1>1, <1>2 DEF CountInv, EntriesOK, LastOK, CountOK
<1>5. ExitTextOwn /\ Exiting => OnlyErrors(files[i])
  BY <1>1 DEF CloseInv, ExitOK
<1>6. QED BY <1>3, <1>4, <1>5 DEF Settled

(* Nothing is owed when nothing is counted.                                *)
LEMMA NothingOwed ==
  ASSUME NEW f, Settled(f), f.prevcount = 0
  PROVE f.owed = <<>>
<1>1. f.owed \in Seq(Keys) /\ Len(f.owed) <= 0
  BY EntryFacts DEF Settled, EntryOK
<1>2. QED BY <1>1

(* A step of the innermost call to the next entry that leaves the entries. *)
LEMMA SkipKept ==
  ASSUME SyslogdInv, stack # <<>>, NEW i, i = Top.i, i \in 1..Len(files),
         Top.op # "fprintlog", Top.op = "init" => Top.at # "done",
         Top.op = "die" => Top.at = "start",
         Top.op \in {"init", "die"} => files[i].owed = <<>>,
         stack' = NextEntry,
         UNCHANGED <<conf, files, initialized, restart, reenter, markseq, woken,
                     late, alarm, was_initialized, masked, status, wrong, torn,
                     hopped>>
  PROVE SyslogdInv'
<1>1. TypesInv /\ files \in Seq(Entries)
  BY DEF SyslogdInv, TypesInv, FilesOK
<1>2. PICK fr \in Frames : /\ NextEntry = <<fr>> \o Tail(stack)
                           /\ fr.op = Top.op /\ fr.m = Top.m /\ fr.at = "start"
                           /\ fr.i = Top.i + 1
  BY <1>1, GoesOn
<1>3. Settled(files[i])
  BY SettledEntries
<1>4. files' = [files EXCEPT ![i] = files[i]]
  BY <1>1
<1>5. MovesOn(i, files[i], fr)
  BY <1>2, <1>3, <1>4 DEF MovesOn, Settled
<1>6. QED BY <1>5, MovesOnKept

(* Entries that are skipped.                                               *)
LEMMA SkipsKept ==
  ASSUME SyslogdInv, LogmsgSkips \/ DomarkSkips
  PROVE SyslogdInv'
<1>1. FramesOK
  BY DEF SyslogdInv, TypesInv
<1>2. /\ stack # <<>> /\ Top.op \in {"logmsg", "domark"} /\ Top.i <= Len(files)
      /\ stack' = NextEntry
  BY DEF LogmsgSkips, DomarkSkips, In
<1>3. UNCHANGED <<conf, files, initialized, restart, reenter, markseq, woken,
                  late, alarm, was_initialized, masked, status, wrong, torn,
                  hopped>>
  BY DEF LogmsgSkips, DomarkSkips, unchanged_by_logmsg, saved
<1>4. Top.i \in 1..Len(files)
  <2>1. Top.i \in 1..(Len(files) + 1)
    BY <1>1, <1>2, TopFacts DEF FrameOK
  <2>2. Len(files) \in Nat
    BY DEF SyslogdInv, TypesInv, FilesOK
  <2>3. QED BY <1>2, <2>1, <2>2
<1>5. QED BY <1>2, <1>3, <1>4, SkipKept

(* BACKOFF keeps the invariant.                                            *)
LEMMA BacksOffKept ==
  ASSUME SyslogdInv, BacksOff
  PROVE SyslogdInv'
<1>1. TypesInv /\ FramesOK /\ files \in Seq(Entries) /\ Len(files) \in Nat
  BY DEF SyslogdInv, TypesInv, FilesOK
<1>2. /\ stack # <<>> /\ Top.op \in {"logmsg", "domark"} /\ Top.at = "backoff"
  BY DEF BacksOff, In
<1>3. PICK i \in 1..Len(files) : i = Top.i
  <2>1. Top.i \in 1..(Len(files) + 1) /\ Top.i <= Len(files)
    BY <1>1, <1>2, TopFacts DEF FrameOK
  <2>2. QED BY <1>1, <2>1
<1>4. PICK f : f = files[i] /\ Settled(f)
  BY <1>2, SettledEntries
<1>5. PICK r : r = Smaller(f.repeatcount + 1, Len(RepeatInterval) - 1)
  OBVIOUS
<1>6. r \in 0..(Len(RepeatInterval) - 1)
  BY <1>4, <1>5, EntryFacts, ConstantFacts DEF Smaller, Settled
<1>7. PICK h : h = [f EXCEPT !.repeatcount = r]
  OBVIOUS
<1>8. /\ h \in Entries
      /\ h.type = f.type /\ h.age = f.age /\ h.prev = f.prev
      /\ h.prevcount = f.prevcount /\ h.owed = f.owed /\ h.last = f.last
  BY <1>4, <1>6, <1>7 DEF Entries, Settled
<1>9. files' = [files EXCEPT ![i] = h]
  BY <1>1, <1>3, <1>4, <1>5, <1>7 DEF BacksOff, Backoff
<1>10. PICK fr \in Frames : /\ NextEntry = <<fr>> \o Tail(stack)
                            /\ fr.op = Top.op /\ fr.m = Top.m /\ fr.at = "start"
                            /\ fr.i = Top.i + 1
  BY <1>1, <1>2, GoesOn
<1>11. /\ stack' = NextEntry
       /\ UNCHANGED <<conf, initialized, restart, reenter, markseq, woken, late,
                 alarm, was_initialized, masked, status, wrong, torn, hopped>>
  BY DEF BacksOff, unchanged_by_logmsg, saved
<1>12. /\ EntryOK(h) /\ (Tracked(h) <=> Tracked(f))
       /\ (LastRight(h) <=> LastRight(f)) /\ Copies(h) = Copies(f)
       /\ (OnlyErrors(h) <=> OnlyErrors(f))
  <2>1. Tracked(h) <=> Tracked(f)
    BY <1>8 DEF Tracked
  <2>2. EntryOK(h)
    BY <1>4, <1>8, <2>1 DEF Settled, EntryOK
  <2>3. LastRight(h) <=> LastRight(f)
    BY <1>8 DEF LastRight
  <2>4. Copies(h) = Copies(f)
    BY <1>8 DEF Copies
  <2>5. OnlyErrors(h) <=> OnlyErrors(f)
    BY <1>8 DEF OnlyErrors
  <2>6. QED BY <2>1, <2>2, <2>3, <2>4, <2>5
<1>13. MovesOn(i, h, fr)
  BY <1>2, <1>3, <1>4, <1>8, <1>9, <1>10, <1>11, <1>12 DEF MovesOn, Settled
<1>14. QED BY <1>13, MovesOnKept

(* The entries that init closes and die passes.                            *)
LEMMA FreesKept ==
  ASSUME SyslogdInv, InitFrees
  PROVE SyslogdInv'
<1>1. FramesOK /\ Len(files) \in Nat /\ FlushedOK
  BY DEF SyslogdInv, TypesInv, FilesOK, CloseInv
<1>2. /\ stack # <<>> /\ Top.op = "init" /\ Top.i <= Len(files)
      /\ stack' = NextEntry /\ Top.at \in {"start", "free"}
      /\ Top.at = "free" \/ files[Top.i].prevcount = 0
  BY DEF InitFrees, In
<1>3. UNCHANGED <<conf, files, initialized, restart, reenter, markseq, woken,
                  late, alarm, was_initialized, masked, status, wrong, torn,
                  hopped>>
  BY DEF InitFrees, unchanged_by_init, saved, history
<1>4. Top.i \in 1..Len(files)
  <2>1. Top.i \in 1..(Len(files) + 1)
    BY <1>1, <1>2, TopFacts DEF FrameOK
  <2>2. QED BY <1>1, <1>2, <2>1
<1>5. files[Top.i].owed = <<>>
  <2>1. CASE Top.at = "free"
    <3>1. Height \in 1..Height /\ Top = At(stack, Height)
      BY <1>1, <1>2, TopFacts
    <3>2. Flushed(Top, files)
      BY <1>1, <1>2, <2>1, <3>1 DEF FlushedOK
    <3>3. QED BY <2>1, <3>2 DEF Flushed
  <2>2. CASE files[Top.i].prevcount = 0
    <3>1. Settled(files[Top.i])
      BY <1>2, <1>4, SettledEntries
    <3>2. QED BY <2>2, <3>1, NothingOwed
  <2>3. QED BY <1>2, <2>1, <2>2
<1>6. QED BY <1>2, <1>3, <1>4, <1>5, SkipKept

-----------------------------------------------------------------------------
(* What fprintlog may be given: what it says is what is owed.              *)
Printable(g, m) ==
  /\ g \in Entries /\ m \in Messages \cup {NoMessage}
  /\ ~Tracked(g) => g.owed = <<>>
  /\ Len(g.owed) <= Len(Says(g, m))
  /\ Tracked(g) /\ TextsNotEmpty =>
       Says(g, m)[1] = g.prev \/ (g.prev.text = "" /\ g.prevcount = 0)
  /\ Tracked(g) /\ TextsNotEmpty /\ ~torn => IsOwed(g, Line(g, m))

(* The repetitions that are counted.                                       *)
LEMMA CountPrintable ==
  ASSUME NEW g, Settled(g), g.prevcount > 0
  PROVE Printable(g, NoMessage)
<1>1. /\ g \in Entries /\ EntryOK(g) /\ g.prevcount \in Nat
      /\ g.owed \in Seq(Keys) /\ g.prev \in Keys
  BY EntryFacts DEF Settled
<1>2. Len(g.owed) <= Len(Says(g, NoMessage))
  <2>1. Len(g.owed) <= g.prevcount /\ Len(g.owed) \in Nat
    BY <1>1 DEF EntryOK
  <2>2. Len(Says(g, NoMessage)) \in Nat /\ Len(Says(g, NoMessage)) >= g.prevcount
    BY <1>1, SaysFacts
  <2>3. QED BY <1>1, <2>1, <2>2
<1>3. Says(g, NoMessage) = IF g.prevcount > 1
                             THEN [k \in 1..g.prevcount |-> g.last]
                             ELSE <<g.prev>>
  BY <1>1 DEF Says, Meaning, Line
<1>4. ASSUME Tracked(g), TextsNotEmpty
      PROVE Says(g, NoMessage) = Copies(g) /\ Says(g, NoMessage)[1] = g.prev
  <2>1. g.last = g.prev
    <3>1. LastRight(g)
      BY <1>4 DEF Settled
    <3>2. g.prevcount # 0
      BY <1>1
    <3>3. QED BY <3>1, <3>2 DEF LastRight
  <2>2. CASE g.prevcount > 1
    <3>1. Says(g, NoMessage) = Copies(g)
      BY <1>3, <2>1, <2>2 DEF Copies
    <3>2. 1 \in 1..g.prevcount
      BY <1>1
    <3>3. QED BY <3>1, <3>2 DEF Copies
  <2>3. CASE ~(g.prevcount > 1)
    <3>1. g.prevcount = 1
      BY <1>1, <2>3
    <3>2. Copies(g) = <<g.prev>>
      BY <3>1 DEF Copies
    <3>3. QED BY <1>3, <2>3, <3>2
  <2>4. QED BY <2>2, <2>3
<1>5. ASSUME Tracked(g), TextsNotEmpty, ~torn
      PROVE IsOwed(g, Line(g, NoMessage))
  <2>1. g.owed = Says(g, NoMessage)
    BY <1>4, <1>5 DEF Settled
  <2>2. PICK o \in Seq(Keys) : o = g.owed
    BY <1>1
  <2>3. SubSeq(o, 1, Len(o)) = o /\ Len(o) <= Len(o)
    OBVIOUS
  <2>4. QED BY <2>1, <2>2, <2>3 DEF IsOwed, Says
<1>6. ~Tracked(g) => g.owed = <<>>
  BY <1>1 DEF EntryOK
<1>7. QED BY <1>1, <1>2, <1>4, <1>5, <1>6 DEF Printable

(* A table with one entry changed.                                         *)
LEMMA OneChanged ==
  ASSUME NEW s \in Seq(Entries), NEW i \in 1..Len(s), NEW g \in Entries, NEW t,
         t = [s EXCEPT ![i] = g]
  PROVE /\ t \in Seq(Entries) /\ Len(t) = Len(s) /\ t[i] = g
        /\ \A j \in 1..Len(s) : j # i => t[j] = s[j]
OBVIOUS

(* The calls of fprintlog there are.                                       *)
CallsPrint(i, g, fs, m, from, fr) ==
  /\ stack # <<>> /\ i = Top.i /\ i \in 1..Len(files)
  /\ Top.op \in {"logmsg", "domark", "init", "die"}
  /\ Top.op \in {"init", "die"} => Top.at = "start"
  /\ Printable(g, m) /\ fs = [files EXCEPT ![i] = g]
  /\ g.type = files[i].type /\ g.age = files[i].age
  /\ fr \in Frames /\ fr.op = Top.op /\ fr.m = Top.m
  /\ \/ fr.i = i + 1 /\ fr.at = "start" /\ Top.op \in {"logmsg", "die"}
     \/ fr.i = i /\ fr.at = "backoff" /\ Top.op \in {"logmsg", "domark"}
     \/ fr.i = i /\ fr.at = "save" /\ Top.op = "logmsg"
     \/ fr.i = i /\ fr.at = "free" /\ Top.op = "init"
  /\ \/ g.prev = files[i].prev
     \/ /\ Top.op = "logmsg" /\ fr.at = "start"
        /\ g.prev \in {Key(Top.m), [Key(Top.m) EXCEPT !.text = ""]}
  /\ Fprintlog(i, from, m, fs, <<fr>> \o Tail(stack))
  /\ UNCHANGED <<conf, initialized, restart, markseq, woken, alarm,
                 was_initialized, masked, status, torn>>

(* Such a call keeps the invariant.                                        *)
LEMMA CallKept ==
  ASSUME SyslogdInv, NEW i, NEW g, NEW fs, NEW m, NEW from, NEW fr,
         CallsPrint(i, g, fs, m, from, fr)
  PROVE SyslogdInv'
<1>1. files \in Seq(Entries)
  BY DEF SyslogdInv, TypesInv, FilesOK
<1>2. /\ fs \in Seq(Entries) /\ Len(fs) = Len(files) /\ fs[i] = g
      /\ \A j \in 1..Len(files) : j # i => fs[j] = files[j]
  <2>1. g \in Entries /\ i \in 1..Len(files) /\ fs = [files EXCEPT ![i] = g]
    BY DEF CallsPrint, Printable
  <2>2. QED BY <1>1, <2>1, OneChanged
<1>3. Caller(i, m, fs, fr)
  BY <1>2 DEF CallsPrint, Caller, Printable
<1>4. /\ Fprintlog(i, from, m, fs, <<fr>> \o Tail(stack))
      /\ UNCHANGED <<conf, initialized, restart, markseq, woken, alarm,
                     was_initialized, masked, status, torn>>
  BY DEF CallsPrint
<1>5. QED BY <1>3, <1>4, PrintKept

(* The table with one entry as it is.                                      *)
LEMMA SameTable ==
  ASSUME SyslogdInv, NEW i \in 1..Len(files)
  PROVE files = [files EXCEPT ![i] = files[i]]
<1>1. files \in Seq(Entries)
  BY DEF SyslogdInv, TypesInv, FilesOK
<1>2. QED BY <1>1

(* The place of the innermost call among the entries.                      *)
LEMMA InTable ==
  ASSUME SyslogdInv, stack # <<>>, Top.i <= Len(files),
         \/ Top.op \in {"logmsg", "domark"}
         \/ Top.op = "init" /\ Top.at # "done"
         \/ Top.op = "die" /\ Top.at = "start"
  PROVE Top.i \in 1..Len(files)
<1>1. FramesOK /\ Len(files) \in Nat
  BY DEF SyslogdInv, TypesInv, FilesOK
<1>2. Top.i \in 1..(Len(files) + 1)
  BY <1>1, TopFacts DEF FrameOK
<1>3. QED BY <1>1, <1>2

(* The repetitions are written: by logmsg, domark, init and die.           *)
LEMMA FlushesKept ==
  ASSUME SyslogdInv, LogmsgFlushes \/ DomarkFlushes \/ InitFlushes
  PROVE SyslogdInv'
<1>1. /\ stack # <<>> /\ Top.op \in {"logmsg", "domark", "init"}
      /\ Top.at = "start" /\ Top.i <= Len(files)
      /\ files[Top.i].prevcount > 0
  BY DEF LogmsgFlushes, DomarkFlushes, InitFlushes, In
<1>2. PICK i \in 1..Len(files) : i = Top.i
  BY <1>1, InTable
<1>3. UNCHANGED <<conf, initialized, restart, markseq, woken, alarm,
                  was_initialized, masked, status, torn>>
  BY DEF LogmsgFlushes, DomarkFlushes, InitFlushes, unchanged_by_logmsg, saved,
         unchanged_by_init
<1>4. PICK from, at :
        /\ Fprintlog(i, from, NoMessage, files, Goes(at))
        /\ \/ at = "save" /\ Top.op = "logmsg"
           \/ at = "backoff" /\ Top.op = "domark"
           \/ at = "free" /\ Top.op = "init"
  BY <1>2 DEF LogmsgFlushes, DomarkFlushes, InitFlushes, In
<1>5. TypesInv
  BY DEF SyslogdInv
<1>6. at \in {"backoff", "save", "free", "done", "exit"}
  BY <1>4
<1>7. PICK fr \in Frames : /\ Goes(at) = <<fr>> \o Tail(stack)
                           /\ fr.op = Top.op /\ fr.m = Top.m /\ fr.at = at
                           /\ fr.i = Top.i
  BY <1>1, <1>5, <1>6, GoesOn
<1>8. Fprintlog(i, from, NoMessage, files, <<fr>> \o Tail(stack))
  BY <1>4, <1>7
<1>9. PICK g : g = files[i]
  OBVIOUS
<1>10. Settled(g)
  BY <1>1, <1>9, SettledEntries
<1>11. Printable(g, NoMessage)
  BY <1>1, <1>2, <1>9, <1>10, CountPrintable
<1>12. files = [files EXCEPT ![i] = g]
  BY <1>9, SameTable
<1>13. CallsPrint(i, g, files, NoMessage, from, fr)
  BY <1>1, <1>2, <1>3, <1>4, <1>7, <1>8, <1>9, <1>11, <1>12 DEF CallsPrint
<1>14. QED BY <1>13, CallKept

(* The loop of die keeps the invariant.                                    *)
LEMMA DieFlushesKept ==
  ASSUME SyslogdInv, DieFlushes
  PROVE SyslogdInv'
<1>1. /\ stack # <<>> /\ Top.op = "die"
      /\ Top.at = "start" /\ Top.i <= Len(files)
  BY DEF DieFlushes, In
<1>2. PICK i \in 1..Len(files) : i = Top.i
  BY <1>1, InTable
<1>3. UNCHANGED <<conf, initialized, restart, markseq, woken, alarm,
                  was_initialized, masked, status, torn>>
  BY DEF DieFlushes, unchanged_by_die, saved
<1>4. TypesInv
  BY DEF SyslogdInv
<1>5. PICK g : g = files[i]
  OBVIOUS
<1>6. Settled(g)
  BY <1>1, <1>5, SettledEntries
<1>7. CASE /\ g.prevcount > 0
           /\ Fprintlog(i, Local, NoMessage, files, NextEntry)
  <2>1. PICK fr \in Frames : /\ NextEntry = <<fr>> \o Tail(stack)
                             /\ fr.op = Top.op /\ fr.m = Top.m /\ fr.at = "start"
                             /\ fr.i = Top.i + 1
    BY <1>1, <1>4, GoesOn
  <2>2. Fprintlog(i, Local, NoMessage, files, <<fr>> \o Tail(stack))
    BY <1>7, <2>1
  <2>3. Printable(g, NoMessage)
    BY <1>6, <1>7, CountPrintable
  <2>4. files = [files EXCEPT ![i] = g]
    BY <1>5, SameTable
  <2>5. CallsPrint(i, g, files, NoMessage, Local, fr)
    BY <1>1, <1>2, <1>3, <1>5, <2>1, <2>2, <2>3, <2>4 DEF CallsPrint
  <2>6. QED BY <2>5, CallKept
<1>8. CASE /\ g.prevcount = 0 /\ stack' = NextEntry
           /\ UNCHANGED <<files, reenter, late, wrong, hopped>>
  <2>1. files[i].owed = <<>>
    BY <1>5, <1>6, <1>8, NothingOwed
  <2>2. QED BY <1>1, <1>2, <1>3, <1>8, <2>1, SkipKept
<1>9. QED BY <1>2, <1>5, <1>7, <1>8 DEF DieFlushes

-----------------------------------------------------------------------------
(* One more repetition.                                                    *)
LEMMA OneMore ==
  ASSUME NEW p \in Keys, NEW n \in Nat
  PROVE [k \in 1..(n + 1) |-> p] = Append([k \in 1..n |-> p], p)
<1> DEFINE s == [k \in 1..n |-> p]  t == [k \in 1..(n + 1) |-> p]
<1>1. s \in Seq(Keys) /\ Len(s) = n /\ \A k \in 1..n : s[k] = p
  OBVIOUS
<1>2. t \in Seq(Keys) /\ Len(t) = n + 1 /\ \A k \in 1..(n + 1) : t[k] = p
  OBVIOUS
<1> HIDE DEF s, t
<1>3. /\ Append(s, p) \in Seq(Keys) /\ Len(Append(s, p)) = n + 1
      /\ \A k \in 1..(n + 1) : Append(s, p)[k] = p
  BY <1>1
<1>4. Append(s, p) = t
  BY <1>2, <1>3
<1>5. QED BY <1>4 DEF s, t

(* What logmsg knows of its message.                                       *)
LEMMA LoggedFacts ==
  ASSUME SyslogdInv, stack # <<>>, Top.op = "logmsg", NEW m, m = Top.m
  PROVE /\ m \in Messages /\ (TextsNotEmpty => m.text # "")
        /\ ExitTextOwn /\ Exiting =>
             m \in {ErrorMessage, ExitMessage, MarkMessage}
        /\ ExitTextOwn /\ Key(m) = Key(ExitMessage) =>
             /\ Exiting /\ m = ExitMessage
             /\ Top.i \in 1..Len(files) => files[Top.i].prev # Key(ExitMessage)
        /\ Top.i \in Nat
<1>1. FramesOK /\ TextOK /\ ExitOK /\ Len(files) \in Nat
  BY DEF SyslogdInv, TypesInv, CountInv, CloseInv, FilesOK
<1>2. /\ Height \in 1..Height /\ Top = At(stack, Height)
      /\ FrameOK(Top, Len(files))
  BY <1>1, TopFacts
<1>3. m \in Messages /\ Top.i \in 1..(Len(files) + 1)
  BY <1>2 DEF FrameOK
<1>4. TextsNotEmpty => m.text # ""
  BY <1>1, <1>2 DEF TextOK
<1>5. ASSUME ExitTextOwn
      PROVE /\ Exiting => m \in {ErrorMessage, ExitMessage, MarkMessage}
            /\ Key(m) = Key(ExitMessage) =>
                 /\ Exiting /\ m = ExitMessage
                 /\ \A j \in 1..Len(files) : j >= Top.i =>
                      files[j].prev # Key(ExitMessage)
  BY <1>1, <1>2, <1>5 DEF ExitOK
<1>6. Top.i \in Nat /\ Top.i >= Top.i
  BY <1>1, <1>3
<1>7. QED BY <1>3, <1>4, <1>5, <1>6

(* A line that is counted.                                                 *)
LEMMA Counted ==
  ASSUME SyslogdInv, stack # <<>>, Top.op = "logmsg", NEW i \in 1..Len(files),
         i = Top.i, NEW f, f = files[i], NEW m, m = Top.m, IsRepeat(f, m),
         NEW h, h = Owe([f EXCEPT !.prevcount = @ + 1], m)
  PROVE /\ Settled(h) /\ h.type = f.type /\ h.age = f.age /\ h.prev = f.prev
        /\ h.prevcount > 0
<1>1. Settled(f)
  BY SettledEntries
<1>2. /\ f \in Entries /\ f.prevcount \in Nat /\ f.owed \in Seq(Keys)
      /\ f.prev \in Keys
  BY <1>1, EntryFacts DEF Settled
<1>3. /\ m \in Messages /\ (TextsNotEmpty => m.text # "")
      /\ ExitTextOwn /\ Exiting => m \in {ErrorMessage, ExitMessage, MarkMessage}
      /\ ExitTextOwn /\ Key(m) = Key(ExitMessage) => f.prev # Key(ExitMessage)
  BY LoggedFacts
<1>4. f.prev = Key(m) /\ m.class # "mark" /\ Key(m) \in Keys
      /\ Key(m).text = m.text
  BY <1>3, KeyFacts DEF IsRepeat
<1>5. PICK e : e = [f EXCEPT !.prevcount = f.prevcount + 1]
  OBVIOUS
<1>6. PICK o : o = IF Tracked(f) THEN Append(f.owed, f.prev) ELSE f.owed
  OBVIOUS
<1>7. /\ e \in Entries /\ e.type = f.type /\ e.age = f.age /\ e.prev = f.prev
      /\ e.prevcount = f.prevcount + 1 /\ e.owed = f.owed /\ e.last = f.last
  <2>1. PICK n \in Nat : n = f.prevcount + 1
    BY <1>2
  <2>2. e = [f EXCEPT !.prevcount = n]
    BY <1>5, <2>1
  <2>3. /\ e \in Entries /\ e.type = f.type /\ e.age = f.age /\ e.prev = f.prev
        /\ e.prevcount = n /\ e.owed = f.owed /\ e.last = f.last
    BY <1>2, <2>2, SMTT(30) DEF Entries
  <2>4. QED BY <2>1, <2>3
<1>8. h = [e EXCEPT !.owed = o]
  <2>1. h = Owe(e, m)
    BY <1>5
  <2>2. Tracked(e) <=> Tracked(f)
    BY <1>7 DEF Tracked
  <2>3. CASE Tracked(f)
    BY <1>4, <1>6, <1>7, <2>1, <2>2, <2>3 DEF Owe
  <2>4. CASE ~Tracked(f)
    <3>1. h = e
      BY <2>1, <2>2, <2>4 DEF Owe
    <3>2. o = e.owed
      BY <1>6, <1>7, <2>4
    <3>3. e = [e EXCEPT !.owed = e.owed]
      BY <1>7 DEF Entries
    <3>4. QED BY <3>1, <3>2, <3>3
  <2>5. QED BY <2>3, <2>4
<1>9. /\ o \in Seq(Keys)
      /\ Len(o) = IF Tracked(f) THEN Len(f.owed) + 1 ELSE Len(f.owed)
  BY <1>2, <1>6
<1>10. /\ h \in Entries /\ h.type = e.type /\ h.age = e.age /\ h.prev = e.prev
       /\ h.prevcount = e.prevcount /\ h.owed = o /\ h.last = e.last
  BY <1>7, <1>8, <1>9 DEF Entries
<1>11. Tracked(h) <=> Tracked(f)
  BY <1>7, <1>10 DEF Tracked
<1>12. EntryOK(h)
  <2>1. Len(f.owed) <= f.prevcount /\ (~Tracked(f) => f.owed = <<>>)
    BY <1>1 DEF Settled, EntryOK
  <2>2. Len(f.owed) \in Nat
    BY <1>2
  <2>3. Len(o) <= f.prevcount + 1
    BY <1>2, <1>9, <2>1, <2>2
  <2>4. ~Tracked(f) => o = <<>>
    BY <1>6, <2>1
  <2>5. QED BY <1>7, <1>10, <1>11, <2>3, <2>4 DEF EntryOK
<1>13. TextsNotEmpty /\ Tracked(h) => LastRight(h)
  <2>1. SUFFICES ASSUME TextsNotEmpty, Tracked(f) PROVE h.last = h.prev
    BY <1>11 DEF LastRight
  <2>2. LastRight(f)
    BY <1>1, <2>1 DEF Settled
  <2>3. f.prev.text # ""
    BY <1>3, <1>4, <2>1
  <2>4. f.last = f.prev
    BY <2>2, <2>3 DEF LastRight
  <2>5. QED BY <1>7, <1>10, <2>4
<1>14. ~torn /\ Tracked(h) => h.owed = Copies(h)
  <2>1. SUFFICES ASSUME ~torn, Tracked(f) PROVE o = Copies(h)
    BY <1>10, <1>11
  <2>2. f.owed = [k \in 1..f.prevcount |-> f.prev]
    BY <1>1, <2>1 DEF Settled, Copies
  <2>3. o = Append(f.owed, f.prev)
    BY <1>6, <2>1
  <2>4. Copies(h) = [k \in 1..(f.prevcount + 1) |-> f.prev]
    BY <1>7, <1>10 DEF Copies
  <2>5. [k \in 1..(f.prevcount + 1) |-> f.prev]
          = Append([k \in 1..f.prevcount |-> f.prev], f.prev)
    BY <1>2, OneMore
  <2>6. QED BY <2>2, <2>3, <2>4, <2>5
<1>15. ExitTextOwn /\ Exiting => OnlyErrors(h)
  <2>1. SUFFICES ASSUME ExitTextOwn, Exiting PROVE OnlyErrors(h)
    OBVIOUS
  <2>2. MarkMessage.class = "mark"
    BY DEF MarkMessage, Message
  <2>3. f.prev = Key(ErrorMessage)
    BY <1>3, <1>4, <2>1, <2>2
  <2>4. \A k \in 1..Len(f.owed) : f.owed[k] = Key(ErrorMessage)
    BY <1>1, <2>1 DEF Settled, OnlyErrors
  <2>5. \A k \in 1..Len(o) : o[k] = Key(ErrorMessage)
    <3>1. CASE Tracked(f)
      <4>1. /\ o = Append(f.owed, f.prev) /\ Len(o) = Len(f.owed) + 1
            /\ Len(f.owed) \in Nat
        BY <1>2, <1>6, <1>9, <3>1
      <4>2. /\ \A k \in 1..Len(f.owed) : o[k] = f.owed[k]
            /\ o[Len(f.owed) + 1] = f.prev
        BY <1>2, <4>1
      <4>3. \A k \in 1..Len(o) : k \in 1..Len(f.owed) \/ k = Len(f.owed) + 1
        BY <4>1
      <4>4. QED BY <2>3, <2>4, <4>2, <4>3
    <3>2. CASE ~Tracked(f)
      BY <1>6, <2>4, <3>2
    <3>3. QED BY <3>1, <3>2
  <2>6. QED BY <1>10, <2>5 DEF OnlyErrors
<1>16. h.prevcount > 0
  BY <1>2, <1>7, <1>10
<1>17. QED BY <1>7, <1>10, <1>12, <1>13, <1>14, <1>15, <1>16 DEF Settled

(* logmsg counts a repetition, and writes those it has.                    *)
LEMMA CountsKept ==
  ASSUME SyslogdInv, LogmsgCounts
  PROVE SyslogdInv'
<1>1. /\ stack # <<>> /\ Top.op = "logmsg" /\ Top.i <= Len(files)
  BY DEF LogmsgCounts, In
<1>2. PICK i \in 1..Len(files) : i = Top.i
  BY <1>1, InTable
<1>3. UNCHANGED <<conf, initialized, restart, markseq, woken, alarm,
                  was_initialized, masked, status, torn>>
  BY DEF LogmsgCounts, unchanged_by_logmsg, saved
<1>4. PICK f, m : f = files[i] /\ m = Top.m
  OBVIOUS
<1>5. PICK h : h = Owe([f EXCEPT !.prevcount = @ + 1], m)
  OBVIOUS
<1>6. PICK fs : fs = [files EXCEPT ![i] = h]
  OBVIOUS
<1>7. /\ IsRepeat(f, m)
      /\ \/ Fprintlog(i, m.from, NoMessage, fs, Goes("backoff"))
         \/ /\ files' = fs /\ stack' = NextEntry
            /\ UNCHANGED <<reenter, late, wrong, hopped>>
  BY <1>2, <1>4, <1>5, <1>6 DEF LogmsgCounts
<1>8. /\ Settled(h) /\ h.type = f.type /\ h.age = f.age /\ h.prev = f.prev
      /\ h.prevcount > 0
  BY <1>1, <1>2, <1>4, <1>5, <1>7, Counted
<1>9. TypesInv
  BY DEF SyslogdInv
<1>10. CASE Fprintlog(i, m.from, NoMessage, fs, Goes("backoff"))
  <2>1. PICK fr \in Frames : /\ Goes("backoff") = <<fr>> \o Tail(stack)
                             /\ fr.op = Top.op /\ fr.m = Top.m
                             /\ fr.at = "backoff" /\ fr.i = Top.i
    BY <1>1, <1>9, GoesOn
  <2>2. Fprintlog(i, m.from, NoMessage, fs, <<fr>> \o Tail(stack))
    BY <1>10, <2>1
  <2>3. Printable(h, NoMessage)
    BY <1>8, CountPrintable
  <2>4. CallsPrint(i, h, fs, NoMessage, m.from, fr)
    BY <1>1, <1>2, <1>3, <1>4, <1>6, <1>8, <2>1, <2>2, <2>3 DEF CallsPrint
  <2>5. QED BY <2>4, CallKept
<1>11. CASE /\ files' = fs /\ stack' = NextEntry
            /\ UNCHANGED <<reenter, late, wrong, hopped>>
  <2>1. PICK fr \in Frames : /\ NextEntry = <<fr>> \o Tail(stack)
                             /\ fr.op = Top.op /\ fr.m = Top.m
                             /\ fr.at = "start" /\ fr.i = Top.i + 1
    BY <1>1, <1>9, GoesOn
  <2>2. MovesOn(i, h, fr)
    BY <1>1, <1>2, <1>3, <1>4, <1>6, <1>8, <1>11, <2>1 DEF MovesOn, Settled
  <2>3. QED BY <2>2, MovesOnKept
<1>12. QED BY <1>7, <1>10, <1>11

(* The sequence of one line.                                               *)
LEMMA OneLine ==
  ASSUME NEW k \in Keys
  PROVE /\ Append(<<>>, k) = <<k>> /\ <<k>> \in Seq(Keys) /\ Len(<<k>>) = 1
        /\ <<k>>[1] = k /\ SubSeq(<<k>>, 1, 1) = <<k>>
<1>1. /\ Append(<<>>, k) = <<k>> /\ <<k>> \in Seq(Keys) /\ Len(<<k>>) = 1
      /\ <<k>>[1] = k
  OBVIOUS
<1>2. PICK s \in Seq(Keys) : s = <<k>>
  BY <1>1
<1>3. SubSeq(s, 1, Len(s)) = s
  OBVIOUS
<1>4. QED BY <1>1, <1>2, <1>3

(* A line that is new: what is remembered, the entry, and what fprintlog is *)
(* given.                                                                   *)
Kept(m) == IF m.text \in LongTexts THEN [Key(m) EXCEPT !.text = ""] ELSE Key(m)
Saved(f, m) == Owe([f EXCEPT !.repeatcount = 0, !.prev = Kept(m)], m)
Given(m) == IF m.text \in LongTexts THEN m ELSE NoMessage

(* Such an entry can be given to fprintlog.                                *)
LEMMA SavedLine ==
  ASSUME NEW f, Settled(f), Tracked(f) => f.prevcount = 0, NEW m \in Messages,
         NEW kept, kept = Kept(m), NEW h, h = Saved(f, m),
         NEW mm, mm = Given(m)
  PROVE /\ Printable(h, mm) /\ h.type = f.type /\ h.age = f.age
        /\ h.prev = kept
<1>1. /\ f \in Entries /\ f.owed \in Seq(Keys) /\ EntryOK(f)
  BY EntryFacts DEF Settled
<1>2. /\ Key(m) \in Keys /\ kept \in Keys /\ m # NoMessage
      /\ m.text \in LongTexts => kept.text = ""
  BY KeyFacts DEF Kept
<1>3. PICK e : e = [f EXCEPT !.prev = kept]
  OBVIOUS
<1>4. /\ e \in Entries /\ e.type = f.type /\ e.age = f.age /\ e.prev = kept
      /\ e.prevcount = f.prevcount /\ e.owed = f.owed /\ e.last = f.last
  BY <1>1, <1>2, <1>3 DEF Entries
<1>5. 0 \in 0..(Len(RepeatInterval) - 1)
  BY ConstantFacts
<1>6. PICK e2 : e2 = [e EXCEPT !.repeatcount = 0]
  OBVIOUS
<1>7. /\ e2 \in Entries /\ e2.type = e.type /\ e2.age = e.age
      /\ e2.prev = e.prev /\ e2.prevcount = e.prevcount /\ e2.owed = e.owed
  BY <1>4, <1>5, <1>6 DEF Entries
<1>8. e2 = [f EXCEPT !.repeatcount = 0, !.prev = kept]
  BY <1>1, <1>3, <1>6 DEF Entries
<1>9. h = Owe(e2, m)
  BY <1>8 DEF Saved
<1>10. mm \in Messages \cup {NoMessage}
  BY DEF Given
<1>11. Tracked(e2) <=> Tracked(f)
  BY <1>4, <1>7 DEF Tracked
<1>12. h = IF Tracked(f) THEN [e2 EXCEPT !.owed = Append(e2.owed, Key(m))] ELSE e2
  BY <1>11, <1>9 DEF Owe
<1>13. CASE ~Tracked(f)
  <2>1. h = e2 /\ h.owed = <<>>
    BY <1>1, <1>4, <1>7, <1>12, <1>13 DEF EntryOK
  <2>2. mm \in Messages \cup {NoMessage}
    BY <1>10
  <2>3. Len(Says(h, mm)) >= 1 /\ Len(Says(h, mm)) \in Nat
    BY <1>7, <2>1, <2>2, SaysFacts
  <2>4. Len(h.owed) <= Len(Says(h, mm))
    BY <2>1, <2>3
  <2>5. ~Tracked(h)
    BY <1>11, <1>13, <2>1
  <2>6. QED BY <1>4, <1>7, <2>1, <2>2, <2>4, <2>5 DEF Printable
<1>14. CASE Tracked(f)
  <2>1. f.owed = <<>> /\ f.prevcount = 0
    BY <1>14, NothingOwed
  <2>2. PICK o : o = Append(e2.owed, Key(m))
    OBVIOUS
  <2>3. o = <<Key(m)>> /\ o \in Seq(Keys)
    <3>1. e2.owed = <<>>
      BY <1>4, <1>7, <2>1
    <3>2. QED BY <1>2, <2>2, <3>1, OneLine
  <2>4. h = [e2 EXCEPT !.owed = o]
    BY <1>12, <1>14, <2>2
  <2>5. /\ h \in Entries /\ h.type = e2.type /\ h.age = e2.age
        /\ h.prev = e2.prev /\ h.prevcount = e2.prevcount /\ h.owed = o
    BY <1>7, <2>3, <2>4 DEF Entries
  <2>6. h.prevcount = 0 /\ h.prev = kept
    BY <1>4, <1>7, <2>1, <2>5
  <2>7. Line(h, mm).n = 0 /\ Line(h, mm).m = Key(m)
    <3>1. Line(h, mm).n = 0
      BY <2>6 DEF Line
    <3>2. Line(h, mm).m = IF mm = NoMessage THEN h.prev ELSE Key(mm)
      BY DEF Line
    <3>3. CASE m.text \in LongTexts
      BY <1>2, <3>1, <3>2, <3>3 DEF Given
    <3>4. CASE m.text \notin LongTexts
      BY <2>6, <3>1, <3>2, <3>4 DEF Given, Kept
    <3>5. QED BY <3>3, <3>4
  <2>8. Says(h, mm) = <<Key(m)>> /\ Meaning(h, Line(h, mm)) = <<Key(m)>>
    BY <2>7 DEF Says, Meaning
  <2>9. Len(<<Key(m)>>) = 1 /\ <<Key(m)>>[1] = Key(m)
        /\ SubSeq(<<Key(m)>>, 1, 1) = <<Key(m)>>
    BY <1>2, OneLine
  <2>10. IsOwed(h, Line(h, mm)) /\ Len(h.owed) <= Len(Says(h, mm))
    BY <2>3, <2>5, <2>8, <2>9 DEF IsOwed
  <2>11. Says(h, mm)[1] = h.prev \/ (h.prev.text = "" /\ h.prevcount = 0)
    <3>1. CASE m.text \in LongTexts
      BY <1>2, <2>6, <3>1
    <3>2. CASE m.text \notin LongTexts
      BY <2>6, <2>8, <2>9, <3>2 DEF Kept
    <3>3. QED BY <3>1, <3>2
  <2>12. Tracked(h) /\ mm \in Messages \cup {NoMessage}
    BY <1>11, <1>14, <1>10, <2>5 DEF Tracked
  <2>13. QED
    BY <1>4, <1>7, <2>5, <2>6, <2>10, <2>11, <2>12 DEF Printable
<1>15. QED BY <1>13, <1>14

(* logmsg writes and remembers a new line.                                 *)
LEMMA SavesKept ==
  ASSUME SyslogdInv, LogmsgSaves
  PROVE SyslogdInv'
<1>1. /\ stack # <<>> /\ Top.op = "logmsg" /\ Top.i <= Len(files)
  BY DEF LogmsgSaves, In
<1>2. PICK i \in 1..Len(files) : i = Top.i
  BY <1>1, InTable
<1>3. UNCHANGED <<conf, initialized, restart, markseq, woken, alarm,
                  was_initialized, masked, status, torn>>
  BY DEF LogmsgSaves, unchanged_by_logmsg, saved
<1>4. PICK f, m : f = files[i] /\ m = Top.m
  OBVIOUS
<1>5. PICK kept : kept = Kept(m)
  OBVIOUS
<1>6. PICK h : h = Saved(f, m)
  OBVIOUS
<1>7. PICK mm : mm = Given(m)
  OBVIOUS
<1>8. PICK fs : fs = [files EXCEPT ![i] = h]
  OBVIOUS
<1>9. /\ Top.at = "save" \/ f.prevcount = 0
      /\ Fprintlog(i, m.from, mm, fs, NextEntry)
  BY <1>2, <1>4, <1>5, <1>6, <1>7, <1>8 DEF LogmsgSaves, Kept, Saved, Given
<1>10. Settled(f) /\ m \in Messages
  BY <1>1, <1>4, SettledEntries, LoggedFacts
<1>11. Tracked(f) => f.prevcount = 0
  <2>1. CASE Top.at = "save"
    <3>1. FramesOK /\ SaveOK
      BY DEF SyslogdInv, TypesInv, CallInv
    <3>2. /\ Height \in 1..Height /\ Top = At(stack, Height)
          /\ ~(Height < Height)
      BY <1>1, <3>1, TopFacts
    <3>3. QED BY <1>1, <1>2, <1>4, <2>1, <3>1, <3>2 DEF SaveOK
  <2>2. QED BY <1>9, <2>1
<1>12. /\ Printable(h, mm) /\ h.type = f.type /\ h.age = f.age
       /\ h.prev = kept
  BY <1>5, <1>6, <1>7, <1>10, <1>11, SavedLine
<1>13. TypesInv
  BY DEF SyslogdInv
<1>14. PICK fr \in Frames : /\ NextEntry = <<fr>> \o Tail(stack)
                            /\ fr.op = Top.op /\ fr.m = Top.m
                            /\ fr.at = "start" /\ fr.i = Top.i + 1
  BY <1>1, <1>13, GoesOn
<1>15. Fprintlog(i, m.from, mm, fs, <<fr>> \o Tail(stack))
  BY <1>9, <1>14
<1>16. h.prev \in {Key(Top.m), [Key(Top.m) EXCEPT !.text = ""]}
  BY <1>4, <1>5, <1>12 DEF Kept
<1>17. CallsPrint(i, h, fs, mm, m.from, fr)
  BY <1>1, <1>2, <1>3, <1>4, <1>8, <1>12, <1>14, <1>15, <1>16 DEF CallsPrint
<1>18. QED BY <1>17, CallKept

-----------------------------------------------------------------------------
(* Stacks with neither handler nor fprintlog: what main does, init and die *)
(* at most with a message of their own.                                    *)
Simple ==
  /\ stack \in Seq(Frames) /\ Height <= 2
  /\ \A d \in 1..Height :
       /\ FrameOK(At(stack, d), Len(files))
       /\ \/ /\ At(stack, d).op \in {"init", "die"} /\ d = 1
             /\ \/ At(stack, d).op = "init" /\ At(stack, d).at # "done"
                \/ At(stack, d).op = "die" /\ At(stack, d).at = "start"
                => ~initialized
          \/ /\ At(stack, d).op = "logmsg" /\ initialized /\ late = 0
             /\ At(stack, d).at = "start"
             /\ d = 2 => \/ At(stack, 1).op = "init" /\ At(stack, 1).at = "done"
                         \/ At(stack, 1).op = "die" /\ At(stack, 1).at = "exit"

(* Entries to which nobody is writing.                                     *)
Quiet(f) ==
  /\ EntryOK(f) /\ (TextsNotEmpty /\ Tracked(f) => LastRight(f))
  /\ ~torn /\ Tracked(f) => f.owed = Copies(f)
AllQuiet == \A i \in 1..Len(files) : Quiet(files[i])

(* With such a stack, most of the invariant is plain.                      *)
LEMMA SimpleInv ==
  Simple /\ AllQuiet /\ ScalarsOK /\ FilesOK /\ WrongOK /\ TextOK /\ CloseInv
  => SyslogdInv
<1>1. SUFFICES ASSUME Simple, AllQuiet, ScalarsOK, FilesOK, WrongOK, TextOK,
                      CloseInv
               PROVE SyslogdInv
  OBVIOUS
<1>2. PICK n : n = Height
  OBVIOUS
<1>3. stack \in Seq(Frames) /\ n <= 2 /\ n \in Nat
  BY <1>1, <1>2 DEF Simple, Height
<1>4. \A d \in 1..n :
        /\ FrameOK(At(stack, d), Len(files))
        /\ At(stack, d).op # "fprintlog" /\ At(stack, d).op # "domark"
        /\ At(stack, d).op \in {"init", "die"} =>
             /\ d = 1
             /\ \/ At(stack, d).op = "init" /\ At(stack, d).at # "done"
                \/ At(stack, d).op = "die" /\ At(stack, d).at = "start"
                => ~initialized
        /\ At(stack, d).op = "logmsg" =>
             /\ initialized /\ late = 0 /\ At(stack, d).at = "start"
             /\ d = 2 => \/ At(stack, 1).op = "init" /\ At(stack, 1).at = "done"
                         \/ At(stack, 1).op = "die" /\ At(stack, 1).at = "exit"
  BY <1>1, <1>2 DEF Simple
<1>5. \A d \in 1..n : d = 1 \/ d = 2
  BY <1>3
<1>6. FramesOK
  BY <1>2, <1>3, <1>4 DEF FramesOK
<1>7. \A i : ~TopPrints(i)
  <2>1. n > 0 => n \in 1..n
    BY <1>3
  <2>2. QED BY <1>2, <1>4, <2>1 DEF TopPrints
<1>8. EntriesOK /\ LastOK /\ CountOK
  BY <1>1, <1>7 DEF AllQuiet, Quiet, EntriesOK, LastOK, CountOK
<1>9. \A d \in 1..(n - 1) : d \in 1..n
  BY <1>3
<1>10. TopOK /\ PendingOK
  BY <1>2, <1>4, <1>9 DEF TopOK, PendingOK
<1>11. ModeOK
  BY <1>2, <1>4 DEF ModeOK
<1>12. CallerOK /\ DomarkOK /\ SaveOK
  BY <1>2, <1>4 DEF CallerOK, DomarkOK, SaveOK
<1>13. LogOverOK
  <2>1. SUFFICES ASSUME NEW d \in 2..n, At(stack, d).op = "logmsg"
                 PROVE /\ d = 2 /\ d - 1 = 1
                       /\ \/ At(stack, 1).op = "init" /\ At(stack, 1).at = "done"
                          \/ At(stack, 1).op = "die" /\ At(stack, 1).at = "exit"
    BY <1>2 DEF LogOverOK
  <2>2. d \in 1..n /\ d = 2 /\ d - 1 = 1
    BY <1>3
  <2>3. QED BY <1>4, <2>1, <2>2
<1>14. CausesOK
  <2>1. ASSUME NEW d \in 1..n, Reports(d) PROVE FALSE
    <3>1. d - 1 \in 1..n
      BY <1>3, <2>1 DEF Reports
    <3>2. QED BY <1>4, <2>1, <3>1 DEF Reports
  <2>2. QED BY <1>2, <2>1 DEF CausesOK
<1>15. WallOK
  BY <1>2, <1>4 DEF WallOK, Walling
<1>16. QED
  BY <1>1, <1>6, <1>8, <1>10, <1>11, <1>12, <1>13, <1>14, <1>15
  DEF SyslogdInv, TypesInv, CountInv, CallInv

(* The same of the next state.                                             *)
LEMMA SimpleNext ==
  (Simple /\ AllQuiet /\ ScalarsOK /\ FilesOK /\ WrongOK /\ TextOK /\ CloseInv)'
  => SyslogdInv'
BY SimpleInv, PTL

(* No message is called what die logs, and none is empty.                  *)
LEMMA TextFacts ==
  /\ RestartMessage \in Messages /\ MarkMessage \in Messages
  /\ ExitMessage \in Messages
  /\ RestartMessage.text # "" /\ MarkMessage.text # "" /\ ExitMessage.text # ""
  /\ Key(RestartMessage) # Key(ExitMessage)
  /\ Key(MarkMessage) # Key(ExitMessage)
  /\ None \in Keys /\ None # Key(ExitMessage)
<1>1. RestartMessage \in Messages /\ RestartMessage.text # ""
  BY DEF RestartMessage, Message, Messages, Texts, Classes
<1>2. MarkMessage \in Messages /\ MarkMessage.text # ""
  BY DEF MarkMessage, Message, Messages, Texts, Classes
<1>3. ExitMessage \in Messages /\ ExitMessage.text # ""
  BY DEF ExitMessage, Message, Messages, Texts, Classes
<1>4. Key(RestartMessage) # Key(ExitMessage) /\ Key(MarkMessage) # Key(ExitMessage)
  BY DEF Key, RestartMessage, MarkMessage, ExitMessage, Message
<1>5. None \in Keys /\ None # Key(ExitMessage)
  BY DEF None, Keys, Texts, Key, ExitMessage, Message
<1>6. QED BY <1>1, <1>2, <1>3, <1>4, <1>5

(* A message that was received.                                            *)
LEMMA ReceivedFacts ==
  ASSUME NEW c \in Confs, NEW input \in c.inputs, NEW m, m = Received(input)
  PROVE /\ m \in Messages /\ (TextsNotEmpty => m.text # "")
        /\ ExitTextOwn => Key(m) # Key(ExitMessage)
<1>1. PICK from, class : /\ m = [text |-> input[2], from |-> from, class |-> class]
                         /\ from \in {Local, Remote} /\ class \in Classes
  BY DEF Received, Message, Classes
<1>2. input[2] \in Texts
  <2>1. input[2] \in {x[2] : x \in c.inputs}
    OBVIOUS
  <2>2. input[2] \in UNION {{x[2] : x \in b.inputs} : b \in Confs}
    BY <2>1, Zenon
  <2>3. QED BY <2>2, Zenon DEF Texts
<1>3. m \in Messages
  BY <1>1, <1>2 DEF Messages
<1>4. TextsNotEmpty => m.text # ""
  <2>1. TextsNotEmpty => input[2] # ""
    BY Zenon DEF TextsNotEmpty
  <2>2. m.text = input[2]
    BY <1>1
  <2>3. QED BY <2>1, <2>2
<1>5. ASSUME ExitTextOwn PROVE Key(m) # Key(ExitMessage)
  <2>1. m.text # ExitMessage.text
    BY <1>1, <1>5 DEF ExitTextOwn
  <2>2. Key(m).text = m.text /\ Key(ExitMessage).text = ExitMessage.text
    BY <1>3, TextFacts, KeyFacts
  <2>3. QED BY <2>1, <2>2
<1>6. QED BY <1>3, <1>4, <1>5

-----------------------------------------------------------------------------
(* Entries that nobody is writing to stay so.                              *)
LEMMA StaysQuiet ==
  ASSUME SyslogdInv, files' = files, torn => torn',
         ~torn' => \A i \in 1..Len(files) : ~TopPrints(i)
  PROVE AllQuiet'
<1>1. CountInv
  BY DEF SyslogdInv
<1>2. ASSUME NEW i \in 1..Len(files) PROVE Quiet(files[i])'
  <2>1. /\ EntryOK(files[i])
        /\ TextsNotEmpty /\ Tracked(files[i]) => LastRight(files[i])
    BY <1>1 DEF CountInv, EntriesOK, LastOK
  <2>2. ~torn' /\ Tracked(files[i]) => files[i].owed = Copies(files[i])
    BY <1>1 DEF CountInv, CountOK
  <2>3. QED BY <2>1, <2>2 DEF Quiet
<1>3. QED BY <1>2 DEF AllQuiet

(* The daemon has returned to main, or ended.                              *)
LEMMA EmptyNext ==
  ASSUME stack' = <<>>, AllQuiet', ScalarsOK', FilesOK', WrongOK',
         ExitTextOwn =>
           /\ status' = "exited" =>
                \A i \in 1..Len(files') : OnlyErrors(files'[i])
           /\ status' # "exited" =>
                \A i \in 1..Len(files') : files'[i].prev # Key(ExitMessage)
  PROVE SyslogdInv'
<1>1. Height' = 0 /\ stack' \in Seq(Frames)
  BY DEF Height
<1>2. \A d : d \notin 1..0
  OBVIOUS
<1>3. Simple'
  BY <1>1, <1>2 DEF Simple
<1>4. TextOK' /\ FlushedOK'
  BY <1>1, <1>2 DEF TextOK, FlushedOK
<1>5. Exiting' <=> status' = "exited"
  BY <1>1, <1>2 DEF Exiting
<1>6. ExitOK'
  BY <1>1, <1>2, <1>5 DEF ExitOK
<1>7. QED BY <1>3, <1>4, <1>6, SimpleNext DEF CloseInv

(* Stacks of one and of two calls.                                         *)
LEMMA OneCall ==
  ASSUME NEW fr \in Frames, NEW s, s = <<fr>>
  PROVE s \in Seq(Frames) /\ Len(s) = 1 /\ At(s, 1) = fr
<1>1. <<fr>> \in Seq(Frames) /\ Len(<<fr>>) = 1 /\ <<fr>>[1] = fr
  OBVIOUS
<1>2. QED BY <1>1 DEF At

(* A call on top of another.                                               *)
LEMMA TwoCalls ==
  ASSUME NEW fr \in Frames, NEW lm \in Frames, NEW s, s = <<lm>> \o <<fr>>
  PROVE s \in Seq(Frames) /\ Len(s) = 2 /\ At(s, 1) = fr /\ At(s, 2) = lm
<1>1. PICK t \in Seq(Frames) : t = <<fr>>
  OBVIOUS
<1>2. Len(t) = 1 /\ At(t, 1) = fr
  BY <1>1, OneCall
<1>3. /\ <<lm>> \o t \in Seq(Frames) /\ Len(<<lm>> \o t) = Len(t) + 1
      /\ At(<<lm>> \o t, Len(t) + 1) = lm
      /\ \A d \in 1..Len(t) : At(<<lm>> \o t, d) = At(t, d)
  BY OnTop
<1>4. QED BY <1>1, <1>2, <1>3

(* A call has just begun, on an empty stack.                               *)
Begins(fr) ==
  /\ fr \in Frames /\ fr.at = "start" /\ fr.i = 1
  /\ \/ fr.op \in {"init", "die"} /\ ~initialized
     \/ /\ fr.op = "logmsg" /\ initialized /\ late = 0 /\ fr.m \in Messages
        /\ TextsNotEmpty => fr.m.text # ""
        /\ ExitTextOwn => Key(fr.m) # Key(ExitMessage)

(* The invariant holds when a call has just begun.                         *)
LEMMA OneNext ==
  ASSUME NEW fr, stack' = <<fr>>, Begins(fr)', status' = "up",
         AllQuiet', ScalarsOK', FilesOK', WrongOK',
         ExitTextOwn =>
           \A i \in 1..Len(files') : files'[i].prev # Key(ExitMessage)
  PROVE SyslogdInv'
<1>0. fr \in Frames /\ fr.at = "start" /\ fr.i = 1
  BY DEF Begins
<1>1. Height' = 1 /\ stack' \in Seq(Frames) /\ At(stack', 1) = fr
  BY <1>0, OneCall DEF Height
<1>2. 1 \in 1..1 /\ \A d \in 1..1 : d = 1
  OBVIOUS
<1>3. Len(files') \in Nat
  BY DEF FilesOK
<1>4. FrameOK(fr, Len(files'))
  <2>1. 1 \in 1..(Len(files') + 1)
    BY <1>3
  <2>2. QED BY <1>0, <2>1 DEF FrameOK, Begins
<1>5. Simple'
  <2>1. \/ fr.op \in {"init", "die"} /\ ~initialized'
        \/ fr.op = "logmsg" /\ initialized' /\ late' = 0
    BY DEF Begins
  <2>2. QED BY <1>0, <1>1, <1>2, <1>4, <2>1 DEF Simple
<1>6. TextOK'
  BY <1>1, <1>2 DEF TextOK, Begins
<1>7. FlushedOK'
  <2>1. Flushed(fr, files')
    <3>1. \A j \in 1..Len(files') : ~(j < 1)
      BY <1>3
    <3>2. QED BY <1>0, <3>1 DEF Flushed
  <2>2. QED BY <1>1, <1>2, <2>1 DEF FlushedOK
<1>8. ~Exiting'
  BY <1>0, <1>1, <1>2 DEF Exiting
<1>9. ExitOK'
  BY <1>1, <1>2, <1>8 DEF ExitOK, Begins
<1>10. QED BY <1>5, <1>6, <1>7, <1>9, SimpleNext DEF CloseInv

(* init and die are done with the entries, and log it.                     *)
Reporting(fr, m) ==
  /\ fr \in Frames /\ m \in Messages /\ m.text # ""
  /\ \/ fr.op = "init" /\ fr.at = "done"
     \/ fr.op = "die" /\ fr.at = "exit"
  /\ \/ stack = <<fr>>
     \/ /\ stack = <<Frame("logmsg", 1, "start", m)>> \o <<fr>>
        /\ initialized /\ late = 0
  /\ \A i \in 1..Len(files) :
       files[i].prev # Key(ExitMessage) \/ ~ExitTextOwn
  /\ \/ /\ fr.op = "init" /\ status = "up" /\ Key(m) # Key(ExitMessage)
     \/ /\ fr.op = "die" /\ m = ExitMessage
        /\ \A i \in 1..Len(files) : files[i].owed = <<>>

(* The invariant holds when they do.                                       *)
LEMMA TwoNext ==
  ASSUME NEW fr, NEW m, Reporting(fr, m)',
         AllQuiet', ScalarsOK', FilesOK', WrongOK'
  PROVE SyslogdInv'
<1>0. /\ fr \in Frames /\ m \in Messages /\ m.text # ""
      /\ \/ fr.op = "init" /\ fr.at = "done"
         \/ fr.op = "die" /\ fr.at = "exit"
  BY DEF Reporting
<1>1. PICK lm : lm = Frame("logmsg", 1, "start", m)
  OBVIOUS
<1>2. /\ lm \in Frames /\ lm.op = "logmsg" /\ lm.i = 1 /\ lm.at = "start"
      /\ lm.m = m
  BY <1>0, <1>1 DEF Frame, Frames
<1>3. Len(files') \in Nat
  BY DEF FilesOK
<1>4. FrameOK(fr, Len(files'))
  BY <1>0 DEF FrameOK
<1>5. FrameOK(lm, Len(files'))
  <2>1. 1 \in 1..(Len(files') + 1)
    BY <1>3
  <2>2. QED BY <1>0, <1>2, <2>1 DEF FrameOK
<1>6. \/ Len(stack') = 1 /\ stack' \in Seq(Frames) /\ At(stack', 1) = fr
      \/ /\ Len(stack') = 2 /\ stack' \in Seq(Frames) /\ At(stack', 1) = fr
         /\ At(stack', 2) = lm /\ initialized' /\ late' = 0
  <2>1. CASE stack' = <<fr>>
    BY <1>0, <2>1, OneCall
  <2>2. CASE stack' = <<lm>> \o <<fr>> /\ initialized' /\ late' = 0
    BY <1>0, <1>2, <2>2, TwoCalls
  <2>3. QED BY <1>1, <2>1, <2>2 DEF Reporting
<1>7. PICK n : n = Height'
  OBVIOUS
<1>8. /\ n \in {1, 2} /\ stack' \in Seq(Frames) /\ At(stack', 1) = fr
      /\ n = 2 => At(stack', 2) = lm /\ initialized' /\ late' = 0
  BY <1>6, <1>7 DEF Height
<1>9. \A d \in 1..n : /\ d = 1 \/ (d = 2 /\ n = 2)
                      /\ d = 1 => At(stack', d) = fr
                      /\ d = 2 => At(stack', d) = lm /\ initialized' /\ late' = 0
  BY <1>8
<1>10. Simple'
  <2>1. n <= 2
    BY <1>8
  <2>2. \A d \in 1..n :
          /\ FrameOK(At(stack', d), Len(files'))
          /\ \/ /\ At(stack', d).op \in {"init", "die"} /\ d = 1
                /\ ~(At(stack', d).op = "init" /\ At(stack', d).at # "done")
                /\ ~(At(stack', d).op = "die" /\ At(stack', d).at = "start")
             \/ /\ At(stack', d).op = "logmsg" /\ initialized' /\ late' = 0
                /\ At(stack', d).at = "start"
    BY <1>0, <1>2, <1>4, <1>5, <1>9
  <2>3. \/ At(stack', 1).op = "init" /\ At(stack', 1).at = "done"
        \/ At(stack', 1).op = "die" /\ At(stack', 1).at = "exit"
    BY <1>0, <1>8
  <2>4. QED BY <1>7, <1>8, <2>1, <2>2, <2>3 DEF Simple
<1>11. TextOK'
  BY <1>0, <1>2, <1>7, <1>9 DEF TextOK
<1>12. FlushedOK'
  BY <1>0, <1>2, <1>7, <1>9 DEF FlushedOK
<1>13. Exiting' <=> status' = "exited" \/ fr.op = "die"
  <2>1. 1 \in 1..n
    BY <1>8
  <2>2. QED BY <1>0, <1>2, <1>7, <1>9, <2>1 DEF Exiting
<1>14. ExitOK'
  <2>1. SUFFICES ASSUME ExitTextOwn PROVE ExitOK'
    BY DEF ExitOK
  <2>2. \A i \in 1..Len(files') : files'[i].prev # Key(ExitMessage)
    BY <2>1 DEF Reporting
  <2>3. CASE fr.op = "init" /\ status' = "up" /\ Key(m) # Key(ExitMessage)
    BY <1>0, <1>2, <1>7, <1>9, <1>13, <2>2, <2>3 DEF ExitOK
  <2>4. CASE /\ fr.op = "die" /\ m = ExitMessage
             /\ \A i \in 1..Len(files') : files'[i].owed = <<>>
    <3>1. Exiting'
      BY <1>13, <2>4
    <3>2. \A i \in 1..Len(files') : OnlyErrors(files'[i])
      BY <2>4 DEF OnlyErrors
    <3>3. \A d \in 1..n : At(stack', d).op = "logmsg" =>
            d = 2 /\ At(stack', d).m = ExitMessage
      BY <1>0, <1>2, <1>9, <2>4
    <3>4. QED BY <1>7, <2>2, <3>1, <3>2, <3>3 DEF ExitOK
  <2>5. QED BY <2>3, <2>4 DEF Reporting
<1>15. QED BY <1>10, <1>11, <1>12, <1>14, SimpleNext DEF CloseInv

-----------------------------------------------------------------------------
(* The entries of a table that was just read.                              *)
Fresh(f) ==
  /\ f \in Entries /\ f.owed = <<>> /\ f.last = f.prev
  /\ f.prev # Key(ExitMessage)
  /\ Tracked(f) => f.prevcount = 0

(* Nobody is writing to such an entry.                                     *)
LEMMA FreshQuiet ==
  ASSUME NEW f, Fresh(f)
  PROVE Quiet(f) /\ Quiet(f)'
<1>1. Len(f.owed) = 0 /\ f.prevcount \in Nat /\ f.owed = <<>>
  BY EntryFacts DEF Fresh
<1>2. EntryOK(f)
  BY <1>1 DEF EntryOK
<1>3. LastRight(f)
  BY DEF Fresh, LastRight
<1>4. Tracked(f) => Copies(f) = <<>>
  BY DEF Fresh, Copies
<1>5. QED BY <1>1, <1>2, <1>3, <1>4 DEF Quiet

(* What a line of the configuration says.                                  *)
Lines == [type : {"FILE", "CONSOLE", "PIPE", "WALL", "FORW"}, sel : SUBSET Classes]

(* cfline makes such an entry of a line.                                   *)
LEMMA LineFacts ==
  ASSUME NEW entry \in Lines, NEW type \in Types, NEW f, f = cfline(entry, type)
  PROVE Fresh(f) /\ f.prev = None
<1>1. PICK n, a : /\ n = (IF type = "FORW_UNKN" THEN InetRetryMax ELSE 0)
                  /\ a = (IF entry.type = "FORW" /\ type # "FORW" THEN 0 ELSE MaxAge)
  OBVIOUS
<1>2. f = [type |-> type, sel |-> entry.sel, prev |-> None, repeatcount |-> 0,
           prevcount |-> n, age |-> a, owed |-> <<>>, last |-> None]
  BY <1>1 DEF cfline
<1>3. n \in Nat /\ a \in 0..MaxAge /\ 0 \in 0..(Len(RepeatInterval) - 1)
  BY <1>1, ConstantFacts
<1>4. entry.sel \in SUBSET Classes /\ <<>> \in Seq(Keys)
  BY DEF Lines
<1>5. None \in Keys /\ None # Key(ExitMessage)
  BY TextFacts
<1>6. f \in Entries
  BY <1>2, <1>3, <1>4, <1>5 DEF Entries
<1>7. /\ f.owed = <<>> /\ f.last = None /\ f.prev = None /\ f.type = type
      /\ f.prevcount = n
  BY <1>2
<1>8. Tracked(f) => f.prevcount = 0
  BY <1>1, <1>7 DEF Tracked
<1>9. QED BY <1>5, <1>6, <1>7, <1>8 DEF Fresh

(* The table.                                                              *)
LEMMA TableFacts ==
  ASSUME NEW c \in Confs, NEW t, t = Table(c.lines)
  PROVE t \in Seq(Lines)
<1>1. CASE c.lines = NoFile
  <2>1. t = Emergency
    BY <1>1 DEF Table
  <2>2. [type |-> "CONSOLE", sel |-> {"user", "kern", "error"}] \in Lines
    BY DEF Lines, Classes
  <2>3. [type |-> "WALL", sel |-> {"user"}] \in Lines
    BY DEF Lines, Classes
  <2>4. QED BY <2>1, <2>2, <2>3 DEF Emergency
<1>2. CASE c.lines # NoFile
  <2>1. c.lines \in Seq(Lines)
    BY <1>2, SyslogdConstants DEF Lines
  <2>2. PICK s \in Seq(Lines) : s = c.lines
    BY <2>1
  <2>3. t = [i \in 1..Len(s) |-> s[Len(s) + 1 - i]]
    BY <1>2, <2>2 DEF Table
  <2>4. \A i \in 1..Len(s) : s[Len(s) + 1 - i] \in Lines
    <3>1. Len(s) \in Nat /\ \A k \in 1..Len(s) : s[k] \in Lines
      OBVIOUS
    <3>2. \A i \in 1..Len(s) : Len(s) + 1 - i \in 1..Len(s)
      BY <3>1
    <3>3. QED BY <3>1, <3>2
  <2>5. Len(s) \in Nat
    OBVIOUS
  <2>6. QED BY <2>3, <2>4, <2>5
<1>3. QED BY <1>1, <1>2

(* The entries that load_conffile makes.                                   *)
LEMMA LoadedFacts ==
  ASSUME NEW c \in Confs, NEW fs \in Loaded(c)
  PROVE /\ fs \in Seq(Entries) /\ Len(fs) \in Nat /\ DOMAIN fs = 1..Len(fs)
        /\ \A i \in 1..Len(fs) : Fresh(fs[i]) /\ fs[i].prev = None
<1>1. PICK t \in Seq(Lines) : t = Table(c.lines)
  BY TableFacts
<1>2. PICK type \in [DOMAIN t -> Types] :
        fs = [i \in DOMAIN t |-> cfline(t[i], type[i])]
  BY <1>1 DEF Loaded
<1>3. DOMAIN t = 1..Len(t) /\ Len(t) \in Nat /\ \A i \in 1..Len(t) : t[i] \in Lines
  OBVIOUS
<1>4. \A i \in 1..Len(t) : type[i] \in Types
  BY <1>3
<1>5. ASSUME NEW i \in 1..Len(t)
      PROVE Fresh(fs[i]) /\ fs[i].prev = None /\ fs[i] \in Entries
  <2>1. fs[i] = cfline(t[i], type[i])
    BY <1>2, <1>3
  <2>2. Fresh(fs[i]) /\ fs[i].prev = None
    BY <1>3, <1>4, <2>1, LineFacts
  <2>3. QED BY <2>2 DEF Fresh
<1>6. fs = [i \in 1..Len(t) |-> fs[i]]
  BY <1>2, <1>3
<1>7. fs \in [1..Len(t) -> Entries]
  BY <1>5, <1>6
<1>8. fs \in Seq(Entries) /\ Len(fs) = Len(t)
  BY <1>3, <1>7
<1>9. QED BY <1>3, <1>5, <1>8

(* What logging the restart makes of them.                                 *)
LEMMA StartedFacts ==
  ASSUME NEW f, Fresh(f)
  PROVE Fresh(Started(f))
<1>1. CASE "info" \notin f.sel
  BY <1>1 DEF Started
<1>2. CASE "info" \in f.sel
  <2>1. PICK k : k = Key(RestartMessage)
    OBVIOUS
  <2>2. k \in Keys /\ k # Key(ExitMessage)
    BY <2>1, TextFacts, KeyFacts
  <2>3. PICK h : h = [f EXCEPT !.prev = k, !.last = k, !.age = 0]
    OBVIOUS
  <2>4. Started(f) = h
    BY <1>2, <2>1, <2>3 DEF Started
  <2>5. PICK g : g = [f EXCEPT !.prev = k]
    OBVIOUS
  <2>6. /\ g \in Entries /\ g.prev = k /\ g.owed = f.owed /\ g.type = f.type
        /\ g.prevcount = f.prevcount
    BY <2>2, <2>5 DEF Entries, Fresh
  <2>7. PICK g2 : g2 = [g EXCEPT !.last = k]
    OBVIOUS
  <2>8. /\ g2 \in Entries /\ g2.prev = g.prev /\ g2.owed = g.owed
        /\ g2.type = g.type /\ g2.prevcount = g.prevcount /\ g2.last = k
    BY <2>2, <2>6, <2>7 DEF Entries
  <2>9. h = [g2 EXCEPT !.age = 0]
    BY <2>3, <2>5, <2>7 DEF Fresh, Entries
  <2>10. 0 \in 0..MaxAge
    BY ConstantFacts
  <2>11. /\ h \in Entries /\ h.prev = g2.prev /\ h.owed = g2.owed
         /\ h.type = g2.type /\ h.prevcount = g2.prevcount /\ h.last = g2.last
    BY <2>8, <2>9, <2>10 DEF Entries
  <2>12. QED BY <2>2, <2>4, <2>6, <2>8, <2>11 DEF Fresh, Tracked
<1>3. QED BY <1>1, <1>2

(* The invariant holds at the start.                                       *)
LEMMA InitInv ==
  Init => SyslogdInv
<1>1. SUFFICES ASSUME Init PROVE SyslogdInv
  OBVIOUS
<1>2. PICK fs \in Loaded(conf) : files = [i \in DOMAIN fs |-> Started(fs[i])]
  BY <1>1 DEF Init
<1>3. conf \in Confs
  BY <1>1 DEF Init
<1>4. /\ fs \in Seq(Entries) /\ Len(fs) \in Nat /\ DOMAIN fs = 1..Len(fs)
      /\ \A i \in 1..Len(fs) : Fresh(fs[i])
  BY <1>3, LoadedFacts
<1>5. \A i \in 1..Len(fs) : Fresh(Started(fs[i]))
  BY <1>4, StartedFacts
<1>6. files = [i \in 1..Len(fs) |-> Started(fs[i])]
  BY <1>2, <1>4
<1>7. \A i \in 1..Len(fs) : Fresh(files[i]) /\ files[i] \in Entries
  BY <1>5, <1>6 DEF Fresh
<1>8. files \in Seq(Entries) /\ Len(files) = Len(fs)
  BY <1>4, <1>6, <1>7
<1>9. AllQuiet /\ FilesOK
  BY <1>7, <1>8, FreshQuiet DEF AllQuiet, FilesOK
<1>10. /\ initialized = TRUE /\ restart = FALSE /\ reenter = FALSE
       /\ markseq = 0 /\ stack = <<>> /\ woken = FALSE
       /\ late = 0 /\ alarm = TimerIntvl /\ status = "up"
       /\ was_initialized = TRUE /\ masked = FALSE
       /\ wrong = FALSE /\ torn = FALSE /\ hopped = FALSE
  BY <1>1 DEF Init
<1>11. ScalarsOK
  <2>1. 0 \in 0..MarkInterval /\ 0 \in 0..MaxAge /\ TimerIntvl \in 0..TimerIntvl
    BY ConstantFacts
  <2>2. QED BY <1>3, <1>10, <2>1 DEF ScalarsOK
<1>12. Height = 0 /\ stack \in Seq(Frames) /\ \A d : d \notin 1..0
  BY <1>10 DEF Height
<1>13. Simple /\ TextOK /\ FlushedOK /\ WrongOK
  BY <1>10, <1>12 DEF Simple, TextOK, FlushedOK, WrongOK
<1>14. ExitOK
  <2>1. ~Exiting
    BY <1>10, <1>12 DEF Exiting
  <2>2. QED BY <1>7, <1>8, <1>12, <2>1 DEF ExitOK, Fresh
<1>15. QED BY <1>9, <1>11, <1>13, <1>14, SimpleInv DEF CloseInv

-----------------------------------------------------------------------------
(* The calls that are made.                                                *)
LEMMA CallFacts ==
  \A o \in {"domark", "init", "die"} :
    /\ Call(o) \in Frames /\ Call(o).op = o /\ Call(o).i = 1
    /\ Call(o).at = "start"
<1>1. ASSUME NEW o \in {"domark", "init", "die"}
      PROVE /\ Call(o) \in Frames /\ Call(o).op = o /\ Call(o).i = 1
            /\ Call(o).at = "start"
  <2>1. Call(o) = [op |-> o, i |-> 1, at |-> "start", m |-> NoMessage]
    BY DEF Call, Frame
  <2>2. QED BY <2>1 DEF Frames
<1>2. QED BY <1>1

(* A call of logmsg.                                                       *)
LEMMA LogFrameFacts ==
  ASSUME NEW m \in Messages, NEW lm, lm = Frame("logmsg", 1, "start", m)
  PROVE /\ lm \in Frames /\ lm.op = "logmsg" /\ lm.i = 1 /\ lm.at = "start"
        /\ lm.m = m
BY DEF Frame, Frames

(* Until die logs its message no entry remembers it.                       *)
LEMMA NotYetExiting ==
  ASSUME SyslogdInv, status = "up",
         \A d \in 1..Height : At(stack, d).op = "die" => At(stack, d).at # "exit"
  PROVE ExitTextOwn =>
          \A i \in 1..Len(files) : files[i].prev # Key(ExitMessage)
<1>1. ~Exiting
  BY DEF Exiting
<1>2. QED BY <1>1 DEF SyslogdInv, CloseInv, ExitOK

(* The steps of the main loop keep the invariant.                          *)
LEMMA MainKept ==
  ASSUME SyslogdInv, Poll \/ Receive
  PROVE SyslogdInv'
<1>1. /\ status = "up" /\ stack = <<>> /\ woken' = FALSE
      /\ UNCHANGED <<conf, files, restart, reenter, markseq, alarm,
                     was_initialized, masked, status, wrong, torn, hopped>>
  BY DEF Poll, Receive, Returns, saved, history
<1>2. ScalarsOK /\ FilesOK /\ WrongOK
  BY DEF SyslogdInv, TypesInv, CountInv
<1>3. Height = 0
  BY <1>1 DEF Height
<1>4. AllQuiet'
  <2>1. \A i \in 1..Len(files) : ~TopPrints(i)
    BY <1>3 DEF TopPrints
  <2>2. QED BY <1>1, <2>1, StaysQuiet
<1>5. ExitTextOwn => \A i \in 1..Len(files') : files'[i].prev # Key(ExitMessage)
  <2>1. \A d \in 1..Height : FALSE
    BY <1>3
  <2>2. QED BY <1>1, <2>1, NotYetExiting
<1>6. \/ UNCHANGED <<initialized, stack, late>>
      \/ initialized' = FALSE /\ stack' = <<Call("init")>> /\ late' = late
      \/ /\ late' = 0 /\ initialized' = initialized
         /\ \E input \in conf.inputs : stack' = Logging(Received(input), <<>>)
  BY DEF Poll, Receive, Restarts
<1>7. ScalarsOK' /\ FilesOK' /\ WrongOK'
  <2>1. late' \in 0..MaxAge
    BY <1>2, <1>6, ConstantFacts DEF ScalarsOK
  <2>2. initialized' \in BOOLEAN
    BY <1>2, <1>6 DEF ScalarsOK
  <2>3. QED BY <1>1, <1>2, <2>1, <2>2 DEF ScalarsOK, FilesOK, WrongOK
<1>8. CASE stack' = <<>>
  BY <1>1, <1>4, <1>5, <1>7, <1>8, EmptyNext
<1>9. CASE initialized' = FALSE /\ stack' = <<Call("init")>>
  <2>1. Begins(Call("init"))'
    BY <1>9, CallFacts DEF Begins
  <2>2. QED BY <1>1, <1>4, <1>5, <1>7, <1>9, <2>1, OneNext
<1>10. ASSUME NEW input \in conf.inputs, stack' = Logging(Received(input), <<>>),
              late' = 0, initialized' = initialized, stack' # <<>>
       PROVE SyslogdInv'
  <2>1. PICK m : m = Received(input)
    OBVIOUS
  <2>2. conf \in Confs
    BY <1>2 DEF ScalarsOK
  <2>3. /\ m \in Messages /\ (TextsNotEmpty => m.text # "")
        /\ ExitTextOwn => Key(m) # Key(ExitMessage)
    BY <1>10, <2>1, <2>2, ReceivedFacts
  <2>4. PICK lm : lm = Frame("logmsg", 1, "start", m)
    OBVIOUS
  <2>5. /\ lm \in Frames /\ lm.op = "logmsg" /\ lm.i = 1 /\ lm.at = "start"
        /\ lm.m = m
    <3>1. m \in Messages
      BY <2>3
    <3>2. QED BY <2>4, <3>1, LogFrameFacts
  <2>6. initialized /\ stack' = <<lm>> \o <<>>
    BY <1>10, <2>1, <2>4 DEF Logging
  <2>7. stack' = <<lm>>
    <3>1. <<lm>> \o <<>> = <<lm>>
      OBVIOUS
    <3>2. QED BY <2>6, <3>1
  <2>8. Begins(lm)'
    BY <1>10, <2>3, <2>5, <2>6 DEF Begins
  <2>9. QED BY <1>1, <1>4, <1>5, <1>7, <2>7, <2>8, OneNext
<1>11. QED BY <1>1, <1>6, <1>8, <1>9, <1>10

(* init and die are the only call, when they are the innermost.            *)
LEMMA OnlyCall ==
  ASSUME SyslogdInv, stack # <<>>, Top.op \in {"init", "die"}
  PROVE Height = 1 /\ At(stack, 1) = Top /\ Tail(stack) = <<>>
<1>1. FramesOK /\ ModeOK
  BY DEF SyslogdInv, TypesInv, CallInv
<1>2. /\ Height \in 1..Height /\ Top = At(stack, Height)
      /\ stack \in Seq(Frames) /\ Height = Len(stack)
  BY <1>1, TopFacts
<1>3. Height = 1
  BY <1>1, <1>2 DEF ModeOK
<1>4. PICK s \in Seq(Frames) : s = Tail(stack)
  BY <1>2, Beneath
<1>5. Len(s) = 0
  <2>1. Len(Tail(stack)) = Len(stack) - 1
    BY <1>2, Beneath
  <2>2. Len(stack) = 1
    BY <1>2, <1>3
  <2>3. QED BY <1>4, <2>1, <2>2
<1>6. s = <<>>
  BY <1>5
<1>7. QED BY <1>2, <1>3, <1>4, <1>6

(* The end of the daemon keeps the invariant.                              *)
LEMMA DieExitsKept ==
  ASSUME SyslogdInv, DieExits
  PROVE SyslogdInv'
<1>1. /\ stack # <<>> /\ Top.op = "die" /\ Top.at = "exit" /\ stack' = <<>>
      /\ status' = "exited"
      /\ UNCHANGED <<conf, files, initialized, restart, reenter, markseq, woken,
                     late, alarm, was_initialized, masked, wrong, torn, hopped>>
  BY DEF DieExits, In, unchanged_by_die, saved
<1>2. ScalarsOK' /\ FilesOK' /\ WrongOK'
  BY <1>1 DEF SyslogdInv, TypesInv, CountInv, ScalarsOK, FilesOK, WrongOK
<1>3. Height = 1 /\ At(stack, 1) = Top /\ 1 \in 1..1
  BY <1>1, OnlyCall
<1>4. AllQuiet'
  <2>1. \A i \in 1..Len(files) : ~TopPrints(i)
    BY <1>1, <1>3 DEF TopPrints
  <2>2. QED BY <1>1, <2>1, StaysQuiet
<1>5. Exiting
  BY <1>1, <1>3 DEF Exiting
<1>6. ExitTextOwn => \A i \in 1..Len(files') : OnlyErrors(files'[i])
  BY <1>1, <1>5 DEF SyslogdInv, CloseInv, ExitOK
<1>7. QED BY <1>1, <1>2, <1>4, <1>6, EmptyNext

(* die logs that it exits.                                                 *)
LEMMA DieLogsKept ==
  ASSUME SyslogdInv, DieLogs
  PROVE SyslogdInv'
<1>1. /\ status = "up" /\ stack # <<>> /\ Top.op = "die" /\ Top.at = "start"
      /\ Top.i > Len(files)
      /\ initialized' = was_initialized /\ late' = 0
      /\ UNCHANGED <<conf, files, restart, reenter, markseq, woken, status,
                     alarm, was_initialized, masked, wrong, torn, hopped>>
  BY DEF DieLogs, In, unchanged_by_die, saved
<1>2. ScalarsOK' /\ FilesOK' /\ WrongOK'
  <2>1. 0 \in 0..MaxAge
    BY ConstantFacts
  <2>2. QED BY <1>1, <2>1 DEF SyslogdInv, TypesInv, CountInv, ScalarsOK, FilesOK,
                             WrongOK
<1>3. Height = 1 /\ At(stack, 1) = Top /\ 1 \in 1..1 /\ Tail(stack) = <<>>
  BY <1>1, OnlyCall
<1>4. AllQuiet'
  <2>1. \A i \in 1..Len(files) : ~TopPrints(i)
    BY <1>1, <1>3 DEF TopPrints
  <2>2. QED BY <1>1, <2>1, StaysQuiet
<1>5. \A i \in 1..Len(files) : files[i].owed = <<>>
  <2>1. Flushed(Top, files)
    BY <1>1, <1>3 DEF SyslogdInv, CloseInv, FlushedOK
  <2>2. Top.i \in Nat /\ Len(files) \in Nat
    <3>1. FramesOK /\ Len(files) \in Nat
      BY DEF SyslogdInv, TypesInv, FilesOK
    <3>2. QED BY <1>1, <3>1, TopFacts DEF Frames
  <2>3. \A i \in 1..Len(files) : i < Top.i
    BY <1>1, <2>2
  <2>4. QED BY <2>1, <2>3 DEF Flushed
<1>6. ExitTextOwn => \A i \in 1..Len(files) : files[i].prev # Key(ExitMessage)
  <2>1. \A d \in 1..Height : At(stack, d).op = "die" => At(stack, d).at # "exit"
    BY <1>1, <1>3
  <2>2. QED BY <1>1, <2>1, NotYetExiting
<1>7. PICK fr \in Frames : /\ Goes("exit") = <<fr>> \o Tail(stack)
                           /\ fr.op = Top.op /\ fr.at = "exit"
  <2>1. TypesInv
    BY DEF SyslogdInv
  <2>2. QED BY <1>1, <2>1, GoesOn
<1>8. Goes("exit") = <<fr>>
  <2>1. <<fr>> \o <<>> = <<fr>>
    OBVIOUS
  <2>2. QED BY <1>3, <1>7, <2>1
<1>9. \/ stack' = <<fr>>
      \/ /\ stack' = <<Frame("logmsg", 1, "start", ExitMessage)>> \o <<fr>>
         /\ initialized' /\ late' = 0
  <2>1. CASE was_initialized
    BY <1>1, <1>8, <2>1 DEF DieLogs
  <2>2. CASE ~was_initialized
    <3>1. stack' = <<>> \o <<fr>>
      BY <1>8, <2>2 DEF DieLogs
    <3>2. <<>> \o <<fr>> = <<fr>>
      OBVIOUS
    <3>3. QED BY <3>1, <3>2
  <2>3. QED BY <2>1, <2>2
<1>10. Reporting(fr, ExitMessage)'
  BY <1>1, <1>5, <1>6, <1>7, <1>9, TextFacts DEF Reporting
<1>11. QED BY <1>2, <1>4, <1>10, TwoNext

(* init reads the new table.                                               *)
LEMMA InitLoadsKept ==
  ASSUME SyslogdInv, InitLoads
  PROVE SyslogdInv'
<1>1. /\ status = "up" /\ stack # <<>> /\ Top.op = "init"
      /\ conf' \in Confs /\ files' \in Loaded(conf')
      /\ initialized' = TRUE /\ late' = 0
      /\ wrong' = FALSE /\ torn' = FALSE /\ hopped' = FALSE
      /\ UNCHANGED <<restart, reenter, markseq, woken, status, alarm,
                     was_initialized, masked>>
  BY DEF InitLoads, In, unchanged_by_init, saved
<1>2. PICK c, fs : c = conf' /\ fs = files'
  OBVIOUS
<1>3. /\ fs \in Seq(Entries)
      /\ \A i \in 1..Len(fs) : Fresh(fs[i])
  BY <1>1, <1>2, LoadedFacts
<1>4. ScalarsOK' /\ FilesOK' /\ WrongOK'
  <2>1. 0 \in 0..MaxAge
    BY ConstantFacts
  <2>2. QED BY <1>1, <1>2, <1>3, <2>1 DEF SyslogdInv, TypesInv, ScalarsOK,
                                          FilesOK, WrongOK
<1>5. AllQuiet'
  <2>1. \A i \in 1..Len(fs) : Quiet(fs[i])'
    BY <1>3, FreshQuiet
  <2>2. QED BY <1>2, <2>1 DEF AllQuiet
<1>6. Tail(stack) = <<>>
  BY <1>1, OnlyCall
<1>7. PICK fr \in Frames : /\ Goes("done") = <<fr>> \o Tail(stack)
                           /\ fr.op = Top.op /\ fr.at = "done"
  <2>1. TypesInv
    BY DEF SyslogdInv
  <2>2. QED BY <1>1, <2>1, GoesOn
<1>8. Goes("done") = <<fr>>
  <2>1. <<fr>> \o <<>> = <<fr>>
    OBVIOUS
  <2>2. QED BY <1>6, <1>7, <2>1
<1>9. stack' = <<Frame("logmsg", 1, "start", RestartMessage)>> \o <<fr>>
  BY <1>8 DEF InitLoads
<1>10. \A i \in 1..Len(files') : files'[i].prev # Key(ExitMessage)
  BY <1>2, <1>3 DEF Fresh
<1>11. Reporting(fr, RestartMessage)'
  BY <1>1, <1>7, <1>9, <1>10, TextFacts DEF Reporting
<1>12. QED BY <1>4, <1>5, <1>11, TwoNext

-----------------------------------------------------------------------------
(* Whether fprintlog is being called decides whether a handler tears it.   *)
LEMMA NotPrinting ==
  ASSUME FramesOK, ~Calling("fprintlog")
  PROVE /\ \A d \in 1..Height : At(stack, d).op # "fprintlog"
        /\ \A i : ~TopPrints(i)
<1>1. \A d \in 1..Height : At(stack, d).op # "fprintlog"
  BY CallingByHeight
<1>2. Height > 0 => Height \in 1..Height
  BY DEF FramesOK, Height
<1>3. QED BY <1>1, <1>2 DEF TopPrints

(* SIGTERM keeps the invariant.                                            *)
LEMMA TermKept ==
  ASSUME SyslogdInv, Term
  PROVE SyslogdInv'
<1>1. /\ status = "up" /\ ~Calling("die")
      /\ was_initialized' = initialized /\ initialized' = FALSE
      /\ masked' = Blocked /\ torn' = (torn \/ Calling("fprintlog"))
      /\ UNCHANGED <<conf, files, restart, reenter, markseq, woken, late, alarm,
                     wrong, hopped>>
      /\ \/ stack' = <<>> /\ status' = "undefined"
         \/ stack' = <<Call("die")>> /\ status' = "up"
  BY DEF Term
<1>2. ScalarsOK /\ FilesOK /\ WrongOK /\ FramesOK
  BY DEF SyslogdInv, TypesInv, CountInv
<1>3. torn' \in BOOLEAN /\ masked' \in BOOLEAN /\ (torn => torn')
  BY <1>1, <1>2 DEF Calling, Blocked, ScalarsOK
<1>4. ScalarsOK' /\ FilesOK' /\ WrongOK'
  BY <1>1, <1>2, <1>3 DEF ScalarsOK, FilesOK, WrongOK
<1>5. AllQuiet'
  <2>1. ~torn' => \A i \in 1..Len(files) : ~TopPrints(i)
    BY <1>1, <1>2, NotPrinting
  <2>2. QED BY <1>1, <1>3, <2>1, StaysQuiet
<1>6. ExitTextOwn => \A i \in 1..Len(files') : files'[i].prev # Key(ExitMessage)
  <2>1. \A d \in 1..Height : At(stack, d).op # "die"
    BY <1>1, <1>2, CallingByHeight
  <2>2. QED BY <1>1, <2>1, NotYetExiting
<1>7. CASE stack' = <<>> /\ status' = "undefined"
  BY <1>4, <1>5, <1>6, <1>7, EmptyNext
<1>8. CASE stack' = <<Call("die")>> /\ status' = "up"
  <2>1. Begins(Call("die"))'
    BY <1>1, CallFacts DEF Begins
  <2>2. QED BY <1>4, <1>5, <1>6, <1>8, <2>1, OneNext
<1>9. QED BY <1>1, <1>7, <1>8

(* Steps that change at most ages and flags.                               *)
Idles ==
  /\ stack' = stack /\ Len(files') = Len(files)
  /\ \A j \in 1..Len(files) :
       /\ files'[j].type = files[j].type /\ files'[j].prev = files[j].prev
       /\ files'[j].owed = files[j].owed /\ files'[j].last = files[j].last
       /\ files'[j].prevcount = files[j].prevcount
  /\ ScalarsOK' /\ FilesOK'
  /\ UNCHANGED <<initialized, reenter, status, wrong, torn>>
  /\ \/ \A j \in 1..Len(files) : files'[j].age = files[j].age
     \/ ~Calling("logmsg")
  /\ late' = late \/ (~Calling("logmsg") /\ ~Calling("domark"))

(* Such a step keeps the invariant.                                        *)
LEMMA IdlesKept ==
  ASSUME SyslogdInv, Idles
  PROVE SyslogdInv'
<1>0. TypesInv /\ CountInv /\ CallInv /\ CloseInv
  BY DEF SyslogdInv
<1>1. FramesOK /\ Len(files) \in Nat
  BY <1>0 DEF TypesInv, FilesOK
<1>2. PICK n : n = Height
  OBVIOUS
<1>3. PICK s : s = stack
  OBVIOUS
<1>4. stack = s /\ stack' = s /\ Height' = n /\ Height = n /\ n \in Nat
      /\ Len(files') = Len(files)
  BY <1>1, <1>2, <1>3 DEF Idles, Height, FramesOK
<1>5. \A j \in 1..Len(files) :
        /\ files'[j].type = files[j].type /\ files'[j].prev = files[j].prev
        /\ files'[j].owed = files[j].owed /\ files'[j].last = files[j].last
        /\ files'[j].prevcount = files[j].prevcount
  BY DEF Idles
<1>6. \A j \in 1..Len(files) :
        /\ Tracked(files'[j]) <=> Tracked(files[j])
        /\ EntryOK(files[j]) => EntryOK(files'[j])
        /\ LastRight(files[j]) => LastRight(files'[j])
        /\ Copies(files[j])' = Copies(files[j])
        /\ OnlyErrors(files[j]) => OnlyErrors(files'[j])
  <2>1. ASSUME NEW j \in 1..Len(files)
        PROVE /\ Tracked(files'[j]) <=> Tracked(files[j])
              /\ EntryOK(files[j]) => EntryOK(files'[j])
              /\ LastRight(files[j]) => LastRight(files'[j])
              /\ Copies(files[j])' = Copies(files[j])
              /\ OnlyErrors(files[j]) => OnlyErrors(files'[j])
    <3>1. /\ files'[j].type = files[j].type /\ files'[j].prev = files[j].prev
          /\ files'[j].owed = files[j].owed /\ files'[j].last = files[j].last
          /\ files'[j].prevcount = files[j].prevcount
      BY <1>5
    <3>2. Tracked(files'[j]) <=> Tracked(files[j])
      BY <3>1 DEF Tracked
    <3>3. EntryOK(files[j]) => EntryOK(files'[j])
      BY <3>1, <3>2 DEF EntryOK
    <3>4. LastRight(files[j]) => LastRight(files'[j])
      BY <3>1 DEF LastRight
    <3>5. Copies(files[j])' = Copies(files[j])
      BY <3>1 DEF Copies
    <3>6. OnlyErrors(files[j]) => OnlyErrors(files'[j])
      BY <3>1 DEF OnlyErrors
    <3>7. QED BY <3>2, <3>3, <3>4, <3>5, <3>6
  <2>2. QED BY <2>1
<1>7. /\ initialized' = initialized /\ reenter' = reenter /\ status' = status
      /\ wrong' = wrong /\ torn' = torn /\ ScalarsOK' /\ FilesOK'
  BY DEF Idles
<1>8. \A d \in 1..n : FrameOK(At(s, d), Len(files))
  BY <1>1, <1>4 DEF FramesOK
<1>9. \A d \in 1..n : At(s, d).op = "fprintlog" => At(s, d).i \in 1..Len(files)
  BY <1>8 DEF FrameOK
<1>10. FramesOK'
  BY <1>1, <1>4, <1>8 DEF FramesOK
<1>11. EntriesOK' /\ LastOK'
  BY <1>0, <1>4, <1>6 DEF CountInv, EntriesOK, LastOK
<1>12. \A i : TopPrints(i)' <=> TopPrints(i)
  BY <1>4 DEF TopPrints
<1>13. CountOK'
  <2>1. SUFFICES ASSUME ~torn, NEW i \in 1..Len(files), Tracked(files[i])
                 PROVE (files[i].owed = IF TopPrints(i) THEN <<>>
                                        ELSE Copies(files[i]))'
    BY <1>4, <1>6, <1>7 DEF CountOK
  <2>2. files[i].owed = IF TopPrints(i) THEN <<>> ELSE Copies(files[i])
    BY <1>0, <2>1 DEF CountInv, CountOK
  <2>3. QED BY <1>5, <1>6, <1>12, <2>2
<1>14. TopOK'
  <2>1. \A d \in 1..(n - 1) : d \in 1..n
    BY <1>4
  <2>2. QED BY <1>0, <1>4, <1>6, <1>7, <1>9, <2>1 DEF CountInv, TopOK
<1>15. PendingOK'
  BY <1>0, <1>4, <1>5, <1>9 DEF CountInv, PendingOK
<1>16. WrongOK' /\ TextOK'
  BY <1>0, <1>4, <1>7 DEF CountInv, WrongOK, TextOK
<1>17. ModeOK'
  <2>1. \A d \in 1..n : At(s, d).op \in {"logmsg", "domark"} => late' = late
    BY <1>1, <1>4, CallingByHeight DEF Idles
  <2>2. QED BY <1>0, <1>4, <1>7, <2>1 DEF CallInv, ModeOK
<1>18. CallerOK' /\ DomarkOK'
  BY <1>0, <1>4 DEF CallInv, CallerOK, DomarkOK
<1>19. CausesOK'
  BY <1>0, <1>4 DEF CallInv, CausesOK, Reports
<1>20. LogOverOK'
  <2>1. SUFFICES ASSUME NEW d \in 2..n, At(s, d).op = "logmsg",
                        At(s, d - 1).op = "fprintlog",
                        Out(files[At(s, d - 1).i], reenter)
                 PROVE Out(files'[At(s, d - 1).i], reenter)
    BY <1>0, <1>4, <1>7 DEF CallInv, LogOverOK
  <2>2. d - 1 \in 1..n /\ d \in 1..n
    BY <1>4
  <2>3. At(s, d - 1).i \in 1..Len(files)
    BY <1>9, <2>1, <2>2
  <2>4. Calling("logmsg")
    BY <1>1, <1>4, <2>1, <2>2, CallingByHeight
  <2>5. files'[At(s, d - 1).i].age = files[At(s, d - 1).i].age
    BY <2>3, <2>4 DEF Idles
  <2>6. QED BY <1>5, <2>1, <2>3, <2>5 DEF Out
<1>21. \A d \in 1..n : Walling(d)' => Walling(d)
  BY <1>4, <1>5, <1>9 DEF Walling
<1>22. WallOK'
  BY <1>0, <1>4, <1>7, <1>21 DEF CallInv, WallOK
<1>23. SaveOK'
  <2>1. \A d \in 1..n : At(s, d).op = "logmsg" /\ At(s, d).at = "save" =>
          At(s, d).i \in 1..Len(files)
    <3>1. \A d \in 1..n : At(s, d).op = "logmsg" /\ At(s, d).at = "save" =>
            At(s, d).i \in 1..(Len(files) + 1) /\ At(s, d).i <= Len(files)
      BY <1>8 DEF FrameOK
    <3>2. QED BY <1>1, <3>1
  <2>2. QED BY <1>0, <1>4, <1>5, <1>6, <2>1 DEF CallInv, SaveOK
<1>24. FlushedOK'
  <2>1. SUFFICES ASSUME NEW d \in 1..n,
                        \/ At(s, d).op = "init" /\ At(s, d).at # "done"
                        \/ At(s, d).op = "die" /\ At(s, d).at = "start"
                 PROVE Flushed(At(s, d), files')
    BY <1>4 DEF FlushedOK
  <2>2. Flushed(At(s, d), files)
    BY <1>0, <1>4, <2>1 DEF CloseInv, FlushedOK
  <2>3. At(s, d).at = "free" => At(s, d).i \in 1..Len(files)
    BY <1>1, <1>8, <2>1 DEF FrameOK
  <2>4. QED BY <1>4, <1>5, <2>2, <2>3 DEF Flushed
<1>25. Exiting' <=> Exiting
  BY <1>4, <1>7 DEF Exiting
<1>26. ExitOK'
  BY <1>0, <1>4, <1>5, <1>6, <1>25 DEF CloseInv, ExitOK
<1>27. QED
  BY <1>7, <1>10, <1>11, <1>13, <1>14, <1>15, <1>16, <1>17, <1>18, <1>19, <1>20,
     <1>22, <1>23, <1>24, <1>26
  DEF SyslogdInv, TypesInv, CountInv, CallInv, CloseInv

(* SIGHUP, and nothing at all.                                             *)
LEMMA HupKept ==
  ASSUME SyslogdInv, Hup \/ UNCHANGED vars
  PROVE SyslogdInv'
<1>1. /\ UNCHANGED <<conf, files, initialized, reenter, markseq, stack, late,
                     alarm, was_initialized, masked, status, wrong, torn, hopped>>
      /\ restart' \in {restart, TRUE}
      /\ woken' = woken \/ woken' = (woken \/ stack = <<>>)
  BY DEF Hup, vars, saved, history
<1>2. ScalarsOK /\ FilesOK
  BY DEF SyslogdInv, TypesInv
<1>3. restart' \in BOOLEAN /\ woken' \in BOOLEAN
  BY <1>1, <1>2 DEF ScalarsOK
<1>4. ScalarsOK' /\ FilesOK'
  BY <1>1, <1>2, <1>3 DEF ScalarsOK, FilesOK
<1>5. Idles
  BY <1>1, <1>4 DEF Idles
<1>6. QED BY <1>5, IdlesKept

(* An entry grows older.                                                   *)
LEMMA Ageing ==
  ASSUME NEW f \in Entries, NEW h, h = [f EXCEPT !.age = Smaller(@ + 1, MaxAge)]
  PROVE /\ h \in Entries /\ h.type = f.type /\ h.prev = f.prev
        /\ h.owed = f.owed /\ h.last = f.last /\ h.prevcount = f.prevcount
<1>1. PICK a : a = Smaller(f.age + 1, MaxAge)
  OBVIOUS
<1>2. a \in 0..MaxAge
  BY <1>1, EntryFacts, ConstantFacts DEF Smaller
<1>3. h = [f EXCEPT !.age = a]
  BY <1>1
<1>4. QED BY <1>2, <1>3 DEF Entries

(* The passing of time keeps the invariant.                                *)
LEMMA TickKept ==
  ASSUME SyslogdInv, Tick
  PROVE SyslogdInv'
<1>1. /\ ~Blocked /\ alarm > 0 /\ alarm' = alarm - 1
      /\ late' = Smaller(late + 1, MaxAge)
      /\ files' = [i \in DOMAIN files |->
                     [files[i] EXCEPT !.age = Smaller(@ + 1, MaxAge)]]
      /\ UNCHANGED <<conf, initialized, restart, reenter, markseq, stack, woken,
                     was_initialized, masked, status, wrong, torn, hopped>>
  BY DEF Tick, saved, history
<1>2. ScalarsOK /\ files \in Seq(Entries)
  BY DEF SyslogdInv, TypesInv, FilesOK
<1>3. DOMAIN files = 1..Len(files) /\ Len(files) \in Nat
      /\ \A j \in 1..Len(files) : files[j] \in Entries
  BY <1>2
<1>4. ASSUME NEW j \in 1..Len(files)
      PROVE /\ files'[j] \in Entries
            /\ files'[j].type = files[j].type /\ files'[j].prev = files[j].prev
            /\ files'[j].owed = files[j].owed /\ files'[j].last = files[j].last
            /\ files'[j].prevcount = files[j].prevcount
  <2>1. PICK f \in Entries : f = files[j]
    BY <1>3
  <2>2. PICK h : h = files'[j]
    OBVIOUS
  <2>3. h = [f EXCEPT !.age = Smaller(@ + 1, MaxAge)]
    BY <1>1, <1>3, <2>1, <2>2
  <2>4. /\ h \in Entries /\ h.type = f.type /\ h.prev = f.prev
        /\ h.owed = f.owed /\ h.last = f.last /\ h.prevcount = f.prevcount
    BY <2>3, Ageing
  <2>5. QED BY <2>1, <2>2, <2>4
<1>5. files' \in Seq(Entries) /\ Len(files') = Len(files)
  <2>1. DOMAIN files' = 1..Len(files) /\ files' = [j \in 1..Len(files) |-> files'[j]]
    BY <1>1, <1>3
  <2>2. files' \in [1..Len(files) -> Entries]
    BY <1>4, <2>1
  <2>3. QED BY <1>3, <2>2
<1>6. ScalarsOK'
  <2>1. alarm' \in 0..TimerIntvl /\ late' \in 0..MaxAge
    BY <1>1, <1>2, ConstantFacts DEF ScalarsOK, Smaller
  <2>2. QED BY <1>1, <1>2, <2>1 DEF ScalarsOK
<1>7. ~Calling("logmsg") /\ ~Calling("domark")
  BY <1>1 DEF Blocked
<1>8. Idles
  BY <1>1, <1>4, <1>5, <1>6, <1>7 DEF Idles, FilesOK
<1>9. QED BY <1>8, IdlesKept
-----------------------------------------------------------------------------
(* SIGALRM: domark, and the mark it logs, on top of what was interrupted.  *)
Interrupts ==
  /\ files' = files /\ ~Calling("logmsg") /\ ~Calling("domark")
  /\ \/ stack' = <<Call("domark")>> \o stack
     \/ /\ initialized
        /\ stack' = <<Frame("logmsg", 1, "start", MarkMessage)>> \o
                      (<<Call("domark")>> \o stack)
  /\ late' = 0 /\ torn' = (torn \/ Calling("fprintlog"))
  /\ ScalarsOK'
  /\ UNCHANGED <<initialized, reenter, status, wrong>>

(* The stack then, by heights.                                             *)
LEMMA InterruptGrown ==
  ASSUME FramesOK, Interrupts, NEW n, n = Height
  PROVE /\ n \in Nat /\ stack' \in Seq(Frames) /\ Len(stack') \in {n + 1, n + 2}
        /\ At(stack', n + 1).op = "domark" /\ At(stack', n + 1).i = 1
        /\ At(stack', n + 1).at = "start"
        /\ \A d \in 1..n : At(stack', d) = At(stack, d)
        /\ Len(stack') = n + 2 =>
             /\ initialized
             /\ At(stack', n + 2) = Frame("logmsg", 1, "start", MarkMessage)
<1>1. stack \in Seq(Frames) /\ n = Len(stack) /\ n \in Nat
  BY DEF FramesOK, Height
<1>2. PICK s, t, c : /\ s = stack /\ c = Call("domark") /\ t = <<c>> \o s
  OBVIOUS
<1>3. c \in Frames /\ c.op = "domark" /\ c.i = 1 /\ c.at = "start"
  BY <1>2, CallFacts
<1>4. /\ t \in Seq(Frames) /\ Len(t) = n + 1 /\ At(t, n + 1) = c
      /\ \A d \in 1..n : At(t, d) = At(s, d)
  BY <1>1, <1>2, <1>3, OnTop
<1>5. CASE stack' = t
  <2>1. n + 1 # n + 2
    BY <1>1
  <2>2. QED BY <1>1, <1>2, <1>3, <1>4, <1>5, <2>1
<1>6. CASE /\ initialized
           /\ stack' = <<Frame("logmsg", 1, "start", MarkMessage)>> \o t
  <2>1. PICK lm : lm = Frame("logmsg", 1, "start", MarkMessage)
    OBVIOUS
  <2>2. lm \in Frames
    BY <2>1, TextFacts, LogFrameFacts
  <2>3. /\ stack' \in Seq(Frames) /\ Len(stack') = Len(t) + 1
        /\ At(stack', Len(t) + 1) = lm
        /\ \A d \in 1..Len(t) : At(stack', d) = At(t, d)
    BY <1>4, <1>6, <2>1, <2>2, OnTop
  <2>4. Len(t) + 1 = n + 2 /\ n + 1 \in 1..(n + 1) /\ \A d \in 1..n : d \in 1..(n + 1)
    BY <1>1, <1>4
  <2>5. QED BY <1>1, <1>2, <1>3, <1>4, <1>6, <2>1, <2>3, <2>4
<1>7. QED BY <1>2, <1>5, <1>6 DEF Interrupts

(* Such a step keeps the invariant.                                        *)
LEMMA InterruptsKept ==
  ASSUME SyslogdInv, Interrupts
  PROVE SyslogdInv'
<1>0. TypesInv /\ CountInv /\ CallInv /\ CloseInv
  BY DEF SyslogdInv
<1>1. FramesOK /\ Len(files) \in Nat
  BY <1>0 DEF TypesInv, FilesOK
<1>2. PICK n : n = Height
  OBVIOUS
<1>3. PICK lm : lm = Frame("logmsg", 1, "start", MarkMessage)
  OBVIOUS
<1>4. /\ lm.op = "logmsg" /\ lm.i = 1 /\ lm.at = "start" /\ lm.m = MarkMessage
      /\ MarkMessage \in Messages /\ MarkMessage.text # ""
      /\ Key(MarkMessage) # Key(ExitMessage)
  <2>1. /\ MarkMessage \in Messages /\ MarkMessage.text # ""
        /\ Key(MarkMessage) # Key(ExitMessage)
    BY TextFacts
  <2>2. PICK m \in Messages : m = MarkMessage
    BY <2>1
  <2>3. lm.op = "logmsg" /\ lm.i = 1 /\ lm.at = "start" /\ lm.m = m
    BY <1>3, <2>2, LogFrameFacts
  <2>4. QED BY <2>1, <2>2, <2>3
<1>5. /\ n \in Nat /\ stack' \in Seq(Frames) /\ Len(stack') \in {n + 1, n + 2}
      /\ At(stack', n + 1).op = "domark" /\ At(stack', n + 1).i = 1
      /\ At(stack', n + 1).at = "start"
      /\ \A d \in 1..n : At(stack', d) = At(stack, d)
      /\ Len(stack') = n + 2 => initialized /\ At(stack', n + 2) = lm
  BY <1>1, <1>2, <1>3, InterruptGrown
<1>6. PICK p : p = Len(stack')
  OBVIOUS
<1>7. Height' = p /\ p \in {n + 1, n + 2} /\ p \in Nat
  BY <1>5, <1>6 DEF Height
<1>8. \A d \in 1..p :
        \/ d \in 1..n /\ d # n + 1 /\ d # n + 2 /\ At(stack', d) = At(stack, d)
        \/ d = n + 1 /\ d \notin 1..n
        \/ d = n + 2 /\ d \notin 1..n /\ At(stack', d) = lm /\ initialized
  <2>1. ASSUME NEW d \in 1..p
        PROVE \/ d \in 1..n /\ d # n + 1 /\ d # n + 2
              \/ d = n + 1 /\ d \notin 1..n
              \/ d = n + 2 /\ d \notin 1..n /\ p = n + 2
    BY <1>5, <1>7
  <2>2. QED BY <1>5, <1>6, <2>1
<1>9. /\ \A d \in 1..n : At(stack, d).op # "logmsg" /\ At(stack, d).op # "domark"
      /\ ~Calling("fprintlog") =>
           \A d \in 1..n : At(stack, d).op # "fprintlog"
  BY <1>1, <1>2, CallingByHeight DEF Interrupts
<1>10. /\ files' = files /\ late' = 0 /\ torn' = (torn \/ Calling("fprintlog"))
       /\ ScalarsOK' /\ initialized' = initialized /\ reenter' = reenter
       /\ status' = status /\ wrong' = wrong
  BY DEF Interrupts
<1>11. initialized => \A d \in 1..n : At(stack, d).op # "fprintlog"
  <2>1. SUFFICES ASSUME initialized, NEW d \in 1..n,
                        At(stack, d).op = "fprintlog"
                 PROVE FALSE
    OBVIOUS
  <2>2. /\ d > 1
        /\ \/ At(stack, d - 1).op \in {"logmsg", "domark"}
           \/ At(stack, d - 1).op = "init" /\ At(stack, d - 1).at = "free"
           \/ At(stack, d - 1).op = "die" /\ At(stack, d - 1).at = "start"
    BY <1>0, <1>2, <2>1 DEF CallInv, CallerOK
  <2>3. d - 1 \in 1..n
    BY <1>5, <2>2
  <2>4. ~(\/ At(stack, d - 1).op = "init" /\ At(stack, d - 1).at # "done"
          \/ At(stack, d - 1).op = "die" /\ At(stack, d - 1).at = "start")
    BY <1>0, <1>2, <2>1, <2>3 DEF CallInv, ModeOK
  <2>5. QED BY <1>9, <2>2, <2>3, <2>4
<1>12. ~torn' => ~torn /\ \A d \in 1..n : At(stack, d).op # "fprintlog"
  BY <1>9, <1>10
<1>13. \A d \in 1..n : FrameOK(At(stack, d), Len(files))
  BY <1>1, <1>2 DEF FramesOK
<1>14. FramesOK'
  <2>1. 1 \in 1..(Len(files) + 1)
    BY <1>1
  <2>2. FrameOK(At(stack', n + 1), Len(files))
    BY <1>5, <2>1 DEF FrameOK
  <2>3. FrameOK(lm, Len(files))
    BY <1>4, <2>1 DEF FrameOK
  <2>4. QED BY <1>5, <1>7, <1>8, <1>10, <1>13, <2>2, <2>3 DEF FramesOK
<1>15. EntriesOK' /\ LastOK' /\ FilesOK'
  BY <1>0, <1>10 DEF CountInv, EntriesOK, LastOK, TypesInv, FilesOK
<1>16. /\ \A i : ~TopPrints(i)'
  <2>1. p \in 1..p /\ p # 0 /\ (p = n + 1 \/ p = n + 2) /\ n + 2 # n + 1
    BY <1>5, <1>7
  <2>2. At(stack', p).op # "fprintlog"
    BY <1>4, <1>5, <1>6, <2>1
  <2>3. QED BY <1>7, <2>2 DEF TopPrints
<1>17. CountOK'
  <2>1. SUFFICES ASSUME ~torn', NEW i \in 1..Len(files), Tracked(files[i])
                 PROVE files[i].owed = Copies(files[i])
    BY <1>10, <1>16 DEF CountOK
  <2>2. ~TopPrints(i)
    <3>1. n > 0 => n \in 1..n
      BY <1>5
    <3>2. QED BY <1>2, <1>12, <2>1, <3>1 DEF TopPrints
  <2>3. QED BY <1>0, <1>12, <2>1, <2>2 DEF CountInv, CountOK
<1>18. TopOK'
  <2>1. \A d \in 1..(p - 1) : d \in 1..p
    BY <1>7
  <2>2. SUFFICES ASSUME ~torn' \/ initialized, NEW d \in 1..p
                 PROVE At(stack', d).op # "fprintlog"
    BY <1>7, <1>10, <2>1 DEF TopOK
  <2>3. QED BY <1>4, <1>5, <1>8, <1>11, <1>12, <2>2
<1>19. PendingOK'
  BY <1>0, <1>2, <1>4, <1>5, <1>7, <1>8, <1>10 DEF CountInv, PendingOK
<1>20. WrongOK'
  BY <1>0, <1>10 DEF CountInv, WrongOK
<1>21. TextOK'
  BY <1>4, <1>5, <1>7, <1>8, <1>9 DEF TextOK
<1>22. ModeOK'
  <2>1. /\ \A d \in 1..n : At(stack, d).op \in {"init", "die"} => d = 1
        /\ \A d \in 1..n :
             \/ At(stack, d).op = "init" /\ At(stack, d).at # "done"
             \/ At(stack, d).op = "die" /\ At(stack, d).at = "start"
             => ~initialized
    BY <1>0, <1>2 DEF CallInv, ModeOK
  <2>2. QED BY <1>4, <1>5, <1>7, <1>8, <1>9, <1>10, <2>1 DEF ModeOK
<1>23. \A d \in 1..n : d > 1 => d - 1 \in 1..n /\ At(stack', d - 1) = At(stack, d - 1)
  <2>1. \A d \in 1..n : d > 1 => d - 1 \in 1..n
    BY <1>5
  <2>2. QED BY <1>5, <2>1
<1>24. CallerOK'
  <2>1. SUFFICES ASSUME NEW d \in 1..p, At(stack', d).op = "fprintlog"
                 PROVE /\ d > 1
                       /\ \/ At(stack', d - 1).op \in {"logmsg", "domark"}
                          \/ /\ At(stack', d - 1).op = "init"
                             /\ At(stack', d - 1).at = "free"
                          \/ /\ At(stack', d - 1).op = "die"
                             /\ At(stack', d - 1).at = "start"
    BY <1>7 DEF CallerOK
  <2>2. d \in 1..n /\ At(stack, d).op = "fprintlog"
    BY <1>4, <1>5, <1>8, <2>1
  <2>3. /\ d > 1
        /\ \/ At(stack, d - 1).op \in {"logmsg", "domark"}
           \/ At(stack, d - 1).op = "init" /\ At(stack, d - 1).at = "free"
           \/ At(stack, d - 1).op = "die" /\ At(stack, d - 1).at = "start"
    BY <1>0, <1>2, <2>2 DEF CallInv, CallerOK
  <2>4. QED BY <1>23, <2>2, <2>3
<1>25. LogOverOK'
  <2>1. SUFFICES ASSUME NEW d \in 2..p, At(stack', d).op = "logmsg"
                 PROVE At(stack', d - 1).op = "domark"
    BY <1>7 DEF LogOverOK
  <2>2. d \in 1..p
    BY <1>7
  <2>3. d = n + 2
    BY <1>5, <1>8, <1>9, <2>1, <2>2
  <2>4. d - 1 = n + 1
    BY <1>5, <2>3
  <2>5. QED BY <1>5, <2>4
<1>26. DomarkOK'
  <2>1. SUFFICES ASSUME NEW d \in 1..p, NEW e \in 1..p,
                        At(stack', d).op = "domark", e < d
                 PROVE At(stack', e).op \notin {"logmsg", "domark"}
    BY <1>7 DEF DomarkOK
  <2>2. d = n + 1
    BY <1>4, <1>8, <1>9, <2>1
  <2>3. e \in 1..n
    BY <1>5, <2>1, <2>2
  <2>4. QED BY <1>5, <1>9, <2>3
<1>27. CausesOK'
  <2>1. ASSUME NEW d \in 1..p, Reports(d)' PROVE FALSE
    <3>1. At(stack', d).op = "logmsg" /\ At(stack', d - 1).op = "fprintlog"
      BY <2>1 DEF Reports
    <3>2. d = n + 2
      BY <1>5, <1>8, <1>9, <2>1, <3>1
    <3>3. d - 1 = n + 1
      BY <1>5, <3>2
    <3>4. QED BY <1>5, <3>1, <3>3
  <2>2. QED BY <1>7, <2>1 DEF CausesOK
<1>28. \A d \in 1..p : Walling(d)' => Walling(d) /\ d \in 1..n
  <2>1. SUFFICES ASSUME NEW d \in 1..p, Walling(d)'
                 PROVE Walling(d) /\ d \in 1..n
    OBVIOUS
  <2>2. /\ At(stack', d).op = "fprintlog"
        /\ \/ At(stack', d).at = "endutent"
           \/ d < p /\ At(stack', d + 1).op = "logmsg"
    BY <1>7, <2>1 DEF Walling
  <2>3. d \in 1..n /\ At(stack', d) = At(stack, d)
    BY <1>4, <1>5, <1>8, <2>2
  <2>4. CASE At(stack', d).at = "endutent"
    BY <2>2, <2>3, <2>4 DEF Walling
  <2>5. CASE d < p /\ At(stack', d + 1).op = "logmsg"
    <3>1. d + 1 \in 1..p /\ d + 1 # n + 2
      BY <1>5, <1>7, <2>3, <2>5
    <3>2. At(stack', d + 1).op # "logmsg"
      BY <1>5, <1>8, <1>9, <3>1
    <3>3. QED BY <2>5, <3>2
  <2>6. QED BY <2>2, <2>4, <2>5
<1>29. WallOK'
  BY <1>0, <1>2, <1>7, <1>10, <1>28 DEF CallInv, WallOK
<1>30. SaveOK'
  <2>1. \A d \in 1..p : At(stack', d).op = "logmsg" => At(stack', d).at = "start"
    BY <1>4, <1>5, <1>8, <1>9
  <2>2. QED BY <1>7, <2>1 DEF SaveOK
<1>31. FlushedOK'
  <2>1. \A d \in 1..n :
          \/ At(stack, d).op = "init" /\ At(stack, d).at # "done"
          \/ At(stack, d).op = "die" /\ At(stack, d).at = "start"
          => Flushed(At(stack, d), files)
    BY <1>0, <1>2 DEF CloseInv, FlushedOK
  <2>2. QED BY <1>4, <1>5, <1>7, <1>8, <1>10, <2>1 DEF FlushedOK
<1>32. Exiting' <=> Exiting
  <2>1. \A d \in 1..n : d \in 1..p
    BY <1>5, <1>7
  <2>2. QED BY <1>2, <1>4, <1>5, <1>7, <1>8, <1>10, <2>1 DEF Exiting
<1>33. ExitOK'
  <2>1. SUFFICES ASSUME ExitTextOwn PROVE ExitOK'
    BY DEF ExitOK
  <2>2. /\ Exiting => \A i \in 1..Len(files) : OnlyErrors(files[i])
        /\ ~Exiting => \A i \in 1..Len(files) : files[i].prev # Key(ExitMessage)
    BY <1>0, <2>1 DEF CloseInv, ExitOK
  <2>3. \A d \in 1..p : At(stack', d).op = "logmsg" => At(stack', d).m = MarkMessage
    BY <1>4, <1>5, <1>8, <1>9
  <2>4. QED BY <1>4, <1>7, <1>10, <1>32, <2>2, <2>3 DEF ExitOK
<1>34. QED
  BY <1>10, <1>14, <1>15, <1>17, <1>18, <1>19, <1>20, <1>21, <1>22, <1>24, <1>25,
     <1>26, <1>27, <1>29, <1>30, <1>31, <1>33
  DEF SyslogdInv, TypesInv, CountInv, CallInv, CloseInv

(* The handler of SIGALRM keeps the invariant.                             *)
LEMMA AlarmKept ==
  ASSUME SyslogdInv, Alarm
  PROVE SyslogdInv'
<1>1. /\ status = "up" /\ ~Blocked /\ late' = 0
      /\ torn' = (torn \/ Calling("fprintlog"))
      /\ UNCHANGED <<conf, files, initialized, restart, reenter, woken, alarm,
                     was_initialized, masked, wrong, hopped>>
  BY DEF Alarm, saved
<1>2. \/ stack' = <<>> /\ status' = "undefined"
      \/ /\ status' = "up"
         /\ \/ stack' = Logging(MarkMessage, <<Call("domark")>> \o stack)
            \/ stack' = <<Call("domark")>> \o stack
  BY DEF Alarm
<1>3. ScalarsOK /\ FilesOK /\ WrongOK /\ FramesOK
  BY DEF SyslogdInv, TypesInv, CountInv
<1>4. torn' \in BOOLEAN /\ (torn => torn')
  BY <1>1, <1>3 DEF Calling, ScalarsOK
<1>5. markseq' \in 0..MarkInterval
  <2>1. markseq \in 0..MarkInterval
    BY <1>3 DEF ScalarsOK
  <2>2. \/ markseq' = 0
        \/ /\ markseq' = markseq + 1 /\ MarkInterval # 0
           /\ ~(MarkInterval > 0 /\ markseq + 1 >= MarkInterval)
    BY DEF Alarm
  <2>3. QED BY <2>1, <2>2, ConstantFacts
<1>6. ScalarsOK' /\ FilesOK' /\ WrongOK'
  <2>1. 0 \in 0..MaxAge
    BY ConstantFacts
  <2>2. QED BY <1>1, <1>2, <1>3, <1>4, <1>5, <2>1 DEF ScalarsOK, FilesOK, WrongOK
<1>7. CASE stack' = <<>> /\ status' = "undefined"
  <2>1. AllQuiet'
    <3>1. ~torn' => \A i \in 1..Len(files) : ~TopPrints(i)
      BY <1>1, <1>3, NotPrinting
    <3>2. QED BY <1>1, <1>4, <3>1, StaysQuiet
  <2>2. ExitTextOwn =>
          \A i \in 1..Len(files') : files'[i].prev # Key(ExitMessage)
    <3>1. Freed
      BY <1>7 DEF Alarm
    <3>2. PICK k \in DOMAIN stack : stack[k].op = "init"
      BY <3>1 DEF Freed
    <3>3. Calling("init")
      BY <3>2 DEF Calling
    <3>4. PICK d \in 1..Height : At(stack, d).op = "init"
      BY <1>3, <3>3, CallingByHeight
    <3>5. /\ \A e \in 1..Height : At(stack, e).op \in {"init", "die"} => e = 1
      BY DEF SyslogdInv, CallInv, ModeOK
    <3>6. \A e \in 1..Height : At(stack, e).op # "die"
      BY <3>4, <3>5
    <3>7. QED BY <1>1, <3>6, NotYetExiting
  <2>3. QED BY <1>6, <1>7, <2>1, <2>2, EmptyNext
<1>8. CASE /\ status' = "up"
           /\ \/ stack' = Logging(MarkMessage, <<Call("domark")>> \o stack)
              \/ stack' = <<Call("domark")>> \o stack
  <2>1. \/ stack' = <<Call("domark")>> \o stack
        \/ /\ initialized
           /\ stack' = <<Frame("logmsg", 1, "start", MarkMessage)>> \o
                         (<<Call("domark")>> \o stack)
    BY <1>8 DEF Logging
  <2>2. ~Calling("logmsg") /\ ~Calling("domark")
    BY <1>1 DEF Blocked
  <2>3. Interrupts
    BY <1>1, <1>6, <1>8, <2>1, <2>2 DEF Interrupts
  <2>4. QED BY <2>3, InterruptsKept
<1>9. QED BY <1>2, <1>7, <1>8

-----------------------------------------------------------------------------
(* Every step keeps the invariant.                                         *)
LEMMA StepInv ==
  SyslogdInv /\ [Next]_vars => SyslogdInv'
<1>1. SUFFICES ASSUME SyslogdInv, [Next]_vars PROVE SyslogdInv'
  OBVIOUS
<1>2. CASE Poll \/ Receive
  BY <1>1, <1>2, MainKept
<1>3. CASE Reset
  BY <1>1, <1>3, ResetKept
<1>4. CASE Alarm
  BY <1>1, <1>4, AlarmKept
<1>5. CASE LogmsgEnds \/ DomarkEnds \/ InitEnds
  BY <1>1, <1>5, EndsKept
<1>6. CASE LogmsgSkips \/ DomarkSkips
  BY <1>1, <1>6, SkipsKept
<1>7. CASE LogmsgCounts
  BY <1>1, <1>7, CountsKept
<1>8. CASE LogmsgFlushes \/ DomarkFlushes \/ InitFlushes
  BY <1>1, <1>8, FlushesKept
<1>9. CASE LogmsgSaves
  BY <1>1, <1>9, SavesKept
<1>10. CASE BacksOff
  BY <1>1, <1>10, BacksOffKept
<1>11. CASE InitFrees
  BY <1>1, <1>11, FreesKept
<1>12. CASE InitLoads
  BY <1>1, <1>12, InitLoadsKept
<1>13. CASE DieFlushes
  BY <1>1, <1>13, DieFlushesKept
<1>14. CASE DieLogs
  BY <1>1, <1>14, DieLogsKept
<1>15. CASE DieExits
  BY <1>1, <1>15, DieExitsKept
<1>16. CASE Term
  BY <1>1, <1>16, TermKept
<1>17. CASE Tick
  BY <1>1, <1>17, TickKept
<1>18. CASE Hup \/ UNCHANGED vars
  BY <1>1, <1>18, HupKept
<1>19. CASE Done
  BY <1>1, <1>19, HupKept DEF Done
<1>20. QED
  BY <1>1, <1>2, <1>3, <1>4, <1>5, <1>6, <1>7, <1>8, <1>9, <1>10, <1>11, <1>12,
     <1>13, <1>14, <1>15, <1>16, <1>17, <1>18, <1>19 DEF Next, Run
-----------------------------------------------------------------------------
(* Types.                                                                  *)
LEMMA InvTypes ==
  ASSUME SyslogdInv
  PROVE TypeOK
<1>1. ScalarsOK /\ FramesOK /\ files \in Seq(Entries)
  BY DEF SyslogdInv, TypesInv, FilesOK
<1>2. \A i \in DOMAIN files :
       /\ files[i].type \in Types /\ files[i].age \in 0..MaxAge
       /\ files[i].prevcount \in Nat
       /\ files[i].repeatcount \in 0..(Len(RepeatInterval) - 1)
  <2>1. \A i \in DOMAIN files : files[i] \in Entries
    BY <1>1
  <2>2. QED BY <2>1, EntryFacts
<1>3. {initialized, restart, reenter, woken, was_initialized, masked, wrong,
       torn, hopped} \subseteq BOOLEAN
  BY <1>1 DEF ScalarsOK
<1>4. \A k \in DOMAIN stack :
        stack[k].op \in {"logmsg", "fprintlog", "domark", "init", "die"}
  <2>1. \A k \in DOMAIN stack : stack[k] \in Frames
    BY <1>1 DEF FramesOK
  <2>2. QED BY <2>1 DEF Frames
<1>5. QED BY <1>1, <1>2, <1>3, <1>4 DEF TypeOK, ScalarsOK

(* What is not written is counted.                                         *)
LEMMA InvAccounted ==
  ASSUME SyslogdInv
  PROVE Accounted
<1>1. FramesOK /\ files \in Seq(Entries) /\ CountOK /\ PendingOK
  BY DEF SyslogdInv, TypesInv, CountInv, FilesOK
<1>2. SUFFICES ASSUME ~torn, NEW i \in DOMAIN files, Tracked(files[i]),
                      NEW written, written = \E k \in DOMAIN stack :
                         stack[k].op = "fprintlog" /\ stack[k].i = i
               PROVE files[i].owed = IF written THEN <<>>
                       ELSE [k \in 1..files[i].prevcount |-> files[i].prev]
  BY DEF Accounted
<1>3. i \in 1..Len(files)
  BY <1>1
<1>4. written <=> \E d \in 1..Height :
                    At(stack, d).op = "fprintlog" /\ At(stack, d).i = i
  <2>1. stack \in Seq(Frames)
    BY <1>1 DEF FramesOK
  <2>2. /\ DOMAIN stack = 1..Height
        /\ \A k \in 1..Height : /\ Height + 1 - k \in 1..Height
                                /\ stack[k] = At(stack, Height + 1 - k)
        /\ \A d \in 1..Height : /\ Height + 1 - d \in 1..Height
                                /\ At(stack, d) = stack[Height + 1 - d]
    BY <2>1, Heights DEF Height
  <2>3. ASSUME NEW k \in DOMAIN stack, stack[k].op = "fprintlog", stack[k].i = i
        PROVE \E d \in 1..Height :
                At(stack, d).op = "fprintlog" /\ At(stack, d).i = i
    BY <2>2, <2>3
  <2>4. ASSUME NEW d \in 1..Height,
               At(stack, d).op = "fprintlog", At(stack, d).i = i
        PROVE \E k \in DOMAIN stack : stack[k].op = "fprintlog" /\ stack[k].i = i
    BY <2>2, <2>4
  <2>5. QED BY <1>2, <2>3, <2>4
<1>5. CASE written
  BY <1>1, <1>4, <1>5 DEF PendingOK
<1>6. CASE ~written
  <2>1. ~TopPrints(i)
    <3>1. Height > 0 => Height \in 1..Height
      BY <1>1 DEF FramesOK, Height
    <3>2. QED BY <1>4, <1>6, <3>1 DEF TopPrints
  <2>2. files[i].owed = Copies(files[i])
    BY <1>1, <1>2, <1>3, <2>1 DEF CountOK
  <2>3. QED BY <1>6, <2>2 DEF Copies
<1>7. QED BY <1>2, <1>5, <1>6

(* There is one message that is not about a failure of fprintlog.          *)
LEMMA OneBase ==
  ASSUME SyslogdInv, NEW d \in 1..Height, NEW e \in 1..Height, d < e,
         At(stack, d).op = "logmsg", At(stack, e).op = "logmsg",
         ~Reports(d), ~Reports(e)
  PROVE FALSE
<1>1. Height \in Nat /\ LogOverOK /\ ModeOK /\ DomarkOK
  BY DEF SyslogdInv, TypesInv, FramesOK, CallInv, Height
<1>2. e \in 2..Height /\ e > 1 /\ e - 1 \in 1..Height /\ d <= e - 1
  BY <1>1
<1>3. \/ At(stack, e - 1).op = "domark"
      \/ At(stack, e - 1).op \in {"init", "die"}
  BY <1>1, <1>2 DEF LogOverOK, Reports
<1>4. d # e - 1
  BY <1>3
<1>5. d < e - 1
  BY <1>1, <1>2, <1>4
<1>6. CASE At(stack, e - 1).op = "domark"
  BY <1>1, <1>2, <1>5, <1>6 DEF DomarkOK
<1>7. CASE At(stack, e - 1).op \in {"init", "die"}
  <2>1. e - 1 = 1
    BY <1>1, <1>2, <1>7 DEF ModeOK
  <2>2. QED BY <1>1, <1>5, <2>1
<1>8. QED BY <1>3, <1>6, <1>7

(* The calls of logmsg are limited by the entries.                         *)
LEMMA InvRecursion ==
  ASSUME SyslogdInv
  PROVE RecursionBounded
<1>1. FramesOK /\ Len(files) \in Nat /\ stack \in Seq(Frames) /\ CausesOK
  BY DEF SyslogdInv, TypesInv, FilesOK, FramesOK, CallInv
<1>2. PICK n, s, z : n = Height /\ s = stack /\ z = Len(files)
  OBVIOUS
<1>3. /\ n \in Nat /\ DOMAIN s = 1..n /\ z \in Nat
      /\ \A k \in 1..n : n + 1 - k \in 1..n /\ s[k] = At(s, n + 1 - k)
  BY <1>1, <1>2, Heights DEF Height
<1>4. PICK K : K = {k \in 1..n : s[k].op = "logmsg"}
  OBVIOUS
<1>5. PICK R : R = {d \in 1..n : Reports(d)}
  OBVIOUS
<1>6. PICK G, F : /\ G = [d \in 1..n |-> IF d \in R THEN At(s, d - 1).i ELSE 0]
                  /\ F = [k \in K |-> G[n + 1 - k]]
  OBVIOUS
<1>7. ASSUME NEW d \in R
      PROVE /\ d \in 1..n /\ Reports(d) /\ d - 1 \in 1..n
            /\ At(s, d - 1).i \in 1..z /\ At(s, d - 1).i # 0
  <2>1. d \in 1..n /\ Reports(d)
    BY <1>5
  <2>2. d > 1 /\ At(s, d - 1).op = "fprintlog"
    BY <1>2, <2>1 DEF Reports
  <2>3. d - 1 \in 1..n
    BY <1>3, <2>1, <2>2
  <2>4. At(s, d - 1).i \in 1..z
    BY <1>1, <1>2, <2>2, <2>3 DEF FramesOK, FrameOK
  <2>5. At(s, d - 1).i # 0
    BY <1>3, <2>4
  <2>6. QED BY <2>1, <2>3, <2>4, <2>5
<1>8. F \in [K -> 0..z]
  <2>1. ASSUME NEW k \in K PROVE F[k] \in 0..z
    <3>1. PICK d \in 1..n : d = n + 1 - k
      BY <1>3, <1>4
    <3>2. F[k] = IF d \in R THEN At(s, d - 1).i ELSE 0
      BY <1>6, <3>1
    <3>3. d \in R => At(s, d - 1).i \in 0..z
      <4>1. d \in R => At(s, d - 1).i \in 1..z
        BY <1>7
      <4>2. QED BY <1>3, <4>1
    <3>4. 0 \in 0..z
      BY <1>3
    <3>5. QED BY <3>2, <3>3, <3>4
  <2>2. QED BY <1>6, <2>1
<1>9. ASSUME NEW k \in K, NEW l \in K, F[k] = F[l] PROVE k = l
  <2>1. PICK d, e : d = n + 1 - k /\ e = n + 1 - l
    OBVIOUS
  <2>2. /\ k \in 1..n /\ l \in 1..n /\ d \in 1..n /\ e \in 1..n
        /\ At(s, d).op = "logmsg" /\ At(s, e).op = "logmsg"
    BY <1>3, <1>4, <2>1
  <2>3. /\ d \in R => F[k] = At(s, d - 1).i
        /\ d \notin R => F[k] = 0
        /\ e \in R => F[l] = At(s, e - 1).i
        /\ e \notin R => F[l] = 0
    BY <1>6, <2>1, <2>2
  <2>4. d \in R <=> e \in R
    BY <1>7, <1>9, <2>3
  <2>5. CASE d \in R
    <3>1. Reports(d) /\ Reports(e) /\ At(s, d - 1).i = At(s, e - 1).i
      BY <1>7, <1>9, <2>3, <2>4, <2>5
    <3>2. d = e
      BY <1>1, <1>2, <2>2, <3>1 DEF CausesOK
    <3>3. QED BY <1>3, <2>1, <2>2, <3>2
  <2>6. CASE d \notin R
    <3>1. ~Reports(d) /\ ~Reports(e)
      BY <1>5, <2>2, <2>4, <2>6
    <3>2. ~(d < e) /\ ~(e < d)
      BY <1>2, <2>2, <3>1, OneBase
    <3>3. QED BY <1>3, <2>1, <2>2, <3>2
  <2>7. QED BY <2>5, <2>6
<1>10. F \in Injection(K, 0..z)
  BY <1>8, <1>9 DEF Injection, IsInjective
<1>11. IsFiniteSet(0..z) /\ Cardinality(0..z) = z + 1
  <2>1. 0 \in Int /\ z \in Int /\ ~(0 > z) /\ z - 0 + 1 = z + 1
    BY <1>3
  <2>2. QED BY <2>1, FS_Interval
<1>12. Cardinality(K) <= z + 1
  BY <1>10, <1>11, FS_Injection
<1>13. QED BY <1>2, <1>3, <1>4, <1>12 DEF RecursionBounded

(* What is closed was flushed.                                             *)
LEMMA InvFlushed ==
  ASSUME ExitTextOwn, SyslogdInv
  PROVE FlushedWhenClosed
<1>1. FramesOK /\ Len(files) \in Nat /\ stack \in Seq(Frames) /\ FlushedOK
      /\ ExitOK /\ files \in Seq(Entries)
  BY DEF SyslogdInv, TypesInv, FilesOK, FramesOK, CloseInv
<1>2. ASSUME NEW k \in DOMAIN stack, stack[k].op = "init", stack[k].at # "done",
             NEW j \in 1..(stack[k].i - 1)
      PROVE files[j].owed = <<>>
  <2>1. PICK d \in 1..Height : At(stack, d) = stack[k]
    BY <1>1, Heights DEF Height
  <2>2. Flushed(stack[k], files)
    BY <1>1, <1>2, <2>1 DEF FlushedOK
  <2>3. stack[k].i \in 1..(Len(files) + 1)
    BY <1>1, <1>2, <2>1 DEF FramesOK, FrameOK
  <2>4. j \in 1..Len(files) /\ j < stack[k].i
    BY <1>1, <2>3
  <2>5. QED BY <2>2, <2>4 DEF Flushed
<1>3. ASSUME status = "exited", NEW i \in DOMAIN files,
             NEW k \in DOMAIN files[i].owed
      PROVE files[i].owed[k] = Key(ErrorMessage)
  <2>1. Exiting
    BY <1>3 DEF Exiting
  <2>2. i \in 1..Len(files) /\ files[i] \in Entries
    BY <1>1
  <2>3. OnlyErrors(files[i])
    BY <1>1, <2>1, <2>2 DEF ExitOK
  <2>4. files[i].owed \in Seq(Keys)
    BY <2>2, EntryFacts
  <2>5. k \in 1..Len(files[i].owed)
    BY <2>4
  <2>6. QED BY <2>3, <2>5 DEF OnlyErrors
<1>4. QED BY <1>2, <1>3 DEF FlushedWhenClosed
-----------------------------------------------------------------------------
(* For every table of entries, every number of them, all texts but the     *)
(* empty one and any interleaving of messages, failures and signals: what  *)
(* was logged to a file is in it or counted, "last message repeated n      *)
(* times" never stands for anything else unless a handler tore fprintlog,  *)
(* and logmsg calls itself at most once for each entry.                    *)
THEOREM NothingIsLost ==
  ASSUME TextsNotEmpty PROVE Spec => []NothingLost
<1>1. SyslogdInv => NothingLost
  BY InvTypes, InvAccounted, InvRecursion
  DEF NothingLost, SyslogdInv, CountInv, WrongOK, NothingInvented
<1>2. QED BY <1>1, InitInv, StepInv, PTL DEF Spec

(* Nothing is counted of an entry that init closes, nor when the daemon    *)
(* has exited, but for errors that were repeated while it did.  No message *)
(* says what die logs.                                                     *)
THEOREM FlushedAtClose ==
  ASSUME ExitTextOwn PROVE Spec => []FlushedWhenClosed
<1>1. SyslogdInv => FlushedWhenClosed
  BY InvFlushed
<1>2. QED BY <1>1, InitInv, StepInv, PTL DEF Spec

===============================================================================
