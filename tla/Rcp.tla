-------------------------------- MODULE Rcp --------------------------------
(***************************************************************************)
(* rcp (src/rcp.c): a client copies its operands one after the other, each *)
(* over a connection of its own to a second rcp that rshd has started with *)
(* -t (a sink) or -f (a source).  One side runs source () over a tree of   *)
(* files, the other sink ().  Every record of the source is answered by    *)
(* one byte, so the two must agree at every moment on whose turn it is and *)
(* on whether records or the bytes of a file come next.                    *)
(*                                                                         *)
(* A record, an answer and a block of a file are one token each: T, C, D   *)
(* and E are the control records, "ok" is the byte 0, "err" the byte 1     *)
(* with its line; a fatal answer (byte 2) is never sent.  Where the sink   *)
(* reads records as the bytes of a file, each counts for one block: a file *)
(* of one block is as short as a record, others are longer.  System calls  *)
(* may fail where the code looks at their outcome, and the connection may  *)
(* be lost at any moment.                                                  *)
(***************************************************************************)
EXTENDS Naturals, Sequences, SequencesExt, FiniteSets

CONSTANTS Trees,     \* what an operand names: sequences over {"file", "dir", "end"}
          Sizes,     \* the blocks a file may have
          MaxOps,    \* operands of one command
          MaxFaults  \* failing calls and lost connections in one command

VARIABLES
  main,     \* the client: [mode, preserve, root, ops, op, k, lost, status]
  s,        \* the side that runs source ()
  t,        \* the side that runs sink ()
  toSink, toSource,  \* the two directions of the connection
  faults,   \* failures so far
  cut,      \* the connection was lost
  stored    \* <<operand, place in its tree>> of the files stored complete

vars == <<main, s, t, toSink, toSource, faults, cut, stored>>

To == main.mode = "to"
Tree == main.ops[main.op].tree

\* The globals of a process: where it waits (k), its errors, its place in the tree.
\* nobuf, for the properties: no buffer was had for a file already announced.
NewSource == [k |-> "greeting", errs |-> 0, pos |-> 1, left |-> 0, haderr |-> FALSE, nobuf |-> FALSE]
NewSink   == [k |-> "start", errs |-> 0, setimes |-> FALSE, outer |-> <<>>, pos |-> 0, left |-> 0, wrerr |-> "NO", whole |-> TRUE]

Operands == [kind : {"remote"}, tree : Trees] \cup {[kind |-> "local", tree |-> <<>>], [kind |-> "badname", tree |-> <<>>]}

Init ==
  /\ \E mode \in {"to", "from"}, preserve \in BOOLEAN, root \in BOOLEAN :
       \E ops \in UNION {[1 .. n -> Operands] : n \in 1 .. MaxOps} :
         main = [mode |-> mode, preserve |-> preserve, root |-> root, ops |-> ops, op |-> 0, k |-> "next", lost |-> FALSE, status |-> 0]
  /\ s = [NewSource EXCEPT !.k = "closed"] /\ t = [NewSink EXCEPT !.k = "closed"]
  /\ toSink = <<>> /\ toSource = <<>>
  /\ faults = 0 /\ cut = FALSE /\ stored = {}

\* A call fails or not: the outcome \in BOOLEAN, counted against the bound.
Fails(bad) == /\ bad => faults < MaxFaults
              /\ faults' = IF bad THEN faults + 1 ELSE faults

NoFault == UNCHANGED <<faults, cut>>

-----------------------------------------------------------------------------
(* The client: main, toremote and tolocal.                                 *)

\* exit (errs): the kernel keeps eight bits.
ExitStatus(errs) == errs % 256

Exits(status) == main' = [main EXCEPT !.k = "done", !.status = status]

\* The loop of toremote and tolocal over the operands.  What is left of the
\* process at the far end of the last connection is not followed further.
NextOperand ==
  /\ main.k = "next" /\ main.op < Len(main.ops)
  /\ main' = [main EXCEPT !.op = @ + 1, !.k = main.ops[main.op + 1].kind]
  /\ s' = [s EXCEPT !.k = "closed"] /\ t' = [t EXCEPT !.k = "closed"]
  /\ UNCHANGED <<toSink, toSource, stored>> /\ NoFault

\* An operand whose user name okname refuses is skipped.
okname ==
  /\ main.k = "badname"
  /\ main' = [main EXCEPT !.k = "next"]
  /\ UNCHANGED <<s, t, toSink, toSource, stored>> /\ NoFault

\* Both ends on one host: cp, or rsh of a third party, through the shell;
\* tolocal counts a failure, toremote ignores it.
susystem ==
  /\ main.k = "local"
  /\ \E bad \in BOOLEAN :
       /\ Fails(bad)
       /\ t' = IF ~To /\ bad THEN [t EXCEPT !.errs = @ + 1] ELSE t
  /\ main' = [main EXCEPT !.k = "next"]
  /\ UNCHANGED <<s, toSink, toSource, stored, cut>>

\* rcmd and, on the far side, rshd.  toremote has given up its privileges with
\* the first connection: only root gets a reserved port for the next one.
rcmd ==
  /\ main.k = "remote"
  /\ \E bad \in BOOLEAN :
       LET dropped == To /\ ~main.root /\ \E i \in 1 .. main.op - 1 : main.ops[i].kind = "remote"
           fails   == bad \/ dropped
       IN /\ Fails(bad)
          /\ IF fails
               THEN /\ IF To THEN Exits(1) ELSE main' = [main EXCEPT !.k = "next"]
                    /\ t' = IF To THEN t ELSE [t EXCEPT !.errs = @ + 1]
                    /\ UNCHANGED <<s, toSink, toSource>>
               ELSE /\ main' = [main EXCEPT !.k = "copying"]
                    /\ s' = IF To THEN [NewSource EXCEPT !.errs = s.errs] ELSE NewSource
                    /\ t' = IF To THEN NewSink ELSE [NewSink EXCEPT !.errs = t.errs]
                    /\ toSink' = <<>> /\ toSource' = <<>>
  /\ cut' = FALSE
  /\ UNCHANGED stored

\* targetshouldbedirectory: main has more than one source operand.
IntoDirectory == Len(main.ops) > 1

Finish ==
  /\ main.k = "next" /\ main.op = Len(main.ops)
  /\ \E bad \in BOOLEAN :
       /\ (bad => ~To /\ IntoDirectory) /\ Fails(bad)
       /\ Exits(IF bad THEN 1 ELSE ExitStatus(IF To THEN s.errs ELSE t.errs))
  /\ UNCHANGED <<s, t, toSink, toSource, stored, cut>>

-----------------------------------------------------------------------------
(* Leaving source () and sink (), and exit on either side.                 *)

SourceExit(status) == /\ s' = [s EXCEPT !.k = "closed"]
                      /\ IF To THEN Exits(status) ELSE UNCHANGED main

SinkExit(errs, status) == /\ t' = [t EXCEPT !.k = "closed", !.errs = errs]
                          /\ IF To THEN UNCHANGED main ELSE Exits(status)

\* close (rem) ends the conversation and the client takes its next operand;
\* the far side exits.
SourceReturns == /\ s' = [s EXCEPT !.k = "closed"]
                 /\ main' = IF To THEN [main EXCEPT !.k = "next"] ELSE main

SinkReturns == /\ t' = [t EXCEPT !.k = "closed"]
               /\ main' = IF To THEN main ELSE [main EXCEPT !.k = "next"]

SourceEOF == toSource = <<>> /\ (cut \/ t.k = "closed")
SinkEOF   == toSink = <<>> /\ (cut \/ s.k = "closed")

\* A write to a lost connection goes nowhere (the signal that ends the writer
\* is lostconn, or the end of file that its next read meets).
Answer(a) == toSource' = IF cut \/ s.k = "closed" THEN toSource ELSE toSource \o a
Put(a)    == toSink' = IF cut \/ t.k = "closed" THEN toSink ELSE toSink \o a

-----------------------------------------------------------------------------
(* source () and rsource ().                                               *)

\* Where the matching end of the directory at p is.
EndOf(p) == CHOOSE q \in p .. Len(Tree) :
              LET Count(x, r) == Cardinality({i \in p .. r : Tree[i] = x})
              IN /\ Count("dir", q) = Count("end", q)
                 /\ \A r \in p .. q - 1 : Count("dir", r) # Count("end", r)

Past(r) == [r EXCEPT !.k = "next", !.pos = (IF Tree[r.pos] = "dir" THEN EndOf(r.pos) ELSE r.pos) + 1]
Into(r) == [r EXCEPT !.k = "next", !.pos = @ + 1]

\* The C or D record of the entry at pos, after the T record if times are kept.
Record == IF Tree[s.pos] = "dir" THEN "D" ELSE "C"

write_stat_time == Put(<<[r |-> "T"]>>)

\* The next entry is opened and announced, or reported as an error; E closes
\* the directory that readdir has come to the end of.
source ==
  /\ s.k = "next" /\ s.pos <= Len(Tree)
  /\ \E bad \in BOOLEAN, n \in Sizes :
       /\ Fails(bad)
       /\ IF Tree[s.pos] = "end"
            THEN ~bad /\ n = 0 /\ Put(<<[r |-> "E"]>>) /\ s' = [s EXCEPT !.k = "E"]
          ELSE IF bad
            THEN n = 0 /\ Put(<<[r |-> "err"]>>) /\ s' = [Past(s) EXCEPT !.errs = @ + 1]
          ELSE /\ Tree[s.pos] = "dir" => n = 0
               /\ IF main.preserve
                    THEN write_stat_time /\ s' = [s EXCEPT !.k = "T", !.left = n]
                    ELSE /\ Put(<<[r |-> Record, pos |-> s.pos, size |-> n]>>)
                         /\ s' = [s EXCEPT !.k = Record, !.left = n]
  /\ UNCHANGED <<main, t, toSource, stored, cut>>

\* After the last entry.
EndOfSource ==
  /\ s.k = "next" /\ s.pos > Len(Tree)
  /\ SourceReturns
  /\ UNCHANGED <<t, toSink, toSource, stored>> /\ NoFault

\* Faulty variant of SendData: a file that cannot be read to its end is cut short.
SendDataShort ==
  /\ s.k = "data"
  /\ \E bad \in BOOLEAN :
       /\ Fails(bad)
       /\ IF s.left > 0 /\ ~bad
            THEN /\ s' = [s EXCEPT !.left = @ - 1]
                 /\ Put(<<[r |-> "data", good |-> TRUE]>>)
            ELSE /\ s' = [s EXCEPT !.k = "final", !.errs = IF bad THEN @ + 1 ELSE @]
                 /\ Put(<<[r |-> IF bad THEN "err" ELSE "ok"]>>)
  /\ UNCHANGED <<main, t, toSource, stored, cut>>

\* The blocks of a file.  After a failing read the rest is still sent, so that
\* the sink stays in step, and an error follows instead of the byte 0.
SendData ==
  /\ s.k = "data"
  /\ \E bad \in BOOLEAN :
       /\ Fails(bad)
       /\ IF s.left > 0
            THEN /\ s' = [s EXCEPT !.left = @ - 1, !.haderr = @ \/ bad]
                 /\ Put(<<[r |-> "data", good |-> ~s.haderr /\ ~bad]>>)
            ELSE /\ s' = [s EXCEPT !.k = "final", !.errs = IF s.haderr \/ bad THEN @ + 1 ELSE @]
                 /\ Put(<<[r |-> IF s.haderr \/ bad THEN "err" ELSE "ok"]>>)
  /\ UNCHANGED <<main, t, toSource, stored, cut>>

\* Faulty variant of Heard: an error is told, not counted.
HeardForgets(r, ok) == r

\* An answer read by response (): an error counts.
Heard(r, ok) == IF ok THEN r ELSE [r EXCEPT !.errs = @ + 1]

\* response () of the source: what follows each answer.  The client exits when
\* the greeting is an error; source () itself looks at no other outcome than
\* that of T, C and D.  When no buffer is had for a file that the sink has let
\* pass, the sink still waits for its bytes.
response ==
  /\ s.k \in {"greeting", "T", "C", "D", "E", "final"}
  /\ \/ /\ toSource # <<>>
        /\ toSource' = Tail(toSource)
        /\ \E nomem \in BOOLEAN :  \* allocbuf
             LET ok == Head(toSource) = "ok"
                 r  == Heard(s, ok)
             IN /\ nomem => s.k = "C" /\ ok
                /\ Fails(nomem)
                /\ CASE s.k = "greeting" /\ ~ok /\ To -> SourceExit(1) /\ UNCHANGED toSink
                     [] s.k = "greeting" /\ (ok \/ ~To) -> s' = [r EXCEPT !.k = "next"] /\ UNCHANGED <<main, toSink>>
                     [] s.k \in {"E", "final"} -> s' = Into(r) /\ UNCHANGED <<main, toSink>>
                     [] s.k \in {"T", "C", "D"} /\ ~ok -> s' = Past(r) /\ UNCHANGED <<main, toSink>>
                     [] s.k = "T" /\ ok -> /\ s' = [r EXCEPT !.k = Record]
                                           /\ Put(<<[r |-> Record, pos |-> s.pos, size |-> s.left]>>)
                                           /\ UNCHANGED main
                     [] s.k = "C" /\ ok -> /\ s' = IF nomem THEN [Past(r) EXCEPT !.errs = @ + 1, !.nobuf = TRUE]
                                                            ELSE [r EXCEPT !.k = "data", !.haderr = FALSE]
                                           /\ IF nomem THEN Put(<<[r |-> "err"]>>) ELSE UNCHANGED toSink
                                           /\ UNCHANGED main
                     [] s.k = "D" /\ ok -> s' = Into(r) /\ UNCHANGED <<main, toSink>>
        /\ UNCHANGED cut
     \/ SourceEOF /\ SourceExit(1) /\ UNCHANGED <<toSink, toSource>> /\ NoFault
  /\ UNCHANGED <<t, stored>>

-----------------------------------------------------------------------------
(* sink ().                                                                *)

\* The greeting.  verifydir refuses a target that is no directory.
verifydir ==
  /\ t.k = "start"
  /\ \E bad \in BOOLEAN :
       /\ (bad => IntoDirectory) /\ Fails(bad)
       /\ IF bad THEN Answer(<<"err">>) /\ SinkExit(t.errs + 1, 1)
                 ELSE Answer(<<"ok">>) /\ t' = [t EXCEPT !.k = "header"] /\ UNCHANGED main
  /\ UNCHANGED <<s, toSink, stored, cut>>

\* screwup: the error is reported and the process ends.
Screwup == Answer(<<"err">>) /\ SinkExit(t.errs + 1, 1)

\* The return of a nested sink (): the times of the directory are set now, and
\* an error there is one answer more than the source waits for.
LeaveDirectory(a, bad) ==
  LET times == Last(t.outer)
  IN /\ bad => times
     /\ t' = [t EXCEPT !.setimes = FALSE, !.outer = Front(@), !.k = "header", !.errs = IF bad THEN @ + 1 ELSE @]
     /\ Answer(IF bad THEN a \o <<"err">> ELSE a)
     /\ UNCHANGED main

Return(a) ==
  IF t.outer = <<>>
    THEN SinkReturns /\ Answer(a) /\ NoFault
    ELSE \E bad \in BOOLEAN : Fails(bad) /\ LeaveDirectory(a, bad) /\ UNCHANGED cut

\* One control record.
sink ==
  /\ t.k = "header"
  /\ \/ SinkEOF /\ Return(<<>>) /\ UNCHANGED toSink
     \/ cut /\ toSink = <<>> /\ Screwup /\ UNCHANGED toSink /\ NoFault  \* in the middle of a line
     \/ /\ toSink # <<>>
        /\ toSink' = Tail(toSink)
        /\ LET h == Head(toSink)
           IN CASE h.r = "err" -> t' = [t EXCEPT !.errs = @ + 1] /\ UNCHANGED <<main, toSource>> /\ NoFault
                [] h.r = "E" -> Return(<<"ok">>)
                [] h.r = "T" -> t' = [t EXCEPT !.setimes = TRUE] /\ Answer(<<"ok">>) /\ UNCHANGED main /\ NoFault
                [] h.r \in {"data", "ok"} -> Screwup /\ NoFault
                [] h.r \in {"C", "D"} -> \E bad \in BOOLEAN, nomem \in BOOLEAN :
                     /\ Fails(bad \/ nomem) /\ (nomem => h.r = "C" /\ ~bad)
                     /\ Answer(IF bad THEN <<"err">> ELSE IF nomem THEN <<"ok", "err">> ELSE <<"ok">>)
                     /\ t' = IF bad \/ nomem THEN [t EXCEPT !.errs = @ + 1]
                             ELSE IF h.r = "D" THEN [t EXCEPT !.outer = Append(@, t.setimes), !.setimes = FALSE]
                             ELSE [t EXCEPT !.k = "data", !.pos = h.pos, !.left = h.size, !.wrerr = "NO", !.whole = TRUE]
                     /\ UNCHANGED <<main, cut>>
  /\ UNCHANGED <<s, stored>>

\* The bytes of a file, whatever they are: a block that cannot be written is
\* read all the same.
ReceiveData ==
  /\ t.k = "data" /\ t.left > 0
  /\ \/ SinkEOF /\ Screwup /\ UNCHANGED toSink /\ NoFault
     \/ /\ toSink # <<>>
        /\ toSink' = Tail(toSink)
        /\ \E bad \in BOOLEAN :
             /\ Fails(bad)
             /\ t' = [t EXCEPT !.left = @ - 1, !.wrerr = IF bad THEN "YES" ELSE @,
                               !.whole = @ /\ Head(toSink).r = "data" /\ Head(toSink).good]
        /\ UNCHANGED <<main, toSource, cut>>
  /\ UNCHANGED <<s, stored>>

\* ftruncate, whose failure is the answer, and fchmod, whose failure is
\* reported in addition to the answer.
Truncate ==
  /\ t.k = "data" /\ t.left = 0
  /\ \E trunc \in BOOLEAN, chmod \in BOOLEAN :
       /\ Fails(trunc \/ chmod)
       /\ Answer((IF trunc THEN <<"err">> ELSE <<>>) \o (IF chmod THEN <<"err">> ELSE <<>>))
       /\ t' = [t EXCEPT !.k = "answer", !.wrerr = IF trunc THEN "DISPLAYED" ELSE @,
                         !.errs = @ + (IF trunc THEN 1 ELSE 0) + (IF chmod THEN 1 ELSE 0)]
  /\ UNCHANGED <<main, s, toSink, stored, cut>>

\* The last word of the source on the file, then that of the sink.
SinkAnswers ==
  /\ t.k = "answer"
  /\ \/ SinkEOF /\ SinkExit(t.errs, 1) /\ UNCHANGED <<toSink, toSource, stored>> /\ NoFault
     \/ /\ toSink # <<>> /\ Head(toSink).r \notin {"ok", "err"}  \* no answer at all: exit
        /\ toSink' = Tail(toSink) /\ SinkExit(t.errs + 1, 1) /\ UNCHANGED <<toSource, stored>> /\ NoFault
     \/ /\ toSink # <<>> /\ Head(toSink).r \in {"ok", "err"}
        /\ toSink' = Tail(toSink)
        /\ \E bad \in BOOLEAN :  \* utimes
             LET heard == IF Head(toSink).r = "err" THEN 1 ELSE 0
                 timed == t.setimes /\ t.wrerr = "NO"
                 err   == IF t.wrerr = "YES" \/ bad THEN 1 ELSE 0
             IN /\ (bad => timed) /\ Fails(bad)
                /\ Answer(IF err = 1 THEN <<"err">> ELSE IF t.wrerr = "NO" THEN <<"ok">> ELSE <<>>)
                /\ t' = [t EXCEPT !.k = "header", !.errs = @ + heard + err, !.setimes = @ /\ ~timed]
                /\ stored' = IF t.wrerr = "NO" /\ t.whole /\ heard = 0 THEN stored \cup {<<main.op, t.pos>>} ELSE stored
        /\ UNCHANGED <<main, cut>>
  /\ UNCHANGED s

-----------------------------------------------------------------------------

\* The connection is lost, with any part of what is on its way.
Cut ==
  /\ main.k = "copying" /\ ~cut /\ faults < MaxFaults
  /\ cut' = TRUE /\ faults' = faults + 1
  /\ \E n \in 0 .. Len(toSink) : toSink' = SubSeq(toSink, 1, n)
  /\ \E n \in 0 .. Len(toSource) : toSource' = SubSeq(toSource, 1, n)
  /\ main' = [main EXCEPT !.lost = TRUE]
  /\ UNCHANGED <<s, t, stored>>

Source == source \/ EndOfSource \/ SendData \/ response
Sink == verifydir \/ sink \/ ReceiveData \/ Truncate \/ SinkAnswers
Loop == NextOperand \/ okname \/ susystem \/ rcmd \/ Finish

Next == Loop \/ Source \/ Sink \/ Cut

Fairness == WF_vars(Loop) /\ WF_vars(Source) /\ WF_vars(Sink)

Spec == Init /\ [][Next]_vars /\ Fairness

-----------------------------------------------------------------------------
(* Properties.                                                             *)

Files(i) == {p \in 1 .. Len(main.ops[i].tree) : main.ops[i].tree[p] = "file"}

\* When rcp exits with status 0, every file of every operand that it copied over
\* a connection is stored complete.  The client that sends learns of every
\* failure by the answers, a lost connection included; the client that receives
\* learns of the source's failures by its error records, but takes a connection
\* lost between two records for the end of the copy (rcp.c:923).
Honest ==
  main.k = "done" /\ main.status = 0 /\ (To \/ ~main.lost)
    => \A i \in 1 .. Len(main.ops) : main.ops[i].kind = "remote" => \A p \in Files(i) : <<i, p>> \in stored

\* The sink waits for the bytes of a file that the source has given up for want
\* of a buffer (rcp.c:769), and the source for the answer to a later record,
\* which the sink took for bytes of the file.
Starved ==
  /\ s.nobuf /\ ~cut /\ toSink = <<>> /\ toSource = <<>>
  /\ t.k \in {"data", "answer"} /\ s.k \in {"T", "C", "D", "E", "final"}

\* The end that every command comes to: neither side waits for a byte that the
\* other will not send, whatever fails on the way (a lost connection is noticed),
\* except when the source found no memory for a file already announced.
Over == main.k = "done" \/ Starved
=============================================================================
