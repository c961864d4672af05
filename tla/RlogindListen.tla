--------------------------- MODULE RlogindListen ---------------------------
(***************************************************************************)
(* rlogind as a daemon of its own (src/rlogind.c, rlogin_daemon): one      *)
(* socket for each address family, a child for each connection, and no     *)
(* more children than the option allows.  The handler of SIGCHLD counts    *)
(* children down at any moment of the loop.                                *)
(***************************************************************************)
EXTENDS Naturals, FiniteSets

CONSTANTS NumFd,        \* listening sockets
          MaxChildren,  \* the limit given with the option
          MaxCalls,     \* connections made in one run
          MaxFails      \* calls of accept that fail in one run

VARIABLES
  dm,      \* [k, numchildren, set, fails, failed, slept]: the loop
  live,    \* children running
  dead,    \* children that ended and were not waited for
  sigchld, \* SIGCHLD is pending
  calls,   \* connections waiting at each socket
  made     \* connections made so far

vars == <<dm, live, dead, sigchld, calls, made>>

Sockets == 1 .. NumFd

\* At least one of the sockets could be opened.
Init ==
  /\ dm = [k |-> "loop", numchildren |-> 0, set |-> {}, fails |-> 0, failed |-> 0, slept |-> FALSE]
  /\ live = 0 /\ dead = 0 /\ sigchld = FALSE
  /\ calls = [j \in Sockets |-> 0] /\ made = 0

\* The head of the loop: pause when there are too many children, otherwise select.
rlogin_daemon ==
  /\ dm.k = "loop"
  /\ dm' = [dm EXCEPT !.k = IF dm.numchildren > MaxChildren THEN "pausing" ELSE "select"]
  /\ UNCHANGED <<live, dead, sigchld, calls, made>>

\* The process falls asleep; a signal handled since the comparison does not wake it.
pause ==
  /\ dm.k = "pausing"
  /\ dm' = [dm EXCEPT !.k = "paused"]
  /\ UNCHANGED <<live, dead, sigchld, calls, made>>

select ==
  /\ dm.k = "select"
  /\ \E j \in Sockets : calls[j] > 0
  /\ dm' = [dm EXCEPT !.k = "accept", !.set = {j \in Sockets : calls[j] > 0}]
  /\ UNCHANGED <<live, dead, sigchld, calls, made>>

\* accept and fork for the first socket of the set; the limit is not looked at
\* again, and a fork that fails is counted as well.  accept itself may fail: the
\* caller has gone, or waits on until the next turn of the loop.
accept ==
  /\ dm.k = "accept"
  /\ IF dm.set = {} THEN dm' = [dm EXCEPT !.k = "loop"] /\ UNCHANGED <<live, calls>>
     ELSE LET j    == CHOOSE i \in dm.set : \A l \in dm.set : i <= l
              rest == [dm EXCEPT !.set = @ \ {j}]
              gone == [calls EXCEPT ![j] = @ - 1]
          IN \/ calls' = gone /\ live' = live + 1 /\ dm' = [rest EXCEPT !.numchildren = @ + 1]
             \/ /\ calls' = gone /\ UNCHANGED live
                /\ dm' = [rest EXCEPT !.numchildren = @ + 1, !.failed = @ + 1]
             \/ /\ dm.fails < MaxFails /\ dm' = [rest EXCEPT !.fails = @ + 1]
                /\ calls' \in {calls, gone} /\ UNCHANGED live
  /\ UNCHANGED <<dead, sigchld, made>>

\* Faulty variant of rlogind_sigchld: one count down for a signal.
rlogind_sigchldOnce ==
  /\ sigchld
  /\ sigchld' = FALSE /\ dead' = 0
  /\ dm' = [dm EXCEPT !.numchildren = @ - 1, !.k = IF @ \in {"paused", "select"} THEN "loop" ELSE @]
  /\ UNCHANGED <<live, calls, made>>

\* All the children that ended are counted; pause and select are interrupted.
rlogind_sigchld ==
  /\ sigchld
  /\ sigchld' = FALSE /\ dead' = 0
  /\ dm' = [dm EXCEPT !.numchildren = @ - dead, !.k = IF @ \in {"paused", "select"} THEN "loop" ELSE @,
                      !.slept = @ \/ dm.k = "pausing"]
  /\ UNCHANGED <<live, calls, made>>

\* A session ends.
ChildEnds ==
  /\ live > 0
  /\ live' = live - 1 /\ dead' = dead + 1 /\ sigchld' = TRUE
  /\ UNCHANGED <<dm, calls, made>>

Connect ==
  /\ made < MaxCalls
  /\ made' = made + 1
  /\ \E j \in Sockets : calls' = [calls EXCEPT ![j] = @ + 1]
  /\ UNCHANGED <<dm, live, dead, sigchld>>

Loop == rlogin_daemon \/ pause \/ select \/ accept

Next == Loop \/ rlogind_sigchld \/ ChildEnds \/ Connect

\* The daemon runs, signals are delivered, sessions end.
Fairness == WF_vars(Loop) /\ WF_vars(rlogind_sigchld) /\ WF_vars(ChildEnds)

Spec == Init /\ [][Next]_vars /\ Fairness

-----------------------------------------------------------------------------
(* Properties.                                                             *)

\* What holds in the end: every connection has been accepted, since the count comes
\* back down with the sessions, however many of them end at once.  Not so after
\* forks that failed, which are never counted down, nor after a signal handled
\* between the comparison and pause.
Served == (\A j \in Sockets : calls[j] = 0) \/ dm.failed > MaxChildren \/ dm.slept
=============================================================================
