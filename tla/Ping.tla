-------------------------------- MODULE Ping --------------------------------
(***************************************************************************)
(* GNU ping (ping/ping.c, ping/libping.c, ping/ping_echo.c and the macros  *)
(* of ping/ping_common.h).                                                 *)
(*                                                                         *)
(* One process probes the HOST operands one after the other over ONE       *)
(* socket, one identifier and one PING structure.  ping_run sends requests *)
(* on a timer and, between two timer expiries, reads what the socket       *)
(* holds.  The network may lose, delay, reorder and duplicate; the user    *)
(* may press ^C at any moment.                                             *)
(*                                                                         *)
(* Time is counted in ticks, Sec of them to a second.  Instead of a clock  *)
(* the model keeps what the code computes from it: wait is                 *)
(* last + intvl - now cut off at zero (the argument of pselect) and left   *)
(* is what remains until ping_timeout_p becomes true.  Payloads and what   *)
(* is printed of each packet are left out.                                 *)
(***************************************************************************)
EXTENDS Integers, Sequences, FiniteSets

CONSTANTS
  Hosts,           \* number of HOST operands
  Options,         \* the command lines considered
  CkBits,          \* bits of ping_cktab: 8 * PING_CKTABSIZE in the code
  SeqMod,          \* icmp_seq is a 16-bit field: 2^16 in the code
  Sec,             \* ticks per second
  FloodIntvl,      \* the 10 ms of a flood ping, in ticks
  MinUserInterval, \* PING_MIN_USER_INTERVAL, in ticks
  MaxXmit,         \* bound: requests of a run that nothing else ends
  MaxDup,          \* bound: duplicates made by the network
  MaxNoise,        \* bound: packets that are no answer to this process
  MaxQueue         \* bound: packets the kernel holds for the socket

(* What argp hands to main.  timeout = 0 stands for -w absent (the -1 of   *)
(* the code; -w 0 is refused), count = 0 for no limit, user for -i given,  *)
(* dgram for the unprivileged socket that makes useless_ident non-zero.    *)
OptionType ==
  [type : {"echo", "timestamp", "address"}, count : Nat, preload : Nat,
   interval : Nat, user : BOOLEAN, flood : BOOLEAN, root : BOOLEAN,
   linger : Nat \ {0}, timeout : Nat, dgram : BOOLEAN]

ASSUME PingConstants ==
  /\ Hosts \in Nat \ {0} /\ Options \subseteq OptionType
  /\ CkBits \in Nat \ {0} /\ SeqMod \in Nat \ {0} /\ Sec \in Nat \ {0}
  /\ FloodIntvl \in Nat /\ MinUserInterval \in Nat
  /\ MaxXmit \in Nat /\ MaxDup \in Nat /\ MaxNoise \in Nat /\ MaxQueue \in Nat

(* The bit cleared for num_xmit is the bit tested for icmp_seq only because *)
(* the size of the table divides the range of icmp_seq.                     *)
ASSUME CkBitsDivideSeqMod == SeqMod % CkBits = 0

VARIABLES
  opt,        \* the command line
  pc,         \* where main and ping_run are
  host,       \* operand being probed; Hosts + 1 when all are done
  xmit, recv, rept,  \* ping_num_xmit, ping_num_recv, ping_num_rept
  cktab,      \* the set bits of ping_cktab: sequence numbers answered
  nresp, finishing,  \* locals of ping_run
  stop,       \* the flag set by sig_int, shared by all operands
  wait, left, \* ticks until pselect times out, until ping_timeout_p holds
  status,     \* exit status accumulated by main
  net,        \* requests still to be answered
  sockq,      \* packets the kernel holds for the socket
  dups, noise,       \* how often the network duplicated, disturbed
  \* History variables: no action reads them.
  stale,      \* replies counted for this operand that answer an earlier one
  extra,      \* counted replies that are copies or older than the table
  over,       \* ticks spent on this operand after the -w deadline
  missed      \* operands whose run ended without a reply

local == <<xmit, recv, rept, cktab, nresp, finishing>>
env == <<net, sockq, dups, noise>>
history == <<stale, extra, over, missed>>
vars == <<opt, pc, host, local, stop, wait, left, status, env, history>>

(* idx is ping_num_xmit when the request was sent, what goes over the wire *)
(* as icmp_seq is idx % SeqMod; copy marks all answers but the first.      *)
Request == [host : 1..Hosts, idx : Nat, copy : BOOLEAN]
Packet == [kind : {"reply", "request", "error", "short"}, own : BOOLEAN,
           host : 1..Hosts, idx : Nat, copy : BOOLEAN]

(* ping_count: ping_address overrides -c.                                  *)
Count == IF opt.type = "address" THEN 1 ELSE opt.count

(* intvl of ping_run.  Lingering replaces its tv_sec and keeps tv_nsec.    *)
Intvl == IF opt.flood THEN FloodIntvl
         ELSE IF opt.user THEN opt.interval ELSE Sec
LingerIntvl == (opt.linger * Sec) + (Intvl % Sec)

(* _C_IND: the bit of ping_cktab that stands for a sequence number.        *)
C_IND(n) == n % CkBits

(* ping_timeout_p                                                          *)
TimedOut == opt.timeout > 0 /\ left = 0

Init ==
  /\ opt \in Options
  /\ pc = "parse" /\ host = 1
  /\ xmit = 0 /\ recv = 0 /\ rept = 0 /\ cktab = {}
  /\ nresp = 0 /\ finishing = FALSE /\ stop = FALSE
  /\ wait = 0 /\ left = opt.timeout * Sec /\ status = 0
  /\ net = {} /\ sockq = <<>> /\ dups = 0 /\ noise = 0
  /\ stale = 0 /\ extra = 0 /\ over = 0 /\ missed = {}
-----------------------------------------------------------------------------
(* error (EXIT_FAILURE, ...)                                               *)
Exit ==
  /\ pc' = "exit" /\ status' = 1
  /\ UNCHANGED <<opt, host, local, stop, wait, left, env, history>>

(* parse_opt refuses a short interval to ordinary users.                   *)
Refused == opt.user /\ ~opt.root /\ opt.interval < MinUserInterval

(* main up to the loop over the operands.                                  *)
Parse ==
  /\ pc = "parse"
  /\ \/ Refused /\ Exit
     \/ /\ ~Refused
        /\ pc' = "setup"
        /\ UNCHANGED <<opt, host, local, stop, wait, left, status, env, history>>

(* ping_echo, ping_timestamp or ping_address up to the sends of ping_run:  *)
(* a new operand, with fresh locals.                                       *)
Setup ==
  /\ pc = "setup"
  /\ \/ opt.type = "echo" /\ opt.flood /\ opt.user /\ Exit
     \/ /\ ~(opt.type = "echo" /\ opt.flood /\ opt.user)
        /\ pc' = "send" /\ nresp' = 0 /\ finishing' = FALSE
        /\ UNCHANGED <<opt, host, xmit, recv, rept, cktab, stop, wait, left,
                       status, env, history>>

(* Faulty variant of SendEcho: _PING_CLR forgotten.                        *)
SendEchoNoClear ==
  /\ net' = net \cup {[host |-> host, idx |-> xmit, copy |-> FALSE]}
  /\ xmit' = xmit + 1
  /\ UNCHANGED <<cktab, recv, rept, sockq, dups, noise, stale, extra, missed>>

(* send_echo and ping_xmit: the bit of the new sequence number is cleared. *)
SendEcho ==
  /\ cktab' = cktab \ {C_IND(xmit)}
  /\ net' = net \cup {[host |-> host, idx |-> xmit, copy |-> FALSE]}
  /\ xmit' = xmit + 1
  /\ UNCHANGED <<recv, rept, sockq, dups, noise, stale, extra, missed>>

(* The preload requests and the first one, sent without looking at stop.   *)
InitialSend ==
  /\ pc = "send"
  /\ SendEcho
  /\ \/ xmit < opt.preload /\ UNCHANGED <<pc, wait>>
     \/ xmit >= opt.preload /\ pc' = "loop" /\ wait' = Intvl
  /\ UNCHANGED <<opt, host, nresp, finishing, stop, left, status, over>>

(* Faulty variant of LoopTest: stop is not looked at.                      *)
LoopTestIgnoresStop ==
  /\ pc = "loop"
  /\ pc' = "select"
  /\ UNCHANGED <<opt, host, local, stop, wait, left, status, env, history>>

(* while (!stop)                                                           *)
LoopTest ==
  /\ pc = "loop"
  /\ pc' = IF stop THEN "finish" ELSE "select"
  /\ UNCHANGED <<opt, host, local, stop, wait, left, status, env, history>>

(* Which packets ping_recv takes: my_echo_reply for errors; replies by     *)
(* identifier alone, whoever sent them.                                    *)
Accepts(p) ==
  /\ p.own \/ opt.dgram
  /\ \/ p.kind = "reply"
     \/ p.kind = "error" /\ p.host = host /\ opt.type = "echo"

(* Faulty variant of PingRecv: _PING_SET forgotten.                        *)
PingRecvNoSet(p) ==
  LET counted == Accepts(p) /\ p.kind = "reply"
      isNew == counted /\ C_IND(p.idx % SeqMod) \notin cktab
  IN
  /\ recv' = IF isNew THEN recv + 1 ELSE recv
  /\ rept' = IF counted /\ ~isNew THEN rept + 1 ELSE rept
  /\ nresp' = IF Accepts(p) THEN nresp + 1 ELSE nresp
  /\ UNCHANGED <<cktab, extra>>
  /\ stale' = IF counted /\ p.host # host THEN stale + 1 ELSE stale

(* ping_recv on the packet p: counters, table and result (nresp counts     *)
(* the calls that return 0).                                               *)
PingRecv(p) ==
  LET bit == C_IND(p.idx % SeqMod)
      counted == Accepts(p) /\ p.kind = "reply"
      isNew == counted /\ bit \notin cktab
  IN
  /\ recv' = IF isNew THEN recv + 1 ELSE recv
  /\ rept' = IF counted /\ ~isNew THEN rept + 1 ELSE rept
  /\ cktab' = IF counted THEN cktab \cup {bit} ELSE cktab
  /\ nresp' = IF Accepts(p) THEN nresp + 1 ELSE nresp
  /\ stale' = IF counted /\ p.host # host THEN stale + 1 ELSE stale
  /\ extra' = IF counted /\ p.host = host /\ (p.copy \/ xmit > p.idx + CkBits)
                THEN extra + 1 ELSE extra

(* pselect reports the socket readable.                                    *)
Receive ==
  /\ pc = "select" /\ sockq # <<>>
  /\ PingRecv(Head(sockq))
  /\ sockq' = Tail(sockq)
  /\ pc' = IF TimedOut \/ (Count > 0 /\ nresp' >= Count)
             THEN "finish" ELSE "loop"
  /\ UNCHANGED <<opt, host, xmit, finishing, stop, wait, left, status,
                 net, dups, noise, over, missed>>

(* pselect times out: the next request,                                    *)
SendNext ==
  /\ pc = "select" /\ sockq = <<>> /\ wait = 0
  /\ Count = 0 \/ xmit < Count
  /\ SendEcho
  /\ \/ TimedOut /\ pc' = "finish" /\ wait' = wait
     \/ ~TimedOut /\ pc' = "loop" /\ wait' = Intvl
  /\ UNCHANGED <<opt, host, nresp, finishing, stop, left, status, over>>

(* Faulty variant of StartLinger: finishing is not recorded.               *)
StartLingerForgets ==
  /\ pc = "select" /\ sockq = <<>> /\ wait = 0
  /\ Count > 0 /\ xmit >= Count /\ ~finishing
  /\ wait' = LingerIntvl /\ pc' = "loop"
  /\ UNCHANGED <<opt, host, local, stop, left, status, env, history>>

(* or, all being sent, one last and longer wait,                           *)
StartLinger ==
  /\ pc = "select" /\ sockq = <<>> /\ wait = 0
  /\ Count > 0 /\ xmit >= Count /\ ~finishing
  /\ finishing' = TRUE /\ wait' = LingerIntvl /\ pc' = "loop"
  /\ UNCHANGED <<opt, host, xmit, recv, rept, cktab, nresp, stop, left,
                 status, env, history>>

(* or the end of that wait.                                                *)
EndLinger ==
  /\ pc = "select" /\ sockq = <<>> /\ wait = 0
  /\ Count > 0 /\ xmit >= Count /\ finishing
  /\ pc' = "finish"
  /\ UNCHANGED <<opt, host, local, stop, wait, left, status, env, history>>

(* Faulty variant of Finish: the last operand alone decides the status.    *)
FinishLastWins ==
  /\ pc = "finish"
  /\ status' = IF opt.type = "echo" /\ recv = 0 THEN 1 ELSE 0
  /\ cktab' = {} /\ xmit' = 0 /\ recv' = 0 /\ rept' = 0
  /\ host' = host + 1
  /\ pc' = IF host = Hosts THEN "exit" ELSE "setup"
  /\ stale' = 0 /\ extra' = 0 /\ over' = 0
  /\ missed' = IF recv = 0 THEN missed \cup {host} ELSE missed
  /\ UNCHANGED <<opt, nresp, finishing, stop, wait, left, env>>

(* ping_unset_data, the finish callback, status |= and ping_reset.         *)
Finish ==
  /\ pc = "finish"
  /\ status' = IF opt.type = "echo" /\ recv = 0 THEN 1 ELSE status
  /\ cktab' = {} /\ xmit' = 0 /\ recv' = 0 /\ rept' = 0
  /\ host' = host + 1
  /\ pc' = IF host = Hosts THEN "exit" ELSE "setup"
  /\ stale' = 0 /\ extra' = 0 /\ over' = 0
  /\ missed' = IF recv = 0 THEN missed \cup {host} ELSE missed
  /\ UNCHANGED <<opt, nresp, finishing, stop, wait, left, env>>

(* ping_init, setuid or ping_set_dest fails, sendto or pselect fails, or   *)
(* ^C comes before signal() was called.                                    *)
Fatal ==
  /\ pc \in {"parse", "setup", "send", "select"}
  /\ Exit
-----------------------------------------------------------------------------
(* sig_int.  A signal inside pselect ends it with EINTR; one that comes    *)
(* between the test of stop and pselect does not.                          *)
Interrupt ==
  /\ pc \notin {"parse", "exit"} /\ (pc = "setup" => host > 1)
  /\ stop' = TRUE
  /\ \/ pc' = pc
     \/ pc = "select" /\ pc' = "loop"
  /\ UNCHANGED <<opt, host, local, wait, left, status, env, history>>

(* Time passes while a name is resolved or pselect sleeps.                 *)
Tick ==
  /\ pc \in {"setup", "select"}
  /\ wait > 0 \/ left > 0
  /\ Count = 0 /\ opt.timeout = 0 => stop \/ xmit < MaxXmit
  /\ wait' = IF wait > 0 THEN wait - 1 ELSE 0
  /\ left' = IF left > 0 THEN left - 1 ELSE 0
  /\ over' = IF pc = "select" /\ TimedOut THEN over + 1 ELSE over
  /\ UNCHANGED <<opt, pc, host, local, stop, status, env, stale, extra, missed>>

Deliver(p) == Len(sockq) < MaxQueue /\ sockq' = Append(sockq, p)

Copy(r) == [host |-> r.host, idx |-> r.idx, copy |-> TRUE]

(* A request is answered by its destination, or by an error of a router;   *)
(* the network may keep a copy.                                            *)
Answer ==
  /\ \E r \in net, kind \in {"reply", "error"}, again \in BOOLEAN :
       /\ again => dups < MaxDup
       /\ Deliver([kind |-> kind, own |-> TRUE, host |-> r.host,
                   idx |-> r.idx, copy |-> r.copy])
       /\ net' = (net \ {r}) \cup
                 (IF again THEN {Copy(r)} ELSE {})
       /\ dups' = IF again THEN dups + 1 ELSE dups
  /\ UNCHANGED <<opt, pc, host, local, stop, wait, left, status, noise, history>>

(* A raw socket also gets the answers meant for other ping processes, our  *)
(* own requests when they are looped back, and truncated packets.          *)
Noise ==
  /\ noise < MaxNoise /\ ~opt.dgram /\ host <= Hosts
  /\ \E kind \in {"reply", "request", "error", "short"} :
       Deliver([kind |-> kind, own |-> kind \in {"request", "short"},
                host |-> host, idx |-> 0, copy |-> FALSE])
  /\ noise' = noise + 1
  /\ UNCHANGED <<opt, pc, host, local, stop, wait, left, status, net, dups,
                 history>>

Done == pc = "exit" /\ UNCHANGED vars

Program == \/ Parse \/ Setup \/ InitialSend \/ LoopTest \/ Receive
           \/ SendNext \/ StartLinger \/ EndLinger \/ Finish
Next == Program \/ Fatal \/ Interrupt \/ Tick \/ Answer \/ Noise \/ Done

Spec == Init /\ [][Next]_vars

(* The process is scheduled and time passes; answers may never come.       *)
FairSpec == Spec /\ WF_vars(Program) /\ WF_vars(Tick)
-----------------------------------------------------------------------------
TypeOK ==
  /\ opt \in OptionType
  /\ pc \in {"parse", "setup", "send", "loop", "select", "finish", "exit"}
  /\ host \in 1..(Hosts + 1) /\ (pc # "exit" => host <= Hosts)
  /\ xmit \in Nat /\ recv \in Nat /\ rept \in Nat /\ nresp \in Nat
  /\ cktab \subseteq 0..(CkBits - 1)
  /\ finishing \in BOOLEAN /\ stop \in BOOLEAN
  /\ wait \in Nat /\ left \in Nat /\ status \in {0, 1}
  /\ net \subseteq Request /\ sockq \in Seq(Packet)
  /\ dups \in Nat /\ noise \in Nat
  /\ stale \in Nat /\ extra \in Nat /\ over \in Nat
  /\ missed \subseteq 1..Hosts

(* The bits of ping_cktab that stand for a request of this operand to      *)
(* which no reply was seen.                                                *)
Unanswered == {b \in 0..(CkBits - 1) : b < xmit} \ cktab

(* Acceptable replies under way answer a request already sent.             *)
InFlightSent ==
  /\ \A r \in net : r.host <= host /\ (r.host = host => r.idx < xmit)
  /\ \A i \in DOMAIN sockq :
       LET p == sockq[i] IN
       p.kind = "reply" /\ (p.own \/ opt.dgram) =>
         p.host <= host /\ (p.host = host => p.idx < xmit)

(* What makes RecvBounded inductive: a request is answered, unanswered, or *)
(* gave its bit to a younger one.                                          *)
RecvCount == recv + Cardinality(Unanswered) <= xmit + stale

PingInv == TypeOK /\ InFlightSent /\ RecvCount

(* ping_finish prints a loss percentage computed in unsigned arithmetic,    *)
(* or accuses somebody of forging packets, depending on whether more       *)
(* replies were counted than requests sent.  Whatever the network loses,   *)
(* delays, reorders or duplicates, and however often the sequence numbers  *)
(* wrap around ping_cktab, the excess is at most the number of replies     *)
(* that answer an earlier operand.                                         *)
RecvBounded == recv <= xmit + stale

(* Every reply that ping_recv reports as a duplicate is accounted for by a *)
(* copy made by the network, a reply so late that its bit was handed to a  *)
(* younger request, or a reply to an earlier operand: _PING_CLR gives each *)
(* request a fresh bit.                                                    *)
DupsExplained == rept <= extra + stale

(* main returns 0 only after all operands were probed and, for echo, each  *)
(* run counted a reply; and it returns 1 after probing them all only if    *)
(* some run counted none.                                                  *)
ExitStatusHonest ==
  pc = "exit" =>
    /\ status = 0 => host > Hosts /\ (opt.type = "echo" => missed = {})
    /\ status = 1 /\ host > Hosts => opt.type = "echo" /\ missed # {}

(* After the -w deadline ping_run spends at most one sending interval and  *)
(* one linger interval on an operand.                                      *)
OvershootBounded == over <= Intvl + LingerIntvl

(* A run limited by -c or -w ends, and so does one that was interrupted by *)
(* ^C, even when it comes just before pselect.                             *)
RunEnds == (Count > 0 \/ opt.timeout > 0 \/ stop) ~> (pc = "exit")
=============================================================================
