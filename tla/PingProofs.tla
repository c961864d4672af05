----------------------------- MODULE PingProofs -----------------------------
(* Proofs about Ping, for any number of operands, any command lines and    *)
(* any table size.                                                         *)
EXTENDS Ping, FiniteSetTheorems, TLAPS

(* The steps that change neither the counters nor the table.               *)
LEMMA NextCases ==
  ASSUME [Next]_vars
  PROVE \/ InitialSend \/ SendNext \/ Receive \/ Finish
        \/ Parse \/ Setup \/ LoopTest \/ StartLinger \/ EndLinger
        \/ Fatal \/ Interrupt \/ Tick \/ Answer \/ Noise
        \/ UNCHANGED vars
BY DEF Next, Program, Done

(* Intervals are natural numbers.                                          *)
LEMMA IntvlType ==
  ASSUME opt \in OptionType
  PROVE Intvl \in Nat /\ LingerIntvl \in Nat /\ Count \in Nat
<1>1. /\ opt.interval \in Nat /\ opt.linger \in Nat /\ opt.count \in Nat
      /\ Sec \in Nat \ {0} /\ FloodIntvl \in Nat
  BY PingConstants DEF OptionType
<1>2. Intvl \in Nat
  BY <1>1 DEF Intvl
<1>3. Intvl % Sec \in Nat /\ opt.linger * Sec \in Nat
  BY <1>1, <1>2
<1>4. QED BY <1>1, <1>2, <1>3 DEF LingerIntvl, Count

(* C_IND stays inside the table and does not exceed its argument.          *)
LEMMA IndexInTable ==
  ASSUME NEW n \in Nat
  PROVE C_IND(n) \in 0..(CkBits - 1) /\ C_IND(n) <= n
BY PingConstants DEF C_IND

(* The initial state has its types.                                        *)
LEMMA TypeInit == Init => TypeOK
<1> SUFFICES ASSUME Init PROVE TypeOK
  OBVIOUS
<1>1. opt \in OptionType
  BY PingConstants DEF Init
<1>2. opt.timeout \in Nat
  BY <1>1 DEF OptionType
<1>3. left \in Nat
  BY <1>2, PingConstants DEF Init
<1>4. sockq \in Seq(Packet)
  BY DEF Init
<1>5. /\ pc = "parse" /\ host = 1 /\ cktab = {} /\ net = {} /\ missed = {}
      /\ xmit = 0 /\ recv = 0 /\ rept = 0 /\ nresp = 0 /\ wait = 0
      /\ finishing = FALSE /\ stop = FALSE /\ status = 0 /\ dups = 0
      /\ noise = 0 /\ stale = 0 /\ extra = 0 /\ over = 0
  BY DEF Init
<1>6. /\ host \in 1..(Hosts + 1) /\ host <= Hosts
      /\ xmit \in Nat /\ recv \in Nat /\ rept \in Nat /\ nresp \in Nat
      /\ wait \in Nat /\ status \in {0, 1} /\ dups \in Nat /\ noise \in Nat
      /\ stale \in Nat /\ extra \in Nat /\ over \in Nat
  BY <1>5, PingConstants
<1>7. /\ cktab \subseteq 0..(CkBits - 1) /\ net \subseteq Request
      /\ missed \subseteq 1..Hosts
      /\ finishing \in BOOLEAN /\ stop \in BOOLEAN
      /\ pc \in {"parse", "setup", "send", "loop", "select", "finish", "exit"}
  BY <1>5
<1>8. QED BY <1>1, <1>3, <1>4, <1>6, <1>7 DEF TypeOK

(* Each step of main, ping_run, the network and the user keeps the types. *)
LEMMA TypeStep == TypeOK /\ [Next]_vars => TypeOK'
<1> SUFFICES ASSUME TypeOK, [Next]_vars PROVE TypeOK'
  OBVIOUS
<1> USE PingConstants DEF TypeOK
<1>0. Intvl \in Nat /\ LingerIntvl \in Nat
  BY IntvlType
<1>1. ASSUME pc # "exit", SendEcho PROVE
      cktab' \subseteq 0..(CkBits - 1) /\ net' \subseteq Request /\ xmit' \in Nat
  <2>1. [host |-> host, idx |-> xmit, copy |-> FALSE] \in Request
    BY <1>1 DEF Request
  <2>2. cktab' \subseteq 0..(CkBits - 1)
    BY <1>1 DEF SendEcho
  <2>3. net' \subseteq Request
    BY <1>1, <2>1 DEF SendEcho
  <2>4. xmit' \in Nat
    BY <1>1 DEF SendEcho
  <2>5. QED BY <2>2, <2>3, <2>4
<1>2. CASE InitialSend
  BY <1>0, <1>1, <1>2 DEF InitialSend, SendEcho
<1>3. CASE SendNext
  BY <1>0, <1>1, <1>3 DEF SendNext, SendEcho
<1>4. CASE Receive
  <2>1. Head(sockq) \in Packet /\ Tail(sockq) \in Seq(Packet)
    BY <1>4 DEF Receive
  <2>2. C_IND(Head(sockq).idx % SeqMod) \in 0..(CkBits - 1)
    <3>1. Head(sockq).idx % SeqMod \in Nat
      BY <2>1 DEF Packet
    <3>2. QED BY <3>1, IndexInTable
  <2>3. /\ recv' \in Nat /\ rept' \in Nat /\ nresp' \in Nat
        /\ stale' \in Nat /\ extra' \in Nat
    BY <1>4 DEF Receive, PingRecv
  <2>4. cktab' \subseteq 0..(CkBits - 1)
    BY <1>4, <2>2 DEF Receive, PingRecv
  <2>5. pc' \in {"finish", "loop"} /\ host <= Hosts
    BY <1>4 DEF Receive
  <2>6. /\ UNCHANGED <<opt, host, xmit, finishing, stop, wait, left, status,
                       net, dups, noise, over, missed>>
        /\ sockq' \in Seq(Packet)
    BY <1>4, <2>1 DEF Receive
  <2>7. QED BY <2>3, <2>4, <2>5, <2>6
<1>5. CASE Finish
  BY <1>5 DEF Finish, env
<1>6. CASE Parse
  BY <1>6 DEF Parse, Exit, local, env, history
<1>7. CASE Setup
  <2>1. CASE Exit
    BY <2>1, <1>7 DEF Setup, Exit, local, env, history
  <2>2. CASE /\ pc = "setup" /\ pc' = "send" /\ nresp' = 0
             /\ finishing' = FALSE
             /\ UNCHANGED <<opt, host, xmit, recv, rept, cktab, stop, wait,
                            left, status, env, history>>
    BY <2>2 DEF env, history
  <2>3. QED BY <1>7, <2>1, <2>2 DEF Setup
<1>8. CASE LoopTest
  BY <1>8 DEF LoopTest, local, env, history
<1>9. CASE StartLinger
  BY <1>0, <1>9 DEF StartLinger, local, env, history
<1>10. CASE EndLinger
  BY <1>10 DEF EndLinger, local, env, history
<1>11. CASE Fatal
  BY <1>11 DEF Fatal, Exit, local, env, history
<1>12. CASE Interrupt
  BY <1>12 DEF Interrupt, local, env, history
<1>13. CASE Tick
  BY <1>13 DEF Tick, local, env, history
<1>14. CASE Answer
  <2>1. PICK r \in net, kind \in {"reply", "error"}, again \in BOOLEAN :
          /\ Deliver([kind |-> kind, own |-> TRUE, host |-> r.host,
                      idx |-> r.idx, copy |-> r.copy])
          /\ net' = (net \ {r}) \cup
                    (IF again THEN {Copy(r)} ELSE {})
          /\ dups' = IF again THEN dups + 1 ELSE dups
    BY <1>14 DEF Answer
  <2>2. /\ r \in Request /\ Copy(r) \in Request
        /\ [kind |-> kind, own |-> TRUE, host |-> r.host,
            idx |-> r.idx, copy |-> r.copy] \in Packet
    BY <2>1 DEF Request, Packet, Copy
  <2>3. net' \subseteq Request /\ sockq' \in Seq(Packet) /\ dups' \in Nat
    BY <2>1, <2>2 DEF Deliver
  <2>4. QED BY <1>14, <2>3 DEF Answer, local, history
<1>15. CASE Noise
  <2>1. PICK kind \in {"reply", "request", "error", "short"} :
          Deliver([kind |-> kind, own |-> kind \in {"request", "short"},
                   host |-> host, idx |-> 0, copy |-> FALSE])
    BY <1>15 DEF Noise
  <2>2. [kind |-> kind, own |-> kind \in {"request", "short"},
         host |-> host, idx |-> 0, copy |-> FALSE] \in Packet
    BY <1>15 DEF Noise, Packet
  <2>3. sockq' \in Seq(Packet)
    BY <2>1, <2>2 DEF Deliver
  <2>4. QED BY <1>15, <2>3 DEF Noise, local, history
<1>16. CASE UNCHANGED vars
  BY <1>16 DEF vars, local, env, history
<1>17. QED
  BY <1>2, <1>3, <1>4, <1>5, <1>6, <1>7, <1>8, <1>9, <1>10, <1>11, <1>12,
     <1>13, <1>14, <1>15, <1>16, NextCases

(* Type correctness of ping, for every reachable state.                    *)
THEOREM TypeCorrect == Spec => []TypeOK
BY TypeInit, TypeStep, PTL DEF Spec

(* Unanswered is finite: it has at most one bit per position of the table. *)
LEMMA UnansweredFinite ==
  ASSUME TypeOK
  PROVE IsFiniteSet(Unanswered) /\ Cardinality(Unanswered) \in Nat
<1>1. IsFiniteSet(0..(CkBits - 1))
  BY PingConstants, FS_Interval
<1>2. Unanswered \subseteq 0..(CkBits - 1)
  BY DEF Unanswered
<1>3. QED BY <1>1, <1>2, FS_Subset, FS_CardinalityType

(* A sequence number below the size of the table is its own bit.           *)
LEMMA IndexIdentity ==
  ASSUME NEW n \in Nat, n < CkBits
  PROVE C_IND(n) = n
BY PingConstants DEF C_IND

(* The steps that leave the counters and the table alone keep RecvCount.   *)
LEMMA RecvCountStutter ==
  ASSUME RecvCount, UNCHANGED <<xmit, recv, cktab, stale>>
  PROVE RecvCount'
BY DEF RecvCount, Unanswered

(* send_echo adds at most one unanswered bit, and one request.             *)
LEMMA SendEchoCount ==
  ASSUME TypeOK, RecvCount, SendEcho
  PROVE RecvCount'
<1>1. /\ xmit \in Nat /\ recv \in Nat /\ stale \in Nat
      /\ xmit' = xmit + 1 /\ recv' = recv /\ stale' = stale
      /\ cktab' = cktab \ {C_IND(xmit)}
  BY DEF TypeOK, SendEcho
<1>2. Unanswered' \subseteq Unanswered \cup {C_IND(xmit)}
  <2> SUFFICES ASSUME NEW b \in Unanswered', b # C_IND(xmit)
               PROVE b \in Unanswered
    OBVIOUS
  <2>1. b \in 0..(CkBits - 1) /\ b < xmit + 1 /\ b \notin cktab
    BY <1>1 DEF Unanswered
  <2>2. b # xmit
    BY <1>1, <2>1, IndexIdentity, PingConstants
  <2>3. b < xmit
    BY <1>1, <2>1, <2>2, PingConstants
  <2>4. QED BY <2>1, <2>3 DEF Unanswered
<1>3. IsFiniteSet(Unanswered) /\ Cardinality(Unanswered) \in Nat
  BY UnansweredFinite
<1>4. /\ IsFiniteSet(Unanswered \cup {C_IND(xmit)})
      /\ Cardinality(Unanswered \cup {C_IND(xmit)}) <= Cardinality(Unanswered) + 1
  BY <1>3, FS_AddElement
<1>5. /\ Cardinality(Unanswered') <= Cardinality(Unanswered) + 1
      /\ Cardinality(Unanswered') \in Nat
  BY <1>2, <1>3, <1>4, FS_Subset, FS_CardinalityType
<1>6. QED BY <1>1, <1>3, <1>5 DEF RecvCount

(* ping_recv counts a reply to this operand only by taking a bit out of    *)
(* Unanswered; any other counted reply is stale.                           *)
LEMMA ReceiveCount ==
  ASSUME TypeOK, InFlightSent, RecvCount, Receive
  PROVE RecvCount'
<1> DEFINE p == Head(sockq)
           bit == C_IND(p.idx % SeqMod)
<1>1. /\ xmit \in Nat /\ recv \in Nat /\ stale \in Nat /\ xmit' = xmit
      /\ p \in Packet /\ 1 \in DOMAIN sockq /\ p = sockq[1]
  BY DEF TypeOK, Receive
<1>2. IsFiniteSet(Unanswered) /\ Cardinality(Unanswered) \in Nat
  BY UnansweredFinite
<1>3. bit \in 0..(CkBits - 1) /\ bit <= p.idx /\ p.idx \in Nat
  <2>1. p.idx \in Nat
    BY <1>1 DEF Packet
  <2>2. p.idx % SeqMod \in Nat /\ p.idx % SeqMod <= p.idx
    BY <2>1, PingConstants
  <2>3. bit \in 0..(CkBits - 1) /\ bit <= p.idx % SeqMod
    BY <2>2, IndexInTable
  <2>4. QED BY <2>1, <2>2, <2>3, PingConstants
<1>4. CASE ~(Accepts(p) /\ p.kind = "reply")
  <2>1. UNCHANGED <<xmit, recv, cktab, stale>>
    BY <1>1, <1>4 DEF Receive, PingRecv
  <2>2. QED BY <2>1, RecvCountStutter
<1>5. CASE Accepts(p) /\ p.kind = "reply"
  <2>1. cktab' = cktab \cup {bit}
    BY <1>5 DEF Receive, PingRecv
  <2>2. Unanswered' = Unanswered \ {bit}
    BY <1>1, <2>1 DEF Unanswered
  <2>3. /\ Cardinality(Unanswered') \in Nat
        /\ Cardinality(Unanswered') <= Cardinality(Unanswered)
    <3>1. Unanswered' \subseteq Unanswered
      BY <2>2
    <3>2. QED BY <3>1, <1>2, FS_Subset, FS_CardinalityType
  <2>4. CASE bit \in cktab
    <3>1. recv' = recv /\ stale' \in Nat /\ stale' >= stale
      BY <1>1, <2>4 DEF Receive, PingRecv
    <3>2. QED BY <1>1, <1>2, <2>3, <3>1 DEF RecvCount
  <2>5. CASE bit \notin cktab /\ p.host # host
    <3>1. recv' = recv + 1 /\ stale' = stale + 1
      BY <1>1, <1>5, <2>5 DEF Receive, PingRecv
    <3>2. QED BY <1>1, <1>2, <2>3, <3>1 DEF RecvCount
  <2>6. CASE bit \notin cktab /\ p.host = host
    <3>1. recv' = recv + 1 /\ stale' = stale
      BY <1>1, <1>5, <2>6 DEF Receive, PingRecv
    <3>2. p.own \/ opt.dgram
      BY <1>5 DEF Accepts
    <3>3. p.idx < xmit
      BY <1>1, <1>5, <2>6, <3>2 DEF InFlightSent
    <3>4. bit < xmit
      BY <1>1, <1>3, <3>3, PingConstants
    <3>5. bit \in Unanswered
      BY <1>3, <2>6, <3>4 DEF Unanswered
    <3>6. Cardinality(Unanswered \ {bit}) = Cardinality(Unanswered) - 1
      BY <1>2, <3>5, FS_RemoveElement
    <3>7. QED BY <1>1, <1>2, <2>2, <3>1, <3>6 DEF RecvCount
  <2>7. QED BY <2>4, <2>5, <2>6
<1>6. QED BY <1>4, <1>5

(* Steps that send nothing, receive nothing and stay with their operand.   *)
LEMMA InFlightStutter ==
  ASSUME InFlightSent, UNCHANGED <<opt, host, xmit, net, sockq>>
  PROVE InFlightSent'
BY DEF InFlightSent

(* A request enters net with the index that xmit then leaves behind.       *)
LEMMA InFlightSend ==
  ASSUME TypeOK, InFlightSent, SendEcho, UNCHANGED <<opt, host>>
  PROVE InFlightSent'
<1>1. /\ xmit \in Nat /\ host \in Nat /\ xmit' = xmit + 1 /\ sockq' = sockq
      /\ net' = net \cup {[host |-> host, idx |-> xmit, copy |-> FALSE]}
      /\ net \subseteq Request /\ sockq \in Seq(Packet)
  BY PingConstants DEF TypeOK, SendEcho
<1>2. ASSUME NEW r \in net'
      PROVE r.host <= host' /\ (r.host = host' => r.idx < xmit')
  <2>1. CASE r \in net
    <3>1. r.idx \in Nat
      BY <1>1, <2>1 DEF Request
    <3>2. r.host <= host /\ (r.host = host => r.idx < xmit)
      BY <2>1 DEF InFlightSent
    <3>3. QED BY <1>1, <3>1, <3>2
  <2>2. CASE r = [host |-> host, idx |-> xmit, copy |-> FALSE]
    <3>1. r.host = host /\ r.idx = xmit
      BY <2>2
    <3>2. QED BY <1>1, <3>1
  <2>3. QED BY <1>1, <1>2, <2>1, <2>2
<1>3. ASSUME NEW i \in DOMAIN sockq', sockq'[i].kind = "reply",
             sockq'[i].own \/ opt'.dgram
      PROVE sockq'[i].host <= host' /\ (sockq'[i].host = host' => sockq'[i].idx < xmit')
  <2>1. sockq[i] \in Packet /\ i \in DOMAIN sockq
    BY <1>1, <1>3
  <2>2. sockq[i].host <= host /\ (sockq[i].host = host => sockq[i].idx < xmit)
    BY <1>1, <1>3, <2>1 DEF InFlightSent
  <2>3. sockq[i].idx \in Nat
    BY <2>1 DEF Packet
  <2>4. QED BY <1>1, <2>2, <2>3
<1>4. QED BY <1>2, <1>3 DEF InFlightSent

(* ping_recv takes a packet away.                                          *)
LEMMA InFlightReceive ==
  ASSUME TypeOK, InFlightSent, Receive
  PROVE InFlightSent'
<1>1. /\ UNCHANGED <<opt, host, xmit, net>> /\ sockq' = Tail(sockq)
      /\ sockq \in Seq(Packet) /\ sockq # <<>>
  BY DEF TypeOK, Receive
<1>2. ASSUME NEW i \in DOMAIN sockq'
      PROVE i + 1 \in DOMAIN sockq /\ sockq'[i] = sockq[i + 1]
  BY <1>1, <1>2
<1>3. QED BY <1>1, <1>2 DEF InFlightSent

(* Everything under way belongs to operands before the next one.           *)
LEMMA InFlightFinish ==
  ASSUME TypeOK, InFlightSent, Finish
  PROVE InFlightSent'
<1>1. /\ host \in Nat /\ host' = host + 1
      /\ opt' = opt /\ net' = net /\ sockq' = sockq
      /\ net \subseteq Request /\ sockq \in Seq(Packet)
  BY PingConstants DEF TypeOK, Finish, env
<1>2. ASSUME NEW r \in net
      PROVE r.host \in Nat /\ r.host <= host
  BY <1>1, PingConstants DEF InFlightSent, Request
<1>3. ASSUME NEW i \in DOMAIN sockq, sockq[i].kind = "reply",
             sockq[i].own \/ opt.dgram
      PROVE sockq[i].host \in Nat /\ sockq[i].host <= host
  <2>1. sockq[i] \in Packet
    BY <1>1, <1>3
  <2>2. sockq[i].host \in Nat
    BY <2>1, PingConstants DEF Packet
  <2>3. QED BY <1>3, <2>2 DEF InFlightSent
<1>4. ASSUME NEW r \in net'
      PROVE r.host <= host' /\ r.host # host'
  BY <1>1, <1>2
<1>5. ASSUME NEW i \in DOMAIN sockq', sockq'[i].kind = "reply",
             sockq'[i].own \/ opt'.dgram
      PROVE sockq'[i].host <= host' /\ sockq'[i].host # host'
  BY <1>1, <1>3, <1>5
<1>6. QED BY <1>4, <1>5 DEF InFlightSent

(* What the network adds to the queue of the socket answers a request, or  *)
(* is not acceptable.                                                      *)
LEMMA InFlightDeliver ==
  ASSUME TypeOK, InFlightSent, UNCHANGED <<opt, host, xmit>>,
         NEW p, sockq' = Append(sockq, p),
         p.kind = "reply" /\ (p.own \/ opt.dgram) =>
           p.host <= host /\ (p.host = host => p.idx < xmit),
         \A r \in net' : r.host <= host /\ (r.host = host => r.idx < xmit)
  PROVE InFlightSent'
<1>1. sockq \in Seq(Packet)
  BY DEF TypeOK
<1>2. ASSUME NEW i \in DOMAIN sockq'
      PROVE (i \in DOMAIN sockq /\ sockq'[i] = sockq[i]) \/ sockq'[i] = p
  BY <1>1, <1>2
<1>3. QED BY <1>2 DEF InFlightSent

(* An answer inherits the operand and the index of its request.            *)
LEMMA InFlightAnswer ==
  ASSUME TypeOK, InFlightSent, Answer
  PROVE InFlightSent'
<1>1. PICK r \in net, kind \in {"reply", "error"}, again \in BOOLEAN :
        /\ Deliver([kind |-> kind, own |-> TRUE, host |-> r.host,
                    idx |-> r.idx, copy |-> r.copy])
        /\ net' = (net \ {r}) \cup (IF again THEN {Copy(r)} ELSE {})
  BY DEF Answer
<1> DEFINE p == [kind |-> kind, own |-> TRUE, host |-> r.host,
                 idx |-> r.idx, copy |-> r.copy]
<1>2. UNCHANGED <<opt, host, xmit>>
  BY DEF Answer, local
<1>3. sockq' = Append(sockq, p)
  BY <1>1 DEF Deliver
<1>4. r.host <= host /\ (r.host = host => r.idx < xmit)
  BY <1>1 DEF InFlightSent
<1>5. \A q \in net' : q.host <= host /\ (q.host = host => q.idx < xmit)
  BY <1>1, <1>4 DEF InFlightSent, Copy
<1>6. p.host <= host /\ (p.host = host => p.idx < xmit)
  BY <1>4
<1> HIDE DEF p
<1>7. QED BY <1>2, <1>3, <1>5, <1>6, InFlightDeliver

(* Packets of other processes are not accepted by a raw socket.            *)
LEMMA InFlightNoise ==
  ASSUME TypeOK, InFlightSent, Noise
  PROVE InFlightSent'
<1>1. PICK kind \in {"reply", "request", "error", "short"} :
        Deliver([kind |-> kind, own |-> kind \in {"request", "short"},
                 host |-> host, idx |-> 0, copy |-> FALSE])
  BY DEF Noise
<1> DEFINE p == [kind |-> kind, own |-> kind \in {"request", "short"},
                 host |-> host, idx |-> 0, copy |-> FALSE]
<1>2. UNCHANGED <<opt, host, xmit, net>> /\ ~opt.dgram
  BY DEF Noise, local
<1>3. sockq' = Append(sockq, p)
  BY <1>1 DEF Deliver
<1>4. ~(p.kind = "reply" /\ (p.own \/ opt.dgram))
  BY <1>1, <1>2
<1>5. \A q \in net' : q.host <= host /\ (q.host = host => q.idx < xmit)
  BY <1>2 DEF InFlightSent
<1> HIDE DEF p
<1>6. QED BY <1>2, <1>3, <1>4, <1>5, InFlightDeliver

(* The invariant of the accounting: replies under way answer requests that *)
(* were sent, and each request of the operand is counted, unanswered, or   *)
(* lost its bit to a younger one.                                          *)
THEOREM AccountingInvariant == Spec => []PingInv
<1>1. Init => PingInv
  <2> SUFFICES ASSUME Init PROVE InFlightSent /\ RecvCount
    BY TypeInit DEF PingInv
  <2>1. InFlightSent
    BY DEF Init, InFlightSent
  <2>2. Unanswered = {}
    BY PingConstants DEF Init, Unanswered
  <2>3. QED BY <2>1, <2>2, FS_EmptySet DEF Init, RecvCount
<1>2. PingInv /\ [Next]_vars => PingInv'
  <2> SUFFICES ASSUME TypeOK, InFlightSent, RecvCount, [Next]_vars
               PROVE InFlightSent' /\ RecvCount'
    BY TypeStep DEF PingInv
  <2>1. CASE InitialSend
    BY <2>1, InFlightSend, SendEchoCount DEF InitialSend
  <2>2. CASE SendNext
    BY <2>2, InFlightSend, SendEchoCount DEF SendNext
  <2>3. CASE Receive
    BY <2>3, InFlightReceive, ReceiveCount
  <2>4. CASE Finish
    <3>1. Unanswered' = {}
      BY <2>4, PingConstants DEF Finish, Unanswered
    <3>2. RecvCount'
      BY <2>4, <3>1, FS_EmptySet DEF Finish, RecvCount
    <3>3. QED BY <2>4, <3>2, InFlightFinish
  <2>5. CASE Answer
    BY <2>5, InFlightAnswer, RecvCountStutter DEF Answer, local, history
  <2>6. CASE Noise
    BY <2>6, InFlightNoise, RecvCountStutter DEF Noise, local, history
  <2>7. CASE UNCHANGED <<opt, host, xmit, recv, cktab, stale, net, sockq>>
    BY <2>7, InFlightStutter, RecvCountStutter
  <2>8. \/ InitialSend \/ SendNext \/ Receive \/ Finish \/ Answer \/ Noise
        \/ UNCHANGED <<opt, host, xmit, recv, cktab, stale, net, sockq>>
    BY NextCases DEF Parse, Setup, Exit, LoopTest, StartLinger, EndLinger,
       Fatal, Interrupt, Tick, vars, local, env, history
  <2>9. QED BY <2>1, <2>2, <2>3, <2>4, <2>5, <2>6, <2>7, <2>8
<1>3. QED BY <1>1, <1>2, PTL DEF Spec

(* However the network loses, delays, reorders and duplicates, and however *)
(* often icmp_seq wraps around ping_cktab, ping_recv never counts more     *)
(* replies than requests sent plus replies to earlier operands.            *)
THEOREM RepliesBounded == Spec => []RecvBounded
<1>1. PingInv => RecvBounded
  <2> SUFFICES ASSUME PingInv PROVE RecvBounded
    OBVIOUS
  <2>1. Cardinality(Unanswered) \in Nat
    BY UnansweredFinite DEF PingInv
  <2>2. xmit \in Nat /\ recv \in Nat /\ stale \in Nat
    BY DEF PingInv, TypeOK
  <2>3. QED BY <2>1, <2>2 DEF PingInv, RecvCount, RecvBounded
<1>2. QED BY <1>1, AccountingInvariant, PTL
-----------------------------------------------------------------------------
(* The command line never changes, and with it the intervals.              *)
LEMMA OptionsFixed ==
  ASSUME [Next]_vars
  PROVE opt' = opt /\ Intvl' = Intvl /\ LingerIntvl' = LingerIntvl
<1>1. opt' = opt
  BY NextCases DEF InitialSend, SendNext, Receive, Finish, Parse, Setup, Exit,
     LoopTest, StartLinger, EndLinger, Fatal, Interrupt, Tick, Answer, Noise,
     vars
<1>2. QED BY <1>1 DEF Intvl, LingerIntvl

(* What makes ExitStatusHonest inductive: until an error ends main, status *)
(* is 1 exactly when an echo run of an operand has ended without a reply.  *)
StatusTracksMissed ==
  /\ pc # "exit" \/ host > Hosts =>
       (status = 1 <=> opt.type = "echo" /\ missed # {})
  /\ pc = "exit" /\ status = 0 => host > Hosts

(* Finish alone changes status and missed without leaving main by error.   *)
LEMMA StatusStep ==
  ASSUME TypeOK, StatusTracksMissed, [Next]_vars
  PROVE StatusTracksMissed'
<1> USE DEF StatusTracksMissed
<1>1. opt' = opt
  BY OptionsFixed
<1>2. CASE Exit /\ pc # "exit"
  <2>1. host <= Hosts /\ host \in Nat /\ Hosts \in Nat
    BY <1>2, PingConstants DEF TypeOK
  <2>2. pc' = "exit" /\ status' = 1 /\ host' = host
    BY <1>2 DEF Exit
  <2>3. ~(host > Hosts)
    BY <2>1
  <2>4. QED BY <2>2, <2>3
<1>3. CASE Finish
  <2>1. pc # "exit" /\ host <= Hosts /\ host \in 1..(Hosts + 1) /\ status \in {0, 1}
    BY <1>3 DEF Finish, TypeOK
  <2>2. status' = 1 <=> opt'.type = "echo" /\ missed' # {}
    BY <1>1, <1>3, <2>1 DEF Finish
  <2>3. pc' = "exit" => host' > Hosts
    BY <1>3, <2>1, PingConstants DEF Finish
  <2>4. QED BY <2>2, <2>3
<1>4. CASE UNCHANGED <<status, missed, host>> /\ (pc' = "exit" <=> pc = "exit")
  BY <1>1, <1>4
<1>5. \/ Exit /\ pc # "exit"
      \/ Finish
      \/ UNCHANGED <<status, missed, host>> /\ (pc' = "exit" <=> pc = "exit")
  BY NextCases DEF InitialSend, SendNext, SendEcho, Receive, Parse, Setup,
     LoopTest, StartLinger, EndLinger, Fatal, Interrupt, Tick, Answer, Noise,
     vars, local, env, history
<1>6. QED BY <1>2, <1>3, <1>4, <1>5

(* main exits 0 only when every operand was probed and, for echo, each run *)
(* counted a reply; it exits 1 after probing all only when some echo run   *)
(* counted none.  The status accumulated over the operands tracks missed.  *)
THEOREM StatusHonest == Spec => []ExitStatusHonest
<1>1. Init => StatusTracksMissed
  BY DEF Init, StatusTracksMissed
<1>2. TypeOK /\ StatusTracksMissed /\ [Next]_vars => StatusTracksMissed'
  BY StatusStep
<1>3. TypeOK /\ StatusTracksMissed => ExitStatusHonest
  BY DEF StatusTracksMissed, ExitStatusHonest
<1>4. QED BY <1>1, <1>2, <1>3, TypeCorrect, PTL DEF Spec
-----------------------------------------------------------------------------
(* What makes OvershootBounded inductive: ticks are counted only after the *)
(* deadline, the clock of an operand starts at its first request, and the  *)
(* ticks counted and the rest of the wait together never exceed the waits  *)
(* that may still begin after the deadline.                                *)
OvershootBudget ==
  /\ pc \in {"parse", "setup", "send"} => over = 0
  /\ pc = "send" => ~finishing
  /\ over > 0 => TimedOut
  /\ pc \in {"loop", "select"} =>
       over + wait <= IF finishing THEN Intvl + LingerIntvl ELSE Intvl
  /\ over <= Intvl + LingerIntvl

(* Each step keeps the budget: Tick moves one tick from the wait to over,  *)
(* a new interval begins only before the deadline, and only the one linger *)
(* may begin after it.                                                     *)
LEMMA OvershootStep ==
  ASSUME TypeOK, OvershootBudget, [Next]_vars
  PROVE OvershootBudget'
<1> DEFINE I == Intvl
           L == LingerIntvl
<1>0. /\ opt' = opt /\ I \in Nat /\ L \in Nat /\ Intvl' = I /\ LingerIntvl' = L
      /\ over \in Nat /\ wait \in Nat /\ left \in Nat /\ finishing \in BOOLEAN
  BY OptionsFixed, IntvlType DEF TypeOK
<1>1. /\ pc \in {"parse", "setup", "send"} => over = 0
      /\ pc = "send" => ~finishing
      /\ over > 0 => opt.timeout > 0 /\ left = 0
      /\ pc \in {"loop", "select"} => over + wait <= IF finishing THEN I + L ELSE I
      /\ over <= I + L
  BY DEF OvershootBudget, TimedOut
<1> SUFFICES
      /\ pc' \in {"parse", "setup", "send"} => over' = 0
      /\ pc' = "send" => ~finishing'
      /\ over' > 0 => opt.timeout > 0 /\ left' = 0
      /\ pc' \in {"loop", "select"} =>
           over' + wait' <= IF finishing' THEN I + L ELSE I
      /\ over' <= I + L
  BY <1>0 DEF OvershootBudget, TimedOut
<1> HIDE DEF I, L
<1>2. CASE InitialSend
  <2>1. pc = "send" /\ over' = over /\ finishing' = finishing /\ left' = left
    BY <1>2 DEF InitialSend
  <2>2. pc' = pc \/ (pc' = "loop" /\ wait' = I)
    BY <1>2 DEF InitialSend, I
  <2>3. QED BY <1>0, <1>1, <2>1, <2>2
<1>3. CASE SendNext
  <2>1. pc = "select" /\ over' = over /\ finishing' = finishing /\ left' = left
    BY <1>3 DEF SendNext
  <2>2. \/ pc' = "finish"
        \/ ~(opt.timeout > 0 /\ left = 0) /\ pc' = "loop" /\ wait' = I
    BY <1>3 DEF SendNext, TimedOut, I
  <2>3. QED BY <1>0, <1>1, <2>1, <2>2
<1>4. CASE StartLinger
  <2>1. /\ pc = "select" /\ wait = 0 /\ over' = over /\ ~finishing /\ finishing'
        /\ left' = left /\ wait' = L /\ pc' = "loop"
    BY <1>4 DEF StartLinger, L, history
  <2>2. QED BY <1>0, <1>1, <2>1
<1>5. CASE Tick
  <2>1. /\ pc \in {"setup", "select"} /\ pc' = pc /\ finishing' = finishing
        /\ wait > 0 \/ left > 0
        /\ wait' = IF wait > 0 THEN wait - 1 ELSE 0
        /\ left' = IF left > 0 THEN left - 1 ELSE 0
        /\ over' = IF pc = "select" /\ opt.timeout > 0 /\ left = 0
                     THEN over + 1 ELSE over
    BY <1>5 DEF Tick, TimedOut, local
  <2>2. CASE over' = over
    BY <1>0, <1>1, <2>1, <2>2
  <2>3. CASE pc = "select" /\ opt.timeout > 0 /\ left = 0
    <3>1. wait > 0 /\ wait' = wait - 1 /\ over' = over + 1 /\ left' = 0
      BY <1>0, <2>1, <2>3
    <3>2. QED BY <1>0, <1>1, <2>1, <2>3, <3>1
  <2>4. QED BY <2>1, <2>2, <2>3
<1>6. CASE Finish
  BY <1>0, <1>1, <1>6 DEF Finish
<1>7. CASE Setup
  <2>1. pc = "setup" /\ over' = over /\ left' = left
    BY <1>7 DEF Setup, Exit, history
  <2>2. pc' = "exit" \/ (pc' = "send" /\ ~finishing')
    BY <1>7 DEF Setup, Exit
  <2>3. QED BY <1>0, <1>1, <2>1, <2>2
<1>8. CASE Parse
  <2>1. pc = "parse" /\ over' = over /\ left' = left /\ pc' \in {"setup", "exit"}
    BY <1>8 DEF Parse, Exit, history
  <2>2. QED BY <1>0, <1>1, <2>1
<1>9. CASE /\ UNCHANGED <<over, left, wait, finishing>>
           /\ \/ pc' = pc \/ pc' \in {"finish", "exit"}
              \/ pc \in {"loop", "select"} /\ pc' \in {"loop", "select"}
  BY <1>0, <1>1, <1>9
<1>10. \/ InitialSend \/ SendNext \/ StartLinger \/ Tick \/ Finish \/ Setup \/ Parse
       \/ /\ UNCHANGED <<over, left, wait, finishing>>
          /\ \/ pc' = pc \/ pc' \in {"finish", "exit"}
             \/ pc \in {"loop", "select"} /\ pc' \in {"loop", "select"}
  BY NextCases DEF Receive, Exit, LoopTest, EndLinger, Fatal, Interrupt,
     Answer, Noise, vars, local, env, history
<1>11. QED
  BY <1>2, <1>3, <1>4, <1>5, <1>6, <1>7, <1>8, <1>9, <1>10

(* After the -w deadline ping_run stays with an operand for at most one    *)
(* sending interval and one linger interval, whatever arrives meanwhile.   *)
THEOREM Overshoot == Spec => []OvershootBounded
<1>1. Init => OvershootBudget
  <2> SUFFICES ASSUME Init PROVE OvershootBudget
    OBVIOUS
  <2>1. Intvl \in Nat /\ LingerIntvl \in Nat
    BY PingConstants, IntvlType DEF Init
  <2>2. QED BY <2>1 DEF Init, OvershootBudget
<1>2. TypeOK /\ OvershootBudget /\ [Next]_vars => OvershootBudget'
  BY OvershootStep
<1>3. OvershootBudget => OvershootBounded
  BY DEF OvershootBudget, OvershootBounded
<1>4. QED BY <1>1, <1>2, <1>3, TypeCorrect, PTL DEF Spec
-----------------------------------------------------------------------------
(* A larger quotient adds at least one divisor.                            *)
LEMMA TimesMono ==
  ASSUME NEW c \in Nat \ {0}, NEW q \in Int, NEW r \in Int, q < r
  PROVE c * q + c <= c * r
<1>1. PICK d \in Nat : r = q + 1 + d
  BY r - q - 1 \in Nat
<1>2. c * r = c * q + c + c * d
  BY <1>1
<1>3. c * d \in Nat /\ c * q \in Int
  OBVIOUS
<1>4. QED BY <1>2, <1>3

(* Division with remainder.                                                *)
LEMMA DivMod ==
  ASSUME NEW a \in Nat, NEW c \in Nat \ {0}
  PROVE a = c * (a \div c) + (a % c) /\ a % c \in 0..(c - 1) /\ a \div c \in Nat
OBVIOUS

(* The remainder is unique.                                                *)
LEMMA ModUnique ==
  ASSUME NEW c \in Nat \ {0}, NEW q \in Int, NEW r \in Int,
         NEW x \in 0..(c - 1), NEW y \in 0..(c - 1), c * q + x = c * r + y
  PROVE x = y
<1>0. c * q \in Int /\ c * r \in Int
  OBVIOUS
<1>1. CASE q < r
  BY <1>0, <1>1, TimesMono
<1>2. CASE r < q
  BY <1>0, <1>2, TimesMono
<1>3. QED BY <1>1, <1>2

(* Cutting a number down to a multiple of the divisor first changes        *)
(* nothing: icmp_seq is the number of the request cut down to 16 bits.     *)
LEMMA ModMod ==
  ASSUME NEW a \in Nat, NEW s \in Nat \ {0}, NEW c \in Nat \ {0}, s % c = 0
  PROVE (a % s) % c = a % c
<1> DEFINE b == a % s
           k == s \div c
           q == a \div s
           d == b \div c
           m == b % c
           e == a \div c
           n == a % c
<1>1. a = s * q + b /\ b \in Nat /\ q \in Nat
  BY DivMod
<1>2. s = c * k /\ k \in Nat
  BY DivMod
<1>3. b = c * d + m /\ m \in 0..(c - 1) /\ d \in Nat
  BY <1>1, DivMod
<1>4. a = c * e + n /\ n \in 0..(c - 1) /\ e \in Nat
  BY DivMod
<1> SUFFICES m = n
  OBVIOUS
<1> HIDE DEF b, k, q, d, m, e, n
<1>5. s * q = c * (k * q) /\ k * q \in Nat
  BY <1>1, <1>2
<1>6. c * (k * q) + c * d = c * (k * q + d) /\ k * q + d \in Nat
  BY <1>3, <1>5
<1>7. c * (k * q) \in Int /\ c * d \in Int /\ c * (k * q + d) \in Int
  BY <1>3, <1>5, <1>6
<1>8. c * (k * q + d) + m = c * e + n
  <2>1. a = c * (k * q) + (c * d + m)
    BY <1>1, <1>3, <1>5
  <2>2. a = c * (k * q + d) + m
    BY <2>1, <1>3, <1>6, <1>7
  <2>3. QED BY <2>2, <1>4
<1>9. PICK g \in Nat : c * g + m = c * e + n
  BY <1>6, <1>8
<1>10. QED BY <1>3, <1>4, <1>9, ModUnique

(* Fewer than c consecutive numbers have different remainders.             *)
LEMMA ModWindow ==
  ASSUME NEW a \in Nat, NEW b \in Nat, NEW c \in Nat \ {0},
         a % c = b % c, a < b + c, b < a + c
  PROVE a = b
<1>1. a = c * (a \div c) + (a % c) /\ a \div c \in Nat
  BY DivMod
<1>2. b = c * (b \div c) + (b % c) /\ b \div c \in Nat
  BY DivMod
<1>3. c * (a \div c) \in Int /\ c * (b \div c) \in Int /\ a % c \in Int
  BY <1>1, <1>2, DivMod
<1>4. CASE (a \div c) < (b \div c)
  BY <1>1, <1>2, <1>3, <1>4, TimesMono
<1>5. CASE (b \div c) < (a \div c)
  BY <1>1, <1>2, <1>3, <1>5, TimesMono
<1>6. QED BY <1>1, <1>2, <1>3, <1>4, <1>5

(* The bit that is tested for icmp_seq is the bit that was cleared for     *)
(* ping_num_xmit.                                                          *)
LEMMA SameBit ==
  ASSUME NEW i \in Nat
  PROVE C_IND(i % SeqMod) = C_IND(i)
BY PingConstants, CkBitsDivideSeqMod, ModMod, ZenonT(60) DEF C_IND

(* A packet of the socket that ping_recv counts and that is no copy made   *)
(* by the network.                                                         *)
Original(p) == p.kind = "reply" /\ (p.own \/ opt.dgram) /\ ~p.copy

(* At most one answer to a request is under way that is not a copy.        *)
OriginalsOnce ==
  /\ \A r \in net, k \in DOMAIN sockq :
       ~r.copy /\ Original(sockq[k]) =>
         r.host # sockq[k].host \/ r.idx # sockq[k].idx
  /\ \A k, l \in DOMAIN sockq :
       Original(sockq[k]) /\ Original(sockq[l])
         /\ sockq[k].host = sockq[l].host /\ sockq[k].idx = sockq[l].idx => k = l

(* The requests of this operand whose first answer is still under way.     *)
Pending ==
  {i \in 0..(xmit - 1) :
     \/ \E r \in net : r.host = host /\ r.idx = i /\ ~r.copy
     \/ \E k \in DOMAIN sockq :
          Original(sockq[k]) /\ sockq[k].host = host /\ sockq[k].idx = i}

(* Bits that are set although the first answer to the youngest request     *)
(* they stand for has not been read: that answer will look like a          *)
(* duplicate.                                                              *)
Stolen == {b \in cktab : \E i \in Pending : xmit <= i + CkBits /\ C_IND(i) = b}

(* What makes DupsExplained inductive: a reply that explains a duplicate   *)
(* is counted when it steals the bit, before the victim is reported.       *)
DupsCredit == rept + Cardinality(Stolen) <= extra + stale

(* Stolen is finite: it is a part of the table.                            *)
LEMMA StolenFinite ==
  ASSUME TypeOK
  PROVE IsFiniteSet(Stolen) /\ Cardinality(Stolen) \in Nat
<1>1. IsFiniteSet(0..(CkBits - 1))
  BY PingConstants, FS_Interval
<1>2. Stolen \subseteq 0..(CkBits - 1)
  BY DEF Stolen, TypeOK
<1>3. QED BY <1>1, <1>2, FS_Subset, FS_CardinalityType

(* Steps that steal no bit and count no duplicate keep the credit.         *)
LEMMA CreditKept ==
  ASSUME TypeOK, DupsCredit, Stolen' \subseteq Stolen, UNCHANGED <<rept, extra, stale>>
  PROVE DupsCredit'
<1>1. /\ Cardinality(Stolen') \in Nat /\ Cardinality(Stolen) \in Nat
      /\ Cardinality(Stolen') <= Cardinality(Stolen)
  BY StolenFinite, FS_Subset, FS_CardinalityType
<1>2. rept \in Nat /\ extra \in Nat /\ stale \in Nat
  BY DEF TypeOK
<1>3. QED BY <1>1, <1>2 DEF DupsCredit

(* send_echo clears the bit of the new request, and the request that had   *)
(* it is now older than the table.                                         *)
LEMMA CreditSend ==
  ASSUME TypeOK, OriginalsOnce, InFlightSent, DupsCredit, SendEcho,
         UNCHANGED <<opt, host>>
  PROVE OriginalsOnce' /\ DupsCredit'
<1> DEFINE new == [host |-> host, idx |-> xmit, copy |-> FALSE]
<1>1. /\ xmit \in Nat /\ xmit' = xmit + 1 /\ sockq' = sockq
      /\ net' = net \cup {new} /\ cktab' = cktab \ {C_IND(xmit)}
      /\ UNCHANGED <<rept, extra, stale>>
  BY DEF TypeOK, SendEcho
<1>2. ASSUME NEW k \in DOMAIN sockq, Original(sockq[k])
      PROVE sockq[k].host # host \/ sockq[k].idx # xmit
  <2>1. sockq[k].host = host => sockq[k].idx < xmit
    BY <1>2 DEF InFlightSent, Original
  <2>2. sockq[k] \in Packet
    BY DEF TypeOK
  <2>3. sockq[k].idx \in Nat
    BY <2>2 DEF Packet
  <2>4. QED BY <1>1, <2>1, <2>3
<1>3. OriginalsOnce'
  <2>1. \A k \in DOMAIN sockq' : Original(sockq[k])' <=> Original(sockq[k])
    BY <1>1 DEF Original
  <2>2. ASSUME NEW r \in net', NEW k \in DOMAIN sockq, ~r.copy, Original(sockq[k])
        PROVE r.host # sockq[k].host \/ r.idx # sockq[k].idx
    <3>1. CASE r \in net
      BY <2>2, <3>1 DEF OriginalsOnce
    <3>2. CASE r = new
      BY <1>2, <2>2, <3>2
    <3>3. QED BY <1>1, <3>1, <3>2
  <2>3. QED BY <1>1, <2>1, <2>2 DEF OriginalsOnce
<1>4. Stolen' \subseteq Stolen
  <2> SUFFICES ASSUME NEW b \in Stolen' PROVE b \in Stolen
    OBVIOUS
  <2>1. b \in cktab /\ b # C_IND(xmit)
    BY <1>1 DEF Stolen
  <2>2. PICK i \in Pending' : xmit + 1 <= i + CkBits /\ C_IND(i) = b
    BY <1>1 DEF Stolen, C_IND
  <2>3. i \in 0..xmit /\ i # xmit
    BY <1>1, <2>1, <2>2 DEF Pending
  <2>4. \/ \E r \in net : r.host = host /\ r.idx = i /\ ~r.copy
        \/ \E k \in DOMAIN sockq :
             Original(sockq[k]) /\ sockq[k].host = host /\ sockq[k].idx = i
    BY <1>1, <2>2, <2>3 DEF Pending, Original
  <2>5. i \in Pending
    BY <1>1, <2>3, <2>4 DEF Pending
  <2>6. xmit <= i + CkBits
    BY <1>1, <2>2, <2>3, PingConstants
  <2>7. QED BY <2>1, <2>2, <2>5, <2>6 DEF Stolen
<1>5. QED BY <1>1, <1>3, <1>4, CreditKept

(* ping_recv: a reply that is no copy, not late and not to an earlier      *)
(* operand is the last one that could find its bit stolen; any other reply *)
(* steals at most one bit or is a duplicate itself, and is explained.      *)
LEMMA CreditReceive ==
  ASSUME TypeOK, OriginalsOnce, InFlightSent, DupsCredit, Receive
  PROVE OriginalsOnce' /\ DupsCredit'
<1> DEFINE p == Head(sockq)
           bit == C_IND(p.idx % SeqMod)
           counted == Accepts(p) /\ p.kind = "reply"
           old == p.copy \/ xmit > p.idx + CkBits
<1>1. /\ UNCHANGED <<opt, host, xmit, net>> /\ sockq' = Tail(sockq)
      /\ sockq \in Seq(Packet) /\ sockq # <<>> /\ p \in Packet
      /\ 1 \in DOMAIN sockq /\ p = sockq[1]
      /\ xmit \in Nat /\ rept \in Nat /\ extra \in Nat /\ stale \in Nat
  BY DEF TypeOK, Receive
<1>2. p.idx \in Nat /\ bit = C_IND(p.idx)
  BY <1>1, SameBit DEF Packet
<1>3. ASSUME NEW k \in DOMAIN sockq'
      PROVE k + 1 \in DOMAIN sockq /\ sockq'[k] = sockq[k + 1] /\ k + 1 # 1 /\ k \in Nat
  BY <1>1, <1>3
<1>4. \A q : Original(q)' <=> Original(q)
  BY <1>1 DEF Original
<1>5. OriginalsOnce'
  <2>1. ASSUME NEW r \in net', NEW k \in DOMAIN sockq', ~r.copy, Original(sockq'[k])
        PROVE r.host # sockq'[k].host \/ r.idx # sockq'[k].idx
    BY <1>1, <1>3, <2>1 DEF OriginalsOnce
  <2>2. ASSUME NEW k \in DOMAIN sockq', NEW l \in DOMAIN sockq',
               Original(sockq'[k]), Original(sockq'[l]),
               sockq'[k].host = sockq'[l].host, sockq'[k].idx = sockq'[l].idx
        PROVE k = l
    <3>1. k + 1 = l + 1 /\ k \in Nat /\ l \in Nat
      BY <1>3, <2>2 DEF OriginalsOnce
    <3>2. QED BY <3>1
  <2>3. QED BY <1>1, <2>1, <2>2 DEF OriginalsOnce, Original
<1>6. Pending' \subseteq Pending
  <2> SUFFICES ASSUME NEW i \in Pending' PROVE i \in Pending
    OBVIOUS
  <2>1. i \in 0..(xmit - 1)
    BY <1>1 DEF Pending
  <2>2. CASE \E r \in net : r.host = host /\ r.idx = i /\ ~r.copy
    BY <2>1, <2>2 DEF Pending
  <2>3. CASE \E k \in DOMAIN sockq' :
               Original(sockq'[k]) /\ sockq'[k].host = host /\ sockq'[k].idx = i
    BY <1>3, <2>1, <2>3 DEF Pending
  <2>4. QED BY <1>1, <2>2, <2>3 DEF Pending, Original
<1>7. IsFiniteSet(Stolen) /\ Cardinality(Stolen) \in Nat
  BY StolenFinite
<1>0. rept \in Nat /\ extra \in Nat /\ stale \in Nat
  BY <1>1
<1>8. CASE ~counted
  <2>1. UNCHANGED <<rept, extra, stale, cktab>>
    BY <1>1, <1>8 DEF Receive, PingRecv
  <2>2. Stolen' \subseteq Stolen
    BY <1>1, <1>6, <2>1 DEF Stolen, C_IND
  <2>3. QED BY <1>5, <2>1, <2>2, CreditKept
<1>9. CASE counted /\ (p.host # host \/ old)
  <2>1. cktab' = cktab \cup {bit}
    BY <1>9 DEF Receive, PingRecv
  <2>2. \/ extra' = extra + 1 /\ stale' = stale
        \/ extra' = extra /\ stale' = stale + 1
    BY <1>1, <1>9 DEF Receive, PingRecv
  <2>3. CASE bit \in cktab
    <3>1. rept' = rept + 1 /\ cktab' = cktab
      BY <1>9, <2>1, <2>3 DEF Receive, PingRecv
    <3>2. Stolen' \subseteq Stolen
      BY <1>1, <1>6, <3>1 DEF Stolen, C_IND
    <3>3. Cardinality(Stolen') <= Cardinality(Stolen) /\ Cardinality(Stolen') \in Nat
      BY <1>7, <3>2, FS_Subset, FS_CardinalityType
    <3>4. DupsCredit'
      BY <1>0, <1>7, <2>2, <3>1, <3>3 DEF DupsCredit
    <3>5. QED BY <1>5, <3>4
  <2>4. CASE bit \notin cktab
    <3>1. rept' = rept
      BY <1>9, <2>4 DEF Receive, PingRecv
    <3>2. Stolen' \subseteq Stolen \cup {bit}
      BY <1>1, <1>6, <2>1 DEF Stolen, C_IND
    <3>3. /\ IsFiniteSet(Stolen \cup {bit})
          /\ Cardinality(Stolen \cup {bit}) <= Cardinality(Stolen) + 1
          /\ Cardinality(Stolen \cup {bit}) \in Nat
      BY <1>7, FS_AddElement, FS_CardinalityType
    <3>4. Cardinality(Stolen') <= Cardinality(Stolen) + 1 /\ Cardinality(Stolen') \in Nat
      BY <1>7, <3>2, <3>3, FS_Subset, FS_CardinalityType
    <3>5. DupsCredit'
      BY <1>0, <1>7, <2>2, <3>1, <3>4 DEF DupsCredit
    <3>6. QED BY <1>5, <3>5
  <2>5. QED BY <2>3, <2>4
<1>10. CASE counted /\ p.host = host /\ ~old
  <2>1. cktab' = cktab \cup {bit} /\ extra' = extra /\ stale' = stale
    BY <1>10 DEF Receive, PingRecv
  <2>2. Original(p) /\ p.idx < xmit
    BY <1>1, <1>10 DEF Original, Accepts, InFlightSent
  <2>3. xmit <= p.idx + CkBits
    BY <1>1, <1>2, <1>10, PingConstants
  <2>4. p.idx \notin Pending'
    <3>1. ASSUME NEW r \in net, r.host = host, r.idx = p.idx, ~r.copy PROVE FALSE
      BY <1>1, <1>10, <2>2, <3>1 DEF OriginalsOnce
    <3>2. ASSUME NEW k \in DOMAIN sockq', Original(sockq'[k]),
                 sockq'[k].host = host, sockq'[k].idx = p.idx
          PROVE FALSE
      BY <1>1, <1>3, <1>10, <2>2, <3>2 DEF OriginalsOnce
    <3>3. QED BY <1>1, <3>1, <3>2 DEF Pending, Original
  <2>5. Stolen' \subseteq Stolen \ {bit}
    <3> SUFFICES ASSUME NEW b \in Stolen' PROVE b \in Stolen /\ b # bit
      OBVIOUS
    <3>1. PICK i \in Pending' : xmit <= i + CkBits /\ C_IND(i) = b
      BY <1>1 DEF Stolen, C_IND
    <3>2. i \in Pending /\ i # p.idx /\ i \in Nat /\ i < xmit
      <4>1. i \in Pending /\ i # p.idx
        BY <1>6, <2>4, <3>1
      <4>2. i \in 0..(xmit - 1)
        BY <4>1 DEF Pending
      <4>3. QED BY <1>1, <4>1, <4>2
    <3>3. b # bit
      <4>1. i < p.idx + CkBits /\ p.idx < i + CkBits
        BY <1>1, <1>2, <2>2, <2>3, <3>1, <3>2, PingConstants
      <4>2. QED BY <1>2, <3>1, <3>2, <4>1, ModWindow, PingConstants DEF C_IND
    <3>4. b \in cktab
      BY <2>1, <3>3 DEF Stolen
    <3>5. QED BY <3>1, <3>2, <3>3, <3>4 DEF Stolen
  <2>6. CASE bit \in cktab
    <3>1. rept' = rept + 1
      BY <1>10, <2>6 DEF Receive, PingRecv
    <3>2. p.idx \in Pending
      BY <1>1, <1>2, <1>10, <2>2 DEF Pending
    <3>3. bit \in Stolen
      BY <1>2, <2>3, <2>6, <3>2 DEF Stolen
    <3>4. /\ IsFiniteSet(Stolen \ {bit})
          /\ Cardinality(Stolen \ {bit}) = Cardinality(Stolen) - 1
      BY <1>7, <3>3, FS_RemoveElement
    <3>5. /\ Cardinality(Stolen') <= Cardinality(Stolen) - 1
          /\ Cardinality(Stolen') \in Nat
      BY <2>5, <3>4, FS_Subset, FS_CardinalityType
    <3>6. QED BY <1>1, <1>5, <1>7, <2>1, <3>1, <3>5 DEF DupsCredit
  <2>7. CASE bit \notin cktab
    <3>1. rept' = rept
      BY <1>10, <2>7 DEF Receive, PingRecv
    <3>2. QED BY <1>5, <2>1, <2>5, <3>1, CreditKept
  <2>8. QED BY <2>6, <2>7
<1>11. QED BY <1>8, <1>9, <1>10

(* Packets that reach the socket and are no originals, or come from net    *)
(* where they are no longer, keep both parts.                              *)
LEMMA CreditDeliver ==
  ASSUME TypeOK, OriginalsOnce, DupsCredit,
         UNCHANGED <<opt, host, xmit, cktab, rept, extra, stale>>,
         NEW p, sockq' = Append(sockq, p),
         \A r \in net' : ~r.copy => r \in net,
         Original(p) =>
           /\ \A r \in net' : ~r.copy => r.host # p.host \/ r.idx # p.idx
           /\ \E r \in net : ~r.copy /\ r.host = p.host /\ r.idx = p.idx
  PROVE OriginalsOnce' /\ DupsCredit'
<1>1. sockq \in Seq(Packet)
  BY DEF TypeOK
<1>2. ASSUME NEW k \in DOMAIN sockq'
      PROVE \/ k \in DOMAIN sockq /\ sockq'[k] = sockq[k]
            \/ k = Len(sockq) + 1 /\ sockq'[k] = p
  BY <1>1, <1>2
<1>3. ASSUME NEW k \in DOMAIN sockq, Original(p), Original(sockq[k])
      PROVE sockq[k].host # p.host \/ sockq[k].idx # p.idx
  BY <1>3 DEF OriginalsOnce
<1>4. OriginalsOnce'
  <2>1. ASSUME NEW r \in net', NEW k \in DOMAIN sockq', ~r.copy, Original(sockq'[k])
        PROVE r.host # sockq'[k].host \/ r.idx # sockq'[k].idx
    BY <1>2, <2>1 DEF OriginalsOnce
  <2>2. ASSUME NEW k \in DOMAIN sockq', NEW l \in DOMAIN sockq',
               Original(sockq'[k]), Original(sockq'[l]),
               sockq'[k].host = sockq'[l].host, sockq'[k].idx = sockq'[l].idx
        PROVE k = l
    <3>1. CASE k \in DOMAIN sockq /\ l \in DOMAIN sockq
      BY <1>2, <1>1, <2>2, <3>1 DEF OriginalsOnce
    <3>2. QED BY <1>2, <1>3, <2>2, <3>1
  <2>3. QED BY <2>1, <2>2 DEF OriginalsOnce, Original
<1>5. Pending' \subseteq Pending
  <2> SUFFICES ASSUME NEW i \in Pending' PROVE i \in Pending
    OBVIOUS
  <2>1. i \in 0..(xmit - 1)
    BY DEF Pending
  <2>2. CASE \E r \in net' : r.host = host /\ r.idx = i /\ ~r.copy
    BY <2>1, <2>2 DEF Pending
  <2>3. CASE \E k \in DOMAIN sockq' :
               Original(sockq'[k]) /\ sockq'[k].host = host /\ sockq'[k].idx = i
    BY <1>2, <2>1, <2>3 DEF Pending
  <2>4. QED BY <2>2, <2>3 DEF Pending, Original
<1>6. Stolen' \subseteq Stolen
  BY <1>5 DEF Stolen, C_IND
<1>7. QED BY <1>4, <1>6, CreditKept

(* The answer to a request takes its place; the copy the network keeps is  *)
(* marked as one.                                                          *)
LEMMA CreditAnswer ==
  ASSUME TypeOK, OriginalsOnce, DupsCredit, Answer
  PROVE OriginalsOnce' /\ DupsCredit'
<1>1. PICK r \in net, kind \in {"reply", "error"}, again \in BOOLEAN :
        /\ Deliver([kind |-> kind, own |-> TRUE, host |-> r.host,
                    idx |-> r.idx, copy |-> r.copy])
        /\ net' = (net \ {r}) \cup (IF again THEN {Copy(r)} ELSE {})
  BY DEF Answer
<1> DEFINE p == [kind |-> kind, own |-> TRUE, host |-> r.host,
                 idx |-> r.idx, copy |-> r.copy]
<1>2. UNCHANGED <<opt, host, xmit, cktab, rept, extra, stale>>
  BY DEF Answer, local, history
<1>3. sockq' = Append(sockq, p)
  BY <1>1 DEF Deliver
<1>4. \A q \in net' : ~q.copy => q \in net /\ q # r
  BY <1>1 DEF Copy
<1>5. ASSUME Original(p), NEW q \in net', ~q.copy
      PROVE q.host # p.host \/ q.idx # p.idx
  <2>1. q \in Request /\ r \in Request /\ q # r
    BY <1>1, <1>4, <1>5 DEF TypeOK
  <2>2. ~r.copy /\ q.copy = r.copy
    BY <1>5, <2>1 DEF Original, Request
  <2>3. q.host # r.host \/ q.idx # r.idx
    BY <2>1, <2>2 DEF Request
  <2>4. QED BY <2>3
<1>6. Original(p) => \E q \in net : ~q.copy /\ q.host = p.host /\ q.idx = p.idx
  BY <1>1 DEF Original
<1> HIDE DEF p
<1>7. QED BY <1>2, <1>3, <1>4, <1>5, <1>6, CreditDeliver

(* A raw socket does not count the replies meant for other processes.      *)
LEMMA CreditNoise ==
  ASSUME TypeOK, OriginalsOnce, DupsCredit, Noise
  PROVE OriginalsOnce' /\ DupsCredit'
<1>1. PICK kind \in {"reply", "request", "error", "short"} :
        Deliver([kind |-> kind, own |-> kind \in {"request", "short"},
                 host |-> host, idx |-> 0, copy |-> FALSE])
  BY DEF Noise
<1> DEFINE p == [kind |-> kind, own |-> kind \in {"request", "short"},
                 host |-> host, idx |-> 0, copy |-> FALSE]
<1>2. UNCHANGED <<opt, host, xmit, cktab, rept, extra, stale, net>> /\ ~opt.dgram
  BY DEF Noise, local, history
<1>3. sockq' = Append(sockq, p)
  BY <1>1 DEF Deliver
<1>4. ~Original(p)
  BY <1>1, <1>2 DEF Original
<1> HIDE DEF p
<1>5. QED BY <1>2, <1>3, <1>4, CreditDeliver

(* Every reply that ping_recv reports as a duplicate is explained by a     *)
(* copy, a reply older than the table, or a reply to an earlier operand,   *)
(* for every table size that divides the range of icmp_seq.                *)
THEOREM DuplicatesExplained == Spec => []DupsExplained
<1>1. Init => OriginalsOnce /\ DupsCredit
  <2> SUFFICES ASSUME Init PROVE OriginalsOnce /\ DupsCredit
    OBVIOUS
  <2>1. OriginalsOnce
    BY DEF Init, OriginalsOnce
  <2>2. Stolen = {}
    BY DEF Init, Stolen
  <2>3. QED BY <2>1, <2>2, FS_EmptySet DEF Init, DupsCredit
<1>2. PingInv /\ OriginalsOnce /\ DupsCredit /\ [Next]_vars
        => OriginalsOnce' /\ DupsCredit'
  <2> SUFFICES ASSUME TypeOK, InFlightSent, OriginalsOnce, DupsCredit, [Next]_vars
               PROVE OriginalsOnce' /\ DupsCredit'
    BY DEF PingInv
  <2>1. CASE InitialSend
    BY <2>1, CreditSend DEF InitialSend
  <2>2. CASE SendNext
    BY <2>2, CreditSend DEF SendNext
  <2>3. CASE Receive
    BY <2>3, CreditReceive
  <2>4. CASE Finish
    <3>1. OriginalsOnce'
      BY <2>4 DEF Finish, env, OriginalsOnce, Original
    <3>2. Stolen' = {}
      BY <2>4 DEF Finish, Stolen
    <3>3. QED BY <2>4, <3>1, <3>2, FS_EmptySet DEF Finish, DupsCredit
  <2>5. CASE Answer
    BY <2>5, CreditAnswer
  <2>6. CASE Noise
    BY <2>6, CreditNoise
  <2>7. CASE UNCHANGED <<opt, host, xmit, rept, cktab, stale, extra, net, sockq>>
    <3>1. OriginalsOnce'
      BY <2>7 DEF OriginalsOnce, Original
    <3>2. Stolen' = Stolen
      BY <2>7 DEF Stolen, Pending, Original, C_IND
    <3>3. QED BY <2>7, <3>1, <3>2 DEF DupsCredit
  <2>8. \/ InitialSend \/ SendNext \/ Receive \/ Finish \/ Answer \/ Noise
        \/ UNCHANGED <<opt, host, xmit, rept, cktab, stale, extra, net, sockq>>
    BY NextCases DEF Parse, Setup, Exit, LoopTest, StartLinger, EndLinger,
       Fatal, Interrupt, Tick, vars, local, env, history
  <2>9. QED BY <2>1, <2>2, <2>3, <2>4, <2>5, <2>6, <2>7, <2>8
<1>3. TypeOK /\ DupsCredit => DupsExplained
  <2> SUFFICES ASSUME TypeOK, DupsCredit PROVE DupsExplained
    OBVIOUS
  <2>1. Cardinality(Stolen) \in Nat
    BY StolenFinite
  <2>2. rept \in Nat /\ extra \in Nat /\ stale \in Nat
    BY DEF TypeOK
  <2>3. QED BY <2>1, <2>2 DEF DupsCredit, DupsExplained
<1>4. Spec => []PingInv
  BY AccountingInvariant
<1>5. QED BY <1>1, <1>2, <1>3, <1>4, TypeCorrect, PTL DEF Spec
=============================================================================
