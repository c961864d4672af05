-------------------------------- MODULE Tftp --------------------------------
(***************************************************************************)
(* File transfer between tftp (src/tftp.c) and tftpd (src/tftpd.c) over    *)
(* UDP.                                                                    *)
(*                                                                         *)
(* The client carries out the get and put commands of a session one after  *)
(* the other, over one socket.  inetd starts a tftpd for every request     *)
(* that reaches the well-known port, so a request that was sent twice is   *)
(* served twice; each instance has a port of its own and answers there.    *)
(* Packets may be lost, duplicated, delayed and reordered, a retransmission*)
(* timer may go off at any moment of a wait, any process may die.          *)
(*                                                                         *)
(* Files are transferred in octet mode; Netascii.tla is about the          *)
(* conversion of the other mode.                                           *)
(***************************************************************************)
EXTENDS TftpBuffers, FiniteSets

CONSTANTS
  Client,       \* the tftp process and its port
  WellKnown,    \* the port inetd listens on
  Scenarios,    \* session: the commands, "get" or "put"; size: of the files,
                \* in blocks; bounds: servers, instances of tftpd, and faults,
                \* duplicated packets, refused requests, failing reads and
                \* writes and processes that die
  BlockMod,     \* th_block is a 16-bit field: 2^16 in the code
  MaxTimeouts,  \* maxtimeout / rexmtval: 5 in the code
  SavesMask     \* whether setjmp saves the signal mask (it does not in glibc)

ASSUME TftpConstants ==
  /\ Client # WellKnown /\ {Client, WellKnown} \cap Nat = {}
  /\ Scenarios \subseteq [session : Seq({"get", "put"}), size : Nat \ {0},
                           servers : Nat, faults : Nat]
  /\ BlockMod \in Nat \ {0}
  /\ MaxTimeouts \in Nat \ {0}
  /\ SavesMask \in BOOLEAN

(* The instances of tftpd, in the order they are started, and their ports. *)
Servers == UNION {1..i.servers : i \in Scenarios}
Processes == {Client} \cup Servers

VARIABLES
  scenario,       \* the commands, the size of the files and the bounds
  xfer,           \* number of the command being carried out
  result,         \* whether the user was told of an error, for each command
  pc,             \* of each process
  job,            \* the command whose request each process serves
  block, tries,   \* block and timeout of each process
  sent,           \* what each process retransmits
  peer,           \* peeraddr of the client
  bfs,            \* the buffers of each process
  masked,         \* SIGALRM is blocked in the client
  dest,           \* the files written to
  net, faults,    \* packets on their way, faults that happened
  unwritten,      \* history: commands for which a write () failed
  unread          \* history: puts for which a read () failed

proc == <<pc, job, block, tries, sent, bfs>>
files == <<dest, unwritten, unread>>
vars == <<scenario, xfer, result, proc, peer, masked, files, net, faults>>

session == scenario.session
size == scenario.size

Ack(n) == [op |-> "ACK", block |-> n % BlockMod, data |-> <<0, 0>>]
Error == [op |-> "ERROR", block |-> 0, data |-> <<0, 0>>]
Request(t) == [op |-> IF session[t] = "get" THEN "RRQ" ELSE "WRQ",
               block |-> 0, data |-> <<t, 0>>]

Packet(p, to, body) == [from |-> p, to |-> to, body |-> body]
Peer(p) == IF p = Client THEN peer ELSE Client

(* The file of the command t, and its last block: the one that is short.   *)
File(t) == [n \in 1..size |-> <<t, n>>]
Short(d) == d[2] >= size

Init ==
  /\ scenario \in Scenarios
  /\ xfer = 0 /\ result = [t \in DOMAIN session |-> "none"]
  /\ pc = [p \in Processes |-> "idle"] /\ job = [p \in Processes |-> 0]
  /\ block = [p \in Processes |-> 0] /\ tries = [p \in Processes |-> 0]
  /\ sent = [p \in Processes |-> NoBody]
  /\ bfs = [p \in Processes |-> rw_init(0)]
  /\ peer = WellKnown /\ masked = FALSE
  /\ dest = [t \in DOMAIN session |-> <<>>]
  /\ net = {} /\ faults = 0 /\ unwritten = {} /\ unread = {}
-----------------------------------------------------------------------------
(* p sends body to its peer and waits: block n, buffers b.                 *)
Waits(p, n, body, b) ==
  /\ pc' = [pc EXCEPT ![p] = "wait"]
  /\ block' = [block EXCEPT ![p] = n]
  /\ tries' = [tries EXCEPT ![p] = 0]
  /\ sent' = [sent EXCEPT ![p] = body]
  /\ bfs' = [bfs EXCEPT ![p] = b]

(* recvfrom () takes the packet m, of which there may be a second copy;    *)
(* synchnet () takes those of flushed that have arrived.                   *)
Network(m, flushed, new, fault) ==
  \E copies \in 0..1 :
    /\ faults' = faults + copies + fault /\ faults' <= scenario.faults
    /\ net' = ((net \ flushed) \ (IF copies = 1 THEN {} ELSE {m})) \cup new

(* put and get, tftp_sendfile and recvfile up to the first recvfrom.       *)
Begin ==
  /\ pc[Client] = "idle" /\ xfer < Len(session)
  /\ LET t == xfer + 1 IN
     /\ xfer' = t /\ job' = [job EXCEPT ![Client] = t]
     /\ IF session[t] = "put"
          THEN Waits(Client, 0, Request(t), read_ahead(rw_init(1), t))
          ELSE Waits(Client, 1, Request(t), rw_init(0))
     /\ net' = net \cup {Packet(Client, WellKnown, Request(t))}
  /\ peer' = WellKnown
  /\ UNCHANGED <<scenario, result, masked, files, faults>>

(* The transfer of p is over.  A tftpd exits, the client tells the user.   *)
Ends(p, outcome) ==
  /\ pc' = [pc EXCEPT ![p] = IF p = Client THEN "idle" ELSE "exit"]
  /\ result' = IF p = Client THEN [result EXCEPT ![xfer] = outcome] ELSE result
  /\ UNCHANGED <<job, block, tries, sent>>

(* main, tftp and validate_access of tftpd, and the first packet of        *)
(* tftpd_sendfile or recvfile, or of nak.                                  *)
NewServer(s) ==
  /\ pc[s] = "idle" /\ s <= scenario.servers
  /\ \A r \in 1..(s - 1) : pc[r] # "idle"
  /\ \E m \in net :
       /\ m.to = WellKnown
       /\ LET t == m.body.data[1] IN
          \/ /\ m.body.op = "RRQ"
             /\ LET b == readit(rw_init(1), t)
                    body == Data(1 % BlockMod, b.body[b.current].data) IN
                /\ Waits(s, 1, body, read_ahead(b, t))
                /\ Network(m, {}, {Packet(s, Client, body)}, 0)
             /\ job' = [job EXCEPT ![s] = t] /\ UNCHANGED files
          \/ /\ m.body.op = "WRQ"
             /\ Waits(s, 1, Ack(0), rw_init(0))
             /\ Network(m, {}, {Packet(s, Client, Ack(0))}, 0)
             /\ job' = [job EXCEPT ![s] = t]
             /\ dest' = [dest EXCEPT ![t] = <<>>] /\ UNCHANGED <<unwritten, unread>>
          \/ /\ pc' = [pc EXCEPT ![s] = "exit"]
             /\ Network(m, {}, {Packet(s, Client, Error)}, 1)
             /\ UNCHANGED <<job, block, tries, sent, bfs, files>>
  /\ UNCHANGED <<scenario, xfer, result, peer, masked>>
-----------------------------------------------------------------------------
Sends(p) == IF p = Client THEN session[xfer] = "put" ELSE session[job[p]] = "get"
Wanted(p) == IF Sends(p) THEN "ACK" ELSE "DATA"

(* What th_block is compared with: only tftpd_sendfile reduces its counter *)
(* to 16 bits first.                                                       *)
Wire(p, n) == IF p # Client /\ Sends(p) THEN n % BlockMod ELSE n

(* The packet is the one awaited, or the one before it.                    *)
IsNext(p, body) == body.op = Wanted(p) /\ body.block = Wire(p, block[p])
IsPrevious(p, body) == body.op = Wanted(p) /\ body.block = Wire(p, block[p] - 1)

(* set_port () of the client, whatever the packet.                         *)
SetPort(p, m) == peer' = IF p = Client THEN m.from ELSE peer
ReplyTo(p, m) == IF p = Client THEN m.from ELSE Client

(* The block sent is acknowledged: the next one, or the end.  When read () *)
(* fails, nak tells the other side and nobody tells the user of the client:*)
(* put ends as it does after the last block, with "Sent" and what was sent.*)
Acknowledged(p) ==
  /\ pc[p] = "wait" /\ Sends(p)
  /\ \E m \in net :
       /\ m.to = p /\ IsNext(p, m.body) /\ SetPort(p, m)
       /\ LET b == readit(bfs[p], job[p])
              n == block[p] + 1
              body == Data(n % BlockMod, b.body[b.current].data)
          IN
          \/ /\ sent[p].op = "DATA" /\ Short(sent[p].data)
             /\ Ends(p, "ok") /\ Network(m, {}, {}, 0) /\ UNCHANGED <<bfs, files>>
          \/ /\ ~(sent[p].op = "DATA" /\ Short(sent[p].data))
             /\ Waits(p, n, body, read_ahead(b, job[p]))
             /\ Network(m, {}, {Packet(p, ReplyTo(p, m), body)}, 0)
             /\ UNCHANGED <<job, result, files>>
          \/ /\ ~(sent[p].op = "DATA" /\ Short(sent[p].data)) \* read () fails
             /\ Ends(p, "ok")
             /\ Network(m, {}, {Packet(p, ReplyTo(p, m), Error)}, 1)
             /\ unread' = IF p = Client THEN unread \cup {xfer} ELSE unread
             /\ UNCHANGED <<bfs, dest, unwritten>>
  /\ UNCHANGED <<scenario, xfer, masked>>

(* write_behind on the buffers b of p: the block goes to the file of p.    *)
(* Should write () fail, which nobody looks at, it is missing there.       *)
Store(p, b, lost) ==
  /\ UNCHANGED unread
  /\ \/ /\ ToWrite(b) /\ lost = 0 /\ UNCHANGED unwritten
        /\ dest' = [dest EXCEPT ![job[p]] =
                      WriteAt(@, b.pos, b.body[b.nextone].data)]
     \/ /\ ToWrite(b) /\ lost = 1 /\ UNCHANGED dest
        /\ unwritten' = unwritten \cup {job[p]}
     \/ ~ToWrite(b) /\ lost = 0 /\ UNCHANGED <<dest, unwritten>>

(* The block awaited arrives.  It is written behind its acknowledgement;   *)
(* after the last one the client is done, and tftpd waits whether it comes *)
(* again.                                                                  *)
Received(p) ==
  /\ pc[p] = "wait" /\ ~Sends(p)
  /\ \E m \in net, lost \in 0..1 :
       /\ m.to = p /\ IsNext(p, m.body) /\ SetPort(p, m)
       /\ LET b == writeit(bfs[p], m.body)
              ack == Ack(block[p])
          IN
          /\ Store(p, b, lost)
          /\ Network(m, {}, {Packet(p, ReplyTo(p, m), ack)}, lost)
          /\ \/ /\ ~Short(m.body.data)
                /\ Waits(p, block[p] + 1, ack, write_behind(b, lost))
                /\ UNCHANGED <<job, result>>
             \/ /\ Short(m.body.data) /\ p = Client
                /\ Ends(p, "ok") /\ bfs' = [bfs EXCEPT ![p] = write_behind(b, lost)]
             \/ /\ Short(m.body.data) /\ p # Client
                /\ pc' = [pc EXCEPT ![p] = "dally"]
                /\ sent' = [sent EXCEPT ![p] = ack]
                /\ bfs' = [bfs EXCEPT ![p] = write_behind(b, lost)]
                /\ UNCHANGED <<job, block, tries, result>>
  /\ UNCHANGED <<scenario, xfer, masked>>

(* What follows every sendto, retransmissions included: there is nothing   *)
(* left to read ahead or to write then.                                    *)
AfterSend(p) ==
  IF Sends(p)
    THEN bfs' = [bfs EXCEPT ![p] = read_ahead(@, job[p])] /\ UNCHANGED files
    ELSE bfs' = [bfs EXCEPT ![p] = write_behind(@, 0)] /\ Store(p, bfs[p], 0)

(* Anything else of the kind awaited: what has arrived is flushed, and     *)
(* what was sent last is sent again if the other side is one block behind. *)
Resynchronise(p) ==
  /\ pc[p] = "wait"
  /\ \E m \in net :
       /\ m.to = p /\ m.body.op = Wanted(p) /\ ~IsNext(p, m.body)
       /\ SetPort(p, m)
       /\ \E arrived \in {{}, {o \in net \ {m} : o.to = p}} :
            \/ /\ IsPrevious(p, m.body) /\ AfterSend(p)
               /\ Network(m, arrived, {Packet(p, ReplyTo(p, m), sent[p])}, 0)
            \/ /\ ~IsPrevious(p, m.body) /\ UNCHANGED <<bfs, files>>
               /\ Network(m, arrived, {}, 0)
  /\ UNCHANGED <<scenario, xfer, result, pc, job, block, tries, sent,
                 masked>>

(* A packet of another kind is ignored.                                    *)
Ignore(p) ==
  /\ pc[p] = "wait"
  /\ \E m \in net :
       /\ m.to = p /\ m.body.op \notin {Wanted(p), "ERROR"}
       /\ SetPort(p, m) /\ Network(m, {}, {}, 0)
  /\ UNCHANGED <<scenario, xfer, result, proc, masked, files>>

(* ERROR ends the transfer.  recvfile of the client acknowledges the block *)
(* it awaits all the same.                                                 *)
Refused(p) ==
  /\ pc[p] = "wait"
  /\ \E m \in net :
       /\ m.to = p /\ m.body.op = "ERROR" /\ SetPort(p, m)
       /\ Network(m, {}, IF p = Client /\ ~Sends(p)
                           THEN {Packet(p, m.from, Ack(block[p]))} ELSE {}, 0)
  /\ Ends(p, "failed")
  /\ UNCHANGED <<scenario, xfer, bfs, masked, files>>

(* What comes while tftpd dallies is read into buf, but it is the header   *)
(* dp points to, in the buffer handed out last, that decides.              *)
Dally(s) ==
  /\ pc[s] = "dally"
  /\ \E m \in net :
       /\ m.to = s
       /\ LET dp == bfs[s].body[bfs[s].current] IN
          Network(m, {}, IF dp.op = "DATA" /\ dp.block = block[s]
                           THEN {Packet(s, Client, sent[s])} ELSE {}, 0)
  /\ pc' = [pc EXCEPT ![s] = "exit"]
  /\ UNCHANGED <<scenario, xfer, result, job, block, tries, sent, bfs,
                 peer, masked, files>>

(* justquit                                                                *)
DallyEnds(s) ==
  /\ pc[s] = "dally"
  /\ pc' = [pc EXCEPT ![s] = "exit"]
  /\ UNCHANGED <<scenario, xfer, result, job, block, tries, sent, bfs,
                 peer, masked, files, net, faults>>

(* Faulty variant of Timer: the time spent so far is not added up.         *)
TimerForever(p) ==
  /\ pc[p] = "wait" /\ (p = Client => ~masked)
  /\ masked' = IF p = Client THEN ~SavesMask ELSE masked
  /\ net' = net \cup {Packet(p, Peer(p), sent[p])}
  /\ UNCHANGED <<scenario, xfer, result, proc, peer, files, faults>>

(* timer: retransmission, or the end.  The longjmp out of the handler      *)
(* leaves SIGALRM blocked unless setjmp saved the mask; tftpd calls        *)
(* sigsetjmp, which does.                                                  *)
Timer(p) ==
  /\ pc[p] = "wait" /\ (p = Client => ~masked)
  /\ masked' = IF p = Client THEN ~SavesMask ELSE masked
  /\ \/ /\ tries[p] + 1 < MaxTimeouts
        /\ tries' = [tries EXCEPT ![p] = @ + 1]
        /\ net' = net \cup {Packet(p, Peer(p), sent[p])}
        /\ AfterSend(p)
        /\ UNCHANGED <<pc, job, block, sent, result>>
     \/ /\ tries[p] + 1 >= MaxTimeouts
        /\ Ends(p, "failed") /\ UNCHANGED <<net, bfs, files>>
  /\ UNCHANGED <<scenario, xfer, peer, faults>>

(* intr, a failing sendto, or the death of a tftpd                         *)
Dies(p) ==
  /\ pc[p] = "wait" /\ faults < scenario.faults
  /\ Ends(p, "failed") /\ faults' = faults + 1
  /\ UNCHANGED <<scenario, xfer, bfs, peer, masked, files, net>>

Step(p) == \/ Timer(p) \/ Acknowledged(p) \/ Received(p)
           \/ Resynchronise(p) \/ Ignore(p) \/ Refused(p)
Server(s) == Dally(s) \/ DallyEnds(s)
Done == pc[Client] = "idle" /\ xfer = Len(session) /\ UNCHANGED vars

Next ==
  \/ Begin
  \/ \E s \in Servers : NewServer(s) \/ Server(s)
  \/ \E p \in Processes : Step(p) \/ Dies(p)
  \/ Done

(* The processes run and the timers that are not blocked go off; what the  *)
(* network delivers, and when, is left open.                               *)
Progress == Begin \/ (\E p \in Processes : Step(p)) \/ (\E s \in Servers : DallyEnds(s))
Spec == Init /\ [][Next]_vars /\ WF_vars(Progress)
-----------------------------------------------------------------------------
TypeOK ==
  /\ xfer \in 0..Len(session)
  /\ result \in [DOMAIN session -> {"none", "ok", "failed"}]
  /\ pc \in [Processes -> {"idle", "wait", "dally", "exit"}]
  /\ job \in [Processes -> 0..Len(session)]
  /\ block \in [Processes -> 0..(size + 1)]
  /\ tries \in [Processes -> 0..(MaxTimeouts - 1)]
  /\ peer \in Servers \cup {WellKnown} /\ masked \in BOOLEAN
  /\ \A t \in DOMAIN session : Len(dest[t]) <= size
  /\ unwritten \cup unread \subseteq DOMAIN session

(* A file that get reports as received is the file, whatever was lost,     *)
(* delayed, duplicated or reordered and however many tftpd answered; one   *)
(* that put reports as sent has arrived, provided that a single tftpd      *)
(* served the request (a second one truncates the file of the first) and,  *)
(* as nobody tells the user, that no read () or write () failed.           *)
TransferComplete ==
  \A t \in DOMAIN session \ (unwritten \cup unread) :
    /\ result[t] = "ok"
    /\ session[t] = "put" => Cardinality({s \in Servers : job[s] = t}) <= 1
    => dest[t] = File(t)

(* Even then nothing is ever written to a wrong place: two tftpd that      *)
(* write the same file leave at worst a hole.                              *)
NothingMisplaced ==
  \A t \in DOMAIN session \ unwritten : \A n \in DOMAIN dest[t] :
    dest[t][n] \in {<<t, n>>, Hole}

(* Past 2^16 - 1 blocks the counters of the receivers and of the client no *)
(* longer match the 16-bit field: the transfer fails and is reported as    *)
(* failed, old packets are not taken for new ones.                         *)
LargeFilesFail ==
  size >= BlockMod => \A t \in DOMAIN session \ unread : result[t] # "ok"

(* The buffer that writeit hands out was written before: no block is       *)
(* overwritten in memory.                                                  *)
NoBufferOverrun ==
  \A p \in Processes : pc[p] = "wait" /\ ~Sends(p) =>
    bfs[p].counter[1 - bfs[p].current] = "free"

(* What a user may rely on: the three above, and the counters in range.    *)
Delivered == TypeOK /\ TransferComplete /\ NothingMisplaced /\ LargeFilesFail

(* No command is being carried out and no tftpd is at work.                *)
Over ==
  /\ xfer = Len(session) /\ pc[Client] = "idle"
  /\ \A s \in Servers : pc[s] \in {"idle", "exit"}

(* Every command ends, by the end of the file, an error or maxtimeout, and *)
(* no tftpd stays behind.                                                  *)
EveryCommandEnds == <>[]Over
=============================================================================
