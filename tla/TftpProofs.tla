------------------------------ MODULE TftpProofs ------------------------------
(* Proofs about Tftp, for files of any size, any number of tftpd and       *)
(* faults, any timers and any range of block numbers.                      *)
EXTENDS Tftp, FiniteSetTheorems, TLAPS

(* The session has come to one get and one put at most: a late block of    *)
(* one get may be taken for a block of the next (MCTftp's TwoGets).        *)
OneOfEach == \A i, j \in 1..xfer : session[i] = session[j] => i = j

(* What packets and buffers are made of.                                   *)
Bodies == [op : {"none", "RRQ", "WRQ", "DATA", "ACK", "ERROR"}, block : Nat,
           data : Nat \X Nat]
BufferType ==
  [counter : [0..1 -> {"alloc", "free", "full"}], body : [0..1 -> Bodies],
   current : 0..1, nextone : 0..1, pos : Nat]

(* A receiver waits: one buffer is handed out for what comes, the other    *)
(* one was written.                                                        *)
RecvBuf(b) ==
  /\ b \in BufferType /\ b.nextone = b.current
  /\ b.counter[b.current] = "alloc" /\ b.counter[1 - b.current] = "free"

(* A sender of the file t waits for the acknowledgement of block n: the    *)
(* next block was read ahead.                                              *)
SendBuf(b, t, n) ==
  /\ b \in BufferType /\ b.nextone = b.current
  /\ b.counter[b.current] # "free" /\ b.counter[1 - b.current] = "full"
  /\ b.body[1 - b.current].data = <<t, n + 1>> /\ b.pos = n + 1

(* Who works for which command.                                            *)
JobOK ==
  /\ scenario \in Scenarios /\ xfer \in 0..Len(session)
  /\ pc \in [Processes -> {"idle", "wait", "dally", "exit"}]
  /\ job \in [Processes -> 0..Len(session)]
  /\ pc[Client] \in {"idle", "wait"}
  /\ pc[Client] = "wait" => xfer # 0 /\ job[Client] = xfer
  /\ \A s \in Servers :
       /\ job[s] <= xfer /\ (job[s] # 0 => s <= scenario.servers)
       /\ pc[s] = "idle" => job[s] = 0
       /\ pc[s] \in {"wait", "dally"} => job[s] # 0
       /\ pc[s] = "dally" => session[job[s]] = "put"

(* Requests are those of the commands given.                               *)
RequestOK(body) ==
  body.op \in {"RRQ", "WRQ"} =>
    LET t == body.data[1] IN t \in 1..xfer /\ body = Request(t)

(* Packets on their way, and what will be sent again.                      *)
WireOK ==
  /\ sent \in [Processes -> Bodies]
  /\ \A p \in Processes : RequestOK(sent[p])
  /\ \A m \in net : m.body \in Bodies /\ RequestOK(m.body)

(* The buffers of those who receive.                                       *)
BuffersOK ==
  /\ bfs \in [Processes -> BufferType] /\ block \in [Processes -> Nat]
  /\ \A p \in Processes : pc[p] = "wait" /\ ~Sends(p) => RecvBuf(bfs[p])

BaseInv == JobOK /\ WireOK /\ BuffersOK

(* The client waits for blocks of a file.                                  *)
Getting == pc[Client] = "wait" /\ session[xfer] = "get"

(* A sender has sent block n of its file.  The client gives up when block  *)
(* numbers wrap; a tftpd is never ahead of the client that it sends to.    *)
Sending(p) ==
  LET n == block[p]
      t == job[p]
  IN  /\ n <= size /\ SendBuf(bfs[p], t, n)
      /\ sent[p] = IF n = 0 THEN Request(t) ELSE Data(n % BlockMod, <<t, n>>)
      /\ IF p = Client THEN n <= BlockMod
         ELSE n # 0 /\ (Getting => n <= block[Client])

(* A receiver waits for block n, and has written what came before.         *)
Receiving(p) ==
  LET n == block[p]
      t == job[p]
  IN  /\ n \in 1..size /\ n <= BlockMod
      /\ bfs[p].pos <= n - 1 /\ (t \notin unwritten => bfs[p].pos = n - 1)
      /\ sent[p] = IF p = Client /\ n = 1 THEN Request(t) ELSE Ack(n - 1)

(* A tftpd has acknowledged the last block.                                *)
Dallying(p) ==
  block[p] = size /\ size < BlockMod /\ sent[p] = Ack(size)

ProcessOK(p) ==
  /\ pc[p] = "wait" => IF Sends(p) THEN Sending(p) ELSE Receiving(p)
  /\ pc[p] = "dally" => Dallying(p)

(* A block of a file, as it travels.                                       *)
IsBlock(body, t) ==
  /\ body.data[2] \in 1..size
  /\ body = Data(body.data[2] % BlockMod, <<t, body.data[2]>>)

(* What comes to the client is from a tftpd: blocks that the client may    *)
(* await, or acknowledgements of a put.  What comes to a tftpd are blocks  *)
(* of a put, or acknowledgements of blocks the client has.                 *)
PacketOK(m) ==
  LET s == m.from
      body == m.body
  IN  /\ body.op = "ACK" => body.block < BlockMod
      /\ m.to = Client =>
           /\ s \in Servers
           /\ body.op = "DATA" =>
                /\ job[s] # 0 /\ session[job[s]] = "get" /\ IsBlock(body, job[s])
                /\ Getting => body.data[2] <= block[Client]
           /\ body.op = "ACK" =>
                job[s] # 0 /\ session[job[s]] = "put"
      /\ m.to \in Servers =>
           /\ body.op = "DATA" =>
                /\ body.data[1] \in 1..xfer /\ session[body.data[1]] = "put"
                /\ IsBlock(body, body.data[1]) /\ body.data[2] <= BlockMod
           /\ body.op = "ACK" =>
                /\ \E t \in 1..xfer : session[t] = "get"
                /\ Getting => body.block # 0 /\ body.block < block[Client]

(* The first k blocks of the file t.                                       *)
FilePart(t, k) == [n \in 1..k |-> <<t, n>>]

(* A single tftpd serves the request at most.                              *)
Alone(t) == \A r, s \in Servers : job[r] = t /\ job[s] = t => r = s

(* The file of a put that one tftpd serves is what this one has            *)
(* acknowledged.                                                           *)
PutOK(t) ==
  \A s \in Servers : job[s] = t =>
    /\ dest[t] = FilePart(t, Len(dest[t]))
    /\ pc[s] = "wait" => Len(dest[t]) = block[s] - 1
    /\ pc[s] = "dally" => Len(dest[t]) = size
    /\ \A m \in net : m.from = s /\ m.to = Client /\ m.body.op = "ACK" =>
                        m.body.block <= Len(dest[t])

(* A command that succeeded: its file is complete.                         *)
OkOK(t) ==
  /\ size < BlockMod
  /\ session[t] = "put" => \E s \in Servers : job[s] = t
  /\ t \notin unwritten /\ (session[t] = "put" => Alone(t)) => dest[t] = File(t)

FileOK(t) ==
  /\ dest[t] \in Seq(Nat \X Nat) /\ Len(dest[t]) <= size
  /\ t \notin unwritten => \A n \in DOMAIN dest[t] : dest[t][n] \in {<<t, n>>, Hole}
  /\ t > xfer => dest[t] = <<>>
  /\ t > xfer \/ (t = xfer /\ pc[Client] = "wait") => result[t] = "none"
  /\ session[t] = "get" /\ t = xfer /\ pc[Client] = "wait" /\ t \notin unwritten =>
       dest[t] = FilePart(t, block[Client] - 1)
  /\ session[t] = "put" /\ Alone(t) /\ t \notin unwritten => PutOK(t)
  /\ result[t] = "ok" /\ t \notin unread => OkOK(t)

(* The parts of the types that need no argument of their own.              *)
RangeOK ==
  /\ result \in [DOMAIN session -> {"none", "ok", "failed"}]
  /\ tries \in [Processes -> 0..(MaxTimeouts - 1)]
  /\ peer \in Servers \cup {WellKnown} /\ masked \in BOOLEAN
  /\ dest \in [DOMAIN session -> Seq(Nat \X Nat)]
  /\ unwritten \subseteq DOMAIN session /\ unread \subseteq DOMAIN session
  /\ \A p \in Processes : block[p] <= size

TftpInv ==
  /\ BaseInv /\ RangeOK
  /\ \A p \in Processes : ProcessOK(p)
  /\ \A m \in net : PacketOK(m)
  /\ \A t \in DOMAIN session : FileOK(t)

-----------------------------------------------------------------------------
(* Lemmas about the operators.                                             *)

(* The constants, and that the client is no tftpd.                         *)
LEMMA ConstantFacts ==
  /\ BlockMod \in Nat /\ BlockMod # 0 /\ MaxTimeouts \in Nat /\ MaxTimeouts # 0
  /\ Servers \subseteq Nat \ {0} /\ Client \notin Servers
  /\ WellKnown \notin Processes /\ Client \in Processes
  /\ \A p \in Processes : p = Client \/ p \in Servers
<1>1. Servers \subseteq Nat \ {0}
  BY TftpConstants DEF Servers
<1>2. QED BY <1>1, TftpConstants DEF Processes

(* The scenario of a run.                                                  *)
LEMMA ScenarioFacts ==
  ASSUME scenario \in Scenarios
  PROVE /\ session \in Seq({"get", "put"}) /\ Len(session) \in Nat
        /\ DOMAIN session = 1..Len(session)
        /\ \A t \in 1..Len(session) : session[t] \in {"get", "put"}
        /\ size \in Nat /\ size # 0 /\ scenario.servers \in Nat
<1>1. scenario \in [session : Seq({"get", "put"}), size : Nat \ {0},
                    servers : Nat, faults : Nat]
  BY TftpConstants
<1>2. session \in Seq({"get", "put"})
  BY <1>1 DEF session
<1>3. size \in Nat /\ size # 0 /\ scenario.servers \in Nat
  BY <1>1 DEF size
<1>4. QED BY <1>2, <1>3

(* Block numbers below 2^16 are carried by the field as they are, and the  *)
(* first one above is carried as 0.                                        *)
LEMMA ModFacts ==
  ASSUME NEW n \in Nat
  PROVE /\ n % BlockMod \in Nat /\ n % BlockMod < BlockMod
        /\ n < BlockMod => n % BlockMod = n
        /\ n = BlockMod => n % BlockMod = 0
<1>1. BlockMod \in Nat /\ BlockMod > 0
  BY ConstantFacts
<1>2. n % BlockMod \in 0..(BlockMod - 1)
  BY <1>1
<1>3. n < BlockMod => n % BlockMod = n
  BY <1>1
<1>4. n = BlockMod => n % BlockMod = 0
  BY <1>1
<1>5. QED BY <1>1, <1>2, <1>3, <1>4

(* The packets of the protocol.                                            *)
LEMMA BodyFacts ==
  /\ NoBody \in Bodies /\ Error \in Bodies
  /\ \A n \in Nat : Ack(n) \in Bodies
  /\ \A n \in Nat, d \in Nat \X Nat : Data(n, d) \in Bodies
<1>1. \A n \in Nat : n % BlockMod \in Nat
  BY ModFacts
<1>2. <<0, 0>> \in Nat \X Nat
  OBVIOUS
<1>3. QED BY <1>1, <1>2 DEF NoBody, Error, Ack, Data, Bodies

(* A request names its command.                                            *)
LEMMA RequestFacts ==
  ASSUME scenario \in Scenarios, NEW t \in 1..Len(session)
  PROVE /\ Request(t) \in Bodies /\ Request(t).data[1] = t
        /\ Request(t).op = "RRQ" <=> session[t] = "get"
        /\ Request(t).op = "WRQ" <=> session[t] = "put"
        /\ Request(t).op \in {"RRQ", "WRQ"}
<1>1. session[t] \in {"get", "put"} /\ t \in Nat
  BY ScenarioFacts
<1>2. <<t, 0>> \in Nat \X Nat /\ <<t, 0>>[1] = t
  BY <1>1
<1>3. QED BY <1>1, <1>2 DEF Request, Bodies

(* The buffers of a process that has not received anything.                *)
LEMMA InitFacts ==
  /\ RecvBuf(rw_init(0)) /\ rw_init(0).pos = 0
  /\ rw_init(1) \in BufferType
<1>1. NoBody \in Bodies
  BY BodyFacts
<1>2. rw_init(0) \in BufferType /\ rw_init(1) \in BufferType
  BY <1>1 DEF rw_init, Buffers, BufferType
<1>3. QED BY <1>2 DEF RecvBuf, rw_init, Buffers

(* A put begins: the first block is read ahead.                            *)
LEMMA PutBegins ==
  ASSUME NEW t \in Nat
  PROVE SendBuf(read_ahead(rw_init(1), t), t, 0)
<1> DEFINE b == rw_init(1)
           r == read_ahead(b, t)
<1>1. b \in BufferType
  BY InitFacts
<1>2. /\ b.nextone = 1 /\ b.current = 0 /\ b.pos = 0
      /\ b.counter[0] = "alloc" /\ b.counter[1] = "free"
  BY DEF rw_init, Buffers
<1> HIDE DEF b
<1>3. r = Buffers([b.counter EXCEPT ![1] = "full"],
                  [b.body EXCEPT ![1] = Data(0, <<t, 1>>)], 0, 0, 1)
  BY <1>2 DEF read_ahead
<1>4. Data(0, <<t, 1>>) \in Bodies /\ Data(0, <<t, 1>>).data = <<t, 1>>
  BY BodyFacts DEF Data
<1>5. r \in BufferType
  BY <1>1, <1>3, <1>4 DEF Buffers, BufferType
<1>6. /\ r.nextone = 0 /\ r.current = 0 /\ r.pos = 1
      /\ r.counter[0] = "alloc" /\ r.counter[1] = "full"
      /\ r.body[1].data = <<t, 1>>
  BY <1>1, <1>2, <1>3, <1>4 DEF Buffers, BufferType
<1> HIDE DEF r
<1>7. 1 - 0 = 1 /\ 0 + 1 = 1
  OBVIOUS
<1>8. SendBuf(r, t, 0)
  BY <1>5, <1>6, <1>7 DEF SendBuf
<1>9. QED BY <1>8 DEF r, b

(* tftpd reads the first two blocks.                                       *)
LEMMA GetBegins ==
  ASSUME NEW t \in Nat
  PROVE LET b == readit(rw_init(1), t) IN
        b.body[b.current].data = <<t, 1>> /\ SendBuf(read_ahead(b, t), t, 1)
<1> DEFINE i == rw_init(1)
           f == Buffers([i.counter EXCEPT ![0] = "free"], i.body, 1, 1, 0)
           d == Data(0, <<t, 1>>)
           b == Buffers([f.counter EXCEPT ![1] = "full"],
                        [f.body EXCEPT ![1] = d], 1, 0, 1)
           e == Data(0, <<t, 2>>)
           r == Buffers([b.counter EXCEPT ![0] = "full"],
                        [b.body EXCEPT ![0] = e], 1, 1, 2)
<1>1. i \in BufferType
  BY InitFacts
<1>2. /\ i.nextone = 1 /\ i.current = 0 /\ i.pos = 0
      /\ i.counter[0] = "alloc" /\ i.counter[1] = "free"
  BY DEF rw_init, Buffers
<1>3. d \in Bodies /\ d.data = <<t, 1>> /\ e \in Bodies /\ e.data = <<t, 2>>
  BY BodyFacts DEF Data
<1> HIDE DEF i, d, e
<1>4. /\ f \in BufferType /\ f.nextone = 1 /\ f.current = 1 /\ f.pos = 0
      /\ f.counter[0] = "free" /\ f.counter[1] = "free"
  BY <1>1, <1>2 DEF Buffers, BufferType
<1>5. readit(i, t) = read_ahead(f, t)
  BY <1>2 DEF readit
<1> HIDE DEF f
<1>6. read_ahead(f, t) = b
  BY <1>4 DEF read_ahead, d
<1>7. /\ b \in BufferType /\ b.nextone = 0 /\ b.current = 1 /\ b.pos = 1
      /\ b.counter[0] = "free" /\ b.counter[1] = "full" /\ b.body[1] = d
  BY <1>3, <1>4 DEF Buffers, BufferType
<1> HIDE DEF b
<1>8. read_ahead(b, t) = r
  BY <1>7 DEF read_ahead, e
<1>9. r \in BufferType
  BY <1>3, <1>7 DEF Buffers, BufferType
<1>10. SendBuf(r, t, 1)
  BY <1>3, <1>7, <1>9 DEF SendBuf, Buffers, BufferType
<1>11. QED BY <1>3, <1>5, <1>6, <1>7, <1>8, <1>10 DEF i

(* The next block, which is there, becomes the current one, and the one    *)
(* after it is read.  There is nothing to read when a block is sent again. *)
LEMMA SendFacts ==
  ASSUME NEW t \in Nat, NEW n \in Nat, NEW b, SendBuf(b, t, n)
  PROVE LET r == readit(b, t) IN
        /\ r.body[r.current].data = <<t, n + 1>>
        /\ SendBuf(read_ahead(r, t), t, n + 1) /\ read_ahead(b, t) = b
<1> DEFINE c == b.current
           o == 1 - c
           f == Buffers([b.counter EXCEPT ![c] = "free"], b.body, o, b.nextone,
                        b.pos)
           e == Data(0, <<t, n + 2>>)
           r == Buffers([f.counter EXCEPT ![c] = "full"],
                        [f.body EXCEPT ![c] = e], o, 1 - c, n + 2)
<1>1. /\ b \in BufferType /\ b.nextone = c /\ c \in 0..1 /\ o \in 0..1 /\ o # c
      /\ 1 - o = c /\ b.counter[c] # "free" /\ b.counter[o] = "full"
      /\ b.body[o].data = <<t, n + 1>> /\ b.pos = n + 1
  BY DEF SendBuf, BufferType
<1>2. read_ahead(b, t) = b
  BY <1>1 DEF read_ahead
<1>3. e \in Bodies /\ e.data = <<t, n + 2>>
  BY BodyFacts DEF Data
<1> HIDE DEF c, e
<1>4. readit(b, t) = f
  BY <1>1 DEF readit, c
<1>5. /\ f \in BufferType /\ f.nextone = c /\ f.current = o /\ f.pos = n + 1
      /\ f.counter[c] = "free" /\ f.counter[o] = "full"
      /\ f.body[o].data = <<t, n + 1>>
  BY <1>1 DEF Buffers, BufferType
<1> HIDE DEF f, o
<1>6. read_ahead(f, t) = r
  BY <1>5 DEF read_ahead, e
<1>7. r \in BufferType
  BY <1>1, <1>3, <1>5 DEF Buffers, BufferType, o
<1>8. /\ r.nextone = o /\ r.current = o /\ r.pos = n + 2
      /\ r.counter[c] = "full" /\ r.counter[o] = "full"
      /\ r.body[c].data = <<t, n + 2>>
  BY <1>1, <1>3, <1>5 DEF Buffers, BufferType, o
<1> HIDE DEF r
<1>9. n + 2 = (n + 1) + 1
  OBVIOUS
<1>10. SendBuf(r, t, n + 1)
  BY <1>1, <1>7, <1>8, <1>9 DEF SendBuf
<1>11. QED BY <1>2, <1>4, <1>5, <1>6, <1>10

(* A block is received and written: the buffer handed out next is the one  *)
(* that was written before.                                                *)
LEMMA ReceiveFacts ==
  ASSUME NEW b, RecvBuf(b), NEW body \in Bodies, NEW lost \in 0..1
  PROVE LET w == writeit(b, body)
            v == write_behind(w, lost)
        IN  /\ ToWrite(w) /\ w.pos = b.pos /\ w.body[w.nextone] = body
            /\ RecvBuf(v) /\ v.pos = (b.pos + 1) - lost
            /\ ~ToWrite(b) /\ write_behind(b, 0) = b
<1> DEFINE c == b.current
           o == 1 - c
           w == Buffers([b.counter EXCEPT ![c] = "full", ![o] = "alloc"],
                        [b.body EXCEPT ![c] = body], o, b.nextone, b.pos)
           v == Buffers([w.counter EXCEPT ![c] = "free"], w.body,
                        o, 1 - c, (b.pos + 1) - lost)
<1>1. /\ b \in BufferType /\ b.nextone = c /\ c \in 0..1 /\ o \in 0..1 /\ o # c
      /\ 1 - o = c /\ b.counter[c] = "alloc" /\ b.counter[o] = "free"
      /\ b.pos \in Nat /\ (b.pos + 1) - lost \in Nat
  BY DEF RecvBuf, BufferType
<1>2. ~ToWrite(b) /\ write_behind(b, 0) = b
  BY <1>1 DEF ToWrite, write_behind
<1>3. writeit(b, body) = w
  BY DEF writeit
<1> HIDE DEF c, o
<1>4. /\ w \in BufferType /\ w.nextone = c /\ w.current = o /\ w.pos = b.pos
      /\ w.counter[c] = "full" /\ w.counter[o] = "alloc" /\ w.body[c] = body
  BY <1>1 DEF Buffers, BufferType
<1> HIDE DEF w
<1>5. ToWrite(w)
  BY <1>4 DEF ToWrite
<1>6. write_behind(w, lost) = v
  BY <1>4, <1>5 DEF write_behind
<1>7. /\ v \in BufferType /\ v.nextone = o /\ v.current = o
      /\ v.counter[c] = "free" /\ v.counter[o] = "alloc"
      /\ v.pos = (b.pos + 1) - lost
  BY <1>1, <1>4 DEF Buffers, BufferType, o
<1> HIDE DEF v
<1>8. RecvBuf(v)
  BY <1>1, <1>7 DEF RecvBuf
<1>9. QED BY <1>2, <1>3, <1>4, <1>5, <1>6, <1>7, <1>8


(* A part of a file as a sequence.                                         *)
LEMMA PartFacts ==
  ASSUME NEW t \in Nat, NEW k \in Nat
  PROVE /\ FilePart(t, k) \in Seq(Nat \X Nat) /\ Len(FilePart(t, k)) = k
        /\ DOMAIN FilePart(t, k) = 1..k
        /\ \A n \in 1..k : FilePart(t, k)[n] = <<t, n>>
<1>1. \A n \in 1..k : <<t, n>> \in Nat \X Nat
  OBVIOUS
<1>2. FilePart(t, k) \in [1..k -> Nat \X Nat]
  BY <1>1 DEF FilePart
<1>3. FilePart(t, k) \in Seq(Nat \X Nat)
  BY <1>2
<1>4. Len(FilePart(t, k)) = k
  BY <1>2, <1>3
<1>5. QED BY <1>2, <1>3, <1>4 DEF FilePart

(* The next block of a file is added to what is there.                     *)
LEMMA WriteNext ==
  ASSUME NEW t \in Nat, NEW k \in Nat
  PROVE WriteAt(FilePart(t, k), k, <<t, k + 1>>) = FilePart(t, k + 1)
<1> DEFINE f == FilePart(t, k)
           d == <<t, k + 1>>
           w == WriteAt(f, k, d)
           g == FilePart(t, k + 1)
<1>1. /\ f \in Seq(Nat \X Nat) /\ Len(f) = k
      /\ \A n \in 1..k : f[n] = <<t, n>>
  BY PartFacts
<1>2. /\ g \in Seq(Nat \X Nat) /\ Len(g) = k + 1
      /\ \A n \in 1..(k + 1) : g[n] = <<t, n>>
  <2>1. k + 1 \in Nat
    OBVIOUS
  <2>2. QED BY <2>1, PartFacts
<1>3. d \in Nat \X Nat /\ w = WriteAt(f, k, d)
  OBVIOUS
<1> HIDE DEF f, d, w, g
<1>4. PICK l \in Nat : l = k + 1
  OBVIOUS
<1>5. l = IF k < Len(f) THEN Len(f) ELSE k + 1
  BY <1>1, <1>4
<1>6. w = [i \in 1..l |-> IF i = k + 1 THEN d
                          ELSE IF i <= Len(f) THEN f[i] ELSE Hole]
  BY <1>3, <1>5 DEF WriteAt
<1>7. ASSUME NEW i \in 1..(k + 1) PROVE w[i] = g[i]
  <2>1. g[i] = <<t, i>>
    BY <1>2
  <2>2. CASE i = k + 1
    BY <1>4, <1>6, <2>1, <2>2 DEF d
  <2>3. CASE i \in 1..k
    <3>1. i \in 1..l /\ i # k + 1 /\ i <= Len(f)
      BY <1>1, <1>4, <2>3
    <3>2. w[i] = f[i]
      BY <1>6, <3>1
    <3>3. QED BY <1>1, <2>1, <2>3, <3>2
  <2>4. QED BY <2>2, <2>3
<1>8. w = [i \in 1..(k + 1) |-> w[i]]
  BY <1>4, <1>6
<1>9. g = [i \in 1..(k + 1) |-> g[i]]
  BY <1>2 DEF g, FilePart
<1>10. w = g
  BY <1>7, <1>8, <1>9
<1>11. QED BY <1>10 DEF w, g, f, d

(* A block written where it belongs leaves every block where it belongs.   *)
LEMMA WritePlaced ==
  ASSUME NEW t \in Nat, NEW f \in Seq(Nat \X Nat), NEW pos \in Nat,
         \A n \in DOMAIN f : f[n] \in {<<t, n>>, Hole}
  PROVE LET w == WriteAt(f, pos, <<t, pos + 1>>) IN
        \A n \in DOMAIN w : w[n] \in {<<t, n>>, Hole}
<1> DEFINE d == <<t, pos + 1>>
           w == WriteAt(f, pos, d)
<1>1. d \in Nat \X Nat /\ DOMAIN f = 1..Len(f) /\ Len(f) \in Nat /\ w = WriteAt(f, pos, d)
  OBVIOUS
<1>2. PICK l \in Nat : l = IF pos < Len(f) THEN Len(f) ELSE pos + 1
  BY <1>1
<1> HIDE DEF d, w
<1>3. w = [i \in 1..l |-> IF i = pos + 1 THEN d
                          ELSE IF i <= Len(f) THEN f[i] ELSE Hole]
  BY <1>1, <1>2 DEF WriteAt
<1>4. ASSUME NEW n \in 1..l PROVE w[n] \in {<<t, n>>, Hole}
  <2>1. CASE n = pos + 1
    BY <1>3, <2>1 DEF d
  <2>2. CASE n # pos + 1 /\ n <= Len(f)
    <3>1. n \in DOMAIN f /\ w[n] = f[n]
      BY <1>1, <1>3, <2>2
    <3>2. QED BY <3>1
  <2>3. CASE n # pos + 1 /\ ~(n <= Len(f))
    BY <1>3, <2>3
  <2>4. QED BY <2>1, <2>2, <2>3
<1>5. QED BY <1>3, <1>4 DEF w, d

(* write () at most adds the block the descriptor stands at.               *)
LEMMA WriteLength ==
  ASSUME NEW f \in Seq(Nat \X Nat), NEW pos \in Nat, NEW d \in Nat \X Nat,
         NEW z \in Nat, Len(f) <= z, pos < z
  PROVE WriteAt(f, pos, d) \in Seq(Nat \X Nat) /\ Len(WriteAt(f, pos, d)) <= z
<1> DEFINE w == WriteAt(f, pos, d)
<1>1. w = WriteAt(f, pos, d) /\ Len(f) \in Nat
  OBVIOUS
<1>2. PICK l \in Nat : l = IF pos < Len(f) THEN Len(f) ELSE pos + 1
  BY <1>1
<1> HIDE DEF w
<1>3. w \in Seq(Nat \X Nat) /\ Len(w) = l
  <2>1. w = [i \in 1..l |-> IF i = pos + 1 THEN d
                            ELSE IF i <= Len(f) THEN f[i] ELSE Hole]
    BY <1>1, <1>2 DEF WriteAt
  <2>2. \A i \in 1..Len(f) : f[i] \in Nat \X Nat
    OBVIOUS
  <2>3. Hole \in Nat \X Nat
    BY DEF Hole
  <2>4. \A i \in 1..l :
          (IF i = pos + 1 THEN d ELSE IF i <= Len(f) THEN f[i] ELSE Hole)
            \in Nat \X Nat
    BY <1>1, <2>2, <2>3
  <2>5. w \in [1..l -> Nat \X Nat]
    BY <2>1, <2>4
  <2>6. w \in Seq(Nat \X Nat)
    BY <2>5
  <2>7. QED BY <2>5, <2>6
<1>4. l <= z
  BY <1>1, <1>2
<1>5. QED BY <1>3, <1>4 DEF w

(* Whether two tftpd serve a command.                                      *)
LEMMA AloneFacts ==
  ASSUME JobOK, NEW t \in 1..Len(session),
         Cardinality({s \in Servers : job[s] = t}) <= 1
  PROVE Alone(t)
<1> DEFINE A == {s \in Servers : job[s] = t}
<1>0. scenario \in Scenarios
  BY DEF JobOK
<1>0a. scenario.servers \in Nat
  BY <1>0, ScenarioFacts
<1>1. A \subseteq 1..scenario.servers
  <2>1. SUFFICES ASSUME NEW s \in A PROVE s \in 1..scenario.servers
    OBVIOUS
  <2>2. s \in Nat /\ s # 0 /\ t # 0 /\ job[s] = t
    BY <2>1, ConstantFacts
  <2>3. s <= scenario.servers
    BY <2>1, <2>2 DEF JobOK
  <2>4. QED BY <1>0a, <2>2, <2>3
<1>2. IsFiniteSet(1..scenario.servers)
  BY <1>0a, FS_Interval
<1>3. IsFiniteSet(A)
  BY <1>1, <1>2, FS_Subset
<1>4. ASSUME NEW r \in A, NEW s \in A, r # s PROVE FALSE
  <2>1. {r, s} \subseteq A
    BY <1>4
  <2>2. Cardinality({r, s}) <= Cardinality(A) /\ IsFiniteSet({r, s})
    BY <1>3, <2>1, FS_Subset
  <2>3. Cardinality({r}) = 1 /\ IsFiniteSet({r})
    BY FS_Singleton
  <2>4. Cardinality({r} \cup {s}) = Cardinality({r}) + 1
    BY <1>4, <2>3, FS_AddElement
  <2>5. {r} \cup {s} = {r, s}
    OBVIOUS
  <2>6. Cardinality(A) \in Nat
    BY <1>3, FS_CardinalityType
  <2>7. Cardinality({r, s}) = 2
    <3> HIDE DEF A
    <3>1. QED BY <2>3, <2>4, <2>5
  <2>8. QED BY <2>2, <2>6, <2>7
<1>5. QED BY <1>4 DEF Alone

-----------------------------------------------------------------------------
(* Steps of a process that is at work: all actions but Begin and NewServer.*)

(* What such a step of p leaves alone, and how far it goes.                *)
Moves(p) ==
  /\ UNCHANGED <<scenario, xfer, job>>
  /\ pc' \in [Processes -> {"idle", "wait", "dally", "exit"}]
  /\ block' \in [Processes -> Nat] /\ sent' \in [Processes -> Bodies]
  /\ bfs' \in [Processes -> BufferType]
  /\ \A q \in Processes \ {p} : /\ pc'[q] = pc[q] /\ block'[q] = block[q]
                                /\ sent'[q] = sent[q] /\ bfs'[q] = bfs[q]
  /\ pc[p] \in {"wait", "dally"}
  /\ pc'[p] \in IF p = Client THEN {"idle", "wait"} ELSE {"wait", "dally", "exit"}
  /\ pc'[p] = "wait" => pc[p] = "wait" /\ (~Sends(p) => RecvBuf(bfs'[p]))
  /\ pc'[p] = "dally" => pc[p] = "wait" /\ ~Sends(p)
  /\ sent'[p].op \in {"RRQ", "WRQ"} => sent'[p] = sent[p]
  /\ \A m \in net' : m \in net \/
       /\ m.from = p /\ m.body \in Bodies
       /\ m.body.op \in {"RRQ", "WRQ"} => m.body = sent[p]

(* recvfrom () and synchnet () take packets away.                          *)
LEMMA NetFacts ==
  ASSUME NEW m, NEW flushed, NEW new, NEW fault, Network(m, flushed, new, fault)
  PROVE \A o \in net' : o \in net \/ o \in new
BY DEF Network

(* Sends' is about what does not change.                                   *)
LEMMA SendsKept ==
  ASSUME UNCHANGED <<scenario, xfer, job>>, NEW p
  PROVE Sends(p)' <=> Sends(p)
BY DEF Sends, session

(* The basic facts are kept by whatever has this shape.                    *)
LEMMA BaseKept ==
  ASSUME BaseInv, NEW p \in Processes, Moves(p)
  PROVE BaseInv'
<1>0. /\ scenario' = scenario /\ xfer' = xfer /\ job' = job
      /\ session' = session /\ size' = size
  BY DEF Moves, session, size
<1>1. JobOK'
  <2>0. scenario \in Scenarios
    BY DEF BaseInv, JobOK
  <2>1. pc'[Client] \in {"idle", "wait"}
    BY ConstantFacts DEF BaseInv, JobOK, Moves
  <2>2. pc'[Client] = "wait" => pc[Client] = "wait"
    BY ConstantFacts DEF Moves
  <2>3. ASSUME NEW s \in Servers
        PROVE /\ pc'[s] = "idle" => job[s] = 0
              /\ pc'[s] \in {"wait", "dally"} => job[s] # 0
              /\ pc'[s] = "dally" => session[job[s]] = "put"
    <3>1. s \in Processes /\ s # Client
      BY ConstantFacts DEF Processes
    <3>2. CASE s # p
      BY <3>1, <3>2 DEF BaseInv, JobOK, Moves
    <3>3. CASE s = p
      <4>1. pc'[s] # "idle" /\ job[s] # 0
        BY <3>1, <3>3 DEF BaseInv, JobOK, Moves
      <4>2. ASSUME pc'[s] = "dally" PROVE session[job[s]] = "put"
        <5>1. pc[s] = "wait" /\ ~Sends(s)
          BY <3>3, <4>2 DEF Moves
        <5>2. session[job[s]] # "get"
          BY <3>1, <5>1 DEF Sends
        <5>3. job[s] \in 1..Len(session)
          BY <2>0, <3>1, <4>1, ScenarioFacts DEF BaseInv, JobOK
        <5>4. QED BY <2>0, <5>2, <5>3, ScenarioFacts
      <4>3. QED BY <4>1, <4>2
    <3>4. QED BY <3>2, <3>3
  <2>4. pc' \in [Processes -> {"idle", "wait", "dally", "exit"}]
    BY DEF Moves
  <2>5. QED BY <1>0, <2>1, <2>2, <2>3, <2>4 DEF BaseInv, JobOK
<1>2. WireOK'
  <2>1. \A q \in Processes : RequestOK(sent'[q])
    <3>1. ASSUME NEW q \in Processes PROVE RequestOK(sent'[q])
      BY <3>1 DEF BaseInv, WireOK, Moves, RequestOK
    <3>2. QED BY <3>1
  <2>2. \A m \in net' : m.body \in Bodies /\ RequestOK(m.body)
    BY DEF BaseInv, WireOK, Moves, RequestOK
  <2>3. \A q \in Processes : RequestOK(sent[q])'
    BY <1>0, <2>1 DEF RequestOK, Request
  <2>4. \A m \in net' : RequestOK(m.body)'
    BY <1>0, <2>2 DEF RequestOK, Request
  <2>5. sent' \in [Processes -> Bodies]
    BY DEF Moves
  <2>6. QED BY <2>2, <2>3, <2>4, <2>5 DEF WireOK
<1>3. BuffersOK'
  <2>1. ASSUME NEW q \in Processes, pc'[q] = "wait", ~Sends(q)'
        PROVE RecvBuf(bfs'[q])
    <3>1. ~Sends(q)
      BY <1>0, <2>1, SendsKept
    <3>2. CASE q # p
      BY <2>1, <3>1, <3>2 DEF BaseInv, BuffersOK, Moves
    <3>3. CASE q = p
      BY <2>1, <3>1, <3>3 DEF Moves
    <3>4. QED BY <3>2, <3>3
  <2>2. QED BY <2>1 DEF BuffersOK, Moves
<1>4. QED BY <1>1, <1>2, <1>3 DEF BaseInv

(* Whatever the buffers hold, reading keeps their type.                    *)
LEMMA ReadType ==
  ASSUME NEW t \in Nat, NEW b \in BufferType
  PROVE /\ read_ahead(b, t) \in BufferType /\ readit(b, t) \in BufferType
        /\ readit(b, t).body[readit(b, t).current].data \in Nat \X Nat
<1>1. ASSUME NEW a \in BufferType PROVE read_ahead(a, t) \in BufferType
  <2>1. /\ a.nextone \in 0..1 /\ 1 - a.nextone \in 0..1 /\ a.pos + 1 \in Nat
        /\ a.current \in 0..1 /\ a.counter \in [0..1 -> {"alloc", "free", "full"}]
        /\ a.body \in [0..1 -> Bodies]
    BY DEF BufferType
  <2>2. Data(0, <<t, a.pos + 1>>) \in Bodies
    BY <2>1, BodyFacts
  <2>3. QED BY <2>1, <2>2 DEF read_ahead, Buffers, BufferType
<1> DEFINE o == 1 - b.current
           f == Buffers([b.counter EXCEPT ![b.current] = "free"], b.body, o,
                        b.nextone, b.pos)
           r == readit(b, t)
<1>2. o \in 0..1 /\ b.current \in 0..1
  BY DEF BufferType
<1>3. f \in BufferType
  BY <1>2 DEF Buffers, BufferType
<1> HIDE DEF f
<1>4. read_ahead(f, t) \in BufferType
  BY <1>1, <1>3
<1>5. r \in BufferType
  BY <1>3, <1>4 DEF readit, f
<1> HIDE DEF r
<1>6. r.body[r.current] \in Bodies
  BY <1>5 DEF BufferType
<1>7. r.body[r.current].data \in Nat \X Nat
  BY <1>6 DEF Bodies
<1>8. QED BY <1>1, <1>5, <1>7 DEF r

(* A receiver that waits has nothing to write.                             *)
LEMMA NothingToWrite ==
  ASSUME NEW b, RecvBuf(b)
  PROVE ~ToWrite(b) /\ write_behind(b, 0) = b
BY DEF RecvBuf, BufferType, ToWrite, write_behind

(* The command of a process at work.                                       *)
LEMMA AtWork ==
  ASSUME BaseInv, NEW p \in Processes, pc[p] \in {"wait", "dally"}
  PROVE /\ scenario \in Scenarios /\ xfer \in Nat /\ xfer <= Len(session)
        /\ job[p] \in 1..xfer /\ job[p] \in 1..Len(session) /\ job[p] \in Nat
        /\ Sends(p) => session[job[p]] = IF p = Client THEN "put" ELSE "get"
        /\ ~Sends(p) => session[job[p]] = IF p = Client THEN "get" ELSE "put"
        /\ pc[p] = "dally" => p \in Servers /\ ~Sends(p)
        /\ p = Client => job[p] = xfer
<1>1. scenario \in Scenarios /\ xfer \in 0..Len(session)
  BY DEF BaseInv, JobOK
<1>2. Len(session) \in Nat
  BY <1>1, ScenarioFacts
<1>3. p = Client \/ p \in Servers
  BY ConstantFacts
<1>4. job[p] \in 1..xfer /\ (p = Client => job[p] = xfer /\ pc[p] = "wait")
  <2>1. CASE p = Client
    BY <1>1, <1>2, <2>1 DEF BaseInv, JobOK
  <2>2. CASE p \in Servers
    <3>1. job[p] \in 0..Len(session) /\ job[p] <= xfer /\ job[p] # 0 /\ p # Client
      BY <1>1, <2>2, ConstantFacts DEF BaseInv, JobOK
    <3>2. QED BY <1>1, <1>2, <3>1
  <2>3. QED BY <1>3, <2>1, <2>2
<1>5. job[p] \in 1..Len(session)
  BY <1>1, <1>2, <1>4
<1>6. session[job[p]] \in {"get", "put"}
  BY <1>1, <1>5, ScenarioFacts
<1>7. pc[p] = "dally" => p \in Servers /\ session[job[p]] = "put"
  BY <1>3, <1>4 DEF BaseInv, JobOK
<1>8. p \in Servers => p # Client
  BY ConstantFacts
<1>9. QED BY <1>1, <1>2, <1>3, <1>4, <1>5, <1>6, <1>7, <1>8 DEF Sends

(* A process sends a packet of its own and waits for the answer.           *)
LEMMA WaitsMoves ==
  ASSUME BaseInv, NEW p \in Processes, pc[p] = "wait",
         UNCHANGED <<scenario, xfer, job>>, NEW n \in Nat,
         NEW body \in Bodies, body.op \notin {"RRQ", "WRQ"},
         NEW b \in BufferType, ~Sends(p) => RecvBuf(b), Waits(p, n, body, b),
         NEW to, \A o \in net' : o \in net \/ o \in {Packet(p, to, body)}
  PROVE Moves(p)
<1>1. /\ pc \in [Processes -> {"idle", "wait", "dally", "exit"}]
      /\ block \in [Processes -> Nat] /\ sent \in [Processes -> Bodies]
      /\ bfs \in [Processes -> BufferType]
  BY DEF BaseInv, JobOK, WireOK, BuffersOK
<1>2. /\ pc' = [pc EXCEPT ![p] = "wait"] /\ block' = [block EXCEPT ![p] = n]
      /\ sent' = [sent EXCEPT ![p] = body] /\ bfs' = [bfs EXCEPT ![p] = b]
  BY DEF Waits
<1>3. \A o \in {Packet(p, to, body)} : o.from = p /\ o.body = body
  BY DEF Packet
<1>4. /\ pc' \in [Processes -> {"idle", "wait", "dally", "exit"}]
      /\ block' \in [Processes -> Nat] /\ sent' \in [Processes -> Bodies]
      /\ bfs' \in [Processes -> BufferType]
  BY <1>1, <1>2
<1>5. pc'[p] = "wait" /\ sent'[p] = body /\ bfs'[p] = b
  BY <1>1, <1>2
<1>6. \A q \in Processes \ {p} : /\ pc'[q] = pc[q] /\ block'[q] = block[q]
                                 /\ sent'[q] = sent[q] /\ bfs'[q] = bfs[q]
  BY <1>1, <1>2
<1>7. \A m \in net' : m \in net \/
       /\ m.from = p /\ m.body \in Bodies
       /\ m.body.op \in {"RRQ", "WRQ"} => m.body = sent[p]
  BY <1>3
<1>8. QED BY <1>4, <1>5, <1>6, <1>7 DEF Moves

(* A process at work sends again what it sent, or other packets of its     *)
(* own, and waits or is done.                                              *)
LEMMA QuietMoves ==
  ASSUME BaseInv, NEW p \in Processes, pc[p] \in {"wait", "dally"},
         UNCHANGED <<scenario, xfer, job, block, sent>>,
         bfs' \in [Processes -> BufferType],
         \A q \in Processes : q # p \/ ~Sends(p) => bfs'[q] = bfs[q],
         NEW x \in {"wait", IF p = Client THEN "idle" ELSE "exit"},
         x = "wait" => pc[p] = "wait",
         pc' = [pc EXCEPT ![p] = x],
         \A o \in net' : o \in net \/
           /\ o.from = p
           /\ o.body = sent[p] \/ (o.body \in Bodies /\ o.body.op \notin {"RRQ", "WRQ"})
  PROVE Moves(p)
<1>1. /\ pc \in [Processes -> {"idle", "wait", "dally", "exit"}]
      /\ block \in [Processes -> Nat] /\ sent \in [Processes -> Bodies]
      /\ bfs \in [Processes -> BufferType]
  BY DEF BaseInv, JobOK, WireOK, BuffersOK
<1>2. sent[p] \in Bodies /\ pc'[p] = x /\ pc[Client] \in {"idle", "wait"}
  BY <1>1 DEF BaseInv, JobOK
<1>3. \A m \in net' : m \in net \/
       /\ m.from = p /\ m.body \in Bodies
       /\ m.body.op \in {"RRQ", "WRQ"} => m.body = sent[p]
  BY <1>2
<1>4. pc'[p] \in IF p = Client THEN {"idle", "wait"} ELSE {"wait", "dally", "exit"}
  BY <1>2
<1>5. pc'[p] = "wait" => pc[p] = "wait" /\ (~Sends(p) => RecvBuf(bfs'[p]))
  BY <1>2 DEF BaseInv, BuffersOK
<1>6. pc' \in [Processes -> {"idle", "wait", "dally", "exit"}]
  BY <1>1, <1>4
<1>7. \A q \in Processes \ {p} : pc'[q] = pc[q]
  BY <1>1
<1>8. QED BY <1>1, <1>2, <1>3, <1>4, <1>5, <1>6, <1>7 DEF Moves

(* Nothing is left to write after a packet was sent, and reading ahead     *)
(* keeps the type of the buffers.                                          *)
LEMMA AfterSendFacts ==
  ASSUME BaseInv, NEW p \in Processes, pc[p] = "wait", AfterSend(p)
  PROVE /\ bfs' \in [Processes -> BufferType] /\ UNCHANGED files
        /\ \A q \in Processes : q # p \/ ~Sends(p) => bfs'[q] = bfs[q]
        /\ Sends(p) => bfs' = [bfs EXCEPT ![p] = read_ahead(@, job[p])]
<1>1. bfs \in [Processes -> BufferType]
  BY DEF BaseInv, BuffersOK
<1>2. CASE Sends(p)
  <2>1. read_ahead(bfs[p], job[p]) \in BufferType
    BY <1>1, AtWork, ReadType
  <2>2. bfs' = [bfs EXCEPT ![p] = read_ahead(@, job[p])] /\ UNCHANGED files
    BY <1>2 DEF AfterSend
  <2>3. QED BY <1>1, <1>2, <2>1, <2>2
<1>3. CASE ~Sends(p)
  <2>1. RecvBuf(bfs[p])
    BY <1>3 DEF BaseInv, BuffersOK
  <2>2. ~ToWrite(bfs[p]) /\ write_behind(bfs[p], 0) = bfs[p]
    BY <2>1, NothingToWrite
  <2>3. bfs' = [bfs EXCEPT ![p] = write_behind(@, 0)] /\ UNCHANGED files
    BY <1>3, <2>2 DEF AfterSend, Store, files
  <2>4. QED BY <1>1, <1>3, <2>2, <2>3
<1>4. QED BY <1>2, <1>3

(* Timer, Refused, Dies, Ignore, Resynchronise and the end of a dally.     *)
LEMMA TimerMoves ==
  ASSUME BaseInv, NEW p \in Processes, Timer(p)
  PROVE Moves(p)
<1> DEFINE e == IF p = Client THEN "idle" ELSE "exit"
<1>0. pc[p] = "wait" /\ UNCHANGED <<scenario, xfer>>
  BY DEF Timer
<1>1. /\ pc \in [Processes -> {"idle", "wait", "dally", "exit"}]
      /\ bfs \in [Processes -> BufferType]
  BY DEF BaseInv, JobOK, BuffersOK
<1>2. CASE AfterSend(p) /\ net' = net \cup {Packet(p, Peer(p), sent[p])}
           /\ UNCHANGED <<pc, job, block, sent, result>>
  <2>1. \A o \in net' : o \in net \/ (o.from = p /\ o.body = sent[p])
    BY <1>2 DEF Packet
  <2>2. /\ bfs' \in [Processes -> BufferType]
        /\ \A q \in Processes : q # p \/ ~Sends(p) => bfs'[q] = bfs[q]
    BY <1>0, <1>2, AfterSendFacts
  <2>3. pc' = [pc EXCEPT ![p] = "wait"]
    BY <1>0, <1>1, <1>2
  <2>4. QED BY <1>0, <1>2, <2>1, <2>2, <2>3, QuietMoves
<1>3. CASE Ends(p, "failed") /\ UNCHANGED <<net, bfs, files>>
  <2>1. pc' = [pc EXCEPT ![p] = e] /\ UNCHANGED <<job, block, sent>>
    BY <1>3 DEF Ends
  <2>2. e # "wait" /\ e \in {"wait", IF p = Client THEN "idle" ELSE "exit"}
    OBVIOUS
  <2> HIDE DEF e
  <2>3. QED BY <1>0, <1>1, <1>3, <2>1, <2>2, QuietMoves
<1>4. QED BY <1>2, <1>3 DEF Timer

(* An ERROR ends the transfer of p, and p alone moves.                     *)
LEMMA RefusedMoves ==
  ASSUME BaseInv, NEW p \in Processes, Refused(p)
  PROVE Moves(p)
<1> DEFINE e == IF p = Client THEN "idle" ELSE "exit"
<1>0. pc[p] = "wait" /\ UNCHANGED <<scenario, xfer, bfs>> /\ Ends(p, "failed")
  BY DEF Refused
<1>1. bfs \in [Processes -> BufferType] /\ block[p] \in Nat
  BY DEF BaseInv, BuffersOK
<1>2. PICK m \in net :
        Network(m, {}, IF p = Client /\ ~Sends(p)
                         THEN {Packet(p, m.from, Ack(block[p]))} ELSE {}, 0)
  BY DEF Refused
<1>3. Ack(block[p]) \in Bodies /\ Ack(block[p]).op = "ACK"
  BY <1>1, BodyFacts DEF Ack
<1>4. \A o \in net' : o \in net \/ o = Packet(p, m.from, Ack(block[p]))
  BY <1>2, NetFacts
<1>5. \A o \in net' : o \in net \/ (o.from = p /\ o.body = Ack(block[p]))
  BY <1>4 DEF Packet
<1>6. pc' = [pc EXCEPT ![p] = e] /\ UNCHANGED <<job, block, sent>>
  BY <1>0 DEF Ends
<1>7. e # "wait" /\ e \in {"wait", IF p = Client THEN "idle" ELSE "exit"}
  OBVIOUS
<1> HIDE DEF e
<1>8. QED BY <1>0, <1>1, <1>3, <1>5, <1>6, <1>7, QuietMoves

(* The process that dies is the only one that moves.                       *)
LEMMA DiesMoves ==
  ASSUME BaseInv, NEW p \in Processes, Dies(p)
  PROVE Moves(p)
<1> DEFINE e == IF p = Client THEN "idle" ELSE "exit"
<1>0. pc[p] = "wait" /\ UNCHANGED <<scenario, xfer, bfs, net>> /\ Ends(p, "failed")
  BY DEF Dies
<1>1. bfs \in [Processes -> BufferType]
  BY DEF BaseInv, BuffersOK
<1>6. pc' = [pc EXCEPT ![p] = e] /\ UNCHANGED <<job, block, sent>>
  BY <1>0 DEF Ends
<1>7. e # "wait" /\ e \in {"wait", IF p = Client THEN "idle" ELSE "exit"}
  OBVIOUS
<1> HIDE DEF e
<1>8. QED BY <1>0, <1>1, <1>6, <1>7, QuietMoves

(* A packet that is ignored leaves every process as it was.                *)
LEMMA IgnoreMoves ==
  ASSUME BaseInv, NEW p \in Processes, Ignore(p)
  PROVE Moves(p)
<1>0. pc[p] = "wait" /\ UNCHANGED <<scenario, xfer, pc, job, block, sent, bfs>>
  BY DEF Ignore, proc
<1>1. /\ pc \in [Processes -> {"idle", "wait", "dally", "exit"}]
      /\ bfs \in [Processes -> BufferType]
  BY DEF BaseInv, JobOK, BuffersOK
<1>2. PICK m \in net : Network(m, {}, {}, 0)
  BY DEF Ignore
<1>3. \A o \in net' : o \in net
  BY <1>2, NetFacts
<1>4. pc' = [pc EXCEPT ![p] = "wait"]
  BY <1>0, <1>1
<1>5. QED BY <1>0, <1>1, <1>3, <1>4, QuietMoves

(* Flushing and sending again leave the others as they were.               *)
LEMMA ResynchroniseMoves ==
  ASSUME BaseInv, NEW p \in Processes, Resynchronise(p)
  PROVE Moves(p)
<1>0. pc[p] = "wait" /\ UNCHANGED <<scenario, xfer, pc, job, block, sent>>
  BY DEF Resynchronise
<1>1. /\ pc \in [Processes -> {"idle", "wait", "dally", "exit"}]
      /\ bfs \in [Processes -> BufferType]
  BY DEF BaseInv, JobOK, BuffersOK
<1>2. PICK m \in net, arrived \in SUBSET net :
        \/ AfterSend(p) /\ Network(m, arrived, {Packet(p, ReplyTo(p, m), sent[p])}, 0)
        \/ UNCHANGED <<bfs, files>> /\ Network(m, arrived, {}, 0)
  BY DEF Resynchronise
<1>3. \A o \in net' : o \in net \/ o = Packet(p, ReplyTo(p, m), sent[p])
  BY <1>2, NetFacts
<1>4. \A o \in net' : o \in net \/ (o.from = p /\ o.body = sent[p])
  BY <1>3 DEF Packet
<1>5. /\ bfs' \in [Processes -> BufferType]
      /\ \A q \in Processes : q # p \/ ~Sends(p) => bfs'[q] = bfs[q]
  BY <1>0, <1>1, <1>2, AfterSendFacts
<1>6. pc' = [pc EXCEPT ![p] = "wait"]
  BY <1>0, <1>1
<1>7. QED BY <1>0, <1>4, <1>5, <1>6, QuietMoves

(* The end of a dally, with or without a last acknowledgement.             *)
LEMMA DallyMoves ==
  ASSUME BaseInv, NEW s \in Servers, Server(s)
  PROVE s \in Processes /\ Moves(s)
<1>0. /\ pc[s] = "dally" /\ UNCHANGED <<scenario, xfer, job, block, sent, bfs>>
      /\ pc' = [pc EXCEPT ![s] = "exit"]
  BY DEF Server, Dally, DallyEnds
<1>1. bfs \in [Processes -> BufferType] /\ s \in Processes /\ s # Client
  BY ConstantFacts DEF BaseInv, BuffersOK, Processes
<1>2. \A o \in net' : o \in net \/ (o.from = s /\ o.body = sent[s])
  <2>1. CASE Dally(s)
    <3>1. PICK m \in net, c \in BOOLEAN :
            Network(m, {}, IF c THEN {Packet(s, Client, sent[s])} ELSE {}, 0)
      BY <2>1 DEF Dally
    <3>2. \A o \in net' : o \in net \/ o = Packet(s, Client, sent[s])
      BY <3>1, NetFacts
    <3>3. QED BY <3>2 DEF Packet
  <2>2. CASE DallyEnds(s)
    BY <2>2 DEF DallyEnds
  <2>3. QED BY <2>1, <2>2 DEF Server
<1>3. QED BY <1>0, <1>1, <1>2, QuietMoves

(* A block is acknowledged: the next one, the end, or a read () that fails.*)
LEMMA AcknowledgedMoves ==
  ASSUME BaseInv, NEW p \in Processes, Acknowledged(p)
  PROVE Moves(p)
<1> DEFINE e == IF p = Client THEN "idle" ELSE "exit"
           b == readit(bfs[p], job[p])
           n == block[p] + 1
           body == Data(n % BlockMod, b.body[b.current].data)
<1>0. pc[p] = "wait" /\ Sends(p) /\ UNCHANGED <<scenario, xfer>>
  BY DEF Acknowledged
<1>1. bfs \in [Processes -> BufferType] /\ block[p] \in Nat /\ job[p] \in Nat
  BY <1>0, AtWork DEF BaseInv, BuffersOK
<1>2. n \in Nat /\ b \in BufferType /\ b.body[b.current].data \in Nat \X Nat
  BY <1>1, ReadType
<1>3. body \in Bodies /\ body.op = "DATA"
  <2>1. n % BlockMod \in Nat
    BY <1>2, ModFacts
  <2>2. QED BY <1>2, <2>1, BodyFacts DEF Data
<1>4. read_ahead(b, job[p]) \in BufferType
  BY <1>1, <1>2, ReadType
<1>5. PICK m \in net :
        \/ Ends(p, "ok") /\ Network(m, {}, {}, 0) /\ UNCHANGED bfs
        \/ /\ Waits(p, n, body, read_ahead(b, job[p]))
           /\ Network(m, {}, {Packet(p, ReplyTo(p, m), body)}, 0)
           /\ UNCHANGED <<job, result>>
        \/ /\ Ends(p, "ok")
           /\ Network(m, {}, {Packet(p, ReplyTo(p, m), Error)}, 1)
           /\ UNCHANGED bfs
  BY DEF Acknowledged
<1> DEFINE r == read_ahead(b, job[p])
<1> HIDE DEF b, n, body, r
<1>6. CASE /\ Waits(p, n, body, r) /\ UNCHANGED <<job, result>>
           /\ Network(m, {}, {Packet(p, ReplyTo(p, m), body)}, 0)
  <2>1. \A o \in net' : o \in net \/ o \in {Packet(p, ReplyTo(p, m), body)}
    BY <1>6, NetFacts
  <2>2. body.op \notin {"RRQ", "WRQ"} /\ r \in BufferType
    BY <1>3, <1>4 DEF r
  <2>3. QED BY <1>0, <1>2, <1>3, <1>6, <2>1, <2>2, WaitsMoves
<1>7. CASE /\ \E outcome \in {"ok", "failed"} : Ends(p, outcome)
           /\ \E new \in SUBSET {Packet(p, ReplyTo(p, m), Error)}, f \in 0..1 :
                Network(m, {}, new, f)
           /\ UNCHANGED bfs
  <2>1. \A o \in net' : o \in net \/ o = Packet(p, ReplyTo(p, m), Error)
    BY <1>7, NetFacts
  <2>2. \A o \in net' : o \in net \/ (o.from = p /\ o.body = Error)
    BY <2>1 DEF Packet
  <2>3. Error \in Bodies /\ Error.op \notin {"RRQ", "WRQ"}
    BY BodyFacts DEF Error
  <2>4. pc' = [pc EXCEPT ![p] = e] /\ UNCHANGED <<job, block, sent>>
    BY <1>7 DEF Ends
  <2>5. e # "wait" /\ e \in {"wait", IF p = Client THEN "idle" ELSE "exit"}
    OBVIOUS
  <2> HIDE DEF e
  <2>6. \A o \in net' : o \in net \/
           /\ o.from = p
           /\ o.body = sent[p] \/ (o.body \in Bodies /\ o.body.op \notin {"RRQ", "WRQ"})
    BY <2>2, <2>3
  <2>7. QED BY <1>0, <1>1, <1>7, <2>4, <2>5, <2>6, QuietMoves
<1>8. QED BY <1>5, <1>6, <1>7 DEF r

(* What is received, and where it goes.                                    *)
LEMMA ReceivedFacts ==
  ASSUME BaseInv, NEW p \in Processes, Received(p)
  PROVE \E m \in net, lost \in 0..1 :
        LET b == writeit(bfs[p], m.body)
            v == write_behind(b, lost)
            ack == Ack(block[p])
            pos == bfs[p].pos
        IN  /\ m.to = p /\ IsNext(p, m.body) /\ SetPort(p, m)
            /\ RecvBuf(v) /\ v.pos = (pos + 1) - lost /\ pos \in Nat
            /\ bfs' = [bfs EXCEPT ![p] = v] /\ UNCHANGED unread
            /\ \/ /\ lost = 0 /\ UNCHANGED unwritten
                  /\ dest' = [dest EXCEPT ![job[p]] = WriteAt(@, pos, m.body.data)]
               \/ lost = 1 /\ unwritten' = unwritten \cup {job[p]} /\ UNCHANGED dest
            /\ \A o \in net' : o \in net \/ o = Packet(p, ReplyTo(p, m), ack)
            /\ \/ /\ ~Short(m.body.data)
                  /\ Waits(p, block[p] + 1, ack, v) /\ UNCHANGED <<job, result>>
               \/ Short(m.body.data) /\ p = Client /\ Ends(p, "ok")
               \/ /\ Short(m.body.data) /\ p # Client
                  /\ pc' = [pc EXCEPT ![p] = "dally"]
                  /\ sent' = [sent EXCEPT ![p] = ack]
                  /\ UNCHANGED <<job, block, tries, result>>
<1>0. pc[p] = "wait" /\ ~Sends(p)
  BY DEF Received
<1>1. RecvBuf(bfs[p])
  BY <1>0 DEF BaseInv, BuffersOK
<1>2. PICK m \in net, lost \in 0..1 :
       LET b == writeit(bfs[p], m.body)
           ack == Ack(block[p])
       IN /\ m.to = p /\ IsNext(p, m.body) /\ SetPort(p, m)
          /\ Store(p, b, lost)
          /\ Network(m, {}, {Packet(p, ReplyTo(p, m), ack)}, lost)
          /\ \/ /\ ~Short(m.body.data)
                /\ Waits(p, block[p] + 1, ack, write_behind(b, lost))
                /\ UNCHANGED <<job, result>>
             \/ /\ Short(m.body.data) /\ p = Client
                /\ Ends(p, "ok") /\ bfs' = [bfs EXCEPT ![p] = write_behind(b, lost)]
             \/ /\ Short(m.body.data) /\ p # Client
                /\ pc' = [pc EXCEPT ![p] = "dally"]
                /\ sent' = [sent EXCEPT ![p] = ack]
                /\ bfs' = [bfs EXCEPT ![p] = write_behind(b, lost)]
                /\ UNCHANGED <<job, block, tries, result>>
  BY DEF Received
<1> DEFINE b == writeit(bfs[p], m.body)
           v == write_behind(b, lost)
           ack == Ack(block[p])
           pos == bfs[p].pos
<1>3. m.body \in Bodies
  BY DEF BaseInv, WireOK
<1>4. /\ ToWrite(b) /\ b.pos = pos /\ b.body[b.nextone] = m.body
      /\ RecvBuf(v) /\ v.pos = (pos + 1) - lost
  BY <1>1, <1>3, ReceiveFacts
<1>5. pos \in Nat
  BY <1>1 DEF RecvBuf, BufferType
<1>6. \A o \in net' : o \in net \/ o = Packet(p, ReplyTo(p, m), ack)
  BY <1>2, NetFacts
<1>7. bfs' = [bfs EXCEPT ![p] = v]
  BY <1>2 DEF Waits
<1>8. Store(p, b, lost) /\ m.to = p /\ IsNext(p, m.body) /\ SetPort(p, m)
  BY <1>2
<1>9. \/ /\ ~Short(m.body.data)
         /\ Waits(p, block[p] + 1, ack, v) /\ UNCHANGED <<job, result>>
      \/ Short(m.body.data) /\ p = Client /\ Ends(p, "ok")
      \/ /\ Short(m.body.data) /\ p # Client
         /\ pc' = [pc EXCEPT ![p] = "dally"]
         /\ sent' = [sent EXCEPT ![p] = ack]
         /\ UNCHANGED <<job, block, tries, result>>
  BY <1>2
<1> HIDE DEF b, v, ack, pos
<1>10. /\ UNCHANGED unread
       /\ \/ /\ lost = 0 /\ UNCHANGED unwritten
             /\ dest' = [dest EXCEPT ![job[p]] = WriteAt(@, pos, m.body.data)]
          \/ lost = 1 /\ unwritten' = unwritten \cup {job[p]} /\ UNCHANGED dest
  BY <1>4, <1>8 DEF Store
<1> USE DEF b, v, ack, pos
<1>11. QED BY <1>4, <1>5, <1>6, <1>7, <1>8, <1>9, <1>10


(* A block received moves the receiver alone.                              *)
LEMMA ReceivedMoves ==
  ASSUME BaseInv, NEW p \in Processes, Received(p)
  PROVE Moves(p)
<1>0. pc[p] = "wait" /\ ~Sends(p) /\ UNCHANGED <<scenario, xfer>>
  BY DEF Received
<1>1. /\ pc \in [Processes -> {"idle", "wait", "dally", "exit"}]
      /\ block \in [Processes -> Nat] /\ sent \in [Processes -> Bodies]
      /\ bfs \in [Processes -> BufferType]
  BY DEF BaseInv, JobOK, WireOK, BuffersOK
<1> DEFINE ack == Ack(block[p])
<1>2. PICK m \in net, lost \in 0..1 :
        LET v == write_behind(writeit(bfs[p], m.body), lost) IN
        /\ RecvBuf(v) /\ bfs' = [bfs EXCEPT ![p] = v]
        /\ \A o \in net' : o \in net \/ o = Packet(p, ReplyTo(p, m), ack)
        /\ \/ Waits(p, block[p] + 1, ack, v) /\ UNCHANGED <<job, result>>
           \/ p = Client /\ Ends(p, "ok")
           \/ /\ p # Client
              /\ pc' = [pc EXCEPT ![p] = "dally"]
              /\ sent' = [sent EXCEPT ![p] = ack]
              /\ UNCHANGED <<job, block, tries, result>>
  BY ReceivedFacts
<1> DEFINE v == write_behind(writeit(bfs[p], m.body), lost)
<1>3. RecvBuf(v) /\ bfs' = [bfs EXCEPT ![p] = v]
  BY <1>2
<1>4. \A o \in net' : o \in net \/ o = Packet(p, ReplyTo(p, m), ack)
  BY <1>2
<1>5. \/ Waits(p, block[p] + 1, ack, v) /\ UNCHANGED <<job, result>>
      \/ p = Client /\ Ends(p, "ok")
      \/ /\ p # Client
         /\ pc' = [pc EXCEPT ![p] = "dally"]
         /\ sent' = [sent EXCEPT ![p] = ack]
         /\ UNCHANGED <<job, block, tries, result>>
  BY <1>2
<1>6. ack \in Bodies /\ ack.op = "ACK" /\ ack.op \notin {"RRQ", "WRQ"}
  BY <1>1, BodyFacts DEF Ack
<1>7. v \in BufferType
  BY <1>3 DEF RecvBuf
<1> HIDE DEF ack, v
<1>8. CASE Waits(p, block[p] + 1, ack, v) /\ UNCHANGED <<job, result>>
  <2>1. block[p] + 1 \in Nat
    BY <1>1
  <2>2. \A o \in net' : o \in net \/ o \in {Packet(p, ReplyTo(p, m), ack)}
    BY <1>4
  <2>3. QED BY <1>0, <1>3, <1>6, <1>7, <1>8, <2>1, <2>2, WaitsMoves
<1>9. CASE \/ p = Client /\ Ends(p, "ok")
           \/ /\ p # Client
              /\ pc' = [pc EXCEPT ![p] = "dally"]
              /\ sent' = [sent EXCEPT ![p] = ack]
              /\ UNCHANGED <<job, block, tries, result>>
  <2>1. /\ UNCHANGED <<job, block>>
        /\ sent' = sent \/ sent' = [sent EXCEPT ![p] = ack]
        /\ pc' = [pc EXCEPT ![p] = IF p = Client THEN "idle" ELSE "dally"]
    BY <1>9 DEF Ends
  <2>2. \A m2 \in net' : m2 \in net \/
          /\ m2.from = p /\ m2.body \in Bodies
          /\ m2.body.op \in {"RRQ", "WRQ"} => m2.body = sent[p]
    BY <1>4, <1>6 DEF Packet
  <2>3. sent' \in [Processes -> Bodies] /\ (sent'[p] = sent[p] \/ sent'[p] = ack)
    BY <1>1, <1>6, <2>1
  <2>4. \A q \in Processes \ {p} : /\ pc'[q] = pc[q] /\ block'[q] = block[q]
                                   /\ sent'[q] = sent[q] /\ bfs'[q] = bfs[q]
    BY <1>1, <1>3, <2>1
  <2>5. /\ pc' \in [Processes -> {"idle", "wait", "dally", "exit"}]
        /\ pc'[p] = IF p = Client THEN "idle" ELSE "dally"
    BY <1>1, <2>1
  <2>6. bfs' \in [Processes -> BufferType]
    BY <1>1, <1>3, <1>7
  <2>7. QED BY <1>0, <1>1, <1>6, <2>1, <2>2, <2>3, <2>4, <2>5, <2>6 DEF Moves
<1>10. QED BY <1>5, <1>8, <1>9

(* Each of these steps keeps the basic facts.                              *)
LEMMA StepMoves ==
  ASSUME BaseInv, NEW p \in Processes, Step(p) \/ Dies(p)
  PROVE Moves(p)
BY TimerMoves, AcknowledgedMoves, ReceivedMoves, ResynchroniseMoves,
   IgnoreMoves, RefusedMoves, DiesMoves DEF Step

-----------------------------------------------------------------------------
(* A command begins.                                                       *)
LEMMA BeginBase ==
  ASSUME BaseInv, Begin
  PROVE BaseInv'
<1> DEFINE t == xfer + 1
           b == bfs'[Client]
<1>0. /\ scenario' = scenario /\ session' = session /\ size' = size
      /\ scenario \in Scenarios
  BY DEF BaseInv, JobOK, Begin, session, size
<1>1. /\ xfer \in 0..Len(session) /\ pc[Client] = "idle" /\ xfer < Len(session)
      /\ pc \in [Processes -> {"idle", "wait", "dally", "exit"}]
      /\ job \in [Processes -> 0..Len(session)]
      /\ block \in [Processes -> Nat] /\ sent \in [Processes -> Bodies]
      /\ bfs \in [Processes -> BufferType] /\ Len(session) \in Nat
  BY <1>0, ScenarioFacts DEF BaseInv, JobOK, WireOK, BuffersOK, Begin
<1>2. /\ t \in 1..Len(session) /\ xfer' = t /\ t \in Nat
      /\ job' = [job EXCEPT ![Client] = t]
  BY <1>1 DEF Begin
<1>3. /\ Request(t) \in Bodies /\ Request(t).data[1] = t
      /\ session[t] \in {"get", "put"}
  BY <1>0, <1>2, RequestFacts, ScenarioFacts
<1>4. /\ pc' = [pc EXCEPT ![Client] = "wait"]
      /\ sent' = [sent EXCEPT ![Client] = Request(t)]
      /\ net' = net \cup {Packet(Client, WellKnown, Request(t))}
  BY DEF Begin, Waits
<1>5. \E n \in {0, 1} : block' = [block EXCEPT ![Client] = n]
  BY DEF Begin, Waits
<1>6. /\ bfs' = [bfs EXCEPT ![Client] = b] /\ b \in BufferType
      /\ session[t] # "put" => RecvBuf(b)
  <2>1. CASE session[t] = "put"
    <3>1. bfs' = [bfs EXCEPT ![Client] = read_ahead(rw_init(1), t)]
      BY <2>1 DEF Begin, Waits
    <3>2. read_ahead(rw_init(1), t) \in BufferType
      BY <1>2, InitFacts, ReadType
    <3>3. QED BY <1>1, <2>1, <3>1, <3>2, ConstantFacts
  <2>2. CASE session[t] # "put"
    <3>1. bfs' = [bfs EXCEPT ![Client] = rw_init(0)]
      BY <2>2 DEF Begin, Waits
    <3>2. RecvBuf(rw_init(0)) /\ rw_init(0) \in BufferType
      BY InitFacts DEF RecvBuf
    <3>3. QED BY <1>1, <3>1, <3>2, ConstantFacts
  <2>3. QED BY <2>1, <2>2
<1> HIDE DEF t, b
<1>7. \A q \in Servers : /\ pc'[q] = pc[q] /\ job'[q] = job[q] /\ sent'[q] = sent[q]
                         /\ bfs'[q] = bfs[q]
  BY <1>1, <1>2, <1>4, <1>6, ConstantFacts DEF Processes
<1>8. JobOK'
  <2>1. /\ pc'[Client] = "wait" /\ job'[Client] = t /\ t # 0 /\ xfer' = t
        /\ t \in 0..Len(session)
    BY <1>1, <1>2, <1>4, ConstantFacts
  <2>2. /\ pc' \in [Processes -> {"idle", "wait", "dally", "exit"}]
        /\ job' \in [Processes -> 0..Len(session)]
    BY <1>1, <1>2, <1>4, <2>1
  <2>3. ASSUME NEW s \in Servers
        PROVE /\ job'[s] <= xfer' /\ (job'[s] # 0 => s <= scenario.servers)
              /\ pc'[s] = "idle" => job'[s] = 0
              /\ pc'[s] \in {"wait", "dally"} => job'[s] # 0
              /\ pc'[s] = "dally" => session[job'[s]] = "put"
    <3>1. /\ job[s] <= xfer /\ (job[s] # 0 => s <= scenario.servers)
          /\ pc[s] = "idle" => job[s] = 0
          /\ pc[s] \in {"wait", "dally"} => job[s] # 0
          /\ pc[s] = "dally" => session[job[s]] = "put"
      BY DEF BaseInv, JobOK
    <3>2. job[s] \in Nat
      BY <1>1 DEF Processes
    <3>3. job[s] <= t
      BY <1>1, <3>1, <3>2 DEF t
    <3>4. QED BY <1>2, <1>7, <3>1, <3>3
  <2>4. QED BY <1>0, <2>1, <2>2, <2>3 DEF JobOK
<1>9. WireOK'
  <2>2. sent' \in [Processes -> Bodies]
    BY <1>1, <1>3, <1>4
  <2>3. \A p \in Processes : sent'[p] = sent[p] \/ sent'[p] = Request(t)
    BY <1>1, <1>4
  <2>4. \A p \in Processes : RequestOK(sent'[p]) \/ sent'[p] = Request(t)
    BY <2>3 DEF BaseInv, WireOK
  <2>5. \A m \in net' : /\ m.body \in Bodies
                        /\ RequestOK(m.body) \/ m.body = Request(t)
    BY <1>3, <1>4 DEF BaseInv, WireOK, Packet
  <2>6. \A p \in Processes : RequestOK(sent[p])'
    <3>1. ASSUME NEW p \in Processes PROVE RequestOK(sent[p])'
      <4>1. RequestOK(sent'[p]) \/ sent'[p] = Request(t)
        BY <2>4
      <4>2. sent'[p].op \in {"RRQ", "WRQ"} => sent'[p].data[1] \in 1..xfer' /\
                                          sent'[p] = Request(sent'[p].data[1])
        BY <1>1, <1>2, <1>3, <4>1 DEF RequestOK, t
      <4>3. QED BY <1>0, <4>2 DEF RequestOK, Request
    <3>2. QED BY <3>1
  <2>7. \A m \in net' : RequestOK(m.body)'
    <3>1. ASSUME NEW m \in net' PROVE RequestOK(m.body)'
      <4>1. RequestOK(m.body) \/ m.body = Request(t)
        BY <2>5
      <4>2. m.body.op \in {"RRQ", "WRQ"} => m.body.data[1] \in 1..xfer' /\
                                          m.body = Request(m.body.data[1])
        BY <1>1, <1>2, <1>3, <4>1 DEF RequestOK, t
      <4>3. QED BY <1>0, <4>2 DEF RequestOK, Request
    <3>2. QED BY <3>1
  <2>8. QED BY <2>2, <2>5, <2>6, <2>7 DEF WireOK
<1>10. BuffersOK'
  <2>1. bfs' \in [Processes -> BufferType] /\ block' \in [Processes -> Nat]
    <3>1. bfs' \in [Processes -> BufferType]
      BY <1>1, <1>6
    <3>2. PICK n \in {0, 1} : block' = [block EXCEPT ![Client] = n]
      BY <1>5
    <3>3. n \in Nat
      OBVIOUS
    <3>4. QED BY <1>1, <3>1, <3>2, <3>3
  <2>2. ASSUME NEW p \in Processes, pc'[p] = "wait", ~Sends(p)'
        PROVE RecvBuf(bfs'[p])
    <3>1. CASE p = Client
      <4>1. session[t] # "put"
        BY <1>0, <1>2, <2>2, <3>1 DEF Sends
      <4>2. QED BY <1>6, <3>1, <4>1 DEF b
    <3>2. CASE p \in Servers
      <4>1. p # Client
        BY <3>2, ConstantFacts
      <4>2. ~Sends(p)
        BY <1>0, <1>7, <2>2, <3>2, <4>1 DEF Sends
      <4>3. QED BY <1>7, <2>2, <3>2, <4>2 DEF BaseInv, BuffersOK
    <3>3. QED BY <3>1, <3>2, ConstantFacts
  <2>3. QED BY <2>1, <2>2 DEF BuffersOK
<1>11. QED BY <1>8, <1>9, <1>10 DEF BaseInv

(* inetd starts a tftpd: it serves the request t, or refuses it.           *)
Starts(s) ==
  \E m \in net :
    /\ m.to = WellKnown
    /\ LET t == m.body.data[1] IN
       \/ /\ m.body = Request(t) /\ t \in 1..xfer /\ session[t] = "get"
          /\ \E b : /\ b \in BufferType /\ SendBuf(b, t, 1)
                    /\ Waits(s, 1, Data(1 % BlockMod, <<t, 1>>), b)
          /\ job' = [job EXCEPT ![s] = t] /\ UNCHANGED files
          /\ \A o \in net' : o \in net \/
               o = Packet(s, Client, Data(1 % BlockMod, <<t, 1>>))
       \/ /\ m.body = Request(t) /\ t \in 1..xfer /\ session[t] = "put"
          /\ Waits(s, 1, Ack(0), rw_init(0))
          /\ job' = [job EXCEPT ![s] = t]
          /\ dest' = [dest EXCEPT ![t] = <<>>] /\ UNCHANGED <<unwritten, unread>>
          /\ \A o \in net' : o \in net \/ o = Packet(s, Client, Ack(0))
       \/ /\ pc' = [pc EXCEPT ![s] = "exit"]
          /\ UNCHANGED <<job, block, tries, sent, bfs, files>>
          /\ \A o \in net' : o \in net \/ o = Packet(s, Client, Error)

(* NewServer, with what its request and its first packet are.              *)
LEMMA NewServerStarts ==
  ASSUME BaseInv, NEW s \in Servers, NewServer(s)
  PROVE /\ Starts(s) /\ pc[s] = "idle" /\ s <= scenario.servers
        /\ UNCHANGED <<scenario, xfer, result, peer, masked>>
<1>1. PICK m \in net :
       /\ m.to = WellKnown
       /\ LET t == m.body.data[1] IN
          \/ /\ m.body.op = "RRQ"
             /\ LET b == readit(rw_init(1), t)
                    body == Data(1 % BlockMod, b.body[b.current].data) IN
                /\ Waits(s, 1, body, read_ahead(b, t))
                /\ Network(m, {}, {Packet(s, Client, body)}, 0)
             /\ job' = [job EXCEPT ![s] = t] /\ UNCHANGED files
          \/ /\ m.body.op = "WRQ"
             /\ Waits(s, 1, Ack(0), rw_init(0))
             /\ Network(m, {}, {Packet(s, Client, Ack(0))}, 0)
             /\ job' = [job EXCEPT ![s] = t]
             /\ dest' = [dest EXCEPT ![t] = <<>>] /\ UNCHANGED <<unwritten, unread>>
          \/ /\ pc' = [pc EXCEPT ![s] = "exit"]
             /\ Network(m, {}, {Packet(s, Client, Error)}, 1)
             /\ UNCHANGED <<job, block, tries, sent, bfs, files>>
  BY DEF NewServer
<1> DEFINE t == m.body.data[1]
           b == readit(rw_init(1), t)
           r == read_ahead(b, t)
           body == Data(1 % BlockMod, b.body[b.current].data)
           first == Data(1 % BlockMod, <<t, 1>>)
<1>2. scenario \in Scenarios /\ xfer \in 0..Len(session) /\ Len(session) \in Nat
  BY ScenarioFacts DEF BaseInv, JobOK
<1>3. m.body.op \in {"RRQ", "WRQ"} => t \in 1..xfer /\ m.body = Request(t)
  BY DEF BaseInv, WireOK, RequestOK
<1>4. t \in 1..xfer => t \in 1..Len(session) /\ t \in Nat
  BY <1>2
<1>5. t \in 1..xfer /\ m.body = Request(t) =>
        (m.body.op = "RRQ" => session[t] = "get") /\
        (m.body.op = "WRQ" => session[t] = "put")
  BY <1>2, <1>4, RequestFacts
<1>6. t \in Nat => b.body[b.current].data = <<t, 1>> /\ SendBuf(r, t, 1)
  BY GetBegins
<1>7. CASE /\ m.body.op = "RRQ"
           /\ Waits(s, 1, body, r)
           /\ Network(m, {}, {Packet(s, Client, body)}, 0)
           /\ job' = [job EXCEPT ![s] = t] /\ UNCHANGED files
  <2>1. t \in 1..xfer /\ m.body = Request(t) /\ session[t] = "get" /\ t \in Nat
    BY <1>3, <1>4, <1>5, <1>7
  <2>2. body = first /\ SendBuf(r, t, 1)
    BY <1>6, <2>1
  <2>3. \A o \in net' : o \in net \/ o \in {Packet(s, Client, body)}
    BY <1>7, NetFacts
  <2>4. r \in BufferType
    BY <2>2 DEF SendBuf
  <2> HIDE DEF b, r, body
  <2>5. /\ Waits(s, 1, first, r) /\ job' = [job EXCEPT ![s] = t] /\ UNCHANGED files
        /\ \A o \in net' : o \in net \/ o = Packet(s, Client, first)
    BY <1>7, <2>2, <2>3
  <2> HIDE DEF t
  <2>6. QED BY <1>1, <2>1, <2>2, <2>4, <2>5 DEF Starts, NewServer, t
<1>8. CASE /\ m.body.op = "WRQ"
           /\ Waits(s, 1, Ack(0), rw_init(0))
           /\ Network(m, {}, {Packet(s, Client, Ack(0))}, 0)
           /\ job' = [job EXCEPT ![s] = t]
           /\ dest' = [dest EXCEPT ![t] = <<>>] /\ UNCHANGED <<unwritten, unread>>
  <2>1. t \in 1..xfer /\ m.body = Request(t) /\ session[t] = "put"
    BY <1>3, <1>4, <1>5, <1>8
  <2>2. \A o \in net' : o \in net \/ o \in {Packet(s, Client, Ack(0))}
    BY <1>8, NetFacts
  <2>3. QED BY <1>1, <1>8, <2>1, <2>2 DEF Starts, NewServer
<1>9. CASE /\ pc' = [pc EXCEPT ![s] = "exit"]
           /\ Network(m, {}, {Packet(s, Client, Error)}, 1)
           /\ UNCHANGED <<job, block, tries, sent, bfs, files>>
  <2>1. \A o \in net' : o \in net \/ o \in {Packet(s, Client, Error)}
    BY <1>9, NetFacts
  <2>2. QED BY <1>1, <1>9, <2>1 DEF Starts, NewServer
<1>10. QED BY <1>1, <1>7, <1>8, <1>9

(* A tftpd that starts keeps the basic facts.                              *)
LEMMA NewServerBase ==
  ASSUME BaseInv, NEW s \in Servers, NewServer(s)
  PROVE BaseInv'
<1>0. /\ Starts(s) /\ pc[s] = "idle" /\ s <= scenario.servers
      /\ UNCHANGED <<scenario, xfer, result, peer, masked>>
  BY NewServerStarts
<1>1. /\ session' = session /\ size' = size /\ scenario \in Scenarios
      /\ s \in Processes /\ s # Client
  BY <1>0, ConstantFacts DEF BaseInv, JobOK, session, size, Processes
<1>2. /\ xfer \in 0..Len(session) /\ Len(session) \in Nat
      /\ pc \in [Processes -> {"idle", "wait", "dally", "exit"}]
      /\ job \in [Processes -> 0..Len(session)]
      /\ block \in [Processes -> Nat] /\ sent \in [Processes -> Bodies]
      /\ bfs \in [Processes -> BufferType]
  BY <1>1, ScenarioFacts DEF BaseInv, JobOK, WireOK, BuffersOK
<1>3. PICK x \in {"wait", "exit"}, t \in 0..Len(session), n \in Nat,
           body \in Bodies, new \in Bodies, b \in BufferType :
        /\ pc' = [pc EXCEPT ![s] = x] /\ job' = [job EXCEPT ![s] = t]
        /\ block' = [block EXCEPT ![s] = n] /\ sent' = [sent EXCEPT ![s] = body]
        /\ bfs' = [bfs EXCEPT ![s] = b] /\ new.op \notin {"RRQ", "WRQ"}
        /\ \A o \in net' : o \in net \/ o = Packet(s, Client, new)
        /\ t <= xfer /\ (x = "wait" => t # 0)
        /\ x = "wait" /\ session[t] # "get" => RecvBuf(b)
        /\ body.op \in {"RRQ", "WRQ"} => body = sent[s]
  <2>1. PICK m \in net :
      LET t == m.body.data[1] IN
       \/ /\ t \in 1..xfer /\ session[t] = "get"
          /\ \E b : /\ b \in BufferType /\ SendBuf(b, t, 1)
                    /\ Waits(s, 1, Data(1 % BlockMod, <<t, 1>>), b)
          /\ job' = [job EXCEPT ![s] = t]
          /\ \A o \in net' : o \in net \/
               o = Packet(s, Client, Data(1 % BlockMod, <<t, 1>>))
       \/ /\ t \in 1..xfer
          /\ Waits(s, 1, Ack(0), rw_init(0))
          /\ job' = [job EXCEPT ![s] = t]
          /\ \A o \in net' : o \in net \/ o = Packet(s, Client, Ack(0))
       \/ /\ pc' = [pc EXCEPT ![s] = "exit"]
          /\ UNCHANGED <<job, block, tries, sent, bfs, files>>
          /\ \A o \in net' : o \in net \/ o = Packet(s, Client, Error)
    BY <1>0 DEF Starts
  <2> DEFINE t == m.body.data[1]
  <2>2. t \in 1..xfer => t \in 0..Len(session) /\ t <= xfer /\ t # 0 /\ t \in Nat
    BY <1>2
  <2>3. CASE \E b : /\ t \in 1..xfer /\ session[t] = "get"
                    /\ b \in BufferType
                    /\ Waits(s, 1, Data(1 % BlockMod, <<t, 1>>), b)
                    /\ job' = [job EXCEPT ![s] = t]
                    /\ \A o \in net' : o \in net \/
                         o = Packet(s, Client, Data(1 % BlockMod, <<t, 1>>))
    <3> DEFINE d == Data(1 % BlockMod, <<t, 1>>)
    <3>1. d \in Bodies /\ d.op = "DATA"
      <4>1. 1 % BlockMod \in Nat /\ <<t, 1>> \in Nat \X Nat
        BY <2>2, <2>3, ModFacts
      <4>2. QED BY <4>1, BodyFacts DEF Data
    <3> HIDE DEF d
    <3>2. PICK b \in BufferType : Waits(s, 1, d, b)
      BY <2>3 DEF d
    <3>3. /\ pc' = [pc EXCEPT ![s] = "wait"] /\ block' = [block EXCEPT ![s] = 1]
          /\ sent' = [sent EXCEPT ![s] = d] /\ bfs' = [bfs EXCEPT ![s] = b]
      BY <3>2 DEF Waits
    <3>4. \A o \in net' : o \in net \/ o = Packet(s, Client, d)
      BY <2>3 DEF d
    <3> HIDE DEF t
    <3>5. d.op \notin {"RRQ", "WRQ"}
      BY <3>1
    <3>6. session[t] = "get" /\ t \in 0..Len(session) /\ t <= xfer /\ t # 0
          /\ job' = [job EXCEPT ![s] = t]
      BY <2>2, <2>3
    <3>7. QED BY <3>1, <3>3, <3>4, <3>5, <3>6
  <2>4. CASE /\ t \in 1..xfer
             /\ Waits(s, 1, Ack(0), rw_init(0))
             /\ job' = [job EXCEPT ![s] = t]
             /\ \A o \in net' : o \in net \/ o = Packet(s, Client, Ack(0))
    <3>1. Ack(0) \in Bodies /\ Ack(0).op \notin {"RRQ", "WRQ"}
      BY BodyFacts DEF Ack
    <3>2. RecvBuf(rw_init(0)) /\ rw_init(0) \in BufferType
      BY InitFacts DEF RecvBuf
    <3>3. /\ pc' = [pc EXCEPT ![s] = "wait"] /\ block' = [block EXCEPT ![s] = 1]
          /\ sent' = [sent EXCEPT ![s] = Ack(0)]
          /\ bfs' = [bfs EXCEPT ![s] = rw_init(0)]
      BY <2>4 DEF Waits
    <3>4. t \in 0..Len(session) /\ t <= xfer /\ t # 0
      BY <2>2, <2>4
    <3> HIDE DEF t
    <3>5. QED BY <2>4, <3>1, <3>2, <3>3, <3>4
  <2>5. CASE /\ pc' = [pc EXCEPT ![s] = "exit"]
             /\ UNCHANGED <<job, block, tries, sent, bfs, files>>
             /\ \A o \in net' : o \in net \/ o = Packet(s, Client, Error)
    <3>1. Error \in Bodies /\ Error.op \notin {"RRQ", "WRQ"}
      BY BodyFacts DEF Error
    <3>2. /\ job' = [job EXCEPT ![s] = job[s]] /\ block' = [block EXCEPT ![s] = block[s]]
          /\ sent' = [sent EXCEPT ![s] = sent[s]] /\ bfs' = [bfs EXCEPT ![s] = bfs[s]]
      BY <1>2, <2>5
    <3>3. /\ job[s] \in 0..Len(session) /\ block[s] \in Nat /\ sent[s] \in Bodies
          /\ bfs[s] \in BufferType /\ job[s] <= xfer
      BY <1>1, <1>2 DEF BaseInv, JobOK
    <3> DEFINE x == "exit"
    <3>4. x \in {"wait", "exit"} /\ x # "wait" /\ pc' = [pc EXCEPT ![s] = x]
      BY <2>5
    <3>5. \A o \in net' : o \in net \/ o = Packet(s, Client, Error)
      BY <2>5
    <3> HIDE DEF x
    <3>6. QED BY <3>1, <3>2, <3>3, <3>4, <3>5
  <2>6. QED BY <2>1, <2>3, <2>4, <2>5
<1>4. \A q \in Processes \ {s} : /\ pc'[q] = pc[q] /\ job'[q] = job[q]
                                 /\ sent'[q] = sent[q] /\ bfs'[q] = bfs[q]
  BY <1>2, <1>3
<1>5. pc'[s] = x /\ job'[s] = t /\ sent'[s] = body /\ bfs'[s] = b
  BY <1>1, <1>2, <1>3
<1>6. JobOK'
  <2>1. /\ pc' \in [Processes -> {"idle", "wait", "dally", "exit"}]
        /\ job' \in [Processes -> 0..Len(session)]
    BY <1>2, <1>3
  <2>2. pc'[Client] = pc[Client] /\ job'[Client] = job[Client]
    BY <1>1, <1>4, ConstantFacts
  <2>3. ASSUME NEW r \in Servers
        PROVE /\ job'[r] <= xfer /\ (job'[r] # 0 => r <= scenario.servers)
              /\ pc'[r] = "idle" => job'[r] = 0
              /\ pc'[r] \in {"wait", "dally"} => job'[r] # 0
              /\ pc'[r] = "dally" => session[job'[r]] = "put"
    <3>1. CASE r = s
      BY <1>0, <1>3, <1>5, <3>1
    <3>2. CASE r # s
      <4>1. pc'[r] = pc[r] /\ job'[r] = job[r]
        BY <1>4, <3>2 DEF Processes
      <4>2. QED BY <4>1 DEF BaseInv, JobOK
    <3>3. QED BY <3>1, <3>2
  <2>4. QED BY <1>0, <1>1, <2>1, <2>2, <2>3 DEF BaseInv, JobOK
<1>7. WireOK'
  <2>1. sent' \in [Processes -> Bodies]
    BY <1>2, <1>3
  <2>2. \A q \in Processes : RequestOK(sent'[q])
    BY <1>3, <1>4, <1>5 DEF BaseInv, WireOK, RequestOK
  <2>3. \A m \in net' : m.body \in Bodies /\ RequestOK(m.body)
    BY <1>3 DEF BaseInv, WireOK, RequestOK, Packet
  <2>4. \A q \in Processes : RequestOK(sent[q])'
    BY <1>0, <1>1, <2>2 DEF RequestOK, Request
  <2>5. \A m \in net' : RequestOK(m.body)'
    BY <1>0, <1>1, <2>3 DEF RequestOK, Request
  <2>6. QED BY <2>1, <2>3, <2>4, <2>5 DEF WireOK
<1>8. BuffersOK'
  <2>1. bfs' \in [Processes -> BufferType] /\ block' \in [Processes -> Nat]
    BY <1>2, <1>3
  <2>2. ASSUME NEW p \in Processes, pc'[p] = "wait", ~Sends(p)'
        PROVE RecvBuf(bfs'[p])
    <3>1. CASE p = s
      <4>1. session[t] # "get"
        BY <1>1, <1>5, <2>2, <3>1 DEF Sends
      <4>2. QED BY <1>3, <1>5, <2>2, <3>1, <4>1
    <3>2. CASE p # s
      <4>1. ~Sends(p)
        BY <1>0, <1>1, <1>4, <2>2, <3>2 DEF Sends
      <4>2. QED BY <1>4, <2>2, <3>2, <4>1 DEF BaseInv, BuffersOK
    <3>3. QED BY <3>1, <3>2
  <2>3. QED BY <2>1, <2>2 DEF BuffersOK
<1>9. QED BY <1>6, <1>7, <1>8 DEF BaseInv

(* The basic facts hold at the start.                                      *)
LEMMA InitBase ==
  Init => BaseInv
<1> SUFFICES ASSUME Init PROVE BaseInv
  OBVIOUS
<1>0. scenario \in Scenarios
  BY DEF Init
<1>1. Len(session) \in Nat
  BY <1>0, ScenarioFacts
<1>2. NoBody \in Bodies /\ NoBody.op \notin {"RRQ", "WRQ"} /\ rw_init(0) \in BufferType
  BY BodyFacts, InitFacts DEF NoBody, RecvBuf
<1>3. JobOK
  <2>1. /\ xfer = 0 /\ pc = [p \in Processes |-> "idle"]
        /\ job = [p \in Processes |-> 0]
    BY DEF Init
  <2>2. 0 \in 0..Len(session) /\ Client \in Processes /\ Servers \subseteq Processes
    BY <1>1, ConstantFacts DEF Processes
  <2>3. \A s \in Servers : pc[s] = "idle" /\ job[s] = 0 /\ job[s] <= xfer
    BY <2>1, <2>2
  <2>4. QED BY <1>0, <2>1, <2>2, <2>3 DEF JobOK
<1>4. WireOK
  BY <1>2 DEF Init, WireOK, RequestOK
<1>5. BuffersOK
  BY <1>2 DEF Init, BuffersOK
<1>6. QED BY <1>3, <1>4, <1>5 DEF BaseInv

(* Every step keeps the basic facts.                                       *)
LEMMA NextBase ==
  ASSUME BaseInv, [Next]_vars
  PROVE BaseInv'
<1>1. CASE Begin
  BY <1>1, BeginBase
<1>2. ASSUME NEW s \in Servers, NewServer(s) PROVE BaseInv'
  BY <1>2, NewServerBase
<1>3. ASSUME NEW s \in Servers, Server(s) PROVE BaseInv'
  BY <1>3, DallyMoves, BaseKept
<1>4. ASSUME NEW p \in Processes, Step(p) \/ Dies(p) PROVE BaseInv'
  BY <1>4, StepMoves, BaseKept
<1>5. CASE UNCHANGED vars
  BY <1>5 DEF vars, proc, files, BaseInv, JobOK, WireOK, BuffersOK, RequestOK,
              Request, Sends, session, size
<1>6. QED BY <1>1, <1>2, <1>3, <1>4, <1>5 DEF Next, Done

(* The buffer that writeit hands out was written before, whatever the      *)
(* network does: the block in it is not overwritten.                       *)
THEOREM BufferWritten == Spec => []NoBufferOverrun
<1>1. BaseInv => NoBufferOverrun
  BY DEF BaseInv, BuffersOK, RecvBuf, NoBufferOverrun
<1>2. QED BY <1>1, InitBase, NextBase, PTL DEF Spec

-----------------------------------------------------------------------------
(* What a step of p leaves as it was.                                      *)

(* A file is being fetched as before, or no more.                          *)
GettingOn ==
  Getting' => Getting /\ block[Client] <= block'[Client]

(* While a process moves, the client fetches as before or no more.         *)
LEMMA GettingFacts ==
  ASSUME BaseInv, NEW p \in Processes, Moves(p), block[p] <= block'[p]
  PROVE /\ GettingOn /\ block[Client] \in Nat /\ block'[Client] \in Nat
        /\ session' = session /\ size' = size
        /\ xfer' = xfer /\ job' = job /\ scenario' = scenario
<1>1. /\ session' = session /\ size' = size
      /\ xfer' = xfer /\ job' = job /\ scenario' = scenario
  BY DEF Moves, session, size
<1>2. /\ block[Client] \in Nat /\ block'[Client] \in Nat
      /\ block[Client] <= block'[Client]
  BY ConstantFacts DEF BaseInv, BuffersOK, Moves
<1>3. pc'[Client] = "wait" => pc[Client] = "wait"
  BY ConstantFacts DEF Moves
<1>4. QED BY <1>1, <1>2, <1>3 DEF GettingOn, Getting

(* A process that did nothing, or ended, has its data in order.            *)
LEMMA ProcessKept ==
  ASSUME BaseInv, NEW p \in Processes, Moves(p), block[p] <= block'[p],
         unwritten \subseteq unwritten', NEW q \in Processes, ProcessOK(q),
         pc'[q] = pc[q] \/ pc'[q] \notin {"wait", "dally"},
         block'[q] = block[q], bfs'[q] = bfs[q], sent'[q] = sent[q]
  PROVE ProcessOK(q)'
<1>1. /\ GettingOn /\ block[Client] \in Nat /\ block'[Client] \in Nat
      /\ session' = session /\ size' = size
      /\ xfer' = xfer /\ job' = job /\ scenario' = scenario
  BY GettingFacts
<1>2. block[q] \in Nat
  BY DEF BaseInv, BuffersOK
<1>3. Sends(q)' <=> Sends(q)
  BY <1>1, SendsKept
<1>4. ASSUME pc'[q] = "wait", Sends(q) PROVE Sending(q)'
  <2>1. Sending(q)
    BY <1>4 DEF ProcessOK
  <2>2. Getting' => Getting /\ (block[q] <= block[Client] => block[q] <= block'[Client])
    BY <1>1, <1>2 DEF GettingOn
  <2>3. QED BY <1>1, <2>1, <2>2 DEF Sending, Request
<1>5. ASSUME pc'[q] = "wait", ~Sends(q) PROVE Receiving(q)'
  <2>1. Receiving(q)
    BY <1>5 DEF ProcessOK
  <2>2. QED BY <1>1, <2>1 DEF Receiving, Request
<1>6. ASSUME pc'[q] = "dally" PROVE Dallying(q)'
  <2>1. Dallying(q)
    BY <1>6 DEF ProcessOK
  <2>2. QED BY <1>1, <2>1 DEF Dallying
<1>7. QED BY <1>3, <1>4, <1>5, <1>6 DEF ProcessOK

(* What is said of a packet stays true.                                    *)
LEMMA PacketKept ==
  ASSUME BaseInv, NEW p \in Processes, Moves(p), block[p] <= block'[p],
         NEW m, m.body \in Bodies, PacketOK(m)
  PROVE PacketOK(m)'
<1>1. /\ GettingOn /\ block[Client] \in Nat /\ block'[Client] \in Nat
      /\ session' = session /\ size' = size
      /\ xfer' = xfer /\ job' = job /\ scenario' = scenario
  BY GettingFacts
<1>2. m.body.block \in Nat /\ m.body.data[2] \in Nat
  BY DEF Bodies
<1>3. Getting' =>
        /\ Getting
        /\ m.body.block < block[Client] => m.body.block < block'[Client]
        /\ m.body.data[2] <= block[Client] => m.body.data[2] <= block'[Client]
  BY <1>1, <1>2 DEF GettingOn
<1>4. \A t : IsBlock(m.body, t)' <=> IsBlock(m.body, t)
  BY <1>1 DEF IsBlock
<1>5. QED BY <1>1, <1>3, <1>4 DEF PacketOK

(* What a process sends again is as good as it was.                        *)
LEMMA SentOK ==
  ASSUME TftpInv, NEW p \in Processes, pc[p] \in {"wait", "dally"},
         NEW m, m.from = p, m.body = sent[p],
         p = Client => m.to # Client, p # Client => m.to = Client
  PROVE /\ m.body \in Bodies /\ PacketOK(m)
        /\ p # Client /\ m.body.op = "ACK" =>
             /\ ~Sends(p) /\ (pc[p] = "wait" => m.body.block <= block[p] - 1)
             /\ pc[p] = "dally" => m.body.block <= size
<1>1. /\ scenario \in Scenarios /\ xfer \in Nat /\ xfer <= Len(session)
      /\ job[p] \in 1..xfer /\ job[p] \in 1..Len(session) /\ job[p] \in Nat
      /\ Sends(p) => session[job[p]] = IF p = Client THEN "put" ELSE "get"
      /\ ~Sends(p) => session[job[p]] = IF p = Client THEN "get" ELSE "put"
      /\ pc[p] = "dally" => p \in Servers /\ ~Sends(p)
      /\ p = Client => job[p] = xfer
  BY AtWork DEF TftpInv
<1>2. /\ m.body \in Bodies /\ block[p] \in Nat /\ size \in Nat /\ BlockMod \in Nat
      /\ BlockMod # 0 /\ size # 0
  BY <1>1, ScenarioFacts, ConstantFacts DEF TftpInv, BaseInv, WireOK, BuffersOK
<1>3. ProcessOK(p)
  BY DEF TftpInv
<1>4. p = Client \/ p \in Servers
  BY ConstantFacts
<1>5. p \in Servers => p # Client
  BY ConstantFacts
<1> DEFINE n == block[p]
           t == job[p]
<1>6. CASE pc[p] = "wait" /\ Sends(p) /\ n = 0
  <2>1. m.body = Request(t)
    BY <1>3, <1>6 DEF ProcessOK, Sending
  <2>2. m.body.op \in {"RRQ", "WRQ"}
    BY <1>1, <2>1, RequestFacts
  <2>3. p = Client
    BY <1>3, <1>6 DEF ProcessOK, Sending
  <2>4. QED BY <1>2, <2>2, <2>3 DEF PacketOK
<1>7. CASE pc[p] = "wait" /\ Sends(p) /\ n # 0
  <2>1. m.body = Data(n % BlockMod, <<t, n>>) /\ n \in 1..size
    BY <1>2, <1>3, <1>7 DEF ProcessOK, Sending
  <2>2. m.body.op = "DATA" /\ m.body.data = <<t, n>> /\ IsBlock(m.body, t)
    BY <2>1 DEF Data, IsBlock
  <2>3. m.body.data[1] = t /\ m.body.data[2] = n
    BY <2>2
  <2>4. CASE p = Client
    <3>1. n <= BlockMod
      BY <1>3, <1>7, <2>4 DEF ProcessOK, Sending
    <3>2. QED BY <1>1, <1>2, <1>7, <2>2, <2>3, <2>4, <3>1 DEF PacketOK
  <2>5. CASE p \in Servers
    <3>1. Getting => n <= block[Client]
      BY <1>3, <1>5, <1>7, <2>5 DEF ProcessOK, Sending
    <3>2. m.to = Client /\ m.to \notin Servers /\ t # 0
      BY <1>1, <1>5, <2>5, ConstantFacts
    <3>3. QED BY <1>1, <1>2, <1>5, <1>7, <2>2, <2>3, <2>5, <3>1, <3>2 DEF PacketOK
  <2>6. QED BY <1>4, <2>4, <2>5
<1>8. CASE pc[p] = "wait" /\ ~Sends(p)
  <2>1. /\ n \in 1..size /\ n <= BlockMod
        /\ m.body = IF p = Client /\ n = 1 THEN Request(t) ELSE Ack(n - 1)
    BY <1>3, <1>8 DEF ProcessOK, Receiving
  <2>2. n - 1 \in Nat /\ n - 1 < BlockMod
    BY <1>2, <2>1
  <2>3. (n - 1) % BlockMod = n - 1
    BY <2>2, ModFacts
  <2>4. Ack(n - 1).op = "ACK" /\ Ack(n - 1).block = n - 1
    BY <2>3 DEF Ack
  <2>5. Request(t).op \in {"RRQ", "WRQ"}
    BY <1>1, RequestFacts
  <2>6. CASE p = Client
    <3>1. CASE n = 1
      BY <1>2, <2>1, <2>5, <2>6, <3>1 DEF PacketOK
    <3>2. CASE n # 1
      <4>1. m.body.op = "ACK" /\ m.body.block = n - 1 /\ n - 1 # 0 /\ n - 1 < n
        BY <1>2, <2>1, <2>4, <2>6, <3>2
      <4>2. session[t] = "get" /\ t \in 1..xfer
        BY <1>1, <1>8, <2>6
      <4>3. QED BY <1>2, <2>2, <2>6, <4>1, <4>2 DEF PacketOK
    <3>3. QED BY <3>1, <3>2
  <2>7. CASE p \in Servers
    <3>1. m.body.op = "ACK" /\ m.body.block = n - 1
      BY <1>5, <2>1, <2>4, <2>7
    <3>2. m.to = Client /\ m.to \notin Servers /\ t # 0 /\ session[t] = "put"
      BY <1>1, <1>5, <1>8, <2>7, ConstantFacts
    <3>3. QED BY <1>2, <1>8, <2>2, <2>7, <3>1, <3>2 DEF PacketOK
  <2>8. QED BY <1>4, <2>6, <2>7
<1>9. CASE pc[p] = "dally"
  <2>1. n = size /\ size < BlockMod /\ m.body = Ack(size)
    BY <1>3, <1>9 DEF ProcessOK, Dallying
  <2>2. size % BlockMod = size
    BY <1>2, <2>1, ModFacts
  <2>3. m.body.op = "ACK" /\ m.body.block = size
    BY <2>1, <2>2 DEF Ack
  <2>4. /\ m.to = Client /\ m.to \notin Servers /\ t # 0 /\ session[t] = "put"
        /\ p \in Servers /\ p # Client /\ ~Sends(p)
    BY <1>1, <1>5, <1>9, ConstantFacts
  <2>5. QED BY <1>2, <1>9, <2>1, <2>3, <2>4 DEF PacketOK
<1>10. QED BY <1>6, <1>7, <1>8, <1>9

(* Whether a tftpd is the only one to serve a command depends on job alone.*)
LEMMA AloneKept ==
  ASSUME job' = job, NEW t
  PROVE Alone(t)' <=> Alone(t)
BY DEF Alone

(* The new packets of p: as good as the others, and acknowledgements of    *)
(* what was written only.                                                  *)
FreshOK(p) ==
  \A m \in net' : m \in net \/
    /\ m.from = p /\ m.body \in Bodies /\ PacketOK(m)'
    /\ p # Client /\ m.body.op = "ACK" =>
         /\ ~Sends(p) /\ (pc[p] = "wait" => m.body.block <= block[p] - 1)
         /\ pc[p] = "dally" => m.body.block <= size

(* Nothing is written, and a read () may have failed.                      *)
Stored ==
  /\ dest' = dest /\ unwritten' = unwritten
  /\ unread \subseteq unread' /\ unread' \subseteq DOMAIN session

LEMMA StoredFacts ==
  ASSUME TftpInv, UNCHANGED files PROVE Stored
BY DEF Stored, files, TftpInv, RangeOK

(* A step that does not write leaves the files as they should be.          *)
LEMMA FilesKept ==
  ASSUME TftpInv, NEW p \in Processes, Moves(p), Stored, FreshOK(p),
         pc'[p] # "dally", ~Sends(p) => block'[p] = block[p],
         NEW t \in DOMAIN session,
         result'[t] = result[t] \/
           (p = Client /\ pc'[p] = "idle" /\ t = xfer /\ (result'[t] = "ok" /\ t \notin unread' => OkOK(t)))
  PROVE FileOK(t)'
<1>1. /\ session' = session /\ size' = size
      /\ xfer' = xfer /\ job' = job /\ scenario' = scenario
  BY DEF Moves, session, size
<1>2. dest' = dest /\ unwritten' = unwritten /\ unread \subseteq unread'
  BY DEF Stored
<1>3. /\ scenario \in Scenarios /\ xfer \in 0..Len(session) /\ Len(session) \in Nat
      /\ t \in 1..Len(session) /\ t \in Nat
  BY ScenarioFacts DEF TftpInv, BaseInv, JobOK
<1>4. FileOK(t) /\ Client \in Processes
  BY ConstantFacts DEF TftpInv
<1>5. pc'[Client] = "wait" => pc[Client] = "wait"
  BY ConstantFacts DEF Moves
<1>6. t > xfer \/ (t = xfer /\ pc'[Client] = "wait") => result'[t] = "none"
  <2>1. t > xfer => t # xfer
    BY <1>3
  <2>2. (t > xfer \/ (t = xfer /\ pc'[Client] = "wait")) => result'[t] = result[t]
    BY <2>1
  <2>3. QED BY <1>4, <1>5, <2>2 DEF FileOK
<1>7. session[t] = "get" /\ t = xfer /\ pc'[Client] = "wait" /\ t \notin unwritten =>
        dest[t] = FilePart(t, block'[Client] - 1)
  <2>1. SUFFICES ASSUME session[t] = "get", t = xfer, pc'[Client] = "wait",
                        t \notin unwritten
                 PROVE  dest[t] = FilePart(t, block'[Client] - 1)
    OBVIOUS
  <2>2. block'[Client] = block[Client]
    <3>1. CASE p = Client
      BY <2>1, <3>1 DEF Sends
    <3>2. CASE p # Client
      BY <1>4, <3>2 DEF Moves
    <3>3. QED BY <3>1, <3>2
  <2>3. QED BY <1>4, <1>5, <2>1, <2>2 DEF FileOK
<1>8. ASSUME session[t] = "put", Alone(t), t \notin unwritten PROVE PutOK(t)'
  <2>1. PutOK(t)
    BY <1>4, <1>8 DEF FileOK
  <2>2. ASSUME NEW s \in Servers, job[s] = t
        PROVE /\ dest[t] = FilePart(t, Len(dest[t]))
              /\ pc'[s] = "wait" => Len(dest[t]) = block'[s] - 1
              /\ pc'[s] = "dally" => Len(dest[t]) = size
              /\ \A m \in net' : m.from = s /\ m.to = Client /\ m.body.op = "ACK" =>
                                  m.body.block <= Len(dest[t])
    <3>1. /\ dest[t] = FilePart(t, Len(dest[t]))
          /\ pc[s] = "wait" => Len(dest[t]) = block[s] - 1
          /\ pc[s] = "dally" => Len(dest[t]) = size
          /\ \A m \in net : m.from = s /\ m.to = Client /\ m.body.op = "ACK" =>
                              m.body.block <= Len(dest[t])
      BY <2>1, <2>2 DEF PutOK
    <3>2. s \in Processes /\ s # Client
      BY ConstantFacts DEF Processes
    <3>3. CASE s # p
      <4>1. pc'[s] = pc[s] /\ block'[s] = block[s]
        BY <3>2, <3>3 DEF Moves
      <4>2. \A m \in net' : m.from = s => m \in net
        BY <3>3 DEF FreshOK
      <4>3. QED BY <3>1, <4>1, <4>2
    <3>4. CASE s = p
      <4>1. ~Sends(p)
        BY <1>8, <2>2, <3>2, <3>4 DEF Sends
      <4>2. block'[s] = block[s] /\ (pc'[s] = "wait" => pc[s] = "wait")
        BY <3>4, <4>1 DEF Moves
      <4>3. ASSUME NEW m \in net', m.from = s, m.to = Client, m.body.op = "ACK"
            PROVE m.body.block <= Len(dest[t])
        <5>1. CASE m \in net
          BY <3>1, <4>3, <5>1
        <5>2. CASE m \notin net
          <6>1. /\ pc[p] = "wait" => m.body.block <= block[p] - 1
                /\ pc[p] = "dally" => m.body.block <= size
            BY <3>2, <3>4, <4>3, <5>2 DEF FreshOK
          <6>2. pc[p] \in {"wait", "dally"}
            BY DEF Moves
          <6>3. QED BY <3>1, <3>4, <6>1, <6>2
        <5>3. QED BY <5>1, <5>2
      <4>4. QED BY <3>1, <3>4, <4>2, <4>3
    <3>5. QED BY <3>3, <3>4
  <2>3. QED BY <1>1, <1>2, <2>2 DEF PutOK
<1>9. result'[t] = "ok" /\ t \notin unread' => OkOK(t)'
  <2>1. result'[t] = "ok" /\ t \notin unread' => OkOK(t)
    BY <1>2, <1>4 DEF FileOK
  <2>2. Alone(t)' <=> Alone(t)
    BY <1>1, AloneKept
  <2>3. File(t)' = File(t)
    BY <1>1 DEF File
  <2>4. QED BY <1>1, <1>2, <2>1, <2>2, <2>3 DEF OkOK
<1>10. Alone(t)' <=> Alone(t)
  BY <1>1, AloneKept
<1>11. /\ dest[t] \in Seq(Nat \X Nat) /\ Len(dest[t]) <= size
       /\ t \notin unwritten => \A n \in DOMAIN dest[t] : dest[t][n] \in {<<t, n>>, Hole}
       /\ t > xfer => dest[t] = <<>>
  BY <1>4 DEF FileOK
<1>12. QED BY <1>1, <1>2, <1>6, <1>7, <1>8, <1>9, <1>10, <1>11 DEF FileOK

(* The parts that are only a matter of range.                              *)
LEMMA RangeKept ==
  ASSUME TftpInv, NEW p \in Processes, Moves(p), Stored,
         tries' \in [Processes -> 0..(MaxTimeouts - 1)],
         peer' \in Servers \cup {WellKnown}, masked' \in BOOLEAN,
         result' \in [DOMAIN session -> {"none", "ok", "failed"}],
         block'[p] <= size
  PROVE RangeOK'
<1>1. /\ session' = session /\ size' = size /\ dest' = dest
      /\ unwritten' = unwritten /\ unread' \subseteq DOMAIN session
  BY DEF Moves, session, size, Stored
<1>2. \A q \in Processes : block'[q] <= size
  BY DEF TftpInv, RangeOK, Moves
<1>3. QED BY <1>1, <1>2 DEF TftpInv, RangeOK

(* A step that sends again, or ends, and does nothing else.                *)
LEMMA QuietKept ==
  ASSUME TftpInv, NEW p \in Processes, Moves(p), Stored, FreshOK(p),
         UNCHANGED <<block, sent, bfs>>, pc'[p] = pc[p] \/ pc'[p] \in {"idle", "exit"},
         tries' \in [Processes -> 0..(MaxTimeouts - 1)],
         peer' \in Servers \cup {WellKnown}, masked' \in BOOLEAN,
         result' \in [DOMAIN session -> {"none", "ok", "failed"}],
         \A t \in DOMAIN session : result'[t] = result[t] \/
           (p = Client /\ pc'[p] = "idle" /\ t = xfer /\ (result'[t] = "ok" /\ t \notin unread' => OkOK(t)))
  PROVE TftpInv'
<1>1. BaseInv
  BY DEF TftpInv
<1>2. BaseInv'
  BY <1>1, BaseKept
<1>3. block[p] \in Nat /\ block[p] <= block'[p]
  BY <1>1 DEF BaseInv, BuffersOK
<1>4. RangeOK'
  <2>1. block'[p] <= size
    BY DEF TftpInv, RangeOK
  <2>2. QED BY <2>1, RangeKept
<1>5. ASSUME NEW q \in Processes PROVE ProcessOK(q)'
  <2>1. ProcessOK(q) /\ unwritten \subseteq unwritten'
    BY DEF TftpInv, Stored
  <2>2. pc'[q] = pc[q] \/ pc'[q] \notin {"wait", "dally"}
    BY DEF Moves
  <2>3. QED BY <1>1, <1>3, <2>1, <2>2, ProcessKept
<1>6. ASSUME NEW m \in net' PROVE PacketOK(m)'
  <2>1. CASE m \in net
    <3>1. m.body \in Bodies /\ PacketOK(m)
      BY <2>1 DEF TftpInv, BaseInv, WireOK
    <3>2. QED BY <1>1, <1>3, <3>1, PacketKept
  <2>2. CASE m \notin net
    BY <2>2 DEF FreshOK
  <2>3. QED BY <2>1, <2>2
<1>7. ASSUME NEW t \in DOMAIN session PROVE FileOK(t)'
  <2>1. pc'[p] # "dally"
    BY DEF Moves
  <2>2. result'[t] = result[t] \/
           (p = Client /\ pc'[p] = "idle" /\ t = xfer /\ (result'[t] = "ok" /\ t \notin unread' => OkOK(t)))
    OBVIOUS
  <2>3. QED BY <2>1, <2>2, FilesKept
<1>8. session' = session
  BY DEF Moves, session
<1>9. QED BY <1>2, <1>4, <1>5, <1>6, <1>7, <1>8 DEF TftpInv

(* Packets of p go to the other side.                                      *)
Onward(p, to) == (p = Client => to # Client) /\ (p # Client => to = Client)

(* Where an answer, and what is sent again, goes to.                       *)
LEMMA PortFacts ==
  ASSUME TftpInv, NEW p \in Processes
  PROVE /\ Onward(p, Peer(p))
        /\ \A m \in net : m.to = p =>
             /\ Onward(p, ReplyTo(p, m))
             /\ SetPort(p, m) => peer' \in Servers \cup {WellKnown}
<1>1. peer \in Servers \cup {WellKnown} /\ Client \notin Servers \cup {WellKnown}
  BY ConstantFacts DEF TftpInv, RangeOK
<1>2. \A m \in net : m.to = Client => m.from \in Servers
  BY DEF TftpInv, PacketOK
<1>3. QED BY <1>1, <1>2 DEF Onward, Peer, ReplyTo, SetPort

(* Sending again.                                                          *)
LEMMA FreshSent ==
  ASSUME TftpInv, NEW p \in Processes, Moves(p), block[p] <= block'[p],
         \A o \in net' : o \in net \/
           (o.from = p /\ o.body = sent[p] /\ Onward(p, o.to))
  PROVE FreshOK(p)
<1>1. SUFFICES ASSUME NEW m \in net', m \notin net
               PROVE /\ m.from = p /\ m.body \in Bodies /\ PacketOK(m)'
                     /\ p # Client /\ m.body.op = "ACK" =>
                         /\ ~Sends(p) /\ (pc[p] = "wait" => m.body.block <= block[p] - 1)
                         /\ pc[p] = "dally" => m.body.block <= size
  BY DEF FreshOK
<1>2. /\ m.from = p /\ m.body = sent[p] /\ pc[p] \in {"wait", "dally"}
      /\ (p = Client => m.to # Client) /\ (p # Client => m.to = Client)
  BY <1>1 DEF Moves, Onward
<1>3. /\ m.body \in Bodies /\ PacketOK(m)
      /\ p # Client /\ m.body.op = "ACK" =>
           /\ ~Sends(p) /\ (pc[p] = "wait" => m.body.block <= block[p] - 1)
           /\ pc[p] = "dally" => m.body.block <= size
  BY <1>1, <1>2, SentOK DEF Onward
<1>4. PacketOK(m)'
  BY <1>3, PacketKept DEF TftpInv
<1>5. QED BY <1>2, <1>3, <1>4

(* An error, or nothing, is sent.                                          *)
LEMMA FreshError ==
  ASSUME TftpInv, NEW p \in Processes, Moves(p),
         \A o \in net' : o \in net \/
           (o.from = p /\ o.body = Error /\ Onward(p, o.to))
  PROVE FreshOK(p)
<1>1. Error \in Bodies /\ Error.op = "ERROR"
  BY BodyFacts DEF Error
<1>2. p # Client => p \in Servers
  BY ConstantFacts
<1>3. QED BY <1>1, <1>2 DEF FreshOK, PacketOK, Onward

(* What the user is told.                                                  *)
LEMMA ResultFacts ==
  ASSUME TftpInv, NEW p \in Processes, pc[p] = "wait",
         NEW o \in {"ok", "failed"}, Ends(p, o)
  PROVE /\ result' \in [DOMAIN session -> {"none", "ok", "failed"}]
        /\ \A t \in DOMAIN session : result'[t] = result[t] \/
             (p = Client /\ pc'[p] = "idle" /\ t = xfer /\ result'[t] = o)
        /\ p # Client => result' = result
        /\ pc'[p] \in {"idle", "exit"} /\ UNCHANGED <<job, block, sent>>
        /\ tries' \in [Processes -> 0..(MaxTimeouts - 1)]
<1>1. /\ result \in [DOMAIN session -> {"none", "ok", "failed"}]
      /\ tries \in [Processes -> 0..(MaxTimeouts - 1)]
      /\ pc \in [Processes -> {"idle", "wait", "dally", "exit"}]
  BY DEF TftpInv, RangeOK, BaseInv, JobOK
<1>2. result' = IF p = Client THEN [result EXCEPT ![xfer] = o] ELSE result
  BY DEF Ends
<1>3. result' \in [DOMAIN session -> {"none", "ok", "failed"}]
  BY <1>1, <1>2
<1>4. pc'[p] = IF p = Client THEN "idle" ELSE "exit"
  BY <1>1 DEF Ends
<1>5. \A t \in DOMAIN session : result'[t] = result[t] \/
             (p = Client /\ pc'[p] = "idle" /\ t = xfer /\ result'[t] = o)
  BY <1>1, <1>2, <1>4
<1>6. QED BY <1>1, <1>2, <1>3, <1>4, <1>5 DEF Ends

(* Nothing is read ahead when a block is sent again.                       *)
LEMMA AfterSendQuiet ==
  ASSUME TftpInv, NEW p \in Processes, pc[p] = "wait", AfterSend(p)
  PROVE UNCHANGED <<bfs, files>>
<1>1. BaseInv /\ bfs \in [Processes -> BufferType] /\ block[p] \in Nat
  BY DEF TftpInv, BaseInv, BuffersOK
<1>2. /\ bfs' \in [Processes -> BufferType] /\ UNCHANGED files
      /\ \A q \in Processes : q # p \/ ~Sends(p) => bfs'[q] = bfs[q]
      /\ Sends(p) => bfs' = [bfs EXCEPT ![p] = read_ahead(@, job[p])]
  BY <1>1, AfterSendFacts
<1>3. CASE Sends(p)
  <2>1. SendBuf(bfs[p], job[p], block[p])
    BY <1>3 DEF TftpInv, ProcessOK, Sending
  <2>2. job[p] \in Nat
    BY <1>1, AtWork
  <2>3. read_ahead(bfs[p], job[p]) = bfs[p]
    BY <1>1, <2>1, <2>2, SendFacts
  <2>4. QED BY <1>1, <1>2, <1>3, <2>3
<1>4. CASE ~Sends(p)
  <2>1. \A q \in Processes : bfs'[q] = bfs[q]
    BY <1>2, <1>4
  <2>2. bfs' = bfs
    BY <1>1, <1>2, <2>1
  <2>3. QED BY <1>2, <2>2
<1>5. QED BY <1>3, <1>4

(* A transfer ends and writes nothing.                                     *)
LEMMA EndsKept ==
  ASSUME TftpInv, NEW p \in Processes, pc[p] = "wait", Moves(p), FreshOK(p),
         UNCHANGED bfs, Stored, NEW o \in {"ok", "failed"}, Ends(p, o),
         o = "ok" /\ p = Client /\ xfer \notin unread' => OkOK(xfer),
         peer' \in Servers \cup {WellKnown}, masked' \in BOOLEAN
  PROVE TftpInv'
<1>1. /\ result' \in [DOMAIN session -> {"none", "ok", "failed"}]
      /\ \A t \in DOMAIN session : result'[t] = result[t] \/
           (p = Client /\ pc'[p] = "idle" /\ t = xfer /\ result'[t] = o)
      /\ pc'[p] \in {"idle", "exit"} /\ UNCHANGED <<job, block, sent>>
      /\ tries' \in [Processes -> 0..(MaxTimeouts - 1)]
  BY ResultFacts
<1>2. \A t \in DOMAIN session : result'[t] = result[t] \/
       (p = Client /\ pc'[p] = "idle" /\ t = xfer /\ (result'[t] = "ok" /\ t \notin unread' => OkOK(t)))
  BY <1>1
<1>3. QED BY <1>1, <1>2, QuietKept

(* The steps that send again, or end.                                      *)
LEMMA TimerKept ==
  ASSUME TftpInv, NEW p \in Processes, Timer(p)
  PROVE TftpInv'
<1>0. BaseInv /\ pc[p] = "wait" /\ UNCHANGED peer
  BY DEF TftpInv, Timer
<1>1. Moves(p)
  BY <1>0, TimerMoves
<1>2. /\ masked \in BOOLEAN /\ peer' \in Servers \cup {WellKnown}
      /\ result \in [DOMAIN session -> {"none", "ok", "failed"}]
      /\ tries \in [Processes -> 0..(MaxTimeouts - 1)] /\ MaxTimeouts \in Nat
      /\ block[p] \in Nat
  BY <1>0, ConstantFacts DEF TftpInv, RangeOK, BaseInv, BuffersOK
<1>3. masked' \in BOOLEAN
  BY <1>2, TftpConstants DEF Timer
<1>4. CASE /\ tries[p] + 1 < MaxTimeouts
           /\ tries' = [tries EXCEPT ![p] = @ + 1]
           /\ net' = net \cup {Packet(p, Peer(p), sent[p])}
           /\ AfterSend(p)
           /\ UNCHANGED <<pc, job, block, sent, result>>
  <2>1. UNCHANGED <<bfs, files>>
    BY <1>0, <1>4, AfterSendQuiet
  <2>2. \A o \in net' : o \in net \/ (o.from = p /\ o.body = sent[p] /\ Onward(p, o.to))
    BY <1>4, PortFacts DEF Packet
  <2>3. FreshOK(p)
    BY <1>1, <1>2, <1>4, <2>2, FreshSent
  <2>4. tries' \in [Processes -> 0..(MaxTimeouts - 1)]
    <3>1. tries[p] + 1 \in 0..(MaxTimeouts - 1)
      BY <1>2, <1>4
    <3>2. QED BY <1>2, <1>4, <3>1
  <2>5. QED BY <1>1, <1>2, <1>3, <1>4, <2>1, <2>3, <2>4, QuietKept, StoredFacts
<1>5. CASE Ends(p, "failed") /\ UNCHANGED <<net, bfs, files>>
  <2>1. FreshOK(p)
    BY <1>5 DEF FreshOK
  <2>2. QED BY <1>0, <1>1, <1>2, <1>3, <1>5, <2>1, EndsKept, StoredFacts
<1>6. QED BY <1>4, <1>5 DEF Timer

(* A process that dies leaves the invariant true.                          *)
LEMMA DiesKept ==
  ASSUME TftpInv, NEW p \in Processes, Dies(p)
  PROVE TftpInv'
<1>1. /\ pc[p] = "wait" /\ Ends(p, "failed") /\ UNCHANGED <<bfs, files, net>>
      /\ UNCHANGED <<peer, masked>>
  BY DEF Dies
<1>2. Moves(p)
  BY DiesMoves DEF TftpInv
<1>3. FreshOK(p)
  BY <1>1 DEF FreshOK
<1>4. peer' \in Servers \cup {WellKnown} /\ masked' \in BOOLEAN
  BY <1>1 DEF TftpInv, RangeOK
<1>5. QED BY <1>1, <1>2, <1>3, <1>4, EndsKept, StoredFacts

(* So does an ERROR: the acknowledgement that recvfile sends all the       *)
(* same is for a tftpd the client no longer waits for.                     *)
LEMMA RefusedKept ==
  ASSUME TftpInv, NEW p \in Processes, Refused(p)
  PROVE TftpInv'
<1>1. /\ pc[p] = "wait" /\ Ends(p, "failed") /\ UNCHANGED <<bfs, files>>
      /\ UNCHANGED <<masked>>
  BY DEF Refused
<1>2. BaseInv /\ Moves(p)
  BY RefusedMoves DEF TftpInv
<1>3. PICK m \in net :
       /\ m.to = p /\ m.body.op = "ERROR" /\ SetPort(p, m)
       /\ Network(m, {}, IF p = Client /\ ~Sends(p)
                           THEN {Packet(p, m.from, Ack(block[p]))} ELSE {}, 0)
  BY DEF Refused
<1>4. peer' \in Servers \cup {WellKnown} /\ masked' \in BOOLEAN
  BY <1>1, <1>3, PortFacts DEF TftpInv, RangeOK
<1>5. FreshOK(p)
  <2>1. CASE p = Client /\ ~Sends(p)
    <3>1. \A o \in net' : o \in net \/ o \in {Packet(p, m.from, Ack(block[p]))}
      BY <1>3, <2>1, NetFacts
    <3>2. m.from \in Servers /\ m.from # Client
      BY <1>3, <2>1, ConstantFacts DEF TftpInv, PacketOK
    <3>3. block[p] \in Nat /\ block[p] % BlockMod < BlockMod
      BY <1>2, ModFacts DEF BaseInv, BuffersOK
    <3>4. /\ Ack(block[p]) \in Bodies /\ Ack(block[p]).op = "ACK"
          /\ Ack(block[p]).block < BlockMod
      BY <3>3, BodyFacts DEF Ack
    <3>5. pc'[Client] = "idle"
      BY <1>1, <2>1 DEF Ends, TftpInv, BaseInv, JobOK
    <3>6. session[xfer] = "get" /\ xfer \in 1..xfer
      BY <1>1, <1>2, <2>1, AtWork
    <3>7. /\ xfer' = xfer /\ session' = session
      BY <1>2 DEF Moves, session
    <3>8. \A o : o = Packet(p, m.from, Ack(block[p])) =>
            o.from = p /\ o.body = Ack(block[p]) /\ PacketOK(o)'
      <4>1. \A o : o = Packet(p, m.from, Ack(block[p])) =>
              /\ o.from = p /\ o.body = Ack(block[p])
              /\ o.to # Client /\ o.body.op = "ACK" /\ o.body.block < BlockMod
        BY <3>2, <3>4 DEF Packet
      <4>2. ~Getting'
        BY <3>5 DEF Getting
      <4>3. \E t \in 1..xfer' : session'[t] = "get"
        BY <3>6, <3>7
      <4>4. \A o : o = Packet(p, m.from, Ack(block[p])) => PacketOK(o)'
        BY <4>1, <4>2, <4>3 DEF PacketOK
      <4>5. QED BY <4>1, <4>4
    <3>9. QED BY <2>1, <3>1, <3>4, <3>8 DEF FreshOK
  <2>2. CASE ~(p = Client /\ ~Sends(p))
    <3>1. \A o \in net' : o \in net \/ o \in {}
      BY <1>3, <2>2, NetFacts
    <3>2. QED BY <3>1 DEF FreshOK
  <2>3. QED BY <2>1, <2>2
<1>6. QED BY <1>1, <1>2, <1>4, <1>5, EndsKept, StoredFacts

(* So does a packet that is ignored, though the client takes its port.     *)
LEMMA IgnoreKept ==
  ASSUME TftpInv, NEW p \in Processes, Ignore(p)
  PROVE TftpInv'
<1>1. /\ pc[p] = "wait" /\ UNCHANGED <<pc, block, sent, bfs, files>>
      /\ UNCHANGED <<masked, tries, result>>
  BY DEF Ignore, proc
<1>2. Moves(p)
  BY IgnoreMoves DEF TftpInv
<1>3. PICK m \in net : m.to = p /\ SetPort(p, m) /\ Network(m, {}, {}, 0)
  BY DEF Ignore
<1>4. /\ peer' \in Servers \cup {WellKnown} /\ masked' \in BOOLEAN
      /\ tries' \in [Processes -> 0..(MaxTimeouts - 1)]
      /\ result' \in [DOMAIN session -> {"none", "ok", "failed"}]
  BY <1>1, <1>3, PortFacts DEF TftpInv, RangeOK
<1>5. FreshOK(p)
  <2>1. \A o \in net' : o \in net \/ o \in {}
    BY <1>3, NetFacts
  <2>2. QED BY <2>1 DEF FreshOK
<1>6. QED BY <1>1, <1>2, <1>4, <1>5, QuietKept, StoredFacts

(* So does flushing, and sending again what was sent last.                 *)
LEMMA ResynchroniseKept ==
  ASSUME TftpInv, NEW p \in Processes, Resynchronise(p)
  PROVE TftpInv'
<1>1. /\ pc[p] = "wait" /\ UNCHANGED <<pc, block, sent>>
      /\ UNCHANGED <<masked, tries, result>>
  BY DEF Resynchronise
<1>2. BaseInv /\ Moves(p) /\ block[p] \in Nat
  BY ResynchroniseMoves DEF TftpInv, BaseInv, BuffersOK
<1>3. PICK m \in net, arrived \in SUBSET net :
        /\ m.to = p /\ SetPort(p, m)
        /\ \/ /\ AfterSend(p)
              /\ Network(m, arrived, {Packet(p, ReplyTo(p, m), sent[p])}, 0)
           \/ UNCHANGED <<bfs, files>> /\ Network(m, arrived, {}, 0)
  BY DEF Resynchronise
<1>4. /\ peer' \in Servers \cup {WellKnown} /\ masked' \in BOOLEAN
      /\ tries' \in [Processes -> 0..(MaxTimeouts - 1)]
      /\ result' \in [DOMAIN session -> {"none", "ok", "failed"}]
      /\ Onward(p, ReplyTo(p, m))
  BY <1>1, <1>3, PortFacts DEF TftpInv, RangeOK
<1>5. UNCHANGED <<bfs, files>>
  BY <1>1, <1>3, AfterSendQuiet
<1>6. FreshOK(p)
  <2>1. \A o \in net' : o \in net \/ o = Packet(p, ReplyTo(p, m), sent[p])
    BY <1>3, NetFacts
  <2>2. \A o \in net' : o \in net \/ (o.from = p /\ o.body = sent[p] /\ Onward(p, o.to))
    BY <1>4, <2>1 DEF Packet
  <2>3. block[p] <= block'[p]
    BY <1>1, <1>2
  <2>4. QED BY <1>2, <2>2, <2>3, FreshSent
<1>7. QED BY <1>1, <1>2, <1>4, <1>5, <1>6, QuietKept, StoredFacts

(* So does the end of a dally.                                             *)
LEMMA DallyKept ==
  ASSUME TftpInv, NEW s \in Servers, Server(s)
  PROVE TftpInv'
<1>1. /\ pc[s] = "dally" /\ UNCHANGED <<block, sent, bfs, files>>
      /\ UNCHANGED <<masked, tries, result, peer>> /\ pc' = [pc EXCEPT ![s] = "exit"]
  BY DEF Server, Dally, DallyEnds
<1>2. /\ s \in Processes /\ s # Client /\ Moves(s) /\ block[s] \in Nat
      /\ pc \in [Processes -> {"idle", "wait", "dally", "exit"}]
  BY DallyMoves, ConstantFacts DEF TftpInv, BaseInv, BuffersOK, JobOK, Processes
<1>3. pc'[s] = "exit"
  BY <1>1, <1>2
<1>4. /\ peer' \in Servers \cup {WellKnown} /\ masked' \in BOOLEAN
      /\ tries' \in [Processes -> 0..(MaxTimeouts - 1)]
      /\ result' \in [DOMAIN session -> {"none", "ok", "failed"}]
  BY <1>1 DEF TftpInv, RangeOK
<1>5. FreshOK(s)
  <2>1. \A o \in net' : o \in net \/ o = Packet(s, Client, sent[s])
    <3>1. CASE Dally(s)
      <4>1. PICK m \in net, c \in BOOLEAN :
              Network(m, {}, IF c THEN {Packet(s, Client, sent[s])} ELSE {}, 0)
        BY <3>1 DEF Dally
      <4>2. QED BY <4>1, NetFacts
    <3>2. CASE DallyEnds(s)
      BY <3>2 DEF DallyEnds
    <3>3. QED BY <3>1, <3>2 DEF Server
  <2>2. \A o \in net' : o \in net \/ (o.from = s /\ o.body = sent[s] /\ Onward(s, o.to))
    BY <1>2, <2>1 DEF Packet, Onward
  <2>3. block[s] <= block'[s]
    BY <1>1, <1>2
  <2>4. QED BY <1>2, <2>2, <2>3, FreshSent
<1>6. QED BY <1>1, <1>2, <1>3, <1>4, <1>5, QuietKept, StoredFacts

(* The parts put together: all but p did nothing.                          *)
LEMMA Assembled ==
  ASSUME TftpInv, NEW p \in Processes, Moves(p), block[p] <= block'[p],
         unwritten \subseteq unwritten', ProcessOK(p)',
         \A m \in net' : m \in net \/ PacketOK(m)', RangeOK',
         \A t \in DOMAIN session : FileOK(t)'
  PROVE TftpInv'
<1>1. BaseInv
  BY DEF TftpInv
<1>2. BaseInv'
  BY <1>1, BaseKept
<1>3. ASSUME NEW q \in Processes, q # p PROVE ProcessOK(q)'
  <2>1. ProcessOK(q)
    BY DEF TftpInv
  <2>2. pc'[q] = pc[q] /\ block'[q] = block[q] /\ bfs'[q] = bfs[q] /\ sent'[q] = sent[q]
    BY <1>3 DEF Moves
  <2>3. QED BY <1>1, <2>1, <2>2, ProcessKept
<1>4. ASSUME NEW m \in net' PROVE PacketOK(m)'
  <2>1. CASE m \in net
    <3>1. m.body \in Bodies /\ PacketOK(m)
      BY <2>1 DEF TftpInv, BaseInv, WireOK
    <3>2. QED BY <1>1, <3>1, PacketKept
  <2>2. QED BY <2>1
<1>5. session' = session
  BY DEF Moves, session
<1>6. QED BY <1>2, <1>3, <1>4, <1>5 DEF TftpInv

(* There was one command of each kind at most.                             *)
LEMMA SameCommand ==
  ASSUME OneOfEach, NEW i \in 1..xfer, NEW j \in 1..xfer, session[i] = session[j]
  PROVE i = j
BY DEF OneOfEach

(* Who has a job has that of a command given.                              *)
LEMMA JobGiven ==
  ASSUME BaseInv, NEW s \in Servers, job[s] # 0
  PROVE job[s] \in 1..xfer
<1>1. /\ job[s] \in 0..Len(session) /\ job[s] <= xfer /\ xfer \in 0..Len(session)
      /\ Len(session) \in Nat
  BY ScenarioFacts DEF BaseInv, JobOK, Processes
<1>2. QED BY <1>1

(* The acknowledgement a sender waits for: the client has not come to the  *)
(* end of the block numbers, the client of a tftpd awaits the next block.  *)
LEMMA AckFacts ==
  ASSUME TftpInv, NEW p \in Processes, pc[p] = "wait", Sends(p),
         NEW m \in net, m.to = p, IsNext(p, m.body)
  PROVE /\ block[p] \in Nat /\ m.body.op = "ACK" /\ m.body.block < BlockMod
        /\ p = Client =>
             /\ m.body.block = block[p] /\ m.from \in Servers
             /\ job[m.from] # 0 /\ session[job[m.from]] = "put"
        /\ p # Client /\ Getting => block[p] + 1 <= block[Client]
<1>1. /\ block[p] \in Nat /\ BlockMod \in Nat /\ m.body.block \in Nat
      /\ block[Client] \in Nat
  BY ConstantFacts DEF TftpInv, BaseInv, BuffersOK, WireOK, Bodies
<1>2. m.body.op = "ACK" /\ m.body.block = Wire(p, block[p])
  BY DEF IsNext, Wanted
<1>3. PacketOK(m) /\ (p = Client \/ p \in Servers)
  BY ConstantFacts DEF TftpInv
<1>4. m.body.block < BlockMod
  BY <1>2, <1>3 DEF PacketOK
<1>5. ASSUME p = Client
      PROVE /\ m.body.block = block[p] /\ m.from \in Servers
            /\ job[m.from] # 0 /\ session[job[m.from]] = "put"
  BY <1>2, <1>3, <1>5 DEF PacketOK, Wire
<1>6. ASSUME p # Client, Getting PROVE block[p] + 1 <= block[Client]
  <2>1. m.body.block = block[p] % BlockMod
    BY <1>2, <1>6 DEF Wire
  <2>2. m.body.block # 0 /\ m.body.block < block[Client]
    BY <1>2, <1>3, <1>6 DEF PacketOK
  <2>3. block[p] <= block[Client]
    BY <1>6 DEF TftpInv, ProcessOK, Sending
  <2>4. block[Client] <= BlockMod
    <3>1. ~Sends(Client) /\ pc[Client] = "wait" /\ Client \in Processes
      BY <1>6, ConstantFacts DEF Getting, Sends
    <3>2. QED BY <3>1 DEF TftpInv, ProcessOK, Receiving
  <2>5. block[p] # BlockMod
    BY <1>1, <2>1, <2>2, ModFacts
  <2>6. block[p] < BlockMod
    BY <1>1, <2>3, <2>4, <2>5
  <2>7. m.body.block = block[p]
    BY <1>1, <2>1, <2>6, ModFacts
  <2>8. QED BY <1>1, <2>2, <2>7
<1>7. QED BY <1>1, <1>2, <1>4, <1>5, <1>6

(* The last block of a put is acknowledged: the file is there.             *)
LEMMA PutComplete ==
  ASSUME OneOfEach, TftpInv, pc[Client] = "wait", Sends(Client),
         NEW m \in net, m.to = Client, IsNext(Client, m.body),
         sent[Client].op = "DATA", Short(sent[Client].data)
  PROVE OkOK(xfer)
<1> DEFINE n == block[Client]
           s == m.from
           t == xfer
<1>0. Client \in Processes
  BY ConstantFacts
<1>1. /\ n \in Nat /\ m.body.op = "ACK" /\ m.body.block < BlockMod
      /\ m.body.block = n /\ s \in Servers /\ job[s] # 0 /\ session[job[s]] = "put"
  BY <1>0, AckFacts
<1>2. /\ scenario \in Scenarios /\ xfer \in Nat /\ xfer <= Len(session)
      /\ job[Client] = t /\ t \in 1..Len(session) /\ session[t] = "put"
  BY <1>0, AtWork DEF TftpInv
<1>3. size \in Nat /\ Len(session) \in Nat /\ DOMAIN session = 1..Len(session)
  BY <1>2, ScenarioFacts
<1>4. job[s] \in 1..xfer /\ t \in 1..xfer
  BY <1>1, <1>2, JobGiven DEF TftpInv
<1>5. job[s] = t
  BY <1>1, <1>2, <1>4, SameCommand
<1>6. Sending(Client)
  BY <1>0 DEF TftpInv, ProcessOK
<1>7. n = size
  <2>1. n # 0
    <3>1. n = 0 => sent[Client] = Request(t)
      BY <1>2, <1>6 DEF Sending
    <3>2. Request(t).op # "DATA"
      BY <1>2, RequestFacts
    <3>3. QED BY <3>1, <3>2
  <2>2. sent[Client] = Data(n % BlockMod, <<t, n>>) /\ n <= size
    BY <1>2, <1>6, <2>1 DEF Sending
  <2>3. sent[Client].data[2] = n
    BY <2>2 DEF Data
  <2>4. QED BY <1>1, <1>3, <2>2, <2>3 DEF Short
<1>8. ASSUME t \notin unwritten, Alone(t) PROVE dest[t] = File(t)
  <2>1. FileOK(t)
    BY <1>2, <1>3 DEF TftpInv
  <2>2. PutOK(t) /\ dest[t] \in Seq(Nat \X Nat) /\ Len(dest[t]) <= size
    BY <1>2, <1>8, <2>1 DEF FileOK
  <2>3. dest[t] = FilePart(t, Len(dest[t])) /\ m.body.block <= Len(dest[t])
    BY <1>1, <1>5, <2>2 DEF PutOK
  <2>4. Len(dest[t]) = size
    BY <1>1, <1>3, <1>7, <2>2, <2>3
  <2>5. QED BY <2>3, <2>4 DEF FilePart, File
<1>9. size < BlockMod
  BY <1>1, <1>7
<1>10. QED BY <1>1, <1>2, <1>5, <1>8, <1>9 DEF OkOK

(* The next block is sent.                                                 *)
LEMMA NextBlock ==
  ASSUME TftpInv, NEW p \in Processes, pc[p] = "wait", Sends(p),
         NEW m \in net, m.to = p, IsNext(p, m.body), Moves(p),
         ~(sent[p].op = "DATA" /\ Short(sent[p].data)),
         NEW n, n = block[p] + 1, NEW t, t = job[p],
         NEW r, SendBuf(r, t, n), NEW body, body = Data(n % BlockMod, <<t, n>>),
         Waits(p, n, body, r), UNCHANGED <<job, result, masked, files>>,
         \A o \in net' : o \in net \/ o = Packet(p, ReplyTo(p, m), body),
         peer' \in Servers \cup {WellKnown}
  PROVE TftpInv'
<1>1. /\ block[p] \in Nat /\ m.body.op = "ACK" /\ m.body.block < BlockMod
      /\ p = Client => m.body.block = block[p] /\ m.from \in Servers
      /\ p # Client /\ Getting => n <= block[Client]
  BY AckFacts
<1>2. /\ scenario \in Scenarios /\ xfer \in Nat /\ xfer <= Len(session)
      /\ t \in 1..xfer /\ t \in 1..Len(session) /\ t \in Nat
      /\ session[t] = IF p = Client THEN "put" ELSE "get"
      /\ p = Client => t = xfer
  BY AtWork DEF TftpInv
<1>3. /\ size \in Nat /\ size # 0 /\ BlockMod \in Nat
      /\ p = Client \/ p \in Servers
  BY <1>2, ScenarioFacts, ConstantFacts
<1>4. Sending(p) /\ block[p] <= size
  BY DEF TftpInv, ProcessOK, Sending
<1>5. n \in 1..size /\ n \in Nat
  <2>1. CASE block[p] = 0
    BY <1>3, <2>1
  <2>2. CASE block[p] # 0
    <3>1. sent[p] = Data(block[p] % BlockMod, <<t, block[p]>>)
      BY <1>4, <2>2 DEF Sending
    <3>2. sent[p].op = "DATA" /\ sent[p].data[2] = block[p]
      BY <3>1 DEF Data
    <3>3. block[p] < size
      BY <1>1, <1>3, <3>2 DEF Short
    <3>4. QED BY <1>1, <1>3, <3>3
  <2>3. QED BY <2>1, <2>2
<1>6. p = Client => n <= BlockMod
  BY <1>1, <1>3
<1>7. /\ session' = session /\ size' = size /\ xfer' = xfer /\ job' = job
      /\ scenario' = scenario
  BY DEF Moves, session, size
<1>8. /\ pc' = [pc EXCEPT ![p] = "wait"] /\ block' = [block EXCEPT ![p] = n]
      /\ tries' = [tries EXCEPT ![p] = 0] /\ sent' = [sent EXCEPT ![p] = body]
      /\ bfs' = [bfs EXCEPT ![p] = r]
  BY DEF Waits
<1>9. pc'[p] = "wait" /\ block'[p] = n /\ sent'[p] = body /\ bfs'[p] = r
  BY <1>8 DEF TftpInv, BaseInv, JobOK, WireOK, BuffersOK
<1>10. block[p] <= block'[p]
  BY <1>1, <1>9
<1>11. Getting' /\ p # Client => Getting /\ n <= block'[Client] /\ block'[Client] = block[Client]
  <2>1. GettingOn
    BY <1>10, GettingFacts DEF TftpInv
  <2>2. p # Client => block'[Client] = block[Client]
    BY ConstantFacts DEF Moves
  <2>3. QED BY <1>1, <2>1, <2>2 DEF GettingOn
<1>12. ProcessOK(p)'
  <2>1. Sends(p)'
    BY <1>7, SendsKept
  <2>2. Sending(p)'
    BY <1>3, <1>5, <1>6, <1>7, <1>9, <1>11 DEF Sending
  <2>3. QED BY <1>9, <2>1, <2>2 DEF ProcessOK
<1>13. /\ body \in Bodies /\ body.op = "DATA" /\ body.data[1] = t /\ body.data[2] = n
       /\ IsBlock(body, t)
  <2>1. n % BlockMod \in Nat /\ <<t, n>> \in Nat \X Nat
    BY <1>2, <1>5, ModFacts
  <2>2. body \in Bodies
    BY <2>1, BodyFacts
  <2>3. body.op = "DATA" /\ body.data = <<t, n>>
    BY DEF Data
  <2>4. body.data[1] = t /\ body.data[2] = n
    BY <2>3
  <2>5. QED BY <1>5, <2>2, <2>3, <2>4 DEF IsBlock
<1>14. FreshOK(p)
  <2>1. ASSUME NEW o, o = Packet(p, ReplyTo(p, m), body)
        PROVE /\ o.from = p /\ o.body = body /\ PacketOK(o)'
    <3>1. o.from = p /\ o.body = body /\ o.to = ReplyTo(p, m)
      BY <2>1 DEF Packet
    <3>2. IsBlock(body, t)'
      BY <1>7, <1>13 DEF IsBlock
    <3>3. CASE p = Client
      <4>1. o.to \in Servers /\ o.to # Client
        BY <1>1, <3>1, <3>3, ConstantFacts DEF ReplyTo
      <4>2. QED BY <1>2, <1>6, <1>7, <1>13, <3>1, <3>2, <3>3, <4>1 DEF PacketOK
    <3>4. CASE p \in Servers
      <4>1. p # Client /\ o.to = Client /\ o.to \notin Servers /\ t # 0
        BY <1>2, <3>1, <3>4, ConstantFacts DEF ReplyTo
      <4>2. QED BY <1>2, <1>7, <1>11, <1>13, <3>1, <3>2, <3>4, <4>1 DEF PacketOK
    <3>5. QED BY <1>3, <3>3, <3>4
  <2>2. QED BY <1>13, <2>1 DEF FreshOK
<1>15. RangeOK'
  <2>1. tries' \in [Processes -> 0..(MaxTimeouts - 1)]
    <3>1. 0 \in 0..(MaxTimeouts - 1)
      BY ConstantFacts
    <3>2. QED BY <1>8, <3>1 DEF TftpInv, RangeOK
  <2>2. masked' \in BOOLEAN /\ result' \in [DOMAIN session -> {"none", "ok", "failed"}]
    BY DEF TftpInv, RangeOK
  <2>3. block'[p] <= size
    BY <1>3, <1>5, <1>9
  <2>4. QED BY <2>1, <2>2, <2>3, RangeKept, StoredFacts
<1>16. ASSUME NEW k \in DOMAIN session PROVE FileOK(k)'
  <2>1. pc'[p] # "dally" /\ result'[k] = result[k]
    BY <1>9
  <2>2. QED BY <1>14, <2>1, FilesKept, StoredFacts
<1>17. \A o \in net' : o \in net \/ PacketOK(o)'
  BY <1>14 DEF FreshOK
<1>18. unwritten \subseteq unwritten'
  BY DEF files
<1>19. QED BY <1>10, <1>12, <1>15, <1>16, <1>17, <1>18, Assembled

(* A block acknowledged: the next one, the end, a read () that fails.      *)
LEMMA AcknowledgedKept ==
  ASSUME OneOfEach, TftpInv, NEW p \in Processes, Acknowledged(p)
  PROVE TftpInv'
<1> DEFINE b == readit(bfs[p], job[p])
           n == block[p] + 1
           d == b.body[b.current].data
           body == Data(n % BlockMod, d)
           r == read_ahead(b, job[p])
           last == sent[p].op = "DATA" /\ Short(sent[p].data)
<1>1. BaseInv /\ pc[p] = "wait" /\ Sends(p) /\ UNCHANGED masked
  BY DEF Acknowledged, TftpInv
<1>2. Moves(p)
  BY <1>1, AcknowledgedMoves
<1>3. PICK m \in net :
        /\ m.to = p /\ IsNext(p, m.body) /\ SetPort(p, m)
        /\ \/ /\ last /\ Ends(p, "ok") /\ Network(m, {}, {}, 0)
              /\ UNCHANGED <<bfs, files>>
           \/ /\ ~last /\ Waits(p, n, body, r)
              /\ Network(m, {}, {Packet(p, ReplyTo(p, m), body)}, 0)
              /\ UNCHANGED <<job, result, files>>
           \/ /\ Ends(p, "ok")
              /\ Network(m, {}, {Packet(p, ReplyTo(p, m), Error)}, 1)
              /\ unread' = IF p = Client THEN unread \cup {xfer} ELSE unread
              /\ UNCHANGED <<bfs, dest, unwritten>>
  BY DEF Acknowledged
<1>4. /\ peer' \in Servers \cup {WellKnown} /\ masked' \in BOOLEAN
      /\ Onward(p, ReplyTo(p, m))
  BY <1>1, <1>3, PortFacts DEF TftpInv, RangeOK
<1>5. job[p] \in Nat /\ block[p] \in Nat /\ SendBuf(bfs[p], job[p], block[p])
  BY <1>1, AtWork DEF TftpInv, ProcessOK, Sending, BaseInv, BuffersOK
<1>6. d = <<job[p], n>> /\ SendBuf(r, job[p], n)
  BY <1>5, SendFacts
<1> HIDE DEF b, d, n, r
<1>7. CASE last /\ Ends(p, "ok") /\ Network(m, {}, {}, 0) /\ UNCHANGED <<bfs, files>>
  <2>1. \A o \in net' : o \in net \/ o \in {}
    BY <1>7, NetFacts
  <2>2. FreshOK(p)
    BY <2>1 DEF FreshOK
  <2>3. p = Client => OkOK(xfer)
    BY <1>1, <1>3, <1>7, PutComplete
  <2>4. QED BY <1>1, <1>2, <1>4, <1>7, <2>2, <2>3, EndsKept, StoredFacts
<1>8. CASE /\ ~last /\ Waits(p, n, body, r) /\ UNCHANGED <<job, result, files>>
           /\ Network(m, {}, {Packet(p, ReplyTo(p, m), body)}, 0)
  <2>1. \A o \in net' : o \in net \/ o \in {Packet(p, ReplyTo(p, m), body)}
    BY <1>8, NetFacts
  <2>2. /\ body = Data(n % BlockMod, <<job[p], n>>) /\ n = block[p] + 1
    BY <1>6 DEF n
  <2> HIDE DEF body, last
  <2>3. \A o \in net' : o \in net \/ o = Packet(p, ReplyTo(p, m), body)
    BY <2>1
  <2>4. ~(sent[p].op = "DATA" /\ Short(sent[p].data))
    BY <1>8 DEF last
  <2>5. UNCHANGED <<job, result, masked, files>>
    BY <1>1, <1>8
  <2>6. pc[p] = "wait" /\ Sends(p) /\ m.to = p /\ IsNext(p, m.body)
    BY <1>1, <1>3
  <2>7. SendBuf(r, job[p], n) /\ Waits(p, n, body, r)
    BY <1>6, <1>8
  <2>8. peer' \in Servers \cup {WellKnown}
    BY <1>4
  <2>9. QED BY <1>2, <2>2, <2>3, <2>4, <2>5, <2>6, <2>7, <2>8, NextBlock, Zenon
<1>9. CASE /\ Ends(p, "ok") /\ UNCHANGED <<bfs, dest, unwritten>>
           /\ Network(m, {}, {Packet(p, ReplyTo(p, m), Error)}, 1)
           /\ unread' = IF p = Client THEN unread \cup {xfer} ELSE unread
  <2>1. \A o \in net' : o \in net \/ o \in {Packet(p, ReplyTo(p, m), Error)}
    BY <1>9, NetFacts
  <2>2. \A o \in net' : o \in net \/ (o.from = p /\ o.body = Error /\ Onward(p, o.to))
    BY <1>4, <2>1 DEF Packet
  <2>3. FreshOK(p)
    BY <1>2, <2>2, FreshError
  <2>4. /\ unread \subseteq DOMAIN session /\ DOMAIN session = 1..Len(session)
        /\ p = Client => xfer \in 1..Len(session)
    BY <1>1, AtWork, ScenarioFacts DEF TftpInv, RangeOK
  <2>5. Stored
    BY <1>9, <2>4 DEF Stored
  <2>6. p = Client => xfer \in unread'
    BY <1>9
  <2>7. QED BY <1>1, <1>2, <1>4, <1>9, <2>3, <2>5, <2>6, EndsKept
<1>10. QED BY <1>3, <1>7, <1>8, <1>9

(* The block a receiver takes for the one it awaits is that block of the   *)
(* file: its number has not wrapped.                                       *)
LEMMA BlockFacts ==
  ASSUME OneOfEach, TftpInv, NEW p \in Processes, pc[p] = "wait", ~Sends(p),
         NEW m \in net, m.to = p, IsNext(p, m.body)
  PROVE /\ m.body.data = <<job[p], block[p]>> /\ block[p] < BlockMod
        /\ block[p] \in 1..size /\ (p = Client => m.from \in Servers)
<1> DEFINE n == block[p]
           t == job[p]
           k == m.body.data[2]
<1>1. /\ scenario \in Scenarios /\ xfer \in Nat /\ xfer <= Len(session)
      /\ t \in 1..xfer /\ t \in 1..Len(session)
      /\ session[t] = IF p = Client THEN "get" ELSE "put"
      /\ p = Client => t = xfer
  BY AtWork DEF TftpInv
<1>2. /\ n \in Nat /\ BlockMod \in Nat /\ size \in Nat /\ Len(session) \in Nat
  BY <1>1, ConstantFacts, ScenarioFacts DEF TftpInv, BaseInv, BuffersOK
<1>3. n \in 1..size /\ n <= BlockMod
  BY DEF TftpInv, ProcessOK, Receiving
<1>4. m.body.op = "DATA" /\ m.body.block = n
  BY DEF IsNext, Wanted, Wire
<1>5. PacketOK(m) /\ (p = Client \/ p \in Servers)
  BY ConstantFacts DEF TftpInv
<1>6. IsBlock(m.body, t) /\ k <= BlockMod /\ (p = Client => m.from \in Servers)
  <2>1. CASE p = Client
    <3>1. /\ m.from \in Servers /\ job[m.from] # 0
          /\ session[job[m.from]] = "get" /\ IsBlock(m.body, job[m.from])
          /\ Getting => k <= n
      BY <1>4, <1>5, <2>1 DEF PacketOK
    <3>2. job[m.from] \in 1..xfer
      BY <3>1, JobGiven DEF TftpInv
    <3>3. job[m.from] = t
      BY <1>1, <2>1, <3>1, <3>2, SameCommand
    <3>4. Getting
      BY <1>1, <2>1 DEF Getting
    <3>5. k \in Nat
      BY <3>1 DEF IsBlock
    <3>6. QED BY <1>2, <1>3, <3>1, <3>3, <3>4, <3>5
  <2>2. CASE p \in Servers
    <3>1. /\ m.body.data[1] \in 1..xfer /\ session[m.body.data[1]] = "put"
          /\ IsBlock(m.body, m.body.data[1]) /\ k <= BlockMod /\ p # Client
      BY <1>4, <1>5, <2>2, ConstantFacts DEF PacketOK
    <3>2. m.body.data[1] = t
      BY <1>1, <3>1, SameCommand
    <3>3. QED BY <3>1, <3>2
  <2>3. QED BY <1>5, <2>1, <2>2
<1>7. k \in Nat /\ m.body = Data(k % BlockMod, <<t, k>>)
  BY <1>6 DEF IsBlock
<1>8. k % BlockMod = n /\ m.body.data = <<t, k>>
  BY <1>4, <1>7 DEF Data
<1>9. k # BlockMod
  BY <1>2, <1>3, <1>8, ModFacts
<1>10. k < BlockMod
  BY <1>2, <1>6, <1>7, <1>9
<1>11. k = n
  BY <1>7, <1>8, <1>10, ModFacts
<1> HIDE DEF n, t, k
<1>12. m.body.data = <<t, n>> /\ n < BlockMod
  BY <1>8, <1>10, <1>11
<1>13. QED BY <1>3, <1>6, <1>12 DEF n, t

(* What a block received does to its file.                                 *)
FileAfter(p) ==
  LET n == block[p]
      t == job[p]
  IN  /\ dest' \in [DOMAIN session -> Seq(Nat \X Nat)] /\ Len(dest'[t]) <= size
      /\ \A k \in DOMAIN session \ {t} :
           dest'[k] = dest[k] /\ (k \in unwritten' <=> k \in unwritten)
      /\ unwritten \subseteq unwritten' /\ unwritten' \subseteq DOMAIN session
      /\ unread' = unread
      /\ t \notin unwritten' =>
           /\ \A i \in DOMAIN dest'[t] : dest'[t][i] \in {<<t, i>>, Hole}
           /\ dest[t] = FilePart(t, n - 1) => dest'[t] = FilePart(t, n)

(* write_behind puts the block where it belongs, or it is lost.            *)
LEMMA ReceivedStored ==
  ASSUME TftpInv, NEW p \in Processes, pc[p] = "wait", ~Sends(p),
         NEW lost \in 0..1, NEW d, d = <<job[p], block[p]>>, UNCHANGED unread,
         \/ /\ lost = 0 /\ UNCHANGED unwritten
            /\ dest' = [dest EXCEPT ![job[p]] = WriteAt(@, bfs[p].pos, d)]
         \/ lost = 1 /\ unwritten' = unwritten \cup {job[p]} /\ UNCHANGED dest
  PROVE FileAfter(p)
<1> DEFINE n == block[p]
           t == job[p]
           pos == bfs[p].pos
           f == dest[t]
<1>1. /\ scenario \in Scenarios /\ t \in 1..Len(session) /\ t \in Nat
  BY AtWork DEF TftpInv
<1>2. size \in Nat /\ DOMAIN session = 1..Len(session)
  BY <1>1, ScenarioFacts
<1>3. /\ n \in 1..size /\ pos <= n - 1 /\ (t \notin unwritten => pos = n - 1)
      /\ pos \in Nat
  BY DEF TftpInv, ProcessOK, Receiving, BaseInv, BuffersOK, BufferType
<1>4. /\ dest \in [DOMAIN session -> Seq(Nat \X Nat)] /\ unwritten \subseteq DOMAIN session
  BY DEF TftpInv, RangeOK
<1>5. /\ f \in Seq(Nat \X Nat) /\ Len(f) <= size
      /\ t \notin unwritten => \A i \in DOMAIN f : f[i] \in {<<t, i>>, Hole}
  BY <1>1, <1>2 DEF TftpInv, FileOK
<1>6. CASE lost = 1 /\ unwritten' = unwritten \cup {t} /\ UNCHANGED dest
  BY <1>1, <1>2, <1>4, <1>5, <1>6 DEF FileAfter
<1>7. CASE /\ UNCHANGED unwritten
           /\ dest' = [dest EXCEPT ![t] = WriteAt(@, pos, d)]
  <2> DEFINE g == WriteAt(f, pos, <<t, n>>)
  <2>1. dest'[t] = g
    BY <1>1, <1>2, <1>4, <1>7
  <2>2. \A k \in DOMAIN session \ {t} : dest'[k] = dest[k]
    BY <1>4, <1>7
  <2>3. /\ g \in Seq(Nat \X Nat) /\ Len(g) <= size
        /\ pos = n - 1 /\ (\A i \in DOMAIN f : f[i] \in {<<t, i>>, Hole}) =>
             \A i \in DOMAIN g : g[i] \in {<<t, i>>, Hole}
        /\ pos = n - 1 /\ f = FilePart(t, n - 1) => g = FilePart(t, n)
    <3> HIDE DEF n, t, pos, f
    <3>1. g = WriteAt(f, pos, <<t, n>>)
      OBVIOUS
    <3> HIDE DEF g
    <3>2. n \in Nat /\ <<t, n>> \in Nat \X Nat /\ pos < size
      BY <1>1, <1>2, <1>3
    <3>3. g \in Seq(Nat \X Nat) /\ Len(g) <= size
      BY <1>2, <1>3, <1>5, <3>1, <3>2, WriteLength
    <3>4. ASSUME pos = n - 1 PROVE g = WriteAt(f, pos, <<t, pos + 1>>) /\ pos + 1 = n
      BY <3>1, <3>2, <3>4
    <3>5. ASSUME pos = n - 1, \A i \in DOMAIN f : f[i] \in {<<t, i>>, Hole}
          PROVE \A i \in DOMAIN g : g[i] \in {<<t, i>>, Hole}
      BY <1>1, <1>3, <1>5, <3>4, <3>5, WritePlaced
    <3>6. ASSUME pos = n - 1, f = FilePart(t, n - 1) PROVE g = FilePart(t, n)
      <4>1. WriteAt(FilePart(t, pos), pos, <<t, pos + 1>>) = FilePart(t, pos + 1)
        BY <1>1, <1>3, WriteNext
      <4>2. QED BY <3>4, <3>6, <4>1
    <3>7. QED BY <3>3, <3>5, <3>6
  <2> HIDE DEF g
  <2>4. dest' = [dest EXCEPT ![t] = g]
    BY <1>7 DEF g
  <2>5. dest' \in [DOMAIN session -> Seq(Nat \X Nat)]
    BY <1>4, <2>3, <2>4
  <2>6. QED BY <1>3, <1>4, <1>5, <1>7, <2>1, <2>2, <2>3, <2>5 DEF FileAfter
<1>8. QED BY <1>6, <1>7

(* How far a receiver is after the block it awaited: it awaits the next    *)
(* one, or it was the last.                                                *)
RecvAfter(p) ==
  LET n == block[p] IN
  \/ /\ n < size /\ pc'[p] = "wait" /\ block'[p] = n + 1 /\ sent'[p] = Ack(n)
     /\ UNCHANGED result
  \/ /\ n = size /\ p = Client /\ pc'[p] = "idle" /\ block'[p] = n
     /\ result' = [result EXCEPT ![xfer] = "ok"]
  \/ /\ n = size /\ p # Client /\ pc'[p] = "dally" /\ block'[p] = n
     /\ sent'[p] = Ack(n) /\ UNCHANGED result

(* The file the block belongs to.                                          *)
LEMMA FileWritten ==
  ASSUME TftpInv, NEW p \in Processes, pc[p] = "wait", ~Sends(p),
         Moves(p), FileAfter(p), RecvAfter(p), block[p] < BlockMod,
         NEW to, \A o \in net' : o \in net \/ o = Packet(p, to, Ack(block[p])),
         NEW t, t = job[p]
  PROVE FileOK(t)'
<1> DEFINE n == block[p]
<1>1. /\ scenario \in Scenarios /\ xfer \in Nat /\ t \in 1..xfer
      /\ t \in 1..Len(session) /\ t \in Nat
      /\ session[t] = IF p = Client THEN "get" ELSE "put"
      /\ p = Client => t = xfer
  BY AtWork DEF TftpInv
<1>2. /\ size \in Nat /\ DOMAIN session = 1..Len(session) /\ n \in 1..size
      /\ BlockMod \in Nat /\ n \in Nat /\ Client \in Processes
  BY <1>1, ScenarioFacts, ConstantFacts
     DEF TftpInv, ProcessOK, Receiving, BaseInv, BuffersOK
<1>3. /\ session' = session /\ size' = size /\ xfer' = xfer /\ job' = job
      /\ scenario' = scenario
  BY DEF Moves, session, size
<1>4. FileOK(t) /\ result \in [DOMAIN session -> {"none", "ok", "failed"}]
  BY <1>1, <1>2 DEF TftpInv, RangeOK
<1>5. /\ dest'[t] \in Seq(Nat \X Nat) /\ Len(dest'[t]) <= size
      /\ unwritten \subseteq unwritten'
      /\ t \notin unwritten' =>
           /\ \A i \in DOMAIN dest'[t] : dest'[t][i] \in {<<t, i>>, Hole}
           /\ dest[t] = FilePart(t, n - 1) => dest'[t] = FilePart(t, n)
  BY <1>1, <1>2 DEF FileAfter
<1>6. pc'[Client] = "wait" => pc[Client] = "wait"
  BY <1>2 DEF Moves
<1>7. Alone(t)' <=> Alone(t)
  BY <1>3, AloneKept
<1>8. p # Client => p \in Servers /\ UNCHANGED result
  BY ConstantFacts DEF RecvAfter
<1>9. p = Client => result[t] = "none"
  BY <1>1, <1>4 DEF FileOK
<1>10. t = xfer /\ pc'[Client] = "wait" => result'[t] = "none"
  <2>1. pc'[Client] = "wait" => UNCHANGED result
    BY DEF RecvAfter
  <2>2. QED BY <1>4, <1>6, <2>1 DEF FileOK
<1>11. ASSUME session[t] = "get", t = xfer, pc'[Client] = "wait", t \notin unwritten'
       PROVE dest'[t] = FilePart(t, block'[Client] - 1)
  <2>1. p = Client /\ t \notin unwritten
    BY <1>1, <1>5, <1>11
  <2>2. dest[t] = FilePart(t, n - 1)
    BY <1>4, <1>11, <2>1 DEF FileOK
  <2>3. block'[Client] = n + 1
    BY <1>11, <2>1 DEF RecvAfter
  <2>4. block'[Client] - 1 = n
    BY <1>2, <2>3
  <2>5. QED BY <1>5, <1>11, <2>2, <2>4
<1>12. ASSUME session[t] = "put", Alone(t), t \notin unwritten'
       PROVE /\ dest[t] = FilePart(t, n - 1) /\ Len(dest[t]) = n - 1
             /\ p \in Servers /\ p # Client
             /\ \A m \in net : m.from = p /\ m.to = Client /\ m.body.op = "ACK" =>
                                m.body.block <= n - 1
  <2>1. p \in Servers /\ p # Client
    BY <1>1, <1>8, <1>12
  <2>2. PutOK(t)
    BY <1>4, <1>5, <1>12 DEF FileOK
  <2>3. QED BY <2>1, <2>2 DEF PutOK
<1>13. ASSUME session[t] = "put", Alone(t), t \notin unwritten' PROVE PutOK(t)'
  <2>1. /\ dest[t] = FilePart(t, n - 1) /\ p \in Servers /\ p # Client
        /\ \A m \in net : m.from = p /\ m.to = Client /\ m.body.op = "ACK" =>
                           m.body.block <= n - 1
    BY <1>12, <1>13
  <2>2. dest'[t] = FilePart(t, n)
    BY <1>5, <1>13, <2>1
  <2>3. Len(dest'[t]) = n
    <3>1. Len(FilePart(t, n)) = n
      BY <1>1, <1>2, PartFacts
    <3>2. QED BY <2>2, <3>1
  <2>4. (pc'[p] = "wait" => n = block'[p] - 1) /\ (pc'[p] = "dally" => n = size)
    BY <1>2 DEF RecvAfter
  <2>5. ASSUME NEW m \in net', m.from = p, m.to = Client, m.body.op = "ACK"
        PROVE m.body.block <= n
    <3>1. CASE m \in net
      <4>1. m.body.block <= n - 1 /\ m.body.block \in Nat
        BY <2>1, <2>5, <3>1 DEF TftpInv, BaseInv, WireOK, Bodies
      <4>2. QED BY <1>2, <4>1
    <3>2. CASE m = Packet(p, to, Ack(n))
      <4>1. m.body.block = n % BlockMod
        BY <3>2 DEF Packet, Ack
      <4>2. n % BlockMod = n
        BY <1>2, ModFacts
      <4>3. QED BY <1>2, <4>1, <4>2
    <3>3. QED BY <3>1, <3>2
  <2>6. \A s \in Servers : job[s] = t => s = p
    BY <1>13, <2>1 DEF Alone
  <2>7. QED BY <1>3, <2>2, <2>3, <2>4, <2>5, <2>6 DEF PutOK
<1>14. ASSUME result'[t] = "ok", t \notin unread' PROVE OkOK(t)'
  <2>1. CASE p = Client
    <3>1. n = size /\ session[t] = "get" /\ t = xfer
      BY <1>1, <1>4, <1>9, <1>14, <2>1 DEF RecvAfter
    <3>2. ASSUME t \notin unwritten' PROVE dest'[t] = File(t)
      <4>1. dest[t] = FilePart(t, n - 1)
        BY <1>4, <1>5, <2>1, <3>1, <3>2 DEF FileOK
      <4>2. dest'[t] = FilePart(t, n)
        BY <1>5, <3>2, <4>1
      <4>3. QED BY <3>1, <4>2 DEF File, FilePart
    <3>3. File(t)' = File(t)
      BY <1>3 DEF File
    <3>4. QED BY <1>3, <3>1, <3>2, <3>3 DEF OkOK
  <2>2. CASE p # Client
    <3>1. OkOK(t) /\ session[t] = "put"
      BY <1>1, <1>4, <1>8, <1>14, <2>2 DEF FileOK, FileAfter
    <3>2. ASSUME t \notin unwritten', Alone(t) PROVE FALSE
      <4>1. dest[t] = File(t) /\ Len(dest[t]) = n - 1
        BY <1>5, <1>12, <3>1, <3>2 DEF OkOK
      <4>2. File(t) = FilePart(t, size)
        BY DEF File, FilePart
      <4>3. Len(FilePart(t, size)) = size
        BY <1>1, <1>2, PartFacts
      <4>4. n - 1 = size
        BY <4>1, <4>2, <4>3
      <4>5. QED BY <1>2, <4>4
    <3>3. QED BY <1>3, <1>7, <3>1, <3>2 DEF OkOK
  <2>3. QED BY <2>1, <2>2
<1>15. ~(t > xfer)
  BY <1>1
<1>16. QED BY <1>3, <1>5, <1>7, <1>10, <1>11, <1>13, <1>14, <1>15 DEF FileOK

(* The other files.                                                        *)
LEMMA OtherFiles ==
  ASSUME TftpInv, NEW p \in Processes, pc[p] = "wait", ~Sends(p),
         Moves(p), FileAfter(p), RecvAfter(p),
         NEW to, \A o \in net' : o \in net \/ o = Packet(p, to, Ack(block[p])),
         NEW k \in DOMAIN session, k # job[p]
  PROVE FileOK(k)'
<1>1. /\ scenario \in Scenarios /\ (p = Client => job[p] = xfer)
  BY AtWork DEF TftpInv
<1>2. Client \in Processes /\ (p # Client => UNCHANGED result)
  BY ConstantFacts DEF RecvAfter
<1>3. /\ session' = session /\ size' = size /\ xfer' = xfer /\ job' = job
      /\ scenario' = scenario
  BY DEF Moves, session, size
<1>4. /\ FileOK(k) /\ dest'[k] = dest[k] /\ (k \in unwritten' <=> k \in unwritten)
      /\ unread' = unread /\ result \in [DOMAIN session -> {"none", "ok", "failed"}]
  BY DEF TftpInv, RangeOK, FileAfter
<1>5. result'[k] = result[k]
  BY <1>1, <1>2, <1>4 DEF RecvAfter
<1>6. pc'[Client] = "wait" => pc[Client] = "wait"
  BY <1>2 DEF Moves
<1>7. k = xfer => block'[Client] = block[Client]
  BY <1>1, <1>2 DEF Moves
<1>8. Alone(k)' <=> Alone(k)
  BY <1>3, AloneKept
<1>9. ASSUME PutOK(k) PROVE PutOK(k)'
  <2>1. ASSUME NEW s \in Servers, job[s] = k
        PROVE /\ dest[k] = FilePart(k, Len(dest[k]))
              /\ pc'[s] = "wait" => Len(dest[k]) = block'[s] - 1
              /\ pc'[s] = "dally" => Len(dest[k]) = size
              /\ \A m \in net' : m.from = s /\ m.to = Client /\ m.body.op = "ACK" =>
                                  m.body.block <= Len(dest[k])
    <3>1. s # p /\ s \in Processes
      BY <2>1 DEF Processes
    <3>2. pc'[s] = pc[s] /\ block'[s] = block[s]
      BY <3>1 DEF Moves
    <3>3. \A m \in net' : m.from = s => m \in net
      BY <3>1 DEF Packet
    <3>4. QED BY <1>9, <2>1, <3>2, <3>3 DEF PutOK
  <2>2. QED BY <1>3, <1>4, <2>1 DEF PutOK
<1>10. ASSUME OkOK(k) PROVE OkOK(k)'
  <2>1. File(k)' = File(k)
    BY <1>3 DEF File
  <2>2. QED BY <1>3, <1>4, <1>8, <1>10, <2>1 DEF OkOK
<1>11. QED BY <1>3, <1>4, <1>5, <1>6, <1>7, <1>8, <1>9, <1>10 DEF FileOK

(* The block awaited arrives, is stored and acknowledged.                  *)
LEMMA ReceivedKept ==
  ASSUME OneOfEach, TftpInv, NEW p \in Processes, Received(p)
  PROVE TftpInv'
<1> DEFINE n == block[p]
           ack == Ack(n)
<1>1. BaseInv /\ pc[p] = "wait" /\ ~Sends(p) /\ UNCHANGED <<xfer, masked>>
  BY DEF Received, TftpInv
<1>2. Moves(p)
  BY <1>1, ReceivedMoves
<1>3. PICK m \in net, lost \in 0..1 :
        LET b == writeit(bfs[p], m.body)
            v == write_behind(b, lost)
            pos == bfs[p].pos
        IN  /\ m.to = p /\ IsNext(p, m.body) /\ SetPort(p, m)
            /\ RecvBuf(v) /\ v.pos = (pos + 1) - lost /\ pos \in Nat
            /\ bfs' = [bfs EXCEPT ![p] = v] /\ UNCHANGED unread
            /\ \/ /\ lost = 0 /\ UNCHANGED unwritten
                  /\ dest' = [dest EXCEPT ![job[p]] = WriteAt(@, pos, m.body.data)]
               \/ lost = 1 /\ unwritten' = unwritten \cup {job[p]} /\ UNCHANGED dest
            /\ \A o \in net' : o \in net \/ o = Packet(p, ReplyTo(p, m), ack)
            /\ \/ /\ ~Short(m.body.data)
                  /\ Waits(p, n + 1, ack, v) /\ UNCHANGED <<job, result>>
               \/ Short(m.body.data) /\ p = Client /\ Ends(p, "ok")
               \/ /\ Short(m.body.data) /\ p # Client
                  /\ pc' = [pc EXCEPT ![p] = "dally"]
                  /\ sent' = [sent EXCEPT ![p] = ack]
                  /\ UNCHANGED <<job, block, tries, result>>
  BY <1>1, ReceivedFacts
<1> DEFINE v == write_behind(writeit(bfs[p], m.body), lost)
           pos == bfs[p].pos
<1>4. /\ m.to = p /\ IsNext(p, m.body) /\ SetPort(p, m) /\ pos \in Nat
      /\ v.pos = (pos + 1) - lost /\ bfs' = [bfs EXCEPT ![p] = v]
      /\ \A o \in net' : o \in net \/ o = Packet(p, ReplyTo(p, m), ack)
  BY <1>3
<1>5. /\ UNCHANGED unread
      /\ \/ /\ lost = 0 /\ UNCHANGED unwritten
            /\ dest' = [dest EXCEPT ![job[p]] = WriteAt(@, pos, m.body.data)]
         \/ lost = 1 /\ unwritten' = unwritten \cup {job[p]} /\ UNCHANGED dest
  BY <1>3
<1>6. \/ /\ ~Short(m.body.data)
         /\ Waits(p, n + 1, ack, v) /\ UNCHANGED <<job, result>>
      \/ Short(m.body.data) /\ p = Client /\ Ends(p, "ok")
      \/ /\ Short(m.body.data) /\ p # Client
         /\ pc' = [pc EXCEPT ![p] = "dally"]
         /\ sent' = [sent EXCEPT ![p] = ack]
         /\ UNCHANGED <<job, block, tries, result>>
  BY <1>3
<1> HIDE DEF v
<1>7. /\ m.body.data = <<job[p], n>> /\ n < BlockMod
      /\ n \in 1..size /\ (p = Client => m.from \in Servers)
  BY <1>1, <1>4, BlockFacts
<1>8. /\ scenario \in Scenarios /\ xfer \in Nat /\ job[p] \in 1..xfer /\ job[p] # 0
      /\ session[job[p]] = IF p = Client THEN "get" ELSE "put"
      /\ p = Client => job[p] = xfer
  BY <1>1, AtWork
<1>9. /\ size \in Nat /\ n \in Nat /\ BlockMod \in Nat
      /\ p = Client \/ p \in Servers
      /\ pc \in [Processes -> {"idle", "wait", "dally", "exit"}]
      /\ block \in [Processes -> Nat] /\ sent \in [Processes -> Bodies]
      /\ bfs \in [Processes -> BufferType]
  BY <1>1, <1>8, ScenarioFacts, ConstantFacts DEF BaseInv, BuffersOK, JobOK, WireOK
<1>10. Short(m.body.data) <=> n = size
  BY <1>7, <1>9 DEF Short
<1>11. /\ session' = session /\ size' = size /\ xfer' = xfer /\ job' = job
       /\ scenario' = scenario
  BY <1>2 DEF Moves, session, size
<1>12. FileAfter(p)
  BY <1>1, <1>5, <1>7, ReceivedStored
<1>13. RecvAfter(p)
  <2>1. CASE ~Short(m.body.data) /\ Waits(p, n + 1, ack, v) /\ UNCHANGED <<job, result>>
    <3>1. pc'[p] = "wait" /\ block'[p] = n + 1 /\ sent'[p] = ack
      BY <1>9, <2>1 DEF Waits
    <3>2. n < size
      BY <1>7, <1>9, <1>10, <2>1
    <3>3. QED BY <2>1, <3>1, <3>2 DEF RecvAfter
  <2>2. CASE Short(m.body.data) /\ p = Client /\ Ends(p, "ok")
    BY <1>9, <1>10, <2>2 DEF RecvAfter, Ends
  <2>3. CASE /\ Short(m.body.data) /\ p # Client
             /\ pc' = [pc EXCEPT ![p] = "dally"]
             /\ sent' = [sent EXCEPT ![p] = ack]
             /\ UNCHANGED <<job, block, tries, result>>
    BY <1>9, <1>10, <2>3 DEF RecvAfter
  <2>4. QED BY <1>6, <2>1, <2>2, <2>3
<1>14. block[p] <= block'[p] /\ block'[p] <= size /\ unwritten \subseteq unwritten'
  BY <1>7, <1>9, <1>12, <1>13 DEF RecvAfter, FileAfter
<1>15. bfs'[p] = v
  BY <1>4, <1>9
<1>16. /\ pos <= n - 1 /\ (job[p] \notin unwritten => pos = n - 1)
  BY <1>1 DEF TftpInv, ProcessOK, Receiving
<1>17. ProcessOK(p)'
  <2>1. ~Sends(p)'
    BY <1>1, <1>11, SendsKept
  <2>2. ASSUME pc'[p] = "wait" PROVE Receiving(p)'
    <3>1. n < size /\ block'[p] = n + 1 /\ sent'[p] = ack
      BY <2>2, <1>13 DEF RecvAfter
    <3>2. block'[p] \in 1..size /\ block'[p] <= BlockMod
      BY <1>7, <1>9, <3>1
    <3>3. block'[p] - 1 = n /\ block'[p] # 1
      BY <1>7, <1>9, <3>1
    <3>4. v.pos <= n /\ (job[p] \notin unwritten' => v.pos = n)
      <4>1. CASE lost = 0 /\ UNCHANGED unwritten
        BY <1>4, <1>9, <1>16, <4>1
      <4>2. CASE lost = 1 /\ unwritten' = unwritten \cup {job[p]}
        BY <1>4, <1>9, <1>16, <4>2
      <4>3. QED BY <1>5, <4>1, <4>2
    <3>5. sent'[p] = Ack(block'[p] - 1)
      BY <3>1, <3>3
    <3> HIDE DEF n, ack
    <3>6. QED BY <1>11, <1>15, <3>2, <3>3, <3>4, <3>5 DEF Receiving
  <2>3. ASSUME pc'[p] = "dally" PROVE Dallying(p)'
    <3>1. n = size /\ block'[p] = n /\ sent'[p] = ack
      BY <2>3, <1>13 DEF RecvAfter
    <3>2. QED BY <1>7, <1>11, <3>1 DEF Dallying
  <2>4. QED BY <2>1, <2>2, <2>3 DEF ProcessOK
<1>18. \A o \in net' : o \in net \/ PacketOK(o)'
  <2>1. n % BlockMod = n /\ n # 0
    BY <1>7, <1>9, ModFacts
  <2>2. ack.op = "ACK" /\ ack.block = n
    BY <2>1 DEF Ack
  <2> HIDE DEF ack
  <2>3. ASSUME NEW o, o = Packet(p, ReplyTo(p, m), ack) PROVE PacketOK(o)'
    <3>1. o.from = p /\ o.body = ack /\ o.to = ReplyTo(p, m)
      BY <2>3 DEF Packet
    <3>2. CASE p = Client
      <4>1. o.to \in Servers /\ o.to # Client
        BY <1>7, <3>1, <3>2, ConstantFacts DEF ReplyTo
      <4>2. Getting' => n < block'[Client]
        BY <1>9, <1>13, <3>2 DEF RecvAfter, Getting
      <4>3. \E t \in 1..xfer' : session'[t] = "get"
        BY <1>8, <1>11, <3>2
      <4>4. QED BY <1>7, <2>1, <2>2, <3>1, <4>1, <4>2, <4>3 DEF PacketOK
    <3>3. CASE p \in Servers
      <4>1. p # Client /\ o.to = Client /\ o.to \notin Servers
        BY <3>1, <3>3, ConstantFacts DEF ReplyTo
      <4>2. QED BY <1>7, <1>8, <1>11, <2>2, <3>1, <3>3, <4>1 DEF PacketOK
    <3>4. QED BY <1>9, <3>2, <3>3
  <2>4. QED BY <1>4, <2>3
<1>19. RangeOK'
  <2>1. tries' \in [Processes -> 0..(MaxTimeouts - 1)]
    <3>1. 0 \in 0..(MaxTimeouts - 1) /\ tries \in [Processes -> 0..(MaxTimeouts - 1)]
      BY ConstantFacts DEF TftpInv, RangeOK
    <3>2. tries' = tries \/ tries' = [tries EXCEPT ![p] = 0]
      BY <1>6 DEF Waits, Ends
    <3>3. QED BY <3>1, <3>2
  <2>2. masked' \in BOOLEAN /\ peer' \in Servers \cup {WellKnown}
    BY <1>1, <1>4, PortFacts DEF TftpInv, RangeOK
  <2>3. result' \in [DOMAIN session -> {"none", "ok", "failed"}]
    BY <1>13 DEF TftpInv, RangeOK, RecvAfter
  <2>4. \A q \in Processes : block'[q] <= size
    BY <1>2, <1>14 DEF TftpInv, RangeOK, Moves
  <2>5. unread' \subseteq DOMAIN session
    BY <1>12 DEF TftpInv, RangeOK, FileAfter
  <2>6. QED BY <1>11, <1>12, <2>1, <2>2, <2>3, <2>4, <2>5 DEF RangeOK, FileAfter
<1>20. ASSUME NEW k \in DOMAIN session PROVE FileOK(k)'
  <2>1. CASE k = job[p]
    BY <1>1, <1>2, <1>4, <1>7, <1>12, <1>13, <2>1, FileWritten
  <2>2. CASE k # job[p]
    BY <1>1, <1>2, <1>4, <1>12, <1>13, <2>2, OtherFiles
  <2>3. QED BY <2>1, <2>2
<1>21. QED BY <1>2, <1>14, <1>17, <1>18, <1>19, <1>20, Assembled

(* A command begins.  The session has no other get: no block of one, and   *)
(* no acknowledgement of one, is on its way.                               *)
LEMMA BeginKept ==
  ASSUME OneOfEach', TftpInv, Begin
  PROVE TftpInv'
<1>1. BaseInv /\ BaseInv'
  BY BeginBase DEF TftpInv
<1>2. /\ scenario' = scenario /\ session' = session /\ size' = size
      /\ scenario \in Scenarios /\ UNCHANGED <<result, masked, files, faults>>
      /\ dest' = dest /\ unwritten' = unwritten /\ unread' = unread
  BY <1>1 DEF BaseInv, JobOK, Begin, session, size, files
<1>3. /\ xfer \in 0..Len(session) /\ pc[Client] = "idle" /\ xfer < Len(session)
      /\ pc \in [Processes -> {"idle", "wait", "dally", "exit"}]
      /\ job \in [Processes -> 0..Len(session)]
      /\ block \in [Processes -> Nat] /\ sent \in [Processes -> Bodies]
      /\ bfs \in [Processes -> BufferType] /\ Len(session) \in Nat
      /\ DOMAIN session = 1..Len(session) /\ size \in Nat /\ size # 0
      /\ Client \in Processes /\ Client \notin Servers
      /\ BlockMod \in Nat /\ BlockMod # 0
  BY <1>1, <1>2, ScenarioFacts, ConstantFacts
     DEF BaseInv, JobOK, WireOK, BuffersOK, Begin
<1>4. PICK t \in 1..Len(session) : t = xfer + 1
  BY <1>3
<1>5. /\ xfer' = t /\ job' = [job EXCEPT ![Client] = t] /\ peer' = WellKnown
      /\ net' = net \cup {Packet(Client, WellKnown, Request(t))}
      /\ session[t] \in {"get", "put"} /\ t \in Nat
  BY <1>2, <1>4, ScenarioFacts DEF Begin
<1>6. PICK n \in {0, 1} : \E b \in {read_ahead(rw_init(1), t), rw_init(0)} :
        /\ Waits(Client, n, Request(t), b)
        /\ session[t] = "put" => n = 0 /\ b = read_ahead(rw_init(1), t)
        /\ session[t] = "get" => n = 1 /\ b = rw_init(0)
  BY <1>4, <1>5 DEF Begin
<1>7. PICK b : /\ Waits(Client, n, Request(t), b)
               /\ session[t] = "put" => n = 0 /\ b = read_ahead(rw_init(1), t)
               /\ session[t] = "get" => n = 1 /\ b = rw_init(0)
  BY <1>6
<1>8. /\ pc' = [pc EXCEPT ![Client] = "wait"] /\ block' = [block EXCEPT ![Client] = n]
      /\ tries' = [tries EXCEPT ![Client] = 0]
      /\ sent' = [sent EXCEPT ![Client] = Request(t)]
      /\ bfs' = [bfs EXCEPT ![Client] = b]
  BY <1>7 DEF Waits
<1>9. /\ pc'[Client] = "wait" /\ block'[Client] = n /\ sent'[Client] = Request(t)
      /\ bfs'[Client] = b /\ job'[Client] = t
  BY <1>3, <1>5, <1>8
<1>10. \A s \in Servers :
         /\ pc'[s] = pc[s] /\ job'[s] = job[s] /\ block'[s] = block[s]
         /\ sent'[s] = sent[s] /\ bfs'[s] = bfs[s] /\ s \in Processes /\ s # Client
  BY <1>3, <1>5, <1>8 DEF Processes
<1>11. /\ Getting' <=> session[t] = "get"
       /\ \A k \in 1..Len(session) : k <= xfer => session[k] # session[t]
  <2>1. Getting' <=> session[t] = "get"
    BY <1>2, <1>5, <1>9 DEF Getting
  <2>2. ASSUME NEW k \in 1..Len(session), k <= xfer, session[k] = session[t] PROVE FALSE
    <3>1. k \in 1..xfer' /\ t \in 1..xfer'
      BY <1>3, <1>4, <1>5, <2>2
    <3>2. k = t
      BY <1>2, <2>2, <3>1 DEF OneOfEach
    <3>3. QED BY <1>3, <1>4, <2>2, <3>2
  <2>3. QED BY <2>1, <2>2
<1>12. \A s \in Servers : job[s] # 0 =>
         job[s] \in 1..Len(session) /\ job[s] <= xfer /\ session[job[s]] # session[t]
  <2>1. \A s \in Servers : job[s] # 0 => job[s] \in 1..Len(session) /\ job[s] <= xfer
    BY <1>1, <1>3 DEF BaseInv, JobOK, Processes
  <2>2. QED BY <1>11, <2>1
<1>13. ASSUME NEW s \in Servers PROVE ProcessOK(s)'
  <2>1. ProcessOK(s)
    BY <1>10 DEF TftpInv
  <2>2. Sends(s)' <=> Sends(s)
    BY <1>2, <1>10 DEF Sends
  <2>3. pc[s] = "wait" /\ Sends(s) => ~Getting'
    <3>1. pc[s] = "wait" => job[s] # 0
      BY <1>1 DEF BaseInv, JobOK
    <3>2. QED BY <1>10, <1>11, <1>12, <3>1 DEF Sends
  <2>4. pc[s] = "wait" /\ Sends(s) => Sending(s)'
    BY <1>2, <1>10, <2>1, <2>3 DEF ProcessOK, Sending, Request
  <2>5. pc[s] = "wait" /\ ~Sends(s) => Receiving(s)'
    BY <1>2, <1>10, <2>1 DEF ProcessOK, Receiving, Request
  <2>6. pc[s] = "dally" => Dallying(s)'
    BY <1>2, <1>10, <2>1 DEF ProcessOK, Dallying
  <2>7. QED BY <1>10, <2>2, <2>4, <2>5, <2>6 DEF ProcessOK
<1>14. ProcessOK(Client)'
  <2>1. Sends(Client)' <=> session[t] = "put"
    BY <1>2, <1>5 DEF Sends
  <2>2. Request(t)' = Request(t)
    BY <1>2 DEF Request
  <2>3. CASE session[t] = "put"
    <3>1. SendBuf(b, t, 0) /\ n = 0
      BY <1>5, <1>7, <2>3, PutBegins
    <3>2. 0 <= size /\ 0 <= BlockMod
      BY <1>3
    <3>3. Sending(Client)'
      BY <1>2, <1>9, <2>2, <3>1, <3>2 DEF Sending, Request
    <3>4. QED BY <1>9, <2>1, <2>3, <3>3 DEF ProcessOK
  <2>4. CASE session[t] = "get"
    <3>1. b.pos = 0 /\ n = 1
      BY <1>7, <2>4, InitFacts
    <3>2. 1 \in 1..size /\ 1 <= BlockMod /\ 1 - 1 = 0
      BY <1>3
    <3>3. 0 <= 1 - 1
      OBVIOUS
    <3>4. Receiving(Client)'
      BY <1>2, <1>9, <2>2, <3>1, <3>2, <3>3 DEF Receiving, Request
    <3>5. QED BY <1>9, <2>1, <2>4, <3>4 DEF ProcessOK
  <2>5. QED BY <1>5, <2>3, <2>4
<1>15. ASSUME NEW m \in net' PROVE PacketOK(m)'
  <2>1. CASE m = Packet(Client, WellKnown, Request(t))
    <3>1. m.to = WellKnown /\ m.body = Request(t)
      BY <2>1 DEF Packet
    <3>2. m.to # Client /\ m.to \notin Servers
      BY <3>1, ConstantFacts DEF Processes
    <3>3. m.body.op # "ACK"
      BY <1>2, <3>1, RequestFacts
    <3>4. QED BY <3>2, <3>3 DEF PacketOK
  <2>2. CASE m \in net
    <3>1. PacketOK(m)
      BY <2>2 DEF TftpInv
    <3>2. \A k : IsBlock(m.body, k)' <=> IsBlock(m.body, k)
      BY <1>2 DEF IsBlock
    <3>3. ASSUME m.to = Client
          PROVE /\ m.from \in Servers
                /\ m.body.op = "DATA" =>
                     /\ job'[m.from] # 0 /\ session[job'[m.from]] = "get"
                     /\ IsBlock(m.body, job'[m.from]) /\ ~Getting'
                /\ m.body.op = "ACK" =>
                     job'[m.from] # 0 /\ session[job'[m.from]] = "put"
      <4>1. /\ m.from \in Servers
            /\ m.body.op = "DATA" =>
                 /\ job[m.from] # 0 /\ session[job[m.from]] = "get"
                 /\ IsBlock(m.body, job[m.from])
            /\ m.body.op = "ACK" => job[m.from] # 0 /\ session[job[m.from]] = "put"
        BY <3>1, <3>3 DEF PacketOK
      <4>2. job'[m.from] = job[m.from]
        BY <1>10, <4>1
      <4>3. m.body.op = "DATA" => ~Getting'
        BY <1>11, <1>12, <4>1
      <4>4. QED BY <4>1, <4>2, <4>3
    <3>4. ASSUME m.to \in Servers
          PROVE /\ m.body.op = "DATA" =>
                     /\ m.body.data[1] \in 1..t /\ session[m.body.data[1]] = "put"
                     /\ IsBlock(m.body, m.body.data[1]) /\ m.body.data[2] <= BlockMod
                /\ m.body.op = "ACK" =>
                     /\ \E k \in 1..t : session[k] = "get"
                     /\ ~Getting'
      <4>1. /\ m.body.op = "DATA" =>
                 /\ m.body.data[1] \in 1..xfer /\ session[m.body.data[1]] = "put"
                 /\ IsBlock(m.body, m.body.data[1]) /\ m.body.data[2] <= BlockMod
            /\ m.body.op = "ACK" => \E k \in 1..xfer : session[k] = "get"
        BY <3>1, <3>4 DEF PacketOK
      <4>2. \A k \in 1..xfer : k \in 1..t /\ k \in 1..Len(session) /\ k <= xfer
        BY <1>3, <1>4
      <4>3. m.body.op = "ACK" => ~Getting'
        BY <1>11, <4>1, <4>2
      <4>4. QED BY <4>1, <4>2, <4>3
    <3>5. m.body.op = "ACK" => m.body.block < BlockMod
      BY <3>1 DEF PacketOK
    <3>6. QED BY <1>2, <1>5, <3>2, <3>3, <3>4, <3>5 DEF PacketOK
  <2>3. QED BY <1>5, <2>1, <2>2
<1>16. RangeOK'
  <2>1. tries' \in [Processes -> 0..(MaxTimeouts - 1)]
    <3>1. 0 \in 0..(MaxTimeouts - 1) /\ tries \in [Processes -> 0..(MaxTimeouts - 1)]
      BY ConstantFacts DEF TftpInv, RangeOK
    <3>2. QED BY <1>8, <3>1
  <2>2. n <= size
    BY <1>3
  <2>3. \A q \in Processes : block'[q] <= size
    BY <1>3, <1>8, <2>2 DEF TftpInv, RangeOK
  <2>4. QED BY <1>2, <1>5, <2>1, <2>3 DEF TftpInv, RangeOK
<1>17. ASSUME NEW k \in DOMAIN session PROVE FileOK(k)'
  <2>1. FileOK(k) /\ k \in Nat /\ k \in 1..Len(session)
    BY <1>3 DEF TftpInv
  <2>2. Alone(k)' <=> Alone(k)
    BY <1>10 DEF Alone
  <2>3. PutOK(k) => PutOK(k)'
    <3>1. \A m \in net' : m \in net \/ m.from = Client
      BY <1>5 DEF Packet
    <3>2. \A m \in net' : m.from \in Servers => m \in net
      BY <1>3, <3>1
    <3>3. QED BY <1>2, <1>10, <3>2 DEF PutOK
  <2>4. OkOK(k) => OkOK(k)'
    <3>1. File(k)' = File(k)
      BY <1>2 DEF File
    <3>2. (\E s \in Servers : job'[s] = k) <=> (\E s \in Servers : job[s] = k)
      BY <1>10
    <3>3. QED BY <1>2, <2>2, <3>1, <3>2 DEF OkOK
  <2>5. CASE k # t
    <3>1. k > t => k > xfer
      BY <1>3, <1>4, <2>1
    <3>2. QED BY <1>2, <1>5, <2>1, <2>2, <2>3, <2>4, <2>5, <3>1 DEF FileOK
  <2>6. CASE k = t
    <3>1. k > xfer /\ ~(k > t)
      BY <1>3, <1>4, <2>1, <2>6
    <3>2. dest[k] = <<>> /\ result[k] = "none"
      BY <2>1, <3>1 DEF FileOK
    <3>3. session[k] = "get" => dest[k] = FilePart(k, block'[Client] - 1)
      <4>1. FilePart(k, 0) = <<>>
        <5>1. FilePart(k, 0) \in Seq(Nat \X Nat) /\ Len(FilePart(k, 0)) = 0
          BY <2>1, PartFacts
        <5>2. QED BY <5>1
      <4>2. session[k] = "get" => block'[Client] - 1 = 0
        BY <1>7, <1>9, <2>6
      <4>3. QED BY <3>2, <4>1, <4>2
    <3>4. QED BY <1>2, <1>5, <2>1, <2>2, <2>3, <2>6, <3>1, <3>2, <3>3 DEF FileOK
  <2>7. QED BY <2>5, <2>6
<1>18. QED BY <1>1, <1>2, <1>13, <1>14, <1>15, <1>16, <1>17, ConstantFacts DEF TftpInv

(* A tftpd that starts had no job, and nothing on its way but errors.      *)
LEMMA StartFacts ==
  ASSUME TftpInv, NEW s \in Servers, NewServer(s)
  PROVE /\ s \in Processes /\ s # Client /\ job[s] = 0 /\ pc[s] = "idle"
        /\ UNCHANGED <<scenario, xfer, result, peer, masked, unread>>
        /\ session' = session /\ size' = size
        /\ \A m \in net : m.from = s /\ m.to = Client =>
             m.body.op # "DATA" /\ m.body.op # "ACK"
        /\ BaseInv /\ BaseInv' /\ Starts(s)
<1>1. BaseInv
  BY DEF TftpInv
<1>2. /\ Starts(s) /\ pc[s] = "idle"
      /\ UNCHANGED <<scenario, xfer, result, peer, masked>>
  BY <1>1, NewServerStarts
<1>3. s \in Processes /\ s # Client
  BY ConstantFacts DEF Processes
<1>4. job[s] = 0
  BY <1>1, <1>2 DEF BaseInv, JobOK
<1>5. \A m \in net : m.from = s /\ m.to = Client =>
        m.body.op # "DATA" /\ m.body.op # "ACK"
  BY <1>4 DEF TftpInv, PacketOK
<1>6. BaseInv'
  BY <1>1, NewServerBase
<1>7. UNCHANGED unread
  BY DEF NewServer, files
<1>8. QED BY <1>1, <1>2, <1>3, <1>4, <1>5, <1>6, <1>7 DEF session, size

(* What a tftpd that starts leaves alone.                                  *)
LEMMA StartKept ==
  ASSUME TftpInv, NEW s \in Servers, NewServer(s), NEW t, job' = [job EXCEPT ![s] = t],
         \A q \in Processes \ {s} : /\ pc'[q] = pc[q] /\ block'[q] = block[q]
                                    /\ sent'[q] = sent[q] /\ bfs'[q] = bfs[q],
         unwritten' = unwritten,
         NEW body, \A o \in net' : o \in net \/ o = Packet(s, Client, body)
  PROVE /\ \A q \in Processes \ {s} : ProcessOK(q)'
        /\ \A m \in net : PacketOK(m)'
        /\ \A k \in DOMAIN session : k # t /\ dest'[k] = dest[k] => FileOK(k)'
        /\ (Getting' <=> Getting) /\ block'[Client] = block[Client]
        /\ \A q \in Servers : job'[q] = IF q = s THEN t ELSE job[q]
<1>1. /\ s \in Processes /\ s # Client /\ job[s] = 0 /\ pc[s] = "idle"
      /\ UNCHANGED <<scenario, xfer, result, peer, masked, unread>>
      /\ session' = session /\ size' = size
      /\ \A m \in net : m.from = s /\ m.to = Client =>
           m.body.op # "DATA" /\ m.body.op # "ACK"
      /\ BaseInv
  BY StartFacts
<1>2. /\ job \in [Processes -> 0..Len(session)] /\ Client \in Processes
      /\ DOMAIN session \subseteq Nat \ {0}
  <2>1. DOMAIN session = 1..Len(session)
    BY <1>1, ScenarioFacts DEF BaseInv, JobOK
  <2>2. QED BY <1>1, <2>1, ConstantFacts DEF BaseInv, JobOK
<1>3. /\ \A q \in Processes \ {s} : job'[q] = job[q]
      /\ job'[s] = t
  BY <1>1, <1>2
<1>4. (Getting' <=> Getting) /\ block'[Client] = block[Client]
  BY <1>1, <1>2 DEF Getting
<1>5. ASSUME NEW q \in Processes \ {s} PROVE ProcessOK(q)'
  <2>1. ProcessOK(q)
    BY DEF TftpInv
  <2>2. /\ pc'[q] = pc[q] /\ block'[q] = block[q] /\ job'[q] = job[q]
        /\ sent'[q] = sent[q] /\ bfs'[q] = bfs[q]
    BY <1>3
  <2>3. Sends(q)' <=> Sends(q)
    BY <1>1, <2>2 DEF Sends
  <2>4. Sending(q) => Sending(q)'
    BY <1>1, <1>4, <2>2 DEF Sending, Request
  <2>5. Receiving(q) => Receiving(q)'
    BY <1>1, <2>2 DEF Receiving, Request
  <2>6. Dallying(q) => Dallying(q)'
    BY <1>1, <2>2 DEF Dallying
  <2>7. QED BY <2>1, <2>2, <2>3, <2>4, <2>5, <2>6 DEF ProcessOK
<1>6. ASSUME NEW m \in net PROVE PacketOK(m)'
  <2>1. PacketOK(m)
    BY DEF TftpInv
  <2>2. \A k : IsBlock(m.body, k)' <=> IsBlock(m.body, k)
    BY <1>1 DEF IsBlock
  <2>3. m.to = Client /\ m.body.op \in {"DATA", "ACK"} => job'[m.from] = job[m.from]
    <3>1. ASSUME m.to = Client, m.body.op \in {"DATA", "ACK"}
          PROVE job'[m.from] = job[m.from]
      <4>1. m.from \in Servers /\ m.from # s
        BY <1>1, <2>1, <3>1 DEF PacketOK
      <4>2. QED BY <1>3, <4>1 DEF Processes
    <3>2. QED BY <3>1
  <2>4. QED BY <1>1, <1>4, <2>1, <2>2, <2>3 DEF PacketOK
<1>7. ASSUME NEW k \in DOMAIN session, k # t, dest'[k] = dest[k] PROVE FileOK(k)'
  <2>1. FileOK(k) /\ k # 0
    BY <1>2 DEF TftpInv
  <2>2. \A q \in Servers : job'[q] = k <=> job[q] = k
    BY <1>1, <1>3, <1>7, <2>1 DEF Processes
  <2>3. Alone(k)' <=> Alone(k)
    BY <2>2 DEF Alone
  <2>4. PutOK(k) => PutOK(k)'
    <3>1. SUFFICES ASSUME PutOK(k), NEW q \in Servers, job[q] = k
                   PROVE /\ dest[k] = FilePart(k, Len(dest[k]))
                         /\ pc'[q] = "wait" => Len(dest[k]) = block'[q] - 1
                         /\ pc'[q] = "dally" => Len(dest[k]) = size
                         /\ \A m \in net' : m.from = q /\ m.to = Client
                               /\ m.body.op = "ACK" => m.body.block <= Len(dest[k])
      BY <1>1, <1>7, <2>2 DEF PutOK
    <3>2. q # s /\ q \in Processes
      BY <1>1, <2>1, <3>1 DEF Processes
    <3>3. \A m \in net' : m.from = q => m \in net
      BY <3>2 DEF Packet
    <3>4. QED BY <3>1, <3>2, <3>3 DEF PutOK
  <2>5. OkOK(k) => OkOK(k)'
    <3>1. File(k)' = File(k)
      BY <1>1 DEF File
    <3>2. (\E q \in Servers : job'[q] = k) <=> (\E q \in Servers : job[q] = k)
      BY <2>2
    <3>3. QED BY <1>1, <1>7, <2>3, <3>1, <3>2 DEF OkOK
  <2>6. pc'[Client] = pc[Client]
    BY <1>1, <1>2
  <2>7. QED BY <1>1, <1>4, <1>7, <2>1, <2>3, <2>4, <2>5, <2>6 DEF FileOK
<1>8. \A q \in Servers : job'[q] = IF q = s THEN t ELSE job[q]
  BY <1>3 DEF Processes
<1>9. QED BY <1>4, <1>5, <1>6, <1>7, <1>8

(* A tftpd starts for a get, for a put, or refuses.                        *)
LEMMA NewServerKept ==
  ASSUME TftpInv, NEW s \in Servers, NewServer(s)
  PROVE TftpInv'
<1>1. /\ s \in Processes /\ s # Client /\ job[s] = 0 /\ pc[s] = "idle"
      /\ UNCHANGED <<scenario, xfer, result, peer, masked, unread>>
      /\ session' = session /\ size' = size
      /\ \A m \in net : m.from = s /\ m.to = Client =>
           m.body.op # "DATA" /\ m.body.op # "ACK"
      /\ BaseInv /\ BaseInv' /\ Starts(s)
  BY StartFacts
<1>2. /\ scenario \in Scenarios /\ DOMAIN session = 1..Len(session)
      /\ size \in Nat /\ size # 0 /\ xfer \in 0..Len(session) /\ Len(session) \in Nat
      /\ pc \in [Processes -> {"idle", "wait", "dally", "exit"}]
      /\ job \in [Processes -> 0..Len(session)]
      /\ block \in [Processes -> Nat] /\ sent \in [Processes -> Bodies]
      /\ bfs \in [Processes -> BufferType]
      /\ BlockMod \in Nat /\ BlockMod # 0 /\ Client \notin Servers /\ Client \in Processes
  BY <1>1, ScenarioFacts, ConstantFacts DEF BaseInv, JobOK, WireOK, BuffersOK
<1>3. /\ tries \in [Processes -> 0..(MaxTimeouts - 1)] /\ 0 \in 0..(MaxTimeouts - 1)
      /\ dest \in [DOMAIN session -> Seq(Nat \X Nat)]
      /\ \A q \in Processes : block[q] <= size
  BY ConstantFacts DEF TftpInv, RangeOK
<1>4. ASSUME NEW n, NEW body, NEW b, Waits(s, n, body, b)
      PROVE /\ \A q \in Processes \ {s} : /\ pc'[q] = pc[q] /\ block'[q] = block[q]
                                          /\ sent'[q] = sent[q] /\ bfs'[q] = bfs[q]
            /\ pc'[s] = "wait" /\ block'[s] = n /\ sent'[s] = body /\ bfs'[s] = b
            /\ tries' \in [Processes -> 0..(MaxTimeouts - 1)]
  BY <1>1, <1>2, <1>3, <1>4 DEF Waits
<1>5. 1 \in 1..size /\ 1 <= size /\ 1 <= BlockMod /\ 1 # 0
  BY <1>2
<1>6. Getting => 1 <= block[Client]
  <2>1. Getting => ~Sends(Client) /\ pc[Client] = "wait"
    BY DEF Getting, Sends
  <2>2. Getting => block[Client] \in 1..size
    BY <1>2, <2>1 DEF TftpInv, ProcessOK, Receiving
  <2>3. QED BY <1>2, <2>2
<1>7. PICK m \in net :
       LET t == m.body.data[1] IN
       \/ /\ m.body = Request(t) /\ t \in 1..xfer /\ session[t] = "get"
          /\ \E b : /\ b \in BufferType /\ SendBuf(b, t, 1)
                    /\ Waits(s, 1, Data(1 % BlockMod, <<t, 1>>), b)
          /\ job' = [job EXCEPT ![s] = t] /\ UNCHANGED files
          /\ \A o \in net' : o \in net \/
               o = Packet(s, Client, Data(1 % BlockMod, <<t, 1>>))
       \/ /\ m.body = Request(t) /\ t \in 1..xfer /\ session[t] = "put"
          /\ Waits(s, 1, Ack(0), rw_init(0))
          /\ job' = [job EXCEPT ![s] = t]
          /\ dest' = [dest EXCEPT ![t] = <<>>] /\ UNCHANGED <<unwritten, unread>>
          /\ \A o \in net' : o \in net \/ o = Packet(s, Client, Ack(0))
       \/ /\ pc' = [pc EXCEPT ![s] = "exit"]
          /\ UNCHANGED <<job, block, tries, sent, bfs, files>>
          /\ \A o \in net' : o \in net \/ o = Packet(s, Client, Error)
  BY <1>1 DEF Starts
<1>8. PICK t : t = m.body.data[1]
  OBVIOUS
<1>9. CASE /\ t \in 1..xfer /\ session[t] = "get"
           /\ \E b : /\ b \in BufferType /\ SendBuf(b, t, 1)
                     /\ Waits(s, 1, Data(1 % BlockMod, <<t, 1>>), b)
           /\ job' = [job EXCEPT ![s] = t] /\ UNCHANGED files
           /\ \A o \in net' : o \in net \/
                o = Packet(s, Client, Data(1 % BlockMod, <<t, 1>>))
  <2>0. PICK d : d = Data(1 % BlockMod, <<t, 1>>)
    OBVIOUS
  <2>1. PICK b : SendBuf(b, t, 1) /\ Waits(s, 1, d, b)
    BY <1>9, <2>0
  <2>2. /\ \A q \in Processes \ {s} : /\ pc'[q] = pc[q] /\ block'[q] = block[q]
                                      /\ sent'[q] = sent[q] /\ bfs'[q] = bfs[q]
        /\ pc'[s] = "wait" /\ block'[s] = 1 /\ sent'[s] = d /\ bfs'[s] = b
        /\ tries' \in [Processes -> 0..(MaxTimeouts - 1)]
    BY <1>4, <2>1
  <2>3. /\ \A o \in net' : o \in net \/ o = Packet(s, Client, d)
        /\ unwritten' = unwritten /\ dest' = dest
        /\ job' = [job EXCEPT ![s] = t]
    BY <1>9, <2>0 DEF files
  <2>4. /\ \A q \in Processes \ {s} : ProcessOK(q)'
        /\ \A o \in net : PacketOK(o)'
        /\ \A k \in DOMAIN session : k # t /\ dest'[k] = dest[k] => FileOK(k)'
        /\ (Getting' <=> Getting) /\ block'[Client] = block[Client]
        /\ \A q \in Servers : job'[q] = IF q = s THEN t ELSE job[q]
    BY <2>2, <2>3, StartKept, ZenonT(60)
  <2>5. job'[s] = t /\ t # 0 /\ t \in 1..Len(session) /\ t \in Nat
    BY <1>2, <1>9, <2>4
  <2>6. ProcessOK(s)'
    <3>1. Sends(s)'
      BY <1>1, <1>9, <2>5 DEF Sends
    <3>2. Sending(s)'
      BY <1>1, <1>5, <1>6, <2>0, <2>1, <2>2, <2>4, <2>5 DEF Sending
    <3>3. QED BY <2>2, <3>1, <3>2 DEF ProcessOK
  <2>7. ASSUME NEW o, o = Packet(s, Client, d) PROVE PacketOK(o)'
    <3>1. o.from = s /\ o.to = Client /\ o.body = d
      BY <2>7 DEF Packet
    <3>2. d.op = "DATA" /\ d.data = <<t, 1>>
      BY <2>0 DEF Data
    <3>3. d.data[2] = 1
      BY <3>2
    <3>4. IsBlock(d, t)'
      BY <1>1, <1>5, <2>0, <3>3 DEF IsBlock
    <3>5. QED BY <1>1, <1>2, <1>6, <1>9, <2>4, <2>5, <3>1, <3>2, <3>3, <3>4 DEF PacketOK
  <2>8. ASSUME NEW k \in DOMAIN session PROVE FileOK(k)'
    <3>1. CASE k # t
      BY <2>3, <2>4, <3>1
    <3>2. CASE k = t
      <4>1. FileOK(k) /\ session[k] # "put"
        BY <1>9, <3>2 DEF TftpInv
      <4>2. OkOK(k) => OkOK(k)'
        BY <1>1, <2>3, <4>1 DEF OkOK, File
      <4>3. pc'[Client] = pc[Client]
        BY <1>1, <1>2, <2>2
      <4>4. QED BY <1>1, <2>3, <2>4, <4>1, <4>2, <4>3 DEF FileOK
    <3>3. QED BY <3>1, <3>2
  <2>9. \A q \in Processes : block'[q] <= size
    BY <1>3, <1>5, <2>2
  <2>10. RangeOK'
    BY <1>1, <2>2, <2>3, <2>9 DEF TftpInv, RangeOK
  <2>11. \A o \in net' : PacketOK(o)'
    BY <2>3, <2>4, <2>7
  <2>12. \A q \in Processes : ProcessOK(q)'
    BY <2>4, <2>6
  <2>13. QED BY <1>1, <2>8, <2>10, <2>11, <2>12 DEF TftpInv
<1>10. CASE /\ t \in 1..xfer /\ session[t] = "put"
            /\ Waits(s, 1, Ack(0), rw_init(0))
            /\ job' = [job EXCEPT ![s] = t]
            /\ dest' = [dest EXCEPT ![t] = <<>>] /\ UNCHANGED <<unwritten, unread>>
            /\ \A o \in net' : o \in net \/ o = Packet(s, Client, Ack(0))
  <2>0. PICK a : a = Ack(0)
    OBVIOUS
  <2>1. Waits(s, 1, a, rw_init(0)) /\ unwritten' = unwritten
    BY <1>10, <2>0
  <2>2. /\ \A q \in Processes \ {s} : /\ pc'[q] = pc[q] /\ block'[q] = block[q]
                                      /\ sent'[q] = sent[q] /\ bfs'[q] = bfs[q]
        /\ pc'[s] = "wait" /\ block'[s] = 1 /\ sent'[s] = a /\ bfs'[s] = rw_init(0)
        /\ tries' \in [Processes -> 0..(MaxTimeouts - 1)]
    BY <1>4, <2>1
  <2>3. \A o \in net' : o \in net \/ o = Packet(s, Client, a)
    BY <1>10, <2>0
  <2>4. /\ \A q \in Processes \ {s} : ProcessOK(q)'
        /\ \A o \in net : PacketOK(o)'
        /\ \A k \in DOMAIN session : k # t /\ dest'[k] = dest[k] => FileOK(k)'
        /\ (Getting' <=> Getting) /\ block'[Client] = block[Client]
        /\ \A q \in Servers : job'[q] = IF q = s THEN t ELSE job[q]
    BY <1>10, <2>1, <2>2, <2>3, StartKept, ZenonT(60)
  <2>5. job'[s] = t /\ t # 0 /\ t \in 1..Len(session) /\ t \in Nat /\ t <= xfer
    BY <1>2, <1>10, <2>4
  <2>6. /\ dest' \in [DOMAIN session -> Seq(Nat \X Nat)] /\ dest'[t] = <<>>
        /\ \A k \in DOMAIN session : k # t => dest'[k] = dest[k]
    BY <1>2, <1>3, <1>10, <2>5
  <2>7. a.op = "ACK" /\ a.block = 0
    <3>1. 0 % BlockMod = 0
      BY <1>2, ModFacts
    <3>2. QED BY <2>0, <3>1 DEF Ack
  <2>8. ProcessOK(s)'
    <3>1. ~Sends(s)'
      BY <1>1, <1>10, <2>5 DEF Sends
    <3>2. rw_init(0).pos = 0
      BY InitFacts
    <3>3. 1 - 1 = 0 /\ 0 <= 0
      OBVIOUS
    <3>4. Receiving(s)'
      BY <1>1, <1>5, <2>0, <2>2, <3>2, <3>3 DEF Receiving
    <3>5. QED BY <2>2, <3>1, <3>4 DEF ProcessOK
  <2>9. ASSUME NEW o, o = Packet(s, Client, a) PROVE PacketOK(o)'
    <3>1. o.from = s /\ o.to = Client /\ o.body = a
      BY <2>9 DEF Packet
    <3>2. 0 < BlockMod
      BY <1>2
    <3>3. QED BY <1>1, <1>2, <1>10, <2>5, <2>7, <3>1, <3>2 DEF PacketOK
  <2>10. FileOK(t)'
    <3>1. FileOK(t)
      BY <1>2, <2>5 DEF TftpInv
    <3>2. Len(dest'[t]) = 0 /\ DOMAIN dest'[t] = {} /\ dest'[t] \in Seq(Nat \X Nat)
      BY <1>2, <2>5, <2>6
    <3>3. ASSUME Alone(t)' PROVE PutOK(t)'
      <4>1. \A q \in Servers : job'[q] = t => q = s
        BY <2>5, <3>3 DEF Alone
      <4>2. FilePart(t, 0) = <<>>
        <5>1. FilePart(t, 0) \in Seq(Nat \X Nat) /\ Len(FilePart(t, 0)) = 0
          BY <2>5, PartFacts
        <5>2. QED BY <5>1
      <4>3. \A o \in net' : o.from = s /\ o.to = Client /\ o.body.op = "ACK" =>
              o.body.block <= 0
        <5>1. ASSUME NEW o \in net', o.from = s, o.to = Client, o.body.op = "ACK"
              PROVE o.body.block <= 0
          <6>1. o = Packet(s, Client, a)
            BY <1>1, <2>3, <5>1
          <6>2. o.body = a
            BY <6>1 DEF Packet
          <6>3. QED BY <2>7, <6>2
        <5>2. QED BY <5>1
      <4>4. 0 = 1 - 1
        OBVIOUS
      <4>5. QED BY <2>2, <2>6, <3>2, <4>1, <4>2, <4>3, <4>4 DEF PutOK
    <3>4. ASSUME result[t] = "ok", t \notin unread PROVE OkOK(t)'
      <4>1. size < BlockMod /\ \E q \in Servers : job[q] = t
        BY <1>10, <3>1, <3>4 DEF FileOK, OkOK
      <4>2. PICK q \in Servers : job[q] = t
        BY <4>1
      <4>3. q # s /\ job'[q] = t
        BY <1>1, <2>4, <2>5, <4>2
      <4>4. ~Alone(t)'
        BY <2>5, <4>3 DEF Alone
      <4>5. QED BY <1>1, <1>10, <4>1, <4>3, <4>4 DEF OkOK
    <3>5. pc'[Client] = pc[Client]
      BY <1>1, <1>2, <2>2
    <3>6. 0 <= size /\ ~(t > xfer) /\ session[t] # "get"
      BY <1>2, <1>10, <2>5
    <3>7. t = xfer /\ pc'[Client] = "wait" => result'[t] = "none"
      BY <1>1, <3>1, <3>5 DEF FileOK
    <3>8. QED BY <1>1, <3>2, <3>3, <3>4, <3>6, <3>7 DEF FileOK
  <2>11. ASSUME NEW k \in DOMAIN session PROVE FileOK(k)'
    <3>1. CASE k # t
      BY <2>4, <2>6, <3>1
    <3>2. CASE k = t
      BY <2>10, <3>2
    <3>3. QED BY <3>1, <3>2
  <2>12. \A q \in Processes : block'[q] <= size
    BY <1>3, <1>5, <2>2
  <2>13. RangeOK'
    BY <1>1, <2>1, <2>2, <2>6, <2>12 DEF TftpInv, RangeOK
  <2>14. \A o \in net' : PacketOK(o)'
    BY <2>3, <2>4, <2>9
  <2>15. \A q \in Processes : ProcessOK(q)'
    BY <2>4, <2>8
  <2>16. QED BY <1>1, <2>11, <2>13, <2>14, <2>15 DEF TftpInv
<1>11. CASE /\ pc' = [pc EXCEPT ![s] = "exit"]
            /\ UNCHANGED <<job, block, tries, sent, bfs, files>>
            /\ \A o \in net' : o \in net \/ o = Packet(s, Client, Error)
  <2>1. job' = [job EXCEPT ![s] = 0] /\ unwritten' = unwritten /\ dest' = dest
    BY <1>1, <1>2, <1>11 DEF files
  <2>2. \A q \in Processes \ {s} : /\ pc'[q] = pc[q] /\ block'[q] = block[q]
                                   /\ sent'[q] = sent[q] /\ bfs'[q] = bfs[q]
    BY <1>2, <1>11
  <2>3. /\ \A q \in Processes \ {s} : ProcessOK(q)'
        /\ \A o \in net : PacketOK(o)'
        /\ \A k \in DOMAIN session : k # 0 /\ dest'[k] = dest[k] => FileOK(k)'
    <3>1. PICK z, e : z = 0 /\ e = Error
      OBVIOUS
    <3>2. /\ job' = [job EXCEPT ![s] = z]
          /\ \A o \in net' : o \in net \/ o = Packet(s, Client, e)
          /\ unwritten' = unwritten
      BY <1>11, <2>1, <3>1
    <3>3. /\ \A q \in Processes \ {s} : ProcessOK(q)'
          /\ \A o \in net : PacketOK(o)'
          /\ \A k \in DOMAIN session : k # z /\ dest'[k] = dest[k] => FileOK(k)'
      BY <2>2, <3>2, StartKept
    <3>4. QED BY <3>1, <3>3
  <2>4. ProcessOK(s)'
    <3>1. pc'[s] = "exit"
      BY <1>1, <1>2, <1>11
    <3>2. QED BY <3>1 DEF ProcessOK
  <2>5. ASSUME NEW o, o = Packet(s, Client, Error) PROVE PacketOK(o)'
    <3>1. o.from = s /\ o.to = Client /\ o.body.op = "ERROR"
      BY <2>5 DEF Packet, Error
    <3>2. QED BY <1>2, <3>1 DEF PacketOK
  <2>6. \A k \in DOMAIN session : FileOK(k)'
    BY <1>2, <2>1, <2>3
  <2>7. RangeOK'
    BY <1>1, <1>11, <2>1 DEF TftpInv, RangeOK
  <2>8. QED BY <1>1, <1>11, <2>3, <2>4, <2>5, <2>6, <2>7 DEF TftpInv
<1>12. QED BY <1>7, <1>8, <1>9, <1>10, <1>11

-----------------------------------------------------------------------------
(* The invariant holds at the start.                                       *)
LEMMA InitKept ==
  Init => TftpInv
<1> SUFFICES ASSUME Init PROVE TftpInv
  OBVIOUS
<1>1. BaseInv
  BY InitBase
<1>2. /\ scenario \in Scenarios /\ xfer = 0 /\ result = [t \in DOMAIN session |-> "none"]
      /\ pc = [p \in Processes |-> "idle"] /\ job = [p \in Processes |-> 0]
      /\ block = [p \in Processes |-> 0] /\ tries = [p \in Processes |-> 0]
      /\ peer = WellKnown /\ masked = FALSE /\ dest = [t \in DOMAIN session |-> <<>>]
      /\ net = {} /\ unwritten = {} /\ unread = {}
  BY DEF Init
<1>3. /\ size \in Nat /\ size # 0 /\ DOMAIN session = 1..Len(session)
      /\ Client \in Processes /\ MaxTimeouts \in Nat /\ MaxTimeouts # 0
      /\ Servers \subseteq Processes
  BY <1>2, ScenarioFacts, ConstantFacts DEF Processes
<1>4. RangeOK
  <2>1. 0 \in 0..(MaxTimeouts - 1) /\ 0 <= size /\ <<>> \in Seq(Nat \X Nat)
    BY <1>3
  <2>2. QED BY <1>2, <2>1 DEF RangeOK
<1>5. \A p \in Processes : ProcessOK(p)
  BY <1>2 DEF ProcessOK
<1>6. ASSUME NEW t \in DOMAIN session PROVE FileOK(t)
  <2>1. dest[t] = <<>> /\ result[t] = "none"
    BY <1>2
  <2>2. t # 0 /\ pc[Client] = "idle" /\ \A s \in Servers : job[s] = 0
    BY <1>2, <1>3
  <2>3. Len(dest[t]) = 0 /\ DOMAIN dest[t] = {} /\ dest[t] \in Seq(Nat \X Nat)
    BY <2>1
  <2>4. PutOK(t)
    BY <2>2 DEF PutOK
  <2>5. 0 <= size
    BY <1>3
  <2>6. QED BY <2>1, <2>2, <2>3, <2>4, <2>5 DEF FileOK
<1>7. QED BY <1>1, <1>2, <1>4, <1>5, <1>6 DEF TftpInv

(* Every step keeps it.                                                    *)
LEMMA NextKept ==
  ASSUME OneOfEach, OneOfEach', TftpInv, [Next]_vars
  PROVE TftpInv'
<1>1. CASE Begin
  BY <1>1, BeginKept
<1>2. ASSUME NEW s \in Servers, NewServer(s) PROVE TftpInv'
  BY <1>2, NewServerKept
<1>3. ASSUME NEW s \in Servers, Server(s) PROVE TftpInv'
  BY <1>3, DallyKept
<1>4. ASSUME NEW p \in Processes, Step(p) \/ Dies(p) PROVE TftpInv'
  BY <1>4, TimerKept, AcknowledgedKept, ReceivedKept, ResynchroniseKept,
     IgnoreKept, RefusedKept, DiesKept DEF Step
<1>5. CASE UNCHANGED vars
  <2>1. /\ UNCHANGED <<scenario, xfer, result, pc, job, block, tries, sent, bfs>>
        /\ UNCHANGED <<peer, masked, dest, unwritten, unread, net>>
        /\ session' = session /\ size' = size
    BY <1>5 DEF vars, proc, files, session, size
  <2>2. BaseInv'
    BY <1>5, NextBase DEF TftpInv
  <2>3. RangeOK'
    BY <2>1 DEF TftpInv, RangeOK
  <2>4. Getting' <=> Getting
    BY <2>1 DEF Getting
  <2>5. \A p \in Processes : ProcessOK(p)'
    BY <2>1, <2>4 DEF TftpInv, ProcessOK, Sending, Receiving, Dallying, Sends, Request
  <2>6. \A m \in net' : PacketOK(m)'
    BY <2>1, <2>4 DEF TftpInv, PacketOK, IsBlock
  <2>7. ASSUME NEW t \in DOMAIN session PROVE FileOK(t)'
    <3>1. FileOK(t)
      BY DEF TftpInv
    <3>2. (PutOK(t)' <=> PutOK(t)) /\ (Alone(t)' <=> Alone(t))
      BY <2>1 DEF PutOK, Alone
    <3>3. OkOK(t)' <=> OkOK(t)
      BY <2>1, <3>2 DEF OkOK, File
    <3>4. QED BY <2>1, <3>1, <3>2, <3>3 DEF FileOK
  <2>8. QED BY <2>1, <2>2, <2>3, <2>5, <2>6, <2>7 DEF TftpInv
<1>6. QED BY <1>1, <1>2, <1>3, <1>4, <1>5 DEF Next, Done

(* What the invariant says to the user.                                    *)
LEMMA TftpInvDelivered ==
  TftpInv => Delivered
<1> SUFFICES ASSUME TftpInv PROVE Delivered
  OBVIOUS
<1>1. JobOK /\ RangeOK /\ block \in [Processes -> Nat] /\ scenario \in Scenarios
  BY DEF TftpInv, BaseInv, JobOK, BuffersOK
<1>2. size \in Nat /\ DOMAIN session = 1..Len(session) /\ BlockMod \in Nat
  BY <1>1, ScenarioFacts, ConstantFacts
<1>3. TypeOK
  <2>1. \A p \in Processes : block[p] \in 0..(size + 1)
    BY <1>1, <1>2 DEF RangeOK
  <2>2. block \in [Processes -> 0..(size + 1)]
    BY <1>1, <2>1
  <2>3. \A t \in DOMAIN session : Len(dest[t]) <= size
    BY DEF TftpInv, FileOK
  <2>4. QED BY <1>1, <2>2, <2>3 DEF TypeOK, JobOK, RangeOK
<1>4. TransferComplete
  <2>1. SUFFICES ASSUME NEW t \in DOMAIN session \ (unwritten \cup unread), result[t] = "ok",
                        session[t] = "put" =>
                          Cardinality({s \in Servers : job[s] = t}) <= 1
                 PROVE  dest[t] = File(t)
    BY DEF TransferComplete
  <2>2. session[t] = "put" => Alone(t)
    BY <1>1, <1>2, <2>1, AloneFacts
  <2>3. OkOK(t)
    BY <2>1 DEF TftpInv, FileOK
  <2>4. QED BY <2>1, <2>2, <2>3 DEF OkOK
<1>5. NothingMisplaced
  BY DEF TftpInv, FileOK, NothingMisplaced
<1>6. LargeFilesFail
  <2>1. SUFFICES ASSUME size >= BlockMod, NEW t \in DOMAIN session \ unread
                 PROVE  result[t] # "ok"
    BY DEF LargeFilesFail
  <2>2. result[t] = "ok" => size < BlockMod
    BY DEF TftpInv, FileOK, OkOK
  <2>3. QED BY <1>2, <2>1, <2>2
<1>7. QED BY <1>3, <1>4, <1>5, <1>6 DEF Delivered

(* The commands given stay given.                                          *)
LEMMA OneOfEachBefore ==
  ASSUME BaseInv, [Next]_vars, OneOfEach'
  PROVE OneOfEach
<1>1. xfer \in Nat
  BY ScenarioFacts DEF BaseInv, JobOK
<1>2. scenario' = scenario /\ (xfer' = xfer \/ xfer' = xfer + 1)
  BY DEF Next, vars, Begin, NewServer, Server, Dally, DallyEnds, Step, Timer,
         Acknowledged, Received, Resynchronise, Ignore, Refused, Dies, Done
<1>3. QED BY <1>1, <1>2 DEF OneOfEach, session

(* Whatever was lost, delayed, duplicated or reordered, however many tftpd *)
(* answered and whoever died: a file that get reports as received, or put  *)
(* as sent (to one tftpd, with every read () and write () done), is the    *)
(* file, no block is written to a wrong place, and a file whose block      *)
(* numbers wrap is reported as failed; in every session, until a second    *)
(* command of one kind is given.                                           *)
THEOREM FilesDelivered ==
  Spec => [](OneOfEach => Delivered)
<1> DEFINE SoFar == BaseInv /\ (OneOfEach => TftpInv)
<1>1. Init => SoFar
  BY InitBase, InitKept
<1>2. SoFar /\ [Next]_vars => SoFar'
  BY NextBase, NextKept, OneOfEachBefore
<1>3. SoFar => (OneOfEach => Delivered)
  BY TftpInvDelivered
<1>4. QED BY <1>1, <1>2, <1>3, PTL DEF Spec

===============================================================================
