----------------------------- MODULE InetdProofs -----------------------------
(* Proofs about Inetd, for any set of services, any configurations and any *)
(* bounds.                                                                 *)
EXTENDS Inetd, FiniteSetTheorems, TLAPS

(* The services some configuration wants to be waited for.                 *)
WaitServices ==
  {s \in Services : \E f \in Configs : \E i \in DOMAIN f :
                      \E e \in f[i] : e.s = s /\ e.w = 1}

(* The administrator does not turn a wait service into a nowait one: enter *)
(* would forget the server that has the socket.                            *)
WaitKept ==
  \A s \in WaitServices : \A f \in Configs : \A i \in DOMAIN f :
    \A e \in f[i] : e.s = s => e.w = 1

(* The administrator does not take wait services out, and keeps them in    *)
(* the first file: nextconfig purges what the files read so far do not     *)
(* name, and with it forgets the server.                                   *)
WaitStays ==
  \A s \in WaitServices : \A f \in Configs : \E e \in f[1] : e.s = s

(* Process ids tell the children apart.                                    *)
PidsUnique == \A c, d \in children : c.pid = d.pid => c = d

(* A service that is waited for has its socket open and not with select ().*)
WaitedFor == \A s \in Services : wait[s] > 1 => s \in sock \ allsock

(* The scan does not start a second server for it.                         *)
ScanFree == \A s \in readable : wait[s] <= 1

(* What the unconditional part of SocketsWatched needs.                    *)
CountInv == TypeOK /\ NsockCounts /\ WaitedFor /\ ScanFree

(* Only wait services are waited for.                                      *)
WaitFits == \A s \in Services : wait[s] # 0 => s \in WaitServices

(* What is purged was not named by the first file.                         *)
FirstFileSeen == cfg > 1 => \A e \in files[1] : e.s \in checked

(* A wait service is never marked nowait, and its server, while it runs,   *)
(* is the one waited for.                                                  *)
ServerWaitedFor ==
  /\ \A s \in table \cap WaitServices : wait[s] # 0
  /\ \A c \in children : c.alive /\ c.s \in WaitServices => wait[c.s] = c.pid
-----------------------------------------------------------------------------
(* The steps that change neither the table nor the set of select ().       *)
Quiet == \/ Hup \/ Select \/ EndScan \/ Edit
         \/ \E s \in Services : ForkFails(s) \/ RunInternal(s) \/ Ask(s)
         \/ \E pid \in Pids : Server(pid)

(* The steps of inetd and its surroundings, one by one.                    *)
LEMMA NextCases ==
  ASSUME [Next]_vars
  PROVE \/ NextConfig \/ Retry \/ ReapChild
        \/ \E s \in Services : Invoke(s) \/ Terminate(s)
        \/ Quiet \/ UNCHANGED vars
BY DEF Next, Main, Quiet

(* Process ids are larger than the values 0 and 1 of se_wait.              *)
LEMMA PidLarge ==
  ASSUME NEW p \in Pids
  PROVE p \in Nat /\ p > 1
<1>1. p \in Nat /\ p # 0 /\ p # 1
  BY InetdConstants
<1>2. QED BY <1>1

(* A part of the services is finite.                                       *)
LEMMA ServicesFinite ==
  ASSUME NEW S, S \subseteq Services
  PROVE IsFiniteSet(S) /\ Cardinality(S) \in Nat
BY InetdConstants, FS_Subset, FS_CardinalityType

(* Sets with nothing in common are counted one after the other.            *)
LEMMA CountDisjoint ==
  ASSUME NEW S, NEW T, S \subseteq Services, T \subseteq Services, S \cap T = {}
  PROVE Cardinality(S \cup T) = Cardinality(S) + Cardinality(T)
<1>1. IsFiniteSet(S) /\ IsFiniteSet(T)
  BY ServicesFinite
<1>2. Cardinality(S) \in Nat /\ Cardinality(T) \in Nat /\ Cardinality(S \cap T) = 0
  BY ServicesFinite, FS_EmptySet
<1>3. Cardinality(S \cup T) =
        Cardinality(S) + Cardinality(T) - Cardinality(S \cap T)
  BY <1>1, FS_Union
<1>4. QED BY <1>2, <1>3

(* A file names services, and the entry chosen for one is an entry.        *)
LEMMA FileEntries ==
  ASSUME TypeOK, cfg \in 1..Len(files)
  PROVE files[cfg] \subseteq Entry /\ cfg \in DOMAIN files /\ files \in Configs
BY InetdConstants DEF TypeOK

(* enter leaves se_wait with the values it may have.                       *)
LEMMA EnteredType ==
  ASSUME TypeOK, cfg \in 1..Len(files), NEW s \in Services,
         \E e \in files[cfg] : e.s = s
  PROVE LET c == CHOOSE e \in files[cfg] : e.s = s
        IN  /\ c \in files[cfg] /\ c \in Entry /\ c.s = s /\ c.w \in {0, 1}
            /\ EnteredWait(c) =
                 IF s \in table /\ (Kind[s] = "internal" \/ (wait[s] # 1 /\ c.w = 1))
                   THEN wait[s] ELSE c.w
<1> DEFINE c == CHOOSE e \in files[cfg] : e.s = s
<1>1. c \in files[cfg] /\ c.s = s
  OBVIOUS
<1>2. c \in Entry
  BY <1>1, FileEntries
<1>3. c.w \in {0, 1}
  BY <1>2 DEF Entry
<1>4. EnteredWait(c) =
        IF s \in table /\ (Kind[s] = "internal" \/ (wait[s] # 1 /\ c.w = 1))
          THEN wait[s] ELSE c.w
  BY <1>1 DEF EnteredWait
<1>5. QED BY <1>1, <1>2, <1>3, <1>4

(* What nextconfig does to the table, for the services opened.             *)
Reread(names, seen, gone, opened) ==
  /\ names = {e.s : e \in files[cfg]}
  /\ seen = checked \cup names /\ gone = table \ seen
  /\ opened \subseteq names \ sock
  /\ faults + Cardinality((names \ sock) \ opened) <= MaxFaults
  /\ checked' = seen
  /\ table' = (table \cup names) \ gone
  /\ sock' = (sock \cup opened) \ gone
  /\ allsock' = (allsock \cup opened) \ gone
  /\ nsock' = nsock + Cardinality(opened) - Cardinality(gone \cap sock)
  /\ wait' = [s \in Services |->
       IF \E e \in files[cfg] : e.s = s
         THEN EnteredWait(CHOOSE e \in files[cfg] : e.s = s)
         ELSE IF s \in gone THEN 0 ELSE wait[s]]
  /\ count' = [s \in Services |->
       IF s \in gone \/ s \in names \ table THEN 0 ELSE count[s]]
  /\ timingout' \in {timingout, TRUE}
  /\ pending' = pending \ gone
  /\ faults' = faults + Cardinality((names \ sock) \ opened)
  /\ retried' = retried \ gone
  /\ uncounted' = uncounted + Cardinality((gone \cap sock) \ allsock)

(* nextconfig, with its locals named.                                      *)
LEMMA NextConfigRereads ==
  ASSUME NextConfig, TypeOK
  PROVE \E names, seen, gone, opened : Reread(names, seen, gone, opened)
<1> DEFINE n == {e.s : e \in files[cfg]}
           g == table \ (checked \cup n)
<1>1. PICK o \in Opened(n \ sock) :
       /\ checked' = checked \cup n
       /\ table' = (table \cup n) \ g
       /\ sock' = (sock \cup o) \ g
       /\ allsock' = (allsock \cup o) \ g
       /\ nsock' = nsock + Cardinality(o) - Cardinality(g \cap sock)
       /\ wait' = [s \in Services |->
            IF \E e \in files[cfg] : e.s = s
              THEN EnteredWait(CHOOSE e \in files[cfg] : e.s = s)
              ELSE IF s \in g THEN 0 ELSE wait[s]]
       /\ count' = [s \in Services |->
            IF s \in g \/ s \in n \ table THEN 0 ELSE count[s]]
       /\ \E alarm \in Alarms((n \ sock) \ o) : timingout' = (timingout \/ alarm)
       /\ pending' = pending \ g
       /\ faults' = faults + Cardinality((n \ sock) \ o)
       /\ retried' = retried \ g
       /\ uncounted' = uncounted + Cardinality((g \cap sock) \ allsock)
  BY DEF NextConfig
<1>0. timingout' \in {timingout, TRUE}
  <2>1. PICK alarm \in Alarms((n \ sock) \ o) : timingout' = (timingout \/ alarm)
    BY <1>1
  <2>2. alarm \in BOOLEAN /\ timingout \in BOOLEAN
    BY DEF Alarms, TypeOK
  <2>3. QED BY <2>1, <2>2
<1>2. o \subseteq n \ sock /\ faults + Cardinality((n \ sock) \ o) <= MaxFaults
  BY <1>1 DEF Opened
<1>3. Reread(n, checked \cup n, g, o)
  BY <1>0, <1>1, <1>2 DEF Reread
<1>4. QED BY <1>3

(* Each step keeps the types; close_sep and retry keep open sockets inside *)
(* the table, and what reapchild gives back is open.                       *)
LEMMA TypeStep ==
  ASSUME TypeOK, WaitedFor, [Next]_vars
  PROVE TypeOK'
<1>0. CASE UNCHANGED vars
  BY <1>0 DEF TypeOK, vars, tables
<1>1. CASE NextConfig
  <2>1. PICK names, seen, gone, opened : Reread(names, seen, gone, opened)
    BY <1>1, NextConfigRereads
  <2>2. /\ cfg \in 1..Len(files) /\ cfg' = (IF cfg = Len(files) THEN 0 ELSE cfg + 1)
        /\ UNCHANGED <<files, edits, hups, scanning, readable, children>>
    BY <1>1 DEF NextConfig
  <2>3. files[cfg] \subseteq Entry /\ names \subseteq Services
    BY <2>1, <2>2, FileEntries DEF Reread, Entry
  <2>4. wait' \in [Services -> {0, 1} \cup Pids]
    <3> SUFFICES ASSUME NEW s \in Services PROVE wait'[s] \in {0, 1} \cup Pids
      BY <2>1 DEF Reread
    <3>1. wait[s] \in {0, 1} \cup Pids
      BY DEF TypeOK
    <3>2. CASE \E e \in files[cfg] : e.s = s
      BY <2>1, <2>2, <3>1, <3>2, EnteredType DEF Reread
    <3>3. CASE ~\E e \in files[cfg] : e.s = s
      BY <2>1, <3>1, <3>3 DEF Reread
    <3>4. QED BY <3>2, <3>3
  <2>5. count' \in [Services -> Nat]
    BY <2>1 DEF Reread, TypeOK
  <2>6. /\ table' \subseteq Services /\ sock' \subseteq table'
        /\ allsock' \subseteq sock' /\ pending' \subseteq sock'
        /\ retried' \subseteq table' /\ checked' \subseteq Services
    BY <2>1, <2>3 DEF Reread, TypeOK
  <2>7. /\ Cardinality(opened) \in Nat /\ Cardinality(gone \cap sock) \in Nat
        /\ Cardinality((names \ sock) \ opened) \in Nat
        /\ Cardinality((gone \cap sock) \ allsock) \in Nat
    <3>1. opened \subseteq Services /\ gone \cap sock \subseteq Services
      BY <2>1, <2>3 DEF Reread, TypeOK
    <3>2. (names \ sock) \ opened \subseteq Services /\ (gone \cap sock) \ allsock \subseteq Services
      BY <2>3, <3>1
    <3>3. QED BY <3>1, <3>2, ServicesFinite
  <2>8. nsock' \in Int /\ faults' \in 0..MaxFaults /\ uncounted' \in Nat
    BY <2>1, <2>7, InetdConstants, SMTT(30) DEF Reread, TypeOK
  <2>9. timingout' \in BOOLEAN
    BY <2>1 DEF Reread, TypeOK
  <2>10. Len(files) \in Nat /\ cfg' \in 0..Len(files')
    <3>1. Len(files) \in Nat
      BY InetdConstants DEF TypeOK
    <3>2. QED BY <2>2, <3>1
  <2>11. QED
    BY <2>2, <2>4, <2>5, <2>6, <2>8, <2>9, <2>10 DEF TypeOK
<1>2. CASE Retry
  <2>1. PICK opened \in Opened(table \ sock) :
          /\ sock' = sock \cup opened
          /\ timingout' \in Alarms((table \ sock) \ opened)
          /\ faults' = faults + Cardinality((table \ sock) \ opened)
          /\ retried' = retried \cup opened
    BY <1>2 DEF Retry
  <2>2. /\ opened \subseteq table \ sock
        /\ faults + Cardinality((table \ sock) \ opened) <= MaxFaults
    BY <2>1 DEF Opened
  <2>3. Cardinality((table \ sock) \ opened) \in Nat
    <3>1. (table \ sock) \ opened \subseteq Services
      BY DEF TypeOK
    <3>2. QED BY <3>1, ServicesFinite
  <2>4. faults' \in 0..MaxFaults
    BY <2>1, <2>2, <2>3, InetdConstants DEF TypeOK
  <2>5. sock' \subseteq table /\ retried' \subseteq table /\ timingout' \in BOOLEAN
    BY <2>1, <2>2 DEF TypeOK, Alarms
  <2>6. QED BY <1>2, <2>1, <2>4, <2>5 DEF Retry, TypeOK
<1>3. CASE ReapChild
  <2>1. Reaped \subseteq Services
    BY DEF Reaped, TypeOK
  <2>2. Cardinality(Reaped) \in Nat
    BY <2>1, ServicesFinite
  <2>3. Reaped \subseteq sock
    <3> SUFFICES ASSUME NEW s \in Reaped PROVE s \in sock
      OBVIOUS
    <3>1. PICK c \in children : wait[s] = c.pid
      BY DEF Reaped, Dead
    <3>2. c.pid \in Pids
      BY <3>1 DEF TypeOK
    <3>3. wait[s] > 1
      BY <3>1, <3>2, PidLarge
    <3>4. QED BY <2>1, <3>3 DEF WaitedFor
  <2>4. wait' \in [Services -> {0, 1} \cup Pids]
    BY <1>3 DEF ReapChild, TypeOK
  <2>5. allsock' \subseteq sock /\ nsock' \in Int
    BY <1>3, <2>2, <2>3 DEF ReapChild, TypeOK
  <2>6. children' \subseteq [pid : Pids, s : Services, alive : BOOLEAN]
    BY <1>3 DEF ReapChild, TypeOK
  <2>7. QED BY <1>3, <2>4, <2>5, <2>6 DEF ReapChild, TypeOK, given
<1>4. CASE \E s \in Services : Invoke(s)
  <2>1. PICK s \in Services : Invoke(s)
    BY <1>4
  <2>2. count' \in [Services -> Nat]
    BY <2>1, InetdConstants DEF Invoke, TypeOK, Counted
  <2>3. PICK pid \in FreePids :
          /\ children' = children \cup {[pid |-> pid, s |-> s, alive |-> TRUE]}
          /\ wait' = [wait EXCEPT ![s] = IF @ = 0 THEN 0 ELSE pid]
    BY <2>1 DEF Invoke
  <2>4. pid \in Pids
    BY DEF FreePids
  <2>5. /\ children' \subseteq [pid : Pids, s : Services, alive : BOOLEAN]
        /\ wait' \in [Services -> {0, 1} \cup Pids]
    <3>1. [pid |-> pid, s |-> s, alive |-> TRUE]
            \in [pid : Pids, s : Services, alive : BOOLEAN]
      BY <2>4
    <3>2. children' \subseteq [pid : Pids, s : Services, alive : BOOLEAN]
      BY <2>3, <3>1 DEF TypeOK
    <3>3. wait' \in [Services -> {0, 1} \cup Pids]
      BY <2>3, <2>4 DEF TypeOK
    <3>4. QED BY <3>2, <3>3
  <2>6. /\ allsock' \subseteq sock /\ nsock' \in Int /\ readable' \subseteq Services
        /\ uncounted' \in Nat /\ pending' \subseteq sock
    BY <2>1 DEF Invoke, Taken, TypeOK
  <2>7. QED BY <2>1, <2>2, <2>5, <2>6 DEF Invoke, TypeOK
<1>5. CASE \E s \in Services : Terminate(s)
  <2>1. PICK s \in Services : Terminate(s)
    BY <1>5
  <2>2. count' \in [Services -> Nat] /\ wait' \in [Services -> {0, 1} \cup Pids]
    BY <2>1 DEF Terminate, TypeOK
  <2>3. /\ sock' \subseteq table /\ allsock' \subseteq sock' /\ nsock' \in Int
        /\ readable' \subseteq Services /\ uncounted' \in Nat /\ pending' \subseteq sock'
        /\ timingout' \in BOOLEAN
    BY <2>1 DEF Terminate, TypeOK
  <2>4. QED BY <2>1, <2>2, <2>3 DEF Terminate, TypeOK
<1>6. CASE Quiet
  <2>1. CASE Hup
    <3>1. 1 \in 0..Len(files)
      BY InetdConstants DEF TypeOK
    <3>2. QED BY <2>1, <3>1, InetdConstants DEF Hup, TypeOK, given, tables
  <2>2. CASE Select
    BY <2>2 DEF Select, TypeOK, given, tables
  <2>3. CASE EndScan
    BY <2>3 DEF EndScan, TypeOK, given, tables
  <2>4. CASE Edit
    <3>1. cfg = 0 /\ files' \in Configs /\ edits' \in 0..MaxEdits
      BY <2>4, InetdConstants DEF Edit, TypeOK
    <3>2. 0 \in 0..Len(files')
      BY <3>1, InetdConstants
    <3>3. QED BY <2>4, <3>1, <3>2 DEF Edit, TypeOK, tables
  <2>5. ASSUME NEW s \in Services, ForkFails(s)
        PROVE TypeOK'
    <3>1. count' \in [Services -> Nat]
      BY <2>5, InetdConstants DEF ForkFails, TypeOK, Counted
    <3>2. faults' \in 0..MaxFaults
      BY <2>5, InetdConstants DEF ForkFails, TypeOK
    <3>3. pending' \subseteq sock /\ readable' \subseteq Services
      BY <2>5 DEF ForkFails, Taken, TypeOK
    <3>4. QED BY <2>5, <3>1, <3>2, <3>3 DEF ForkFails, TypeOK
  <2>6. ASSUME NEW s \in Services, RunInternal(s)
        PROVE TypeOK'
    <3>1. pending' \subseteq pending
      BY <2>6 DEF RunInternal, Taken
    <3>2. QED BY <2>6, <3>1 DEF RunInternal, TypeOK, given, tables
  <2>7. ASSUME NEW s \in Services, Ask(s)
        PROVE TypeOK'
    BY <2>7 DEF Ask, TypeOK, given, tables
  <2>8. ASSUME NEW pid \in Pids, ServerTakes(pid)
        PROVE TypeOK'
    BY <2>8 DEF ServerTakes, TypeOK, given, tables
  <2>9. ASSUME NEW pid \in Pids, ServerExits(pid)
        PROVE TypeOK'
    <3>1. PICK c \in children :
            children' = (children \ {c}) \cup
                        {[pid |-> c.pid, s |-> c.s, alive |-> FALSE]}
      BY <2>9 DEF ServerExits
    <3>2. c \in [pid : Pids, s : Services, alive : BOOLEAN]
      BY DEF TypeOK
    <3>3. [pid |-> c.pid, s |-> c.s, alive |-> FALSE]
            \in [pid : Pids, s : Services, alive : BOOLEAN]
      BY <3>2
    <3>4. children' \subseteq [pid : Pids, s : Services, alive : BOOLEAN]
      BY <3>1, <3>3 DEF TypeOK
    <3>5. QED BY <2>9, <3>4 DEF ServerExits, TypeOK, given, tables
  <2>10. QED
    BY <1>6, <2>1, <2>2, <2>3, <2>4, <2>5, <2>6, <2>7, <2>8, <2>9 DEF Quiet, Server
<1>7. QED BY <1>0, <1>1, <1>2, <1>3, <1>4, <1>5, <1>6, NextCases

(* The steps of Quiet leave the table, the sockets and se_wait alone; only *)
(* select () changes what the scan looks at, and only to what it watches.  *)
LEMMA QuietKeeps ==
  ASSUME Quiet
  PROVE /\ UNCHANGED <<table, sock, wait, allsock, nsock, uncounted, retried>>
        /\ readable' \subseteq readable \cup allsock
BY DEF Quiet, Hup, Select, EndScan, Edit, ForkFails, RunInternal, Ask, Server,
   ServerTakes, ServerExits, given, tables

(* nsock follows allsock: each socket opened, closed, handed over or given *)
(* back is one that was not or was in the set, or is recorded in uncounted.*)
LEMMA NsockStep ==
  ASSUME TypeOK, WaitedFor, NsockCounts, [Next]_vars
  PROVE NsockCounts'
<1>0. /\ allsock \subseteq Services /\ Cardinality(allsock) \in Nat
      /\ IsFiniteSet(allsock) /\ nsock \in Int /\ uncounted \in Nat
      /\ nsock = Cardinality(allsock) - uncounted
  <2>1. allsock \subseteq Services
    BY DEF TypeOK
  <2>2. QED BY <2>1, ServicesFinite DEF TypeOK, NsockCounts
<1>1. CASE NextConfig
  <2>1. PICK names, seen, gone, opened : Reread(names, seen, gone, opened)
    BY <1>1, NextConfigRereads
  <2>2. names \subseteq Services
    BY <1>1, <2>1, FileEntries DEF NextConfig, Reread, Entry
  <2>3. /\ opened \subseteq Services /\ allsock \cap opened = {}
        /\ gone \subseteq Services /\ opened \cap gone = {} /\ allsock \subseteq sock
    BY <2>1, <2>2 DEF Reread, TypeOK
  <2>4. allsock' = (allsock \ gone) \cup opened
    BY <2>1, <2>3 DEF Reread
  <2>5. Cardinality(allsock') = Cardinality(allsock \ gone) + Cardinality(opened)
    <3>1. allsock \ gone \subseteq Services /\ (allsock \ gone) \cap opened = {}
      BY <1>0, <2>3
    <3>2. QED BY <2>3, <2>4, <3>1, CountDisjoint
  <2>6. Cardinality(allsock) =
          Cardinality(allsock \ gone) + Cardinality(gone \cap allsock)
    <3>1. /\ allsock \ gone \subseteq Services /\ gone \cap allsock \subseteq Services
          /\ (allsock \ gone) \cap (gone \cap allsock) = {}
          /\ (allsock \ gone) \cup (gone \cap allsock) = allsock
      BY <1>0
    <3>2. QED BY <3>1, CountDisjoint
  <2>7. Cardinality(gone \cap sock) =
          Cardinality(gone \cap allsock) + Cardinality((gone \cap sock) \ allsock)
    <3>1. /\ gone \cap allsock \subseteq Services
          /\ (gone \cap sock) \ allsock \subseteq Services
          /\ (gone \cap allsock) \cap ((gone \cap sock) \ allsock) = {}
          /\ (gone \cap allsock) \cup ((gone \cap sock) \ allsock) = gone \cap sock
      BY <2>3
    <3>2. QED BY <3>1, CountDisjoint
  <2>8. /\ Cardinality(opened) \in Nat /\ Cardinality(allsock \ gone) \in Nat
        /\ Cardinality(gone \cap allsock) \in Nat
        /\ Cardinality((gone \cap sock) \ allsock) \in Nat
    <3>1. /\ allsock \ gone \subseteq Services /\ gone \cap allsock \subseteq Services
          /\ (gone \cap sock) \ allsock \subseteq Services
      BY <1>0, <2>3
    <3>2. QED BY <2>3, <3>1, ServicesFinite
  <2>9. /\ nsock' = nsock + Cardinality(opened) - Cardinality(gone \cap sock)
        /\ uncounted' = uncounted + Cardinality((gone \cap sock) \ allsock)
    BY <2>1 DEF Reread
  <2>10. nsock' = Cardinality(allsock') - uncounted'
    BY <1>0, <2>5, <2>6, <2>7, <2>8, <2>9
  <2>11. QED BY <2>10 DEF NsockCounts
<1>2. CASE Retry
  BY <1>2 DEF Retry, NsockCounts
<1>3. CASE ReapChild
  <2>1. /\ Reaped \subseteq Services /\ allsock' = allsock \cup Reaped
        /\ nsock' = nsock + Cardinality(Reaped) /\ uncounted' = uncounted
    BY <1>3 DEF Reaped, TypeOK, ReapChild, given
  <2>2. allsock \cap Reaped = {}
    <3> SUFFICES ASSUME NEW s \in Reaped PROVE s \notin allsock
      OBVIOUS
    <3>1. PICK c \in children : wait[s] = c.pid
      BY DEF Reaped, Dead
    <3>2. c.pid \in Pids
      BY <3>1 DEF TypeOK
    <3>3. wait[s] > 1
      BY <3>1, <3>2, PidLarge
    <3>4. QED BY <2>1, <3>3 DEF WaitedFor
  <2>3. Cardinality(allsock') = Cardinality(allsock) + Cardinality(Reaped)
    BY <1>0, <2>1, <2>2, CountDisjoint
  <2>4. Cardinality(Reaped) \in Nat
    BY <2>1, ServicesFinite
  <2>5. QED BY <1>0, <2>1, <2>3, <2>4 DEF NsockCounts
<1>4. ASSUME NEW s \in Services, Invoke(s)
      PROVE NsockCounts'
  <2>1. CASE wait[s] = 0
    BY <1>0, <1>4, <2>1 DEF Invoke, NsockCounts
  <2>2. CASE wait[s] # 0
    <3>1. /\ allsock' = allsock \ {s} /\ nsock' = nsock - 1
          /\ uncounted' = IF s \in allsock THEN uncounted ELSE uncounted + 1
      BY <1>4, <2>2 DEF Invoke
    <3>2. Cardinality(allsock') =
            IF s \in allsock THEN Cardinality(allsock) - 1 ELSE Cardinality(allsock)
      BY <1>0, <3>1, FS_RemoveElement
    <3>3. QED BY <1>0, <3>1, <3>2 DEF NsockCounts
  <2>3. QED BY <2>1, <2>2
<1>5. ASSUME NEW s \in Services, Terminate(s)
      PROVE NsockCounts'
  <2>1. /\ allsock' = allsock \ {s} /\ nsock' = nsock - 1
        /\ uncounted' = IF s \in allsock THEN uncounted ELSE uncounted + 1
    BY <1>5 DEF Terminate
  <2>2. Cardinality(allsock') =
          IF s \in allsock THEN Cardinality(allsock) - 1 ELSE Cardinality(allsock)
    BY <1>0, <2>1, FS_RemoveElement
  <2>3. QED BY <1>0, <2>1, <2>2 DEF NsockCounts
<1>6. CASE UNCHANGED <<allsock, nsock, uncounted>>
  BY <1>6 DEF NsockCounts
<1>7. QED
  BY <1>1, <1>2, <1>3, <1>4, <1>5, <1>6, NextCases, QuietKeeps DEF vars, tables

(* A service becomes waited for when its socket leaves select (), and      *)
(* stops to be when it comes back; reading the configuration again does    *)
(* not touch it, and purging it forgets the server.                        *)
LEMMA WaitedForStep ==
  ASSUME TypeOK, WaitedFor, ScanFree, [Next]_vars
  PROVE WaitedFor' /\ ScanFree'
<1>0. /\ wait \in [Services -> {0, 1} \cup Pids] /\ readable \subseteq Services
      /\ table \subseteq Services /\ allsock \subseteq sock
  BY DEF TypeOK
<1>00. \A s \in Services : wait[s] \in Nat
  BY <1>0, PidLarge
<1>1. CASE NextConfig
  <2>1. PICK names, seen, gone, opened : Reread(names, seen, gone, opened)
    BY <1>1, NextConfigRereads
  <2>2. cfg \in 1..Len(files) /\ readable' = readable
    BY <1>1 DEF NextConfig
  <2>3. ASSUME NEW s \in Services, wait'[s] > 1
        PROVE wait[s] > 1 /\ s \notin gone
    <3>1. wait'[s] = IF \E e \in files[cfg] : e.s = s
                       THEN EnteredWait(CHOOSE e \in files[cfg] : e.s = s)
                       ELSE IF s \in gone THEN 0 ELSE wait[s]
      BY <2>1 DEF Reread
    <3>2. CASE \E e \in files[cfg] : e.s = s
      <4>1. s \in names /\ s \notin gone
        BY <2>1, <3>2 DEF Reread
      <4>2. QED BY <2>2, <2>3, <3>1, <3>2, <4>1, EnteredType
    <3>3. CASE ~\E e \in files[cfg] : e.s = s
      BY <2>3, <3>1, <3>3
    <3>4. QED BY <3>2, <3>3
  <2>4. WaitedFor'
    <3> SUFFICES ASSUME NEW s \in Services, wait'[s] > 1
                 PROVE s \in sock' \ allsock'
      BY DEF WaitedFor
    <3>1. s \in sock \ allsock /\ s \notin gone
      BY <2>3 DEF WaitedFor
    <3>2. QED BY <2>1, <3>1 DEF Reread
  <2>5. ScanFree'
    <3> SUFFICES ASSUME NEW s \in readable PROVE wait'[s] <= 1
      BY <2>2 DEF ScanFree
    <3>1. wait'[s] \in Nat
      <4>1. wait'[s] = IF \E e \in files[cfg] : e.s = s
                         THEN EnteredWait(CHOOSE e \in files[cfg] : e.s = s)
                         ELSE IF s \in gone THEN 0 ELSE wait[s]
        BY <1>0, <2>1 DEF Reread
      <4>2. CASE \E e \in files[cfg] : e.s = s
        <5>1. s \in Services /\ wait[s] \in Nat
          BY <1>0, <1>00
        <5>2. QED BY <2>2, <4>1, <4>2, <5>1, EnteredType
      <4>3. CASE ~\E e \in files[cfg] : e.s = s
        BY <1>0, <1>00, <4>1, <4>3
      <4>4. QED BY <4>2, <4>3
    <3>2. wait[s] <= 1 /\ wait[s] \in Nat /\ s \in Services
      BY <1>0, <1>00 DEF ScanFree
    <3>3. ~(wait'[s] > 1)
      BY <2>3, <3>2
    <3>4. QED BY <3>1, <3>3
  <2>6. QED BY <2>4, <2>5
<1>2. CASE Retry
  BY <1>2 DEF Retry, WaitedFor, ScanFree
<1>3. CASE ReapChild
  <2>1. /\ wait' = [s \in Services |-> IF s \in Reaped THEN 1 ELSE wait[s]]
        /\ allsock' = allsock \cup Reaped /\ sock' = sock /\ readable' = readable
    BY <1>3 DEF ReapChild
  <2>2. ASSUME NEW s \in Services, wait'[s] > 1 PROVE s \notin Reaped /\ wait[s] > 1
    BY <2>1, <2>2
  <2>3. WaitedFor'
    BY <2>1, <2>2 DEF WaitedFor
  <2>4. ScanFree'
    BY <1>0, <2>1 DEF ScanFree
  <2>5. QED BY <2>3, <2>4
<1>4. ASSUME NEW s \in Services, Invoke(s)
      PROVE WaitedFor' /\ ScanFree'
  <2>1. PICK pid \in FreePids : wait' = [wait EXCEPT ![s] = IF @ = 0 THEN 0 ELSE pid]
    BY <1>4 DEF Invoke
  <2>2. /\ allsock' = (IF wait[s] = 0 THEN allsock ELSE allsock \ {s})
        /\ sock' = sock /\ readable' = readable \ {s} /\ s \in sock
    BY <1>4 DEF Invoke, Scanned
  <2>3. WaitedFor'
    <3> SUFFICES ASSUME NEW t \in Services, wait'[t] > 1
                 PROVE t \in sock' \ allsock'
      BY DEF WaitedFor
    <3>1. CASE t = s
      <4>1. wait[s] # 0
        BY <1>0, <2>1, <3>1
      <4>2. QED BY <2>2, <3>1, <4>1
    <3>2. CASE t # s
      <4>1. wait'[t] = wait[t]
        BY <1>0, <2>1, <3>2
      <4>2. QED BY <2>2, <4>1 DEF WaitedFor
    <3>3. QED BY <3>1, <3>2
  <2>4. ScanFree'
    BY <1>0, <2>1, <2>2 DEF ScanFree
  <2>5. QED BY <2>3, <2>4
<1>5. ASSUME NEW s \in Services, Terminate(s)
      PROVE WaitedFor' /\ ScanFree'
  <2>1. /\ wait' = [wait EXCEPT ![s] = IF @ > 1 THEN 1 ELSE @]
        /\ sock' = sock \ {s} /\ allsock' = allsock \ {s} /\ readable' = readable \ {s}
    BY <1>5 DEF Terminate
  <2>2. /\ ~(wait'[s] > 1)
        /\ \A t \in Services \ {s} : wait'[t] = wait[t]
    BY <1>0, <2>1
  <2>3. WaitedFor'
    BY <2>1, <2>2 DEF WaitedFor
  <2>4. ScanFree'
    BY <1>0, <2>1, <2>2 DEF ScanFree
  <2>5. QED BY <2>3, <2>4
<1>6. CASE UNCHANGED <<sock, wait, allsock>> /\ readable' \subseteq readable \cup allsock
  <2>1. WaitedFor'
    BY <1>6 DEF WaitedFor
  <2>2. ScanFree'
    <3> SUFFICES ASSUME NEW s \in readable' PROVE wait[s] <= 1
      BY <1>6 DEF ScanFree
    <3>1. CASE s \in readable
      BY <3>1 DEF ScanFree
    <3>2. CASE s \in allsock
      <4>1. s \in Services
        BY <3>2 DEF TypeOK
      <4>2. QED BY <1>00, <3>2, <4>1 DEF WaitedFor
    <3>3. QED BY <1>6, <3>1, <3>2
  <2>3. QED BY <2>1, <2>2
<1>7. QED
  BY <1>1, <1>2, <1>3, <1>4, <1>5, <1>6, NextCases, QuietKeeps DEF vars, tables

(* The initial state: nothing is open.                                     *)
LEMMA CountInit == Init => CountInv
<1> SUFFICES ASSUME Init PROVE CountInv
  OBVIOUS
<1>1. 1 \in 0..Len(files)
  BY InetdConstants DEF Init
<1>2. TypeOK
  <2>1. /\ wait \in [Services -> {0, 1} \cup Pids] /\ count \in [Services -> Nat]
    BY DEF Init
  <2>2. /\ edits \in 0..MaxEdits /\ hups \in 0..MaxHups /\ faults \in 0..MaxFaults
        /\ nsock \in Int /\ uncounted \in Nat /\ cfg \in 0..Len(files)
    BY <1>1, InetdConstants DEF Init
  <2>3. QED BY <2>1, <2>2 DEF Init, TypeOK
<1>3. NsockCounts
  BY FS_EmptySet DEF Init, NsockCounts
<1>4. WaitedFor /\ ScanFree
  BY DEF Init, WaitedFor, ScanFree
<1>5. QED BY <1>2, <1>3, <1>4 DEF CountInv

(* Whatever the configuration files say and however signals interrupt the  *)
(* scan, nsock is the size of allsock less what was closed or handed over  *)
(* without being in it, and a service that is waited for is not watched.   *)
THEOREM CountInvariant == Spec => []CountInv
<1>1. CountInv /\ [Next]_vars => CountInv'
  BY TypeStep, NsockStep, WaitedForStep DEF CountInv
<1>2. QED BY <1>1, CountInit, PTL DEF Spec
-----------------------------------------------------------------------------
(* Only an entry that says wait makes se_wait anything but 0, and no two   *)
(* children share a process id.                                            *)
LEMMA WaitFitsStep ==
  ASSUME TypeOK, WaitFits, PidsUnique, [Next]_vars
  PROVE WaitFits' /\ PidsUnique'
<1>0. /\ wait \in [Services -> {0, 1} \cup Pids] /\ table \subseteq Services
      /\ children \subseteq [pid : Pids, s : Services, alive : BOOLEAN]
  BY DEF TypeOK
<1>1. CASE NextConfig
  <2>1. PICK names, seen, gone, opened : Reread(names, seen, gone, opened)
    BY <1>1, NextConfigRereads
  <2>2. cfg \in 1..Len(files) /\ children' = children
    BY <1>1 DEF NextConfig
  <2>3. ASSUME NEW s \in Services, wait'[s] # 0 PROVE s \in WaitServices
    <3>1. wait'[s] = IF \E e \in files[cfg] : e.s = s
                       THEN EnteredWait(CHOOSE e \in files[cfg] : e.s = s)
                       ELSE IF s \in gone THEN 0 ELSE wait[s]
      BY <2>1 DEF Reread
    <3>2. CASE \E e \in files[cfg] : e.s = s
      <4> DEFINE c == CHOOSE e \in files[cfg] : e.s = s
      <4>1. c \in files[cfg] /\ c.s = s /\ c.w \in {0, 1}
        BY <2>2, <3>2, EnteredType
      <4>2. c.w = 1 \/ wait[s] # 0
        BY <2>2, <2>3, <3>1, <3>2, EnteredType
      <4>3. cfg \in DOMAIN files /\ files \in Configs
        BY <2>2, FileEntries
      <4>4. QED BY <4>1, <4>2, <4>3 DEF WaitFits, WaitServices
    <3>3. CASE ~\E e \in files[cfg] : e.s = s
      BY <2>3, <3>1, <3>3 DEF WaitFits
    <3>4. QED BY <3>2, <3>3
  <2>4. QED BY <2>2, <2>3 DEF WaitFits, PidsUnique
<1>2. CASE Retry
  BY <1>2 DEF Retry, WaitFits, PidsUnique
<1>3. CASE ReapChild
  <2>1. /\ wait' = [s \in Services |-> IF s \in Reaped THEN 1 ELSE wait[s]]
        /\ children' = children \ Dead
    BY <1>3 DEF ReapChild
  <2>2. ASSUME NEW s \in Reaped PROVE wait[s] # 0 /\ s \in Services
    <3>1. PICK c \in children : wait[s] = c.pid /\ s \in table
      BY DEF Reaped, Dead
    <3>2. c.pid \in Pids
      BY <1>0, <3>1
    <3>3. QED BY <1>0, <3>1, <3>2, PidLarge
  <2>3. WaitFits'
    BY <2>1, <2>2 DEF WaitFits
  <2>4. PidsUnique'
    BY <2>1 DEF PidsUnique
  <2>5. QED BY <2>3, <2>4
<1>4. ASSUME NEW s \in Services, Invoke(s)
      PROVE WaitFits' /\ PidsUnique'
  <2>1. PICK pid \in FreePids :
          /\ children' = children \cup {[pid |-> pid, s |-> s, alive |-> TRUE]}
          /\ wait' = [wait EXCEPT ![s] = IF @ = 0 THEN 0 ELSE pid]
    BY <1>4 DEF Invoke
  <2>2. \A c \in children : c.pid # pid
    BY DEF FreePids
  <2>3. PidsUnique'
    <3> DEFINE new == [pid |-> pid, s |-> s, alive |-> TRUE]
    <3>1. new.pid = pid /\ children' = children \cup {new}
      BY <2>1
    <3> HIDE DEF new
    <3>2. QED BY <2>2, <3>1 DEF PidsUnique
  <2>4. WaitFits'
    BY <1>0, <2>1 DEF WaitFits
  <2>5. QED BY <2>3, <2>4
<1>5. ASSUME NEW s \in Services, Terminate(s)
      PROVE WaitFits' /\ PidsUnique'
  <2>1. /\ wait' = [wait EXCEPT ![s] = IF @ > 1 THEN 1 ELSE @] /\ children' = children
    BY <1>5 DEF Terminate
  <2>2. \A t \in Services : wait'[t] # 0 => wait[t] # 0
    BY <1>0, <2>1
  <2>3. QED BY <2>1, <2>2 DEF WaitFits, PidsUnique
<1>6. CASE Quiet
  <2>1. wait' = wait
    BY <1>6, QuietKeeps
  <2>2. CASE children' = children
    BY <2>1, <2>2 DEF WaitFits, PidsUnique
  <2>3. ASSUME NEW c \in children,
               children' = (children \ {c}) \cup
                           {[pid |-> c.pid, s |-> c.s, alive |-> FALSE]}
        PROVE WaitFits' /\ PidsUnique'
    <3> DEFINE new == [pid |-> c.pid, s |-> c.s, alive |-> FALSE]
    <3>1. new.pid = c.pid /\ children' = (children \ {c}) \cup {new}
      BY <2>3
    <3> HIDE DEF new
    <3>2. PidsUnique'
      BY <3>1 DEF PidsUnique
    <3>3. QED BY <2>1, <3>2 DEF WaitFits
  <2>4. QED
    BY <1>6, <2>2, <2>3 DEF Quiet, Hup, Select, EndScan, Edit, ForkFails,
       RunInternal, Ask, Server, ServerTakes, ServerExits
<1>7. CASE UNCHANGED vars
  BY <1>7 DEF vars, tables, WaitFits, PidsUnique
<1>8. QED BY <1>1, <1>2, <1>3, <1>4, <1>5, <1>6, <1>7, NextCases

(* Only reapchild makes a process id disappear.                            *)
LEMMA PidsStay ==
  ASSUME [Next]_vars, ~ReapChild, NEW c \in children
  PROVE \E d \in children' : d.pid = c.pid
<1>1. CASE children \subseteq children'
  BY <1>1
<1>2. ASSUME NEW e \in children,
             children' = (children \ {e}) \cup
                         {[pid |-> e.pid, s |-> e.s, alive |-> FALSE]}
      PROVE \E d \in children' : d.pid = c.pid
  <2>1. CASE c = e
    <3>1. [pid |-> e.pid, s |-> e.s, alive |-> FALSE].pid = c.pid
      BY <2>1
    <3>2. [pid |-> e.pid, s |-> e.s, alive |-> FALSE] \in children'
      BY <1>2
    <3>3. QED BY <3>1, <3>2
  <2>2. CASE c # e
    BY <1>2, <2>2
  <2>3. QED BY <2>1, <2>2
<1>3. QED
  BY <1>1, <1>2, NextCases DEF NextConfig, Retry, Invoke, Terminate, Quiet, Hup,
     Select, EndScan, Edit, ForkFails, RunInternal, Ask, Server, ServerTakes,
     ServerExits, vars

(* A socket that is open, and not with select (), is with a child: it      *)
(* leaves select () only with one, comes back when that one is reaped, and *)
(* reading the configuration again does not forget the child.              *)
LEMMA NoLostStep ==
  ASSUME WaitKept, TypeOK, WaitFits, NoLostSocket, [Next]_vars
  PROVE NoLostSocket'
<1>0. /\ wait \in [Services -> {0, 1} \cup Pids] /\ table \subseteq Services
      /\ sock \subseteq table
      /\ children \subseteq [pid : Pids, s : Services, alive : BOOLEAN]
  BY DEF TypeOK
<1>1. CASE NextConfig
  <2>1. PICK names, seen, gone, opened : Reread(names, seen, gone, opened)
    BY <1>1, NextConfigRereads
  <2>2. cfg \in 1..Len(files) /\ children' = children
    BY <1>1 DEF NextConfig
  <2> SUFFICES ASSUME NEW s \in sock' \ (allsock' \cup retried')
               PROVE \E c \in children : c.pid = wait'[s]
    BY <2>2 DEF NoLostSocket
  <2>3. s \in sock \ (allsock \cup retried) /\ s \notin gone /\ s \in Services
    BY <1>0, <2>1 DEF Reread
  <2>4. PICK c \in children : c.pid = wait[s]
    BY <2>3 DEF NoLostSocket
  <2>5. wait[s] > 1 /\ wait[s] # 0
    <3>1. c.pid \in Pids
      BY <1>0
    <3>2. QED BY <2>4, <3>1, PidLarge
  <2>6. wait'[s] = wait[s]
    <3>1. wait'[s] = IF \E e \in files[cfg] : e.s = s
                       THEN EnteredWait(CHOOSE e \in files[cfg] : e.s = s)
                       ELSE wait[s]
      BY <2>1, <2>3 DEF Reread
    <3>2. CASE \E e \in files[cfg] : e.s = s
      <4> DEFINE d == CHOOSE e \in files[cfg] : e.s = s
      <4>1. d \in files[cfg] /\ d.s = s
        BY <3>2
      <4>2. cfg \in DOMAIN files /\ files \in Configs
        BY <2>2, FileEntries
      <4>3. s \in WaitServices
        BY <2>3, <2>5 DEF WaitFits
      <4>4. d.w = 1
        BY <4>1, <4>2, <4>3 DEF WaitKept
      <4>5. s \in table
        BY <1>0, <2>3
      <4>6. EnteredWait(d) = wait[s]
        BY <4>1, <4>4, <4>5, <2>5 DEF EnteredWait
      <4>7. QED BY <3>1, <3>2, <4>6
    <3>3. QED BY <3>1, <3>2
  <2>7. QED BY <2>4, <2>6
<1>2. CASE Retry
  <2>1. PICK opened \in Opened(table \ sock) :
          sock' = sock \cup opened /\ retried' = retried \cup opened
    BY <1>2 DEF Retry
  <2>2. allsock' = allsock /\ wait' = wait /\ children' = children
    BY <1>2 DEF Retry
  <2>3. QED BY <2>1, <2>2 DEF NoLostSocket
<1>3. CASE ReapChild
  <2>1. /\ wait' = [s \in Services |-> IF s \in Reaped THEN 1 ELSE wait[s]]
        /\ children' = children \ Dead /\ allsock' = allsock \cup Reaped
        /\ sock' = sock /\ retried' = retried
    BY <1>3 DEF ReapChild, given
  <2> SUFFICES ASSUME NEW s \in sock \ (allsock' \cup retried)
               PROVE \E c \in children' : c.pid = wait'[s]
    BY <2>1 DEF NoLostSocket
  <2>2. s \notin Reaped /\ s \in table /\ s \in Services
    BY <1>0, <2>1
  <2>3. PICK c \in children : c.pid = wait[s]
    BY <2>1 DEF NoLostSocket
  <2>4. c \notin Dead
    BY <2>2, <2>3 DEF Reaped
  <2>5. QED BY <2>1, <2>2, <2>3, <2>4
<1>4. ASSUME NEW s \in Services, Invoke(s)
      PROVE NoLostSocket'
  <2>1. PICK pid \in FreePids :
          /\ children' = children \cup {[pid |-> pid, s |-> s, alive |-> TRUE]}
          /\ wait' = [wait EXCEPT ![s] = IF @ = 0 THEN 0 ELSE pid]
    BY <1>4 DEF Invoke
  <2>2. /\ allsock' = (IF wait[s] = 0 THEN allsock ELSE allsock \ {s})
        /\ sock' = sock /\ retried' = retried
    BY <1>4 DEF Invoke
  <2> SUFFICES ASSUME NEW t \in sock \ (allsock' \cup retried)
               PROVE \E c \in children' : c.pid = wait'[t]
    BY <2>2 DEF NoLostSocket
  <2>3. CASE t = s /\ wait[s] # 0
    <3>1. wait'[t] = pid
      BY <1>0, <2>1, <2>3
    <3>2. [pid |-> pid, s |-> s, alive |-> TRUE].pid = pid
      OBVIOUS
    <3>3. [pid |-> pid, s |-> s, alive |-> TRUE] \in children'
      BY <2>1
    <3>4. QED BY <3>1, <3>2, <3>3
  <2>4. CASE t = s /\ wait[s] = 0
    <3>1. PICK c \in children : c.pid = wait[s]
      BY <2>2, <2>4 DEF NoLostSocket
    <3>2. wait'[s] = wait[s]
      BY <1>0, <2>1, <2>4
    <3>3. QED BY <2>1, <2>4, <3>1, <3>2
  <2>5. CASE t # s
    <3>1. t \in Services /\ wait'[t] = wait[t]
      BY <1>0, <2>1, <2>5
    <3>2. t \in sock \ (allsock \cup retried)
      BY <2>2, <2>5
    <3>3. QED BY <2>1, <3>1, <3>2 DEF NoLostSocket
  <2>6. QED BY <2>3, <2>4, <2>5
<1>5. ASSUME NEW s \in Services, Terminate(s)
      PROVE NoLostSocket'
  <2>1. /\ wait' = [wait EXCEPT ![s] = IF @ > 1 THEN 1 ELSE @]
        /\ sock' = sock \ {s} /\ allsock' = allsock \ {s} /\ retried' = retried
        /\ children' = children
    BY <1>5 DEF Terminate
  <2>2. \A t \in Services \ {s} : wait'[t] = wait[t]
    BY <1>0, <2>1
  <2>3. QED BY <1>0, <2>1, <2>2 DEF NoLostSocket
<1>6. CASE ~ReapChild /\ UNCHANGED <<sock, wait, allsock, retried>>
  BY <1>6, PidsStay DEF NoLostSocket
<1>7. QED
  BY <1>1, <1>2, <1>3, <1>4, <1>5, <1>6, NextCases, QuietKeeps DEF vars, tables

(* Initially there are no children and nothing is waited for.              *)
LEMMA WaitInit == Init => WaitFits /\ PidsUnique /\ NoLostSocket
BY DEF Init, WaitFits, PidsUnique, NoLostSocket

(* Every open socket is watched by select (), is in the hands of a server  *)
(* that will be reaped, or was opened by retry (); and nsock counts the    *)
(* sockets watched.  This is so for all configurations between which no    *)
(* service changes from wait to nowait; there enter forgets the server.    *)
THEOREM SocketsAreWatched ==
  ASSUME WaitKept
  PROVE Spec => []SocketsWatched
<1>1. TypeOK /\ WaitFits /\ PidsUnique /\ [Next]_vars => WaitFits' /\ PidsUnique'
  BY WaitFitsStep
<1>2. TypeOK /\ WaitFits /\ NoLostSocket /\ [Next]_vars => NoLostSocket'
  BY NoLostStep
<1>3. CountInv => TypeOK /\ NsockCounts
  BY DEF CountInv
<1>4. TypeOK /\ NsockCounts /\ NoLostSocket => SocketsWatched
  BY DEF SocketsWatched
<1>5. QED BY <1>1, <1>2, <1>3, <1>4, WaitInit, CountInvariant, PTL DEF Spec
-----------------------------------------------------------------------------
(* The names of the first file stay in se_checked while the other files    *)
(* are read.                                                               *)
LEMMA FirstFileStep ==
  ASSUME TypeOK, FirstFileSeen, [Next]_vars
  PROVE FirstFileSeen'
<1>1. CASE NextConfig
  <2>1. PICK names, seen, gone, opened : Reread(names, seen, gone, opened)
    BY <1>1, NextConfigRereads
  <2>2. /\ cfg \in 1..Len(files) /\ cfg' = (IF cfg = Len(files) THEN 0 ELSE cfg + 1)
        /\ files' = files
    BY <1>1 DEF NextConfig
  <2>3. Len(files) \in Nat
    BY InetdConstants DEF TypeOK
  <2>4. cfg > 1 \/ cfg = 1
    BY <2>2, <2>3
  <2>5. \A e \in files[1] : e.s \in checked'
    BY <2>1, <2>4 DEF Reread, FirstFileSeen
  <2>6. QED BY <2>2, <2>5 DEF FirstFileSeen
<1>2. CASE Hup
  BY <1>2 DEF Hup, FirstFileSeen
<1>3. CASE Edit
  BY <1>3 DEF Edit, FirstFileSeen
<1>4. CASE UNCHANGED <<files, checked, cfg>>
  BY <1>4 DEF FirstFileSeen
<1>5. \/ NextConfig \/ Hup \/ Edit \/ UNCHANGED <<files, checked, cfg>>
  BY NextCases DEF Retry, ReapChild, Invoke, Terminate, Quiet, Select, EndScan,
     ForkFails, RunInternal, Ask, Server, ServerTakes, ServerExits, given, vars
<1>6. QED BY <1>1, <1>2, <1>3, <1>4, <1>5

(* A server of a wait service is the one waited for: it is started only    *)
(* when none is waited for, enter keeps its process id, and only reaping   *)
(* it ends the wait.                                                       *)
LEMMA ServerStep ==
  ASSUME WaitKept, WaitStays, TypeOK, WaitedFor, ScanFree, PidsUnique,
         FirstFileSeen, ServerWaitedFor, [Next]_vars
  PROVE ServerWaitedFor'
<1>0. /\ wait \in [Services -> {0, 1} \cup Pids] /\ table \subseteq Services
      /\ sock \subseteq table /\ WaitServices \subseteq Services
      /\ children \subseteq [pid : Pids, s : Services, alive : BOOLEAN]
  BY DEF TypeOK, WaitServices
<1>00. \A s \in Services : wait[s] \in Nat
  BY <1>0, PidLarge
<1>1. CASE NextConfig
  <2>1. PICK names, seen, gone, opened : Reread(names, seen, gone, opened)
    BY <1>1, NextConfigRereads
  <2>2. cfg \in 1..Len(files) /\ children' = children
    BY <1>1 DEF NextConfig
  <2>3. cfg \in DOMAIN files /\ files \in Configs /\ Len(files) \in Nat
    BY <2>2, FileEntries, InetdConstants DEF TypeOK
  <2>4. ASSUME NEW s \in WaitServices PROVE s \in seen /\ s \notin gone
    <3>1. PICK e \in files[1] : e.s = s
      BY <2>3, <2>4 DEF WaitStays
    <3>2. cfg = 1 \/ cfg > 1
      BY <2>2, <2>3
    <3>3. s \in checked \cup names
      BY <2>1, <3>1, <3>2 DEF Reread, FirstFileSeen
    <3>4. QED BY <2>1, <3>3 DEF Reread
  <2>5. ASSUME NEW s \in WaitServices
        PROVE /\ wait[s] > 1 => wait'[s] = wait[s]
              /\ s \in table' => wait'[s] # 0
    <3>1. wait'[s] = IF \E e \in files[cfg] : e.s = s
                       THEN EnteredWait(CHOOSE e \in files[cfg] : e.s = s)
                       ELSE wait[s]
      BY <1>0, <2>1, <2>4 DEF Reread
    <3>2. s \in Services /\ wait[s] \in Nat
      BY <1>0, <1>00
    <3>3. CASE \E e \in files[cfg] : e.s = s
      <4> DEFINE d == CHOOSE e \in files[cfg] : e.s = s
      <4>1. d \in files[cfg] /\ d.s = s
        BY <3>3
      <4>2. d.w = 1
        BY <2>3, <2>5, <4>1 DEF WaitKept
      <4>3. EnteredWait(d) = IF s \in table THEN wait[s] ELSE 1
        BY <4>1, <4>2 DEF EnteredWait
      <4>4. wait[s] > 1 => s \in table
        BY <1>0, <3>2 DEF WaitedFor
      <4>5. s \in table => wait[s] # 0
        BY DEF ServerWaitedFor
      <4>6. QED BY <3>1, <3>2, <3>3, <4>3, <4>4, <4>5
    <3>4. CASE ~\E e \in files[cfg] : e.s = s
      <4>1. wait'[s] = wait[s] /\ s \notin names
        BY <2>1, <3>1, <3>4 DEF Reread
      <4>2. s \in table' => s \in table
        BY <2>1, <4>1 DEF Reread
      <4>3. QED BY <4>1, <4>2 DEF ServerWaitedFor
    <3>5. QED BY <3>3, <3>4
  <2>6. ASSUME NEW c \in children, c.alive, c.s \in WaitServices
        PROVE wait'[c.s] = c.pid
    <3>1. wait[c.s] = c.pid /\ c.pid \in Pids
      BY <1>0, <2>6 DEF ServerWaitedFor
    <3>2. wait[c.s] > 1
      BY <3>1, PidLarge
    <3>3. QED BY <2>5, <2>6, <3>1, <3>2
  <2>7. QED BY <2>2, <2>5, <2>6 DEF ServerWaitedFor
<1>2. CASE Retry
  BY <1>2 DEF Retry, ServerWaitedFor
<1>3. CASE ReapChild
  <2>1. /\ wait' = [s \in Services |-> IF s \in Reaped THEN 1 ELSE wait[s]]
        /\ children' = children \ Dead /\ table' = table
    BY <1>3 DEF ReapChild
  <2>2. \A s \in table' \cap WaitServices : wait'[s] # 0
    BY <1>0, <2>1 DEF ServerWaitedFor
  <2>3. ASSUME NEW c \in children', c.alive, c.s \in WaitServices
        PROVE wait'[c.s] = c.pid
    <3>1. c \in children /\ c \notin Dead /\ wait[c.s] = c.pid
      BY <2>1, <2>3 DEF ServerWaitedFor
    <3>2. c.s \notin Reaped
      <4> SUFFICES ASSUME c.s \in Reaped PROVE FALSE
        OBVIOUS
      <4>1. PICK d \in Dead : wait[c.s] = d.pid
        BY DEF Reaped
      <4>2. d \in children
        BY DEF Dead
      <4>3. d = c
        BY <3>1, <4>1, <4>2 DEF PidsUnique
      <4>4. QED BY <3>1, <4>3
    <3>3. QED BY <1>0, <2>1, <2>3, <3>1, <3>2
  <2>4. QED BY <2>2, <2>3 DEF ServerWaitedFor
<1>4. ASSUME NEW s \in Services, Invoke(s)
      PROVE ServerWaitedFor'
  <2>1. PICK pid \in FreePids :
          /\ children' = children \cup {[pid |-> pid, s |-> s, alive |-> TRUE]}
          /\ wait' = [wait EXCEPT ![s] = IF @ = 0 THEN 0 ELSE pid]
    BY <1>4 DEF Invoke
  <2>2. /\ table' = table /\ s \in table /\ s \in readable
        /\ pid \in Pids
    BY <1>4 DEF Invoke, Scanned, FreePids
  <2>3. wait[s] <= 1 /\ pid # 0
    BY <2>2, PidLarge DEF ScanFree
  <2>4. \A t \in table' \cap WaitServices : wait'[t] # 0
    BY <1>0, <2>1, <2>2, <2>3 DEF ServerWaitedFor
  <2>5. ASSUME NEW c \in children', c.alive, c.s \in WaitServices
        PROVE wait'[c.s] = c.pid
    <3>1. CASE c \in children
      <4>1. wait[c.s] = c.pid /\ c.pid \in Pids /\ c.s \in Services
        BY <1>0, <2>5, <3>1 DEF ServerWaitedFor
      <4>2. wait[c.s] > 1 /\ wait[c.s] \in Nat
        BY <4>1, PidLarge
      <4>3. c.s # s
        BY <2>3, <4>2
      <4>4. QED BY <1>0, <2>1, <4>1, <4>3
    <3>2. CASE c = [pid |-> pid, s |-> s, alive |-> TRUE]
      <4>1. c.s = s /\ c.pid = pid
        BY <3>2
      <4>2. wait[s] # 0
        BY <2>2, <2>5, <4>1 DEF ServerWaitedFor
      <4>3. QED BY <1>0, <2>1, <4>1, <4>2
    <3>3. QED BY <2>1, <3>1, <3>2
  <2>6. QED BY <2>4, <2>5 DEF ServerWaitedFor
<1>5. ASSUME NEW s \in Services, Terminate(s)
      PROVE ServerWaitedFor'
  <2>1. /\ wait' = [wait EXCEPT ![s] = IF @ > 1 THEN 1 ELSE @]
        /\ children' = children /\ table' = table /\ s \in readable
    BY <1>5 DEF Terminate, Scanned
  <2>2. ~(wait[s] > 1)
    BY <1>00, <2>1 DEF ScanFree
  <2>3. wait' = wait
    BY <1>0, <2>1, <2>2
  <2>4. QED BY <2>1, <2>3 DEF ServerWaitedFor
<1>6. CASE Quiet
  <2>1. wait' = wait /\ table' = table
    BY <1>6, QuietKeeps
  <2>2. CASE children' = children
    BY <2>1, <2>2 DEF ServerWaitedFor
  <2>3. ASSUME NEW c \in children,
               children' = (children \ {c}) \cup
                           {[pid |-> c.pid, s |-> c.s, alive |-> FALSE]}
        PROVE ServerWaitedFor'
    <3> DEFINE new == [pid |-> c.pid, s |-> c.s, alive |-> FALSE]
    <3>1. ~new.alive /\ children' = (children \ {c}) \cup {new}
      BY <2>3
    <3> HIDE DEF new
    <3>2. QED BY <2>1, <3>1 DEF ServerWaitedFor
  <2>4. QED
    BY <1>6, <2>2, <2>3 DEF Quiet, Hup, Select, EndScan, Edit, ForkFails,
       RunInternal, Ask, Server, ServerTakes, ServerExits
<1>7. CASE UNCHANGED vars
  BY <1>7 DEF vars, tables, ServerWaitedFor
<1>8. QED BY <1>1, <1>2, <1>3, <1>4, <1>5, <1>6, <1>7, NextCases

(* The two assumptions on the configurations, and what they make true: a   *)
(* wait service never has two servers at a time.  Without WaitStays a      *)
(* SIGHUP that finds the service taken out, or in a later file, forgets    *)
(* the server, and the next request starts another one beside it.          *)
THEOREM OneServer ==
  ASSUME WaitKept, WaitStays
  PROVE Spec => []OneServerAtATime
<1>1. Init => WaitFits /\ PidsUnique /\ FirstFileSeen /\ ServerWaitedFor
  BY WaitInit DEF Init, FirstFileSeen, ServerWaitedFor
<1>2. TypeOK /\ WaitFits /\ PidsUnique /\ [Next]_vars => WaitFits' /\ PidsUnique'
  BY WaitFitsStep
<1>3. TypeOK /\ FirstFileSeen /\ [Next]_vars => FirstFileSeen'
  BY FirstFileStep
<1>4. TypeOK /\ WaitedFor /\ ScanFree /\ PidsUnique /\ FirstFileSeen
        /\ ServerWaitedFor /\ [Next]_vars => ServerWaitedFor'
  BY ServerStep
<1>5. CountInv => TypeOK /\ WaitedFor /\ ScanFree
  BY DEF CountInv
<1>6. TypeOK /\ WaitFits /\ PidsUnique /\ ServerWaitedFor => OneServerAtATime
  <2> SUFFICES ASSUME TypeOK, WaitFits, PidsUnique, ServerWaitedFor,
                      NEW c \in children, NEW d \in children,
                      c.s = d.s, c.alive, d.alive, c # d
               PROVE wait[c.s] = 0
    BY DEF OneServerAtATime
  <2>1. c.s \in Services
    BY DEF TypeOK
  <2>2. CASE c.s \in WaitServices
    BY <2>2 DEF ServerWaitedFor, PidsUnique
  <2>3. CASE c.s \notin WaitServices
    BY <2>1, <2>3 DEF WaitFits
  <2>4. QED BY <2>2, <2>3
<1>7. QED BY <1>1, <1>2, <1>3, <1>4, <1>5, <1>6, CountInvariant, PTL DEF Spec
==============================================================================
