------------------------------- MODULE Inetd --------------------------------
(***************************************************************************)
(* The Internet super-server (src/inetd.c): the table of services, the     *)
(* sockets select () looks at, and the handlers of SIGHUP, SIGCHLD and     *)
(* SIGALRM that change both while the main loop uses them.                 *)
(*                                                                         *)
(* A service is known by its name, its descriptor by the service it was    *)
(* opened for.  Configuration files say which services there are and which *)
(* of them are to be waited for.  Left out: node lists, tcpmux, users and  *)
(* address families of getconfigent, and environment variables.            *)
(*                                                                         *)
(* Handlers run between two turns of the scan of the main loop, as its     *)
(* body blocks signals; one handler may interrupt another one between two  *)
(* configuration files.                                                    *)
(***************************************************************************)
EXTENDS Integers, Sequences, FiniteSets

CONSTANTS
  Services,
  Kind,       \* of each service: "stream", "dgram", or "internal" for a stream
              \* service inetd provides itself without a fork
  Configs,    \* configurations: sequences of one file or more, each a set of
              \* [s, w] entries
  TooMany,    \* toomany, or 0 when the limit is not to matter
  MaxFaults,  \* bound: failures of socket (), bind () or fork ()
  Pids,       \* bound: process ids, larger than 1, of the servers running
  MaxHups,    \* bound: SIGHUPs
  MaxEdits    \* bound: changes of the configuration

(* se_wait is 0 for nowait, 1 for wait, or the process waited for.         *)
Entry == [s : Services, w : {0, 1}]

ASSUME InetdConstants ==
  /\ Kind \in [Services -> {"stream", "dgram", "internal"}]
  /\ IsFiniteSet(Services)
  /\ Configs \subseteq Seq(SUBSET Entry) \ {<<>>}
  /\ \A f \in Configs : \A i \in 1..Len(f) : \A e \in f[i] :
       Kind[e.s] = "internal" => e.w = 0
  /\ TooMany \in Nat /\ MaxFaults \in Nat
  /\ Pids \subseteq Nat \ {0, 1} /\ IsFiniteSet(Pids)
  /\ MaxHups \in Nat /\ MaxEdits \in Nat

VARIABLES
  files, edits,     \* the configuration files, and how often they changed
  table,            \* servtab
  sock,             \* services with se_fd >= 0
  wait, count,      \* se_wait and se_count
  allsock, nsock,   \* the set select () waits for, and its size as counted
  timingout,        \* an alarm is set
  checked, cfg,     \* se_checked; the file config () is at, 0 when not running
  hups,
  scanning, readable,   \* the main loop
  pending,          \* services with a request on their socket
  children,         \* processes [pid, s, alive]
  faults,           \* failures so far
  \* History variables: no action reads them.
  retried,          \* services whose socket retry () opened
  uncounted         \* sockets closed or handed over that nsock did not count

given == <<files, edits, faults, retried, uncounted>>
tables == <<table, sock, wait, count, allsock, nsock, timingout>>
vars == <<files, edits, tables, checked, cfg, hups, scanning, readable,
          pending, children, faults, retried, uncounted>>

(* main, before config (0)                                                 *)
Init ==
  /\ files \in Configs /\ edits = 0
  /\ table = {} /\ sock = {}
  /\ wait = [s \in Services |-> 0] /\ count = [s \in Services |-> 0]
  /\ allsock = {} /\ nsock = 0 /\ timingout = FALSE
  /\ checked = {} /\ cfg = 1 /\ hups = 0
  /\ scanning = FALSE /\ readable = {}
  /\ pending = {} /\ children = {} /\ faults = 0
  /\ retried = {} /\ uncounted = 0
-----------------------------------------------------------------------------
(* setup: the services of S for which socket () and bind () succeed.       *)
Opened(S) ==
  {opened \in SUBSET S : faults + Cardinality(S \ opened) <= MaxFaults}

(* setup sets an alarm when bind () fails, and none when socket () does:   *)
(* whether there is one after some of S failed.                            *)
Alarms(S) == IF S = {} THEN {FALSE} ELSE BOOLEAN

(* Faulty variant of EnteredWait: the process waited for is forgotten.     *)
EnteredWaitOverwrites(e) == e.w

(* enter: se_wait of the service of e.  One waited for is kept unless the  *)
(* configuration says nowait; a nowait service that the new configuration  *)
(* wants waited for stays nowait, and so does a built-in one.              *)
EnteredWait(e) ==
  IF e.s \in table /\ (Kind[e.s] = "internal" \/ (wait[e.s] # 1 /\ e.w = 1))
    THEN wait[e.s] ELSE e.w

(* SIGHUP: config starts.                                                  *)
Hup ==
  /\ cfg = 0 /\ hups < MaxHups
  /\ cfg' = 1 /\ checked' = {} /\ hups' = hups + 1
  /\ UNCHANGED <<given, tables, scanning, readable, pending, children>>

(* nextconfig: the services of a file are entered, those not open are set  *)
(* up (servent_setup), and all that were not seen in this or an earlier    *)
(* file are purged (close_sep).                                            *)
NextConfig ==
  /\ cfg \in 1..Len(files)
  /\ LET names == {e.s : e \in files[cfg]}
         seen == checked \cup names
         gone == table \ seen
     IN
     \E opened \in Opened(names \ sock) :
       /\ checked' = seen
       /\ table' = (table \cup names) \ gone
       /\ sock' = (sock \cup opened) \ gone
       /\ allsock' = (allsock \cup opened) \ gone
       /\ nsock' = nsock + Cardinality(opened) - Cardinality(gone \cap sock)
       /\ wait' = [s \in Services |->
            IF \E e \in files[cfg] : e.s = s
              THEN EnteredWait(CHOOSE e \in files[cfg] : e.s = s)
              ELSE IF s \in gone THEN 0 ELSE wait[s]]
       /\ count' = [s \in Services |->
            IF s \in gone \/ s \in names \ table THEN 0 ELSE count[s]]
       /\ \E alarm \in Alarms((names \ sock) \ opened) :
            timingout' = (timingout \/ alarm)
       /\ pending' = pending \ gone
       /\ faults' = faults + Cardinality((names \ sock) \ opened)
       /\ retried' = retried \ gone
       /\ uncounted' = uncounted + Cardinality((gone \cap sock) \ allsock)
  /\ cfg' = IF cfg = Len(files) THEN 0 ELSE cfg + 1
  /\ UNCHANGED <<files, edits, hups, scanning, readable, children>>

(* SIGALRM: retry sets up what is closed.                                  *)
Retry ==
  /\ timingout
  /\ \E opened \in Opened(table \ sock) :
       /\ sock' = sock \cup opened
       /\ timingout' \in Alarms((table \ sock) \ opened)
       /\ faults' = faults + Cardinality((table \ sock) \ opened)
       /\ retried' = retried \cup opened
  /\ UNCHANGED <<files, edits, uncounted, table, wait, count, allsock, nsock,
                 checked, cfg, hups, scanning, readable, pending, children>>

Dead == {c \in children : ~c.alive}

(* The services whose server was reaped.                                   *)
Reaped == {s \in table : \E c \in Dead : wait[s] = c.pid}

(* Faulty variant of ReapChild: the socket is not handed back.             *)
ReapChildForgets ==
  /\ Dead # {}
  /\ children' = children \ Dead
  /\ wait' = [s \in Services |-> IF s \in Reaped THEN 1 ELSE wait[s]]
  /\ UNCHANGED <<given, table, sock, count, allsock, nsock, timingout,
                 checked, cfg, hups, scanning, readable, pending>>

(* SIGCHLD: reapchild gives the socket of a service that was waited for    *)
(* back to select ().                                                      *)
ReapChild ==
  /\ Dead # {}
  /\ children' = children \ Dead
  /\ wait' = [s \in Services |-> IF s \in Reaped THEN 1 ELSE wait[s]]
  /\ allsock' = allsock \cup Reaped
  /\ nsock' = nsock + Cardinality(Reaped)
  /\ UNCHANGED <<given, table, sock, count, timingout, checked, cfg,
                 hups, scanning, readable, pending>>
-----------------------------------------------------------------------------
(* The main loop: sleep until there is a socket, then select ().           *)
Select ==
  /\ cfg = 0 /\ ~scanning /\ nsock # 0
  /\ allsock \cap pending # {}
  /\ readable' = allsock \cap pending /\ scanning' = TRUE
  /\ UNCHANGED <<given, tables, checked, cfg, hups, pending, children>>

Scanned == readable \cap sock \cap table

EndScan ==
  /\ cfg = 0 /\ scanning /\ Scanned = {}
  /\ scanning' = FALSE /\ readable' = {}
  /\ UNCHANGED <<given, tables, checked, cfg, hups, pending, children>>

(* accept () takes the request of a service that is not waited for.        *)
Accepts(s) == wait[s] = 0 /\ Kind[s] \in {"stream", "internal"}
Taken(s) == pending' = IF Accepts(s) THEN pending \ {s} ELSE pending
CanAccept(s) == Accepts(s) => s \in pending

FreePids == Pids \ {c.pid : c \in children}

(* The count exceeds the limit; whether that took less than CNT_INTVL is   *)
(* left open.                                                              *)
Exceeds(s) == TooMany > 0 /\ count[s] > 0 /\ count[s] + 1 >= TooMany
Counted(s) == IF TooMany = 0 THEN 0 ELSE count[s] + 1

(* Faulty variant of Invoke: the socket of a service to be waited for      *)
(* stays with select ().                                                   *)
InvokeKeepsSocket(s) ==
  /\ cfg = 0 /\ scanning /\ s \in Scanned
  /\ Kind[s] # "internal" /\ CanAccept(s) /\ Taken(s)
  /\ \/ ~Exceeds(s) /\ count' = [count EXCEPT ![s] = Counted(s)]
     \/ Exceeds(s) /\ count' = [count EXCEPT ![s] = 1]
  /\ \E pid \in FreePids :
       /\ children' = children \cup {[pid |-> pid, s |-> s, alive |-> TRUE]}
       /\ wait' = [wait EXCEPT ![s] = IF @ = 0 THEN 0 ELSE pid]
  /\ readable' = readable \ {s}
  /\ UNCHANGED <<given, table, sock, allsock, nsock, timingout, checked,
                 cfg, hups, scanning>>

(* A server is started; the socket of one to be waited for goes with it.   *)
Invoke(s) ==
  /\ cfg = 0 /\ scanning /\ s \in Scanned
  /\ Kind[s] # "internal" /\ CanAccept(s) /\ Taken(s)
  /\ \/ ~Exceeds(s) /\ count' = [count EXCEPT ![s] = Counted(s)]
     \/ Exceeds(s) /\ count' = [count EXCEPT ![s] = 1]
  /\ \E pid \in FreePids :
       /\ children' = children \cup {[pid |-> pid, s |-> s, alive |-> TRUE]}
       /\ wait' = [wait EXCEPT ![s] = IF @ = 0 THEN 0 ELSE pid]
  /\ allsock' = IF wait[s] = 0 THEN allsock ELSE allsock \ {s}
  /\ nsock' = IF wait[s] = 0 THEN nsock ELSE nsock - 1
  /\ readable' = readable \ {s}
  /\ uncounted' = IF wait[s] = 0 \/ s \in allsock THEN uncounted ELSE uncounted + 1
  /\ UNCHANGED <<files, edits, faults, retried, table, sock, timingout, checked,
                 cfg, hups, scanning>>

(* fork () fails: a connection is closed, a datagram stays where it is.    *)
ForkFails(s) ==
  /\ cfg = 0 /\ scanning /\ s \in Scanned
  /\ Kind[s] # "internal" /\ CanAccept(s) /\ Taken(s)
  /\ faults < MaxFaults /\ faults' = faults + 1
  /\ \/ ~Exceeds(s) /\ count' = [count EXCEPT ![s] = Counted(s)]
     \/ Exceeds(s) /\ count' = [count EXCEPT ![s] = 1]
  /\ readable' = readable \ {s}
  /\ UNCHANGED <<files, edits, retried, uncounted, table, sock, wait, allsock,
                 nsock, timingout, checked, cfg, hups, scanning, children>>

(* Faulty variant of Terminate: nsock is not decremented.                  *)
TerminateUncounted(s) ==
  /\ cfg = 0 /\ scanning /\ s \in Scanned
  /\ Kind[s] # "internal" /\ CanAccept(s)
  /\ Exceeds(s)
  /\ sock' = sock \ {s} /\ allsock' = allsock \ {s}
  /\ count' = [count EXCEPT ![s] = 0]
  /\ wait' = [wait EXCEPT ![s] = IF @ > 1 THEN 1 ELSE @]
  /\ timingout' = TRUE
  /\ pending' = pending \ {s}
  /\ readable' = readable \ {s}
  /\ UNCHANGED <<given, table, nsock, checked, cfg, hups, scanning,
                 children>>

(* "server failing (looping), service terminated": close_sep               *)
Terminate(s) ==
  /\ cfg = 0 /\ scanning /\ s \in Scanned
  /\ Kind[s] # "internal" /\ CanAccept(s)
  /\ Exceeds(s)
  /\ sock' = sock \ {s} /\ allsock' = allsock \ {s} /\ nsock' = nsock - 1
  /\ count' = [count EXCEPT ![s] = 0]
  /\ wait' = [wait EXCEPT ![s] = IF @ > 1 THEN 1 ELSE @]
  /\ timingout' = TRUE
  /\ pending' = pending \ {s}
  /\ readable' = readable \ {s}
  /\ uncounted' = IF s \in allsock THEN uncounted ELSE uncounted + 1
  /\ UNCHANGED <<files, edits, faults, retried, table, checked, cfg, hups,
                 scanning, children>>

(* A stream service that inetd provides itself, without a fork.            *)
RunInternal(s) ==
  /\ cfg = 0 /\ scanning /\ s \in Scanned /\ Kind[s] = "internal"
  /\ CanAccept(s) /\ Taken(s) /\ readable' = readable \ {s}
  /\ UNCHANGED <<given, tables, checked, cfg, hups, scanning, children>>

Main == \/ Select \/ EndScan
        \/ \E s \in Services : \/ Invoke(s) \/ ForkFails(s) \/ Terminate(s)
                               \/ RunInternal(s)
-----------------------------------------------------------------------------
(* Clients, servers and the administrator.                                 *)
Ask(s) ==
  /\ s \in sock \ pending
  /\ pending' = pending \cup {s}
  /\ UNCHANGED <<given, tables, checked, cfg, hups, scanning, readable,
                 children>>

HasSocket(c) == Kind[c.s] = "dgram" \/ wait[c.s] = c.pid

(* A server that has the socket itself takes what is there.                *)
ServerTakes(pid) ==
  /\ \E c \in children :
       /\ c.pid = pid /\ c.alive /\ HasSocket(c)
       /\ c.s \in pending /\ pending' = pending \ {c.s}
  /\ UNCHANGED <<given, tables, checked, cfg, hups, scanning, readable,
                 children>>

ServerExits(pid) ==
  /\ \E c \in children :
       /\ c.pid = pid /\ c.alive /\ (HasSocket(c) => c.s \notin pending)
       /\ children' = (children \ {c}) \cup
                      {[pid |-> c.pid, s |-> c.s, alive |-> FALSE]}
  /\ UNCHANGED <<given, tables, checked, cfg, hups, scanning, readable,
                 pending>>

Server(pid) == ServerTakes(pid) \/ ServerExits(pid)

Edit ==
  /\ edits < MaxEdits /\ cfg = 0
  /\ files' \in Configs \ {files} /\ edits' = edits + 1
  /\ UNCHANGED <<faults, retried, uncounted, tables, checked, cfg, hups, scanning,
                 readable, pending, children>>

Next == \/ Hup \/ NextConfig \/ Retry \/ ReapChild \/ Main
        \/ (\E s \in Services : Ask(s)) \/ (\E pid \in Pids : Server(pid)) \/ Edit

(* inetd runs, its signals are delivered, servers do their work; clients   *)
(* and the administrator need not do anything.                             *)
Spec == /\ Init /\ [][Next]_vars
        /\ WF_vars(NextConfig) /\ WF_vars(Main) /\ WF_vars(Retry)
        /\ WF_vars(ReapChild) /\ \A pid \in Pids : WF_vars(Server(pid))
-----------------------------------------------------------------------------
TypeOK ==
  /\ files \in Configs /\ edits \in 0..MaxEdits
  /\ table \subseteq Services /\ sock \subseteq table
  /\ wait \in [Services -> {0, 1} \cup Pids] /\ count \in [Services -> Nat]
  /\ allsock \subseteq sock /\ nsock \in Int /\ timingout \in BOOLEAN
  /\ checked \subseteq Services /\ cfg \in 0..Len(files) /\ hups \in 0..MaxHups
  /\ scanning \in BOOLEAN /\ readable \subseteq Services
  /\ pending \subseteq sock
  /\ children \subseteq [pid : Pids, s : Services, alive : BOOLEAN]
  /\ faults \in 0..MaxFaults /\ retried \subseteq table /\ uncounted \in Nat

(* "when reapchild() reaps this pid, it would erroneously increment nsock" *)
(* (close_sep): nsock counts the sockets of allsock, and the only thing    *)
(* that ever makes it wrong is that a socket which select () does not look *)
(* at is closed (close_sep), because its server is waited for or retry ()  *)
(* opened it, or that one opened by retry () is handed to a server, which  *)
(* happens when SIGHUP replaced it during the scan.                        *)
NsockCounts == nsock = Cardinality(allsock) - uncounted

(* An open socket is watched by select () or is in the hands of a server   *)
(* whose end will bring it back, whatever signals came in between; unless  *)
(* retry () opened it, which does not tell select () (ServiceComesBack).   *)
NoLostSocket ==
  \A s \in sock \ (allsock \cup retried) : \E c \in children : c.pid = wait[s]

(* The table, the set of select () and nsock agree.                        *)
SocketsWatched == TypeOK /\ NsockCounts /\ NoLostSocket

(* A server that is to be waited for runs alone: "sep->se_wait may be      *)
(* holding the pid of a daemon that we're waiting for" (enter).            *)
OneServerAtATime ==
  \A c, d \in children : c.s = d.s /\ c.alive /\ d.alive /\ c # d =>
    wait[c.s] = 0

(* accept () would block: the set select () returned is older than the     *)
(* socket, which SIGHUP closed and opened again during the scan.           *)
Stuck == scanning /\ \E s \in Scanned : ~CanAccept(s)

(* A request is taken, by inetd or by the server it starts, unless inetd   *)
(* is stuck in an accept () on another socket, retry () opened this one or *)
(* nsock went wrong.                                                       *)
RequestTaken ==
  \A s \in Services :
    (s \in pending) ~> (s \notin pending \/ Stuck \/ s \in retried \/ uncounted > 0)

(* "retry after bind or server fail" (RETRYTIME): a service that was       *)
(* terminated, or could not be set up, is watched again some time.         *)
ServiceComesBack ==
  \A s \in Services : (s \in table \ sock) ~> (s \in allsock \/ s \notin table)
=============================================================================
