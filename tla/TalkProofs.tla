----------------------------- MODULE TalkProofs -----------------------------
(***************************************************************************)
(* Proofs about Talk: what the talkds answer is right, and invitations are *)
(* deleted, for as long as the talkds do not run out of ids.               *)
(*                                                                         *)
(* A DELETE names an entry by its id alone and may come at any time, so    *)
(* the invariant says what every id that is known or under way means to    *)
(* the talkd it is meant for.  Its preservation is proved of two kinds of  *)
(* step, ProcessStep and DaemonStep, which keep what matters of the        *)
(* actions; the last part shows that every action is one of them.          *)
(***************************************************************************)
EXTENDS Talk, WellFoundedInduction, SequenceTheorems, TLAPS

(* No talkd has handed out its last id, MAX_ID - 1: new_id has not begun   *)
(* to hand them out again.                                                 *)
IdsLeft == \A u \in Users : current_id[u] < MAX_ID - 1

-----------------------------------------------------------------------------
(* What the variables hold.                                                *)

Places == {"off", "exit", "lookup", "connect", "clear", "announce", "leave",
           "listen", "accepted", "unlocal", "unremote", "edit", "talk"}
RequestTypes == {"LOOK_UP", "DELETE", "ANNOUNCE", "LEAVE_INVITE"}

Processes ==
  [pc : Places, run : Nat, id : Nat, local_id : Nat, remote_id : Nat,
   addr : Nat, conn : Nat, rings : Nat, blocked : BOOLEAN,
   ringing : BOOLEAN, invitation_waiting : BOOLEAN]
Requests == [to : Users, type : RequestTypes, from : Users, pid : Nat, id : Nat]
AnswerCodes == {"SUCCESS", "NOT_HERE", "PERMISSION_DENIED"}
AnswersOf ==
  [to : Users, type : RequestTypes, waits : Nat, by : Users,
   answer : AnswerCodes, id : Nat, addr : Nat]
Entries == [type : {"ANNOUNCE", "LEAVE_INVITE"}, l : Users, pid : Nat,
            id : 1..(MAX_ID - 1)]

(* The sets the variables range over.                                      *)
Shape ==
  /\ table \in [Users -> Seq(Entries)]
  /\ current_id \in [Users -> 0..(MAX_ID - 1)]
  /\ talk \in [Users -> Processes] /\ calling \in [Users -> Nat]
  /\ requests \in SUBSET Requests /\ answers \in SUBSET AnswersOf
  /\ faults \in 0..MaxFaults /\ live \in [Users -> Nat]
  /\ late \in SUBSET Users /\ swept \in SUBSET Users
  /\ forgotten \in SUBSET Users

(* A process by itself.                                                    *)
ProcessOK(t) ==
  /\ t.blocked => Transacts(t)
  /\ t.ringing => t.pc \in {"announce", "leave"}
  /\ t.pc = "off" => t.run = 0
  /\ t.pc # "off" => t.run >= 1
  /\ t.pc \in {"listen", "accepted", "unlocal", "unremote"} => t.local_id # 0
  /\ t.pc \in {"lookup", "connect", "clear"} => t.local_id = 0
  /\ t.pc = "announce" /\ ~t.ringing => t.local_id = 0
  /\ t.pc = "unlocal" => t.id = t.local_id
  /\ t.pc = "unremote" => t.id = t.remote_id
ProcessesOK ==
  \A u \in Users : /\ ProcessOK(talk[u])
                   /\ talk[u].run \in 0..MaxRuns[u]
                   /\ talk[u].rings \in 0..MaxRings[u]

(* A request: to whom it goes, and of which run it is.                     *)
RequestsOK ==
  \A q \in requests :
    /\ q.pid <= talk[q.from].run /\ q.pid # 0
    /\ q.type \in {"LOOK_UP", "ANNOUNCE"} => q.to = Party(q.from)
    /\ q.type = "LEAVE_INVITE" => q.to = q.from

(* An answer: its process is there, and who gave it.                       *)
AnswersOK ==
  \A a \in answers :
    /\ talk[a.to].pc \notin {"off", "exit"}
    /\ a.type \in {"LOOK_UP", "ANNOUNCE"} => a.by = Party(a.to)
    /\ a.type = "LEAVE_INVITE" => a.by = a.to /\ a.id # 0

(* The entries of a talkd: whose they are, ids that talkd has handed out,  *)
(* each to one entry, and the invitations of a user with the newest run    *)
(* first, one for each.                                                    *)
TablesOK ==
  \A m \in Users :
    /\ \A i \in DOMAIN table[m] :
         /\ table[m][i].id <= current_id[m]
         /\ table[m][i].pid <= talk[table[m][i].l].run /\ table[m][i].pid # 0
         /\ table[m][i].type = "LEAVE_INVITE" => table[m][i].l = m
         /\ table[m][i].type = "ANNOUNCE" => table[m][i].l = Party(m)
    /\ \A i, j \in DOMAIN table[m] : i # j => table[m][i].id # table[m][j].id
    /\ \A i, j \in DOMAIN table[m] :
         /\ i < j /\ table[m][i].type = "LEAVE_INVITE"
         /\ table[m][j].type = "LEAVE_INVITE"
         => table[m][i].pid > table[m][j].pid

(* The entries of the talkd of m, and the invitations among them.          *)
Entered(m) == {table[m][i] : i \in DOMAIN table[m]}
Invitations(m) == {e \in Entered(m) : e.type = "LEAVE_INVITE"}

(* The invitation of the present run stands at m, and under that id.       *)
Stands(m) == \E e \in Invitations(m) : e.pid = talk[m].run
Left(m, id) == \E e \in Invitations(m) : e.pid = talk[m].run /\ e.id = id

(* No invitation stands at m under that id; or only one of that run.       *)
NoInvitation(m, id) == \A e \in Invitations(m) : e.id # id
OfRun(m, id, run) == \A e \in Invitations(m) : e.id = id => e.pid = run

(* Requests to the own talkd are not older than the invitations there.     *)
InOrder ==
  \A q \in requests : q.from = q.to =>
    \A e \in Invitations(q.to) : e.pid <= q.pid

-----------------------------------------------------------------------------
(* A process that has not left an invitation in this run.                  *)
Uninvited(t) ==
  \/ t.pc \in {"lookup", "connect", "clear"}
  \/ t.pc = "announce" /\ ~t.ringing
  \/ t.pc \in {"edit", "talk"} /\ t.local_id = 0
NothingLeft ==
  \A u \in Users : Uninvited(talk[u]) =>
    /\ ~Stands(u)
    /\ \A q \in requests : q.from = u /\ q.pid = talk[u].run
         => q.type # "LEAVE_INVITE"
    /\ \A a \in answers : a.to = u => a.type # "LEAVE_INVITE"

(* The ids that processes, requests and answers refer to were handed out   *)
(* by the talkd they are meant for, and mean there what they meant when    *)
(* they were handed out.                                                   *)
IdsMeant ==
  \A m \in Users : m \notin forgotten =>
    /\ talk[m].local_id <= current_id[m]
    /\ talk[Party(m)].remote_id <= current_id[m]
    /\ NoInvitation(m, talk[Party(m)].remote_id)
    /\ talk[Party(m)].pc \in {"connect", "clear"} =>
         /\ talk[Party(m)].id <= current_id[m]
         /\ OfRun(m, talk[Party(m)].id, talk[Party(m)].addr)
    /\ \A q \in requests : q.to = m /\ q.type = "DELETE" => q.id <= current_id[m]
    /\ \A a \in answers : a.by = m =>
         /\ a.id <= current_id[m]
         /\ a.type = "ANNOUNCE" => NoInvitation(m, a.id)
         /\ a.type = "LOOK_UP" /\ a.answer = "SUCCESS" => OfRun(m, a.id, a.addr)

(* No DELETE is under way, or is about to be sent again, for the           *)
(* invitation of one who may still be called.                              *)
NoDelete ==
  \A m \in Users : m \notin forgotten /\ Listens(talk[m]) =>
    /\ \A q \in requests : q.to = m /\ q.type = "DELETE" => ~Left(m, q.id)
    /\ talk[Party(m)].pc = "clear" => ~Left(m, talk[Party(m)].id)

(* The invitation is there under the id that the process knows or is told. *)
Invited ==
  \A u \in Users : Listens(talk[u]) /\ u \notin forgotten \cup swept =>
    /\ \A a \in answers : a.to = u /\ a.type = "LEAVE_INVITE" => Left(u, a.id)
    /\ talk[u].pc \in {"listen", "accepted"} => Left(u, talk[u].local_id)

(* Of one who has been called: DELETE to the own talkd is for the          *)
(* invitation of this run; after its answer there is none.                 *)
Called(t) == t.pc \in {"unlocal", "unremote", "edit", "talk"}
Deleted ==
  \A u \in Users :
    /\ \A q \in requests :
         /\ q.type = "DELETE" /\ q.from = u /\ q.to = u
         /\ q.pid = talk[u].run /\ talk[u].pc \notin {"off", "exit"}
         => Called(talk[u]) /\ q.id = talk[u].local_id
    /\ \A a \in answers : a.type = "DELETE" /\ a.to = u /\ a.by = u =>
         /\ Called(talk[u])
         /\ u \notin late \cup swept \cup forgotten => ~Stands(u)
    /\ Called(talk[u]) /\ u \notin late \cup swept \cup forgotten =>
         /\ Stands(u) => Left(u, talk[u].local_id)
         /\ talk[u].pc # "unlocal" => ~Stands(u)

(* p has waited for a call in that run, and the same without waiting now.  *)
HasWaited(p, run) ==
  \/ talk[p].run > run
  \/ /\ talk[p].run = run
     /\ talk[p].pc \notin {"off", "lookup", "connect", "clear"}
WaitsNoMore(p, run) ==
  HasWaited(p, run) /\ (talk[p].run = run => ~Listens(talk[p]))
Looked ==
  /\ \A a \in answers : a.type = "LOOK_UP" /\ a.waits # 0 =>
       /\ a.answer = "SUCCESS" /\ a.addr = a.waits
       /\ HasWaited(Party(a.to), a.waits)
  /\ \A u \in Users : live[u] # 0 =>
       /\ talk[u].pc = "connect" =>
            talk[u].addr = live[u] /\ HasWaited(Party(u), live[u])
       /\ Listens(talk[u]) \/ talk[u].pc = "clear" =>
            WaitsNoMore(Party(u), live[u])

(* One who clears a stale invitation: its DELETE is the first of the run,  *)
(* and once answered no entry has the id.                                  *)
Cleared ==
  \A u \in Users :
    /\ \A q \in requests :
         q.type = "DELETE" /\ q.from = u /\ q.pid = talk[u].run =>
           /\ talk[u].pc \notin {"lookup", "connect"}
           /\ talk[u].pc = "clear" => q.to = Party(u) /\ q.id = talk[u].id
    /\ \A a \in answers : a.type = "DELETE" /\ a.to = u =>
           /\ talk[u].pc \notin {"lookup", "connect"}
           /\ talk[u].pc = "clear" /\ Party(u) \notin forgotten =>
                \A e \in Entered(Party(u)) : e.id # talk[u].id

(* The inductive invariant.                                                *)
TalkInv ==
  /\ Shape /\ ProcessesOK /\ RequestsOK /\ AnswersOK /\ TablesOK /\ InOrder
  /\ NothingLeft /\ IdsMeant /\ NoDelete /\ Invited /\ Deleted /\ Looked
  /\ Cleared
-----------------------------------------------------------------------------

(* What a step of the process of u does to it and to what belongs to it: t *)
(* is the process after it.  Transactions end with an answer a.            *)
KeptIds(o, t) == /\ t.run = o.run /\ t.local_id = o.local_id
                 /\ t.remote_id = o.remote_id
Replied(u, type) == {a \in answers : a.to = u /\ a.type = type}
Changes(u, o, t) ==
  \/ t.pc = o.pc /\ KeptIds(o, t) /\ t.id = o.id /\ t.addr = o.addr /\ t.ringing = o.ringing
  \/ /\ o.pc \in {"off", "exit"} /\ t.pc = "lookup" /\ t.run = o.run + 1
     /\ t.local_id = 0 /\ t.remote_id = 0 /\ ~t.ringing
  \/ /\ o.pc = "lookup" /\ t.pc = "connect" /\ KeptIds(o, t) /\ ~t.ringing
     /\ \E a \in Replied(u, "LOOK_UP") :
          /\ a.answer = "SUCCESS" /\ t.id = a.id /\ t.addr = a.addr
          /\ live'[u] = a.waits
  \/ /\ o.pc = "lookup" /\ t.pc = "announce" /\ KeptIds(o, t) /\ ~t.ringing
     /\ \E a \in Replied(u, "LOOK_UP") : a.answer # "SUCCESS" /\ live'[u] = a.waits
  \/ /\ o.pc = "clear" /\ t.pc = "announce" /\ KeptIds(o, t) /\ ~t.ringing
     /\ Replied(u, "DELETE") # {}
  \/ /\ o.pc = "announce" /\ t.pc = "leave" /\ t.run = o.run
     /\ t.local_id = o.local_id
     /\ \E a \in Replied(u, "ANNOUNCE") : t.remote_id = a.id
  \/ /\ o.pc = "leave" /\ t.pc = "listen" /\ t.run = o.run
     /\ t.remote_id = o.remote_id
     /\ \E a \in Replied(u, "LEAVE_INVITE") : t.local_id = a.id
  \/ o.pc = "connect" /\ t.pc = "edit" /\ KeptIds(o, t)
  \/ /\ o.pc = "connect" /\ t.pc = "clear" /\ KeptIds(o, t)
     /\ t.id = o.id /\ t.addr = o.addr
     /\ ~(talk[Party(u)].run = o.addr /\ Listens(talk[Party(u)]))
  \/ o.pc = "listen" /\ t.pc = "accepted" /\ KeptIds(o, t)
  \/ /\ o.pc \in {"listen", "accepted"} /\ t.pc = "announce" /\ t.ringing
     /\ KeptIds(o, t)
  \/ o.pc = "accepted" /\ t.pc = "unlocal" /\ KeptIds(o, t)
  \/ /\ o.pc = "unlocal" /\ t.pc = "unremote" /\ KeptIds(o, t)
     /\ \E a \in Replied(u, "DELETE") : a.by = u \/ u \in late'
  \/ o.pc = "unremote" /\ t.pc = "edit" /\ KeptIds(o, t)
  \/ o.pc = "edit" /\ t.pc = "talk" /\ KeptIds(o, t)
  \/ /\ t.pc = "exit" /\ t.run = o.run /\ t.local_id = 0 /\ t.remote_id = 0
     /\ o.pc \notin {"off", "exit"} /\ \A a \in answers' : a.to # u

(* A request r that this step sends.                                       *)
Sends(u, o, t, r) ==
  /\ r \in Requests /\ r.from = u /\ r.pid = t.run /\ t.pc # "off"
  /\ r.type \in {"LOOK_UP", "ANNOUNCE"} => r.to = Party(u)
  /\ r.type = "LEAVE_INVITE" => r.to = u /\ t.pc = "leave"
  /\ r.type = "DELETE" =>
       \/ t.pc = "clear" /\ r.to = Party(u) /\ r.id = t.id
       \/ t.pc = "unlocal" /\ r.to = u /\ r.id = t.id
       \/ t.pc = "unremote" /\ r.to = Party(u) /\ r.id = t.id
       \/ t.pc = "exit" /\ r.to = u /\ r.id = o.local_id
       \/ /\ t.pc = "exit" /\ r.to = Party(u)
          /\ r.id = o.remote_id \/ \E a \in Replied(u, "ANNOUNCE") : r.id = a.id

(* Any step of the process of u: all that the invariant needs to know.     *)
ProcessStep(u, t) ==
  /\ UNCHANGED <<table, current_id, forgotten>>
  /\ t \in Processes /\ talk' = [talk EXCEPT ![u] = t]
  /\ ProcessOK(t) /\ t.run \in 0..MaxRuns[u] /\ t.rings \in 0..MaxRings[u]
  /\ Changes(u, talk[u], t)
  /\ \A r \in requests' : r \in requests \/ Sends(u, talk[u], t, r)
  /\ answers' \subseteq answers
  /\ calling' \in [Users -> Nat] /\ faults' \in 0..MaxFaults
  /\ live' \in [Users -> Nat]
  /\ \A v \in Users : v # u => live'[v] = live[v]
  /\ live'[u] # live[u] => talk[u].pc = "lookup" \/ t.pc = "lookup"
  /\ t.pc = "lookup" /\ talk[u].pc # "lookup" => live'[u] = 0
  /\ \/ late' = late /\ swept' = swept
     \/ late' = late \cup {u} /\ swept' = swept
     \/ /\ late' = late \ {u} /\ swept' = swept \ {u}
        /\ talk[u].pc \in {"off", "exit"} /\ t.pc = "lookup"

(* What the step of a talkd that takes the request q does to the entries   *)
(* of m.                                                                   *)
Taken(m, q) ==
  \/ Entered(m)' = Entered(m) /\ current_id'[m] = current_id[m]
  \/ /\ q.type \in {"ANNOUNCE", "LEAVE_INVITE"}
     /\ \E e \in Entries :
          /\ Entered(m)' = Entered(m) \cup {e} /\ e.type = q.type
          /\ e.pid = q.pid /\ e.id = current_id[m] + 1
          /\ q.type = "LEAVE_INVITE" => \A f \in Invitations(m) : f.pid # q.pid
     /\ current_id'[m] = current_id[m] + 1
  \/ /\ q.type = "ANNOUNCE"
     /\ \A e \in Entered(m)' : e \in Entered(m) \/ e.id = current_id[m] + 1
     /\ Invitations(m)' = Invitations(m)
     /\ current_id'[m] = current_id[m] + 1
  \/ /\ q.type = "DELETE" /\ Entered(m)' \subseteq Entered(m)
     /\ current_id'[m] = current_id[m]
     /\ \A e \in Invitations(m) :
          m \notin swept' /\ e.id # q.id => e \in Invitations(m)'

(* The answer a to q says what the table of m holds.                       *)
AnswerTo(m, q, a) ==
  /\ a \in AnswersOf /\ a.to = q.from /\ a.type = q.type /\ a.by = m
  /\ Alive(q.from, q.pid) /\ a.id <= current_id'[m]
  /\ a.type = "ANNOUNCE" => NoInvitation(m, a.id)'
  /\ a.type = "LEAVE_INVITE" =>
       a.id # 0 /\ \E e \in Invitations(m)' : e.pid = q.pid /\ e.id = a.id
  /\ a.type = "LOOK_UP" =>
       \/ a.answer = "SUCCESS" /\ Invitations(m)' = Invitations(m)
          /\ \E e \in Invitations(m) :
               /\ e.id = a.id /\ e.pid = a.addr
               /\ a.waits # 0 => /\ a.waits = talk[m].run /\ a.addr = a.waits
                                 /\ talk[m].pc = "listen"
       \/ a.answer # "SUCCESS" /\ a.waits = 0 /\ a.id = 0
  /\ a.type = "DELETE" => a.id = 0 /\ \A e \in Entered(m)' : e.id # q.id

(* The talkd of m takes q.                                                 *)
DaemonStep(m, q) ==
  /\ q \in requests /\ q.to = m /\ requests' = requests \ {q}
  /\ q.from = m => \A o \in requests : o.to = m /\ o.from = m => o.pid >= q.pid
  /\ UNCHANGED <<talk, calling, live, forgotten>>
  /\ \A v \in Users : v # m => /\ Entered(v)' = Entered(v)
                               /\ current_id'[v] = current_id[v]
  /\ Taken(m, q)
  /\ \A a \in answers' : a \in answers \/ AnswerTo(m, q, a)
  /\ \/ late' = late \cup {m}
     \/ /\ late' = late
        /\ q.type = "LEAVE_INVITE" /\ talk[m].run = q.pid => talk[m].pc = "leave"
  /\ swept' = swept \/ swept' = swept \cup {m}
-----------------------------------------------------------------------------

(* The two users.                                                          *)
LEMMA PartyFacts ==
  ASSUME NEW u \in Users
  PROVE /\ Party(u) \in Users /\ Party(u) # u /\ Party(Party(u)) = u
        /\ \A v \in Users : v = u \/ v = Party(u)
<1>1. PICK a \in Users, b \in Users : a # b /\ Users = {a, b}
  BY TalkConstants
<1>2. ASSUME NEW v \in Users PROVE Party(v) \in Users /\ Party(v) # v
  <2>1. \E w \in Users : w # v
    BY <1>1
  <2>2. QED BY <2>1 DEF Party
<1>3. QED BY <1>1, <1>2

(* A set of natural numbers has a least one.                               *)
LEMMA Least ==
  ASSUME NEW S \in SUBSET Nat, S # {}
  PROVE \E i \in S : \A j \in S : i <= j
<1>1. PICK i \in S : \A j \in S : ~(<<j, i>> \in OpToRel(<, Nat))
  BY NatLessThanWellFounded, WFMin, Zenon
<1>2. ASSUME NEW j \in S PROVE i <= j
  <2>1. i \in Nat /\ j \in Nat
    OBVIOUS
  <2>2. ~(j < i)
    BY <1>1, <2>1 DEF OpToRel
  <2>3. QED BY <2>1, <2>2
<1>3. QED BY <1>2

(* The first entry that matches.                                           *)
LEMMA LookupFacts ==
  ASSUME NEW S, S \in SUBSET Nat
  PROVE /\ S = {} => lookup_request(S) = 0
        /\ S # {} => /\ lookup_request(S) \in S
                     /\ \A j \in S : lookup_request(S) <= j
BY Least DEF lookup_request

(* The entries of a talkd, one by one.                                     *)
LEMMA EntriesFacts ==
  ASSUME Shape, TablesOK, NEW m \in Users
  PROVE /\ Invitations(m) \subseteq Entered(m) /\ Entered(m) \subseteq Entries
        /\ \A e \in Entered(m) :
             /\ e.id \in Nat /\ e.id # 0 /\ e.pid \in Nat
             /\ e.id <= current_id[m] /\ e.pid # 0
        /\ \A e \in Invitations(m) :
             e.l = m /\ e.type = "LEAVE_INVITE" /\ e.pid <= talk[m].run
        /\ \A e, f \in Entered(m) : e.id = f.id => e = f
        /\ \A e, f \in Invitations(m) : e.pid = f.pid => e = f
<1> DEFINE s == table[m]
<1>1. s \in Seq(Entries)
  BY DEF Shape
<1>2. /\ \A i \in DOMAIN s :
           /\ s[i].id <= current_id[m]
           /\ s[i].pid <= talk[s[i].l].run /\ s[i].pid # 0
           /\ s[i].type = "LEAVE_INVITE" => s[i].l = m
      /\ \A i, j \in DOMAIN s : i # j => s[i].id # s[j].id
      /\ \A i, j \in DOMAIN s :
           i < j /\ s[i].type = "LEAVE_INVITE" /\ s[j].type = "LEAVE_INVITE"
           => s[i].pid > s[j].pid
  BY DEF TablesOK
<1>3. Entered(m) = {s[i] : i \in DOMAIN s}
  BY DEF Entered
<1> HIDE DEF s
<1>4. \A i \in DOMAIN s : s[i] \in Entries /\ i \in Nat
  BY <1>1
<1>5. Entered(m) \subseteq Entries
  BY <1>3, <1>4
<1>6. \A e \in Entered(m) : e.id \in Nat /\ e.id # 0 /\ e.pid \in Nat
  <2>1. \A n \in 1..(MAX_ID - 1) : n \in Nat /\ n # 0
    BY TalkConstants
  <2>2. QED BY <1>5, <2>1 DEF Entries
<1>7. \A e, f \in Entered(m) : e.id = f.id => e = f
  BY <1>2, <1>3
<1>8. ASSUME NEW e \in Invitations(m), NEW f \in Invitations(m), e.pid = f.pid
      PROVE e = f
  <2>1. PICK i \in DOMAIN s : e = s[i]
    BY <1>3 DEF Invitations
  <2>2. PICK j \in DOMAIN s : f = s[j]
    BY <1>3 DEF Invitations
  <2>3. e.type = "LEAVE_INVITE" /\ f.type = "LEAVE_INVITE" /\ e.pid \in Nat
    BY <1>6 DEF Invitations
  <2>4. ~(i < j) /\ ~(j < i)
    BY <1>2, <1>8, <2>1, <2>2, <2>3
  <2>5. i = j
    BY <1>4, <2>4
  <2>6. QED BY <2>1, <2>2, <2>5
<1>9. \A e \in Entered(m) : e.id <= current_id[m] /\ e.pid # 0
  BY <1>2, <1>3
<1>10. ASSUME NEW e \in Invitations(m)
       PROVE e.l = m /\ e.type = "LEAVE_INVITE" /\ e.pid <= talk[m].run
  <2>1. PICK i \in DOMAIN s : e = s[i]
    BY <1>3 DEF Invitations
  <2>2. e.type = "LEAVE_INVITE"
    BY DEF Invitations
  <2>3. QED BY <1>2, <2>1, <2>2
<1>11. QED BY <1>5, <1>6, <1>7, <1>8, <1>9, <1>10 DEF Invitations

(* Standing is what Stands says of the set of entries.                     *)
LEMMA StandingFacts ==
  ASSUME NEW u
  PROVE Standing(u) <=> Stands(u)
BY DEF Standing, Stands, Invitations, Entered

-----------------------------------------------------------------------------
(* Steps of the processes.                                                 *)

(* What stays.                                                             *)
LEMMA ProcessFrame ==
  ASSUME TalkInv, NEW u \in Users, NEW t, ProcessStep(u, t)
  PROVE /\ \A v \in Users : /\ Entered(v)' = Entered(v)
                            /\ Invitations(v)' = Invitations(v)
                            /\ current_id'[v] = current_id[v]
        /\ talk'[u] = t /\ talk[u] \in Processes /\ t \in Processes
        /\ \A v \in Users : v # u => talk'[v] = talk[v]
        /\ talk' \in [Users -> Processes] /\ talk \in [Users -> Processes]
        /\ forgotten' = forgotten
        /\ talk[u].run <= t.run
<1>1. /\ UNCHANGED <<table, current_id, forgotten>>
      /\ t \in Processes /\ talk' = [talk EXCEPT ![u] = t]
      /\ talk \in [Users -> Processes]
  BY DEF TalkInv, Shape, ProcessStep
<1>2. \A v \in Users : /\ Entered(v)' = Entered(v)
                       /\ Invitations(v)' = Invitations(v)
                       /\ current_id'[v] = current_id[v]
  BY <1>1 DEF Entered, Invitations
<1>3. /\ talk'[u] = t /\ talk[u] \in Processes
      /\ \A v \in Users : v # u => talk'[v] = talk[v]
      /\ talk' \in [Users -> Processes]
  BY <1>1
<1>4. talk[u].run <= t.run
  <2>1. t.run = talk[u].run \/ t.run = talk[u].run + 1
    BY DEF ProcessStep, Changes, KeptIds
  <2>2. talk[u].run \in Nat
    BY <1>3 DEF Processes
  <2>3. QED BY <2>1, <2>2
<1>5. QED BY <1>1, <1>2, <1>3, <1>4

(* Shape and ProcessesOK: the types, and the process by itself.            *)
LEMMA ProcessShape ==
  ASSUME TalkInv, NEW u \in Users, NEW t, ProcessStep(u, t)
  PROVE Shape' /\ ProcessesOK'
<1>1. talk' \in [Users -> Processes]
  BY ProcessFrame
<1>2. requests' \in SUBSET Requests
  BY DEF TalkInv, Shape, ProcessStep, Sends
<1>3. answers' \in SUBSET AnswersOf
  BY DEF TalkInv, Shape, ProcessStep
<1>4. late' \in SUBSET Users /\ swept' \in SUBSET Users
  BY DEF TalkInv, Shape, ProcessStep
<1>5. Shape'
  BY <1>1, <1>2, <1>3, <1>4 DEF TalkInv, Shape, ProcessStep
<1>6. ASSUME NEW v \in Users
      PROVE /\ ProcessOK(talk[v])' /\ talk'[v].run \in 0..MaxRuns[v]
            /\ talk'[v].rings \in 0..MaxRings[v]
  <2>1. CASE v = u
    BY <2>1, ProcessFrame DEF ProcessStep, ProcessOK, Transacts
  <2>2. CASE v # u
    BY <2>2, ProcessFrame DEF TalkInv, ProcessesOK, ProcessOK, Transacts
  <2>3. QED BY <2>1, <2>2
<1>7. QED BY <1>5, <1>6 DEF ProcessesOK

(* The runs only grow.                                                     *)
LEMMA ProcessRuns ==
  ASSUME TalkInv, NEW u \in Users, NEW t, ProcessStep(u, t)
  PROVE \A v \in Users : /\ talk[v].run <= talk'[v].run
                         /\ talk[v].run \in Nat /\ talk'[v].run \in Nat
BY ProcessFrame DEF Processes

(* TablesOK: the tables stay, and the runs they name are still not over.   *)
LEMMA ProcessTables ==
  ASSUME TalkInv, NEW u \in Users, NEW t, ProcessStep(u, t)
  PROVE TablesOK'
<1>1. UNCHANGED <<table, current_id>>
  BY DEF ProcessStep
<1>2. ASSUME NEW m \in Users, NEW i \in DOMAIN table[m]
      PROVE table[m][i].pid <= talk'[table[m][i].l].run
  <2>1. /\ table[m][i].pid <= talk[table[m][i].l].run
        /\ table[m][i] \in Entries
    BY DEF TalkInv, TablesOK, Shape
  <2>2. table[m][i].l \in Users /\ table[m][i].pid \in Nat
    BY <2>1 DEF Entries
  <2>3. QED BY <2>1, <2>2, ProcessRuns
<1>3. QED BY <1>1, <1>2 DEF TalkInv, TablesOK

(* RequestsOK and InOrder: a new request is of the present run.            *)
LEMMA ProcessRequests ==
  ASSUME TalkInv, NEW u \in Users, NEW t, ProcessStep(u, t)
  PROVE RequestsOK' /\ InOrder'
<1>1. ASSUME NEW q \in requests'
      PROVE /\ q \in Requests
            /\ q \in requests \/ Sends(u, talk[u], t, q)
            /\ q \notin requests => q.from = u /\ q.pid = t.run
  BY DEF TalkInv, Shape, ProcessStep, Sends
<1>2. ASSUME NEW q \in requests'
      PROVE /\ q.pid <= talk'[q.from].run /\ q.pid # 0
            /\ q.type \in {"LOOK_UP", "ANNOUNCE"} => q.to = Party(q.from)
            /\ q.type = "LEAVE_INVITE" => q.to = q.from
  <2>1. CASE q \in requests
    <3>1. q.pid \in Nat /\ q.from \in Users
      BY <1>1 DEF Requests
    <3>2. QED BY <2>1, <3>1, ProcessRuns DEF TalkInv, RequestsOK
  <2>2. CASE q \notin requests
    <3>1. q.pid \in Nat /\ q.from = u /\ q.pid = t.run /\ talk'[u] = t
      BY <1>1, <2>2, ProcessFrame DEF Requests
    <3>2. q.pid # 0
      BY <1>1, <2>2, <3>1 DEF Sends, ProcessStep, ProcessOK
    <3>3. QED BY <1>1, <2>2, <3>1, <3>2 DEF Sends
  <2>3. QED BY <2>1, <2>2
<1>3. ASSUME NEW q \in requests', q.from = q.to, NEW e \in Invitations(q.to)'
      PROVE e.pid <= q.pid
  <2>1. q.to \in Users /\ q.pid \in Nat
    BY <1>1 DEF Requests
  <2>2. e \in Invitations(q.to)
    BY <1>3, <2>1, ProcessFrame
  <2>3. CASE q \in requests
    BY <1>3, <2>2, <2>3 DEF TalkInv, InOrder
  <2>4. CASE q \notin requests
    <3>1. e.pid <= talk[u].run /\ q.to = u /\ e.pid \in Nat
      BY <1>1, <1>3, <2>1, <2>2, <2>4, EntriesFacts DEF TalkInv
    <3>2. talk[u].run <= q.pid /\ talk[u].run \in Nat
      BY <1>1, <2>4, ProcessFrame, ProcessRuns
    <3>3. QED BY <2>1, <3>1, <3>2
  <2>5. QED BY <2>3, <2>4
<1>4. QED BY <1>2, <1>3 DEF RequestsOK, InOrder

(* AnswersOK: one who exits has its answers dropped.                       *)
LEMMA ProcessAnswers ==
  ASSUME TalkInv, NEW u \in Users, NEW t, ProcessStep(u, t)
  PROVE AnswersOK'
<1>1. ASSUME NEW a \in answers' PROVE a \in answers /\ a.to \in Users
  BY DEF ProcessStep, TalkInv, Shape, AnswersOf
<1>2. ASSUME NEW a \in answers' PROVE talk'[a.to].pc \notin {"off", "exit"}
  <2>1. talk[a.to].pc \notin {"off", "exit"}
    BY <1>1 DEF TalkInv, AnswersOK
  <2>2. CASE a.to = u
    BY <1>2, <2>1, <2>2, ProcessFrame DEF ProcessStep, Changes
  <2>3. CASE a.to # u
    BY <1>1, <2>1, <2>3, ProcessFrame
  <2>4. QED BY <2>2, <2>3
<1>3. QED BY <1>1, <1>2 DEF TalkInv, AnswersOK

(* NothingLeft: LEAVE_INVITE is only sent after ANNOUNCE was answered.     *)
LEMMA ProcessNothingLeft ==
  ASSUME TalkInv, NEW u \in Users, NEW t, ProcessStep(u, t)
  PROVE NothingLeft'
<1>1. /\ talk'[u] = t /\ talk[u] \in Processes
      /\ \A v \in Users : v # u => talk'[v] = talk[v]
      /\ \A v \in Users : Invitations(v)' = Invitations(v)
  BY ProcessFrame
<1>2. NothingLeft /\ RequestsOK /\ AnswersOK /\ Changes(u, talk[u], t)
  BY DEF TalkInv, ProcessStep
<1>3. \A a \in answers' : a \in answers
  BY DEF ProcessStep
<1>4. ASSUME NEW q \in requests', q \notin requests
      PROVE q.from = u /\ (q.type = "LEAVE_INVITE" => t.pc = "leave")
  BY <1>4 DEF ProcessStep, Sends
<1>5. CASE talk[u].pc \in {"off", "exit"} /\ t.pc = "lookup"
  <2>1. t.run = talk[u].run + 1 /\ talk[u].run \in Nat
    BY <1>1, <1>2, <1>5 DEF Changes, Processes
  <2>2. \A e \in Invitations(u) : e.pid \in Nat /\ e.pid <= talk[u].run
    BY EntriesFacts DEF TalkInv
  <2>3. ~Stands(u)'
    BY <1>1, <2>1, <2>2 DEF Stands
  <2>4. \A q \in requests : q.from = u => q.pid \in Nat /\ q.pid <= talk[u].run
    BY <1>2 DEF RequestsOK, TalkInv, Shape, Requests
  <2>5. \A a \in answers : a.to # u
    BY <1>2, <1>5 DEF AnswersOK
  <2>6. ASSUME NEW v \in Users, v # u, Uninvited(talk'[v])
        PROVE /\ ~Stands(v)'
              /\ \A q \in requests' : q.from = v /\ q.pid = talk'[v].run
                   => q.type # "LEAVE_INVITE"
              /\ \A a \in answers' : a.to = v => a.type # "LEAVE_INVITE"
    <3>1. talk'[v] = talk[v] /\ Uninvited(talk[v])
      BY <1>1, <2>6
    <3>2. ~Stands(v)'
      BY <1>1, <1>2, <3>1 DEF Stands, NothingLeft
    <3>3. QED BY <1>2, <1>3, <1>4, <2>6, <3>1, <3>2 DEF NothingLeft
  <2>7. \A q \in requests' : q.from = u /\ q.pid = t.run => q.type # "LEAVE_INVITE"
    BY <1>4, <1>5, <2>1, <2>4
  <2>8. QED BY <1>1, <1>3, <2>3, <2>5, <2>6, <2>7 DEF NothingLeft
<1>6. CASE ~(talk[u].pc \in {"off", "exit"} /\ t.pc = "lookup")
  <2>1. t.run = talk[u].run /\ (Uninvited(t) => Uninvited(talk[u]))
    <3>1. t.run = talk[u].run
      BY <1>2, <1>6 DEF Changes, KeptIds
    <3>2. ASSUME Uninvited(t) PROVE Uninvited(talk[u])
      <4>1. ProcessOK(talk[u])
        BY DEF TalkInv, ProcessesOK
      <4>2. QED BY <1>2, <1>6, <3>2, <4>1 DEF Changes, KeptIds, Uninvited, ProcessOK
    <3>3. QED BY <3>1, <3>2
  <2>2. ASSUME NEW v \in Users, Uninvited(talk'[v])
        PROVE Uninvited(talk[v]) /\ talk'[v].run = talk[v].run
    BY <1>1, <2>1, <2>2
  <2>3. ASSUME NEW v \in Users, Uninvited(talk'[v])
        PROVE /\ ~Stands(v)'
              /\ \A q \in requests' : q.from = v /\ q.pid = talk'[v].run
                   => q.type # "LEAVE_INVITE"
              /\ \A a \in answers' : a.to = v => a.type # "LEAVE_INVITE"
    <3>1. Uninvited(talk[v]) /\ talk'[v].run = talk[v].run
      BY <2>2, <2>3
    <3>2. ~Stands(v)'
      BY <1>1, <1>2, <3>1 DEF Stands, NothingLeft
    <3>3. ASSUME NEW q \in requests', q.from = v, q.pid = talk'[v].run
          PROVE q.type # "LEAVE_INVITE"
      <4>1. CASE q \in requests
        BY <1>2, <3>1, <3>3, <4>1 DEF NothingLeft
      <4>2. CASE q \notin requests
        <5>1. v = u /\ talk'[u] = t
          BY <1>1, <1>4, <3>3, <4>2
        <5>2. t.pc # "leave"
          BY <2>3, <5>1 DEF Uninvited
        <5>3. QED BY <1>4, <4>2, <5>2
      <4>3. QED BY <4>1, <4>2
    <3>4. QED BY <1>2, <1>3, <3>1, <3>2, <3>3 DEF NothingLeft
  <2>4. QED BY <2>3 DEF NothingLeft
<1>7. QED BY <1>5, <1>6

(* IdsMeant: a process knows only ids that talkd has told it.              *)
LEMMA ProcessIdsMeant ==
  ASSUME TalkInv, NEW u \in Users, NEW t, ProcessStep(u, t)
  PROVE IdsMeant'
<1>1. /\ talk'[u] = t /\ talk[u] \in Processes /\ t \in Processes
      /\ \A v \in Users : v # u => talk'[v] = talk[v]
      /\ \A v \in Users : /\ Invitations(v)' = Invitations(v)
                          /\ current_id'[v] = current_id[v]
                          /\ current_id[v] \in Nat
      /\ forgotten' = forgotten
  BY ProcessFrame DEF TalkInv, Shape
<1>2. IdsMeant /\ AnswersOK /\ Changes(u, talk[u], t)
      /\ ProcessOK(talk[u]) /\ ProcessOK(t)
  BY DEF TalkInv, ProcessStep, ProcessesOK
<1>3. \A a \in answers' : a \in answers
  BY DEF ProcessStep
<1>4. PICK p \in Users : /\ p = Party(u) /\ p # u /\ Party(p) = u
                         /\ \A v \in Users : v = u \/ v = p
  BY PartyFacts
<1>5. /\ \A v \in Users : \A e \in Invitations(v) : e.id # 0
      /\ \A v \in Users : 0 <= current_id[v]
  BY <1>1, EntriesFacts DEF TalkInv
<1>6. ASSUME u \notin forgotten PROVE t.local_id <= current_id[u]
  <2>1. CASE \E a \in Replied(u, "LEAVE_INVITE") : t.local_id = a.id
    BY <1>2, <1>6, <2>1 DEF Replied, IdsMeant, AnswersOK
  <2>2. CASE t.local_id = talk[u].local_id \/ t.local_id = 0
    BY <1>2, <1>5, <1>6, <2>2 DEF IdsMeant
  <2>3. QED BY <1>2, <2>1, <2>2 DEF Changes, KeptIds
<1>7. ASSUME p \notin forgotten
      PROVE t.remote_id <= current_id[p] /\ NoInvitation(p, t.remote_id)
  <2>1. CASE \E a \in Replied(u, "ANNOUNCE") : t.remote_id = a.id
    BY <1>2, <1>4, <1>7, <2>1 DEF Replied, IdsMeant, AnswersOK
  <2>2. CASE t.remote_id = talk[u].remote_id \/ t.remote_id = 0
    BY <1>2, <1>4, <1>5, <1>7, <2>2 DEF IdsMeant, NoInvitation
  <2>3. QED BY <1>2, <2>1, <2>2 DEF Changes, KeptIds
<1>8. ASSUME p \notin forgotten, t.pc \in {"connect", "clear"}
      PROVE t.id <= current_id[p] /\ OfRun(p, t.id, t.addr)
  <2>1. CASE \E a \in Replied(u, "LOOK_UP") :
               a.answer = "SUCCESS" /\ t.id = a.id /\ t.addr = a.addr
    BY <1>2, <1>4, <1>8, <2>1 DEF Replied, IdsMeant, AnswersOK
  <2>2. CASE talk[u].pc \in {"connect", "clear"} /\ t.id = talk[u].id
             /\ t.addr = talk[u].addr
    BY <1>2, <1>4, <1>8, <2>2 DEF IdsMeant
  <2>3. QED BY <1>2, <1>8, <2>1, <2>2 DEF Changes
<1>9. ASSUME NEW q \in requests', q.type = "DELETE", q.to \notin forgotten
      PROVE q.id <= current_id[q.to]
  <2>1. CASE q \in requests
    <3>1. q.to \in Users
      BY <2>1 DEF TalkInv, Shape, Requests
    <3>2. QED BY <1>2, <1>9, <2>1, <3>1 DEF IdsMeant
  <2>2. CASE Sends(u, talk[u], t, q)
    <3>1. CASE t.pc = "clear" /\ q.to = p /\ q.id = t.id
      BY <1>8, <1>9, <3>1
    <3>2. CASE t.pc = "unlocal" /\ q.to = u /\ q.id = t.id
      BY <1>2, <1>6, <1>9, <3>2 DEF ProcessOK
    <3>3. CASE t.pc = "unremote" /\ q.to = p /\ q.id = t.id
      BY <1>2, <1>7, <1>9, <3>3 DEF ProcessOK
    <3>4. CASE q.to = u /\ q.id = talk[u].local_id
      BY <1>2, <1>9, <3>4 DEF IdsMeant
    <3>5. CASE q.to = p /\ q.id = talk[u].remote_id
      BY <1>2, <1>4, <1>9, <3>5 DEF IdsMeant
    <3>6. CASE q.to = p /\ \E a \in Replied(u, "ANNOUNCE") : q.id = a.id
      BY <1>2, <1>4, <1>9, <3>6 DEF IdsMeant, Replied, AnswersOK
    <3>7. QED BY <1>4, <1>9, <2>2, <3>1, <3>2, <3>3, <3>4, <3>5, <3>6 DEF Sends
  <2>3. QED BY <2>1, <2>2 DEF ProcessStep
<1>10. ASSUME NEW m \in Users, m \notin forgotten
       PROVE /\ talk'[m].local_id <= current_id'[m]
             /\ talk'[Party(m)].remote_id <= current_id'[m]
             /\ NoInvitation(m, talk[Party(m)].remote_id)'
             /\ talk'[Party(m)].pc \in {"connect", "clear"} =>
                  /\ talk'[Party(m)].id <= current_id'[m]
                  /\ OfRun(m, talk[Party(m)].id, talk[Party(m)].addr)'
  <2>1. CASE m = u
    <3>1. Party(m) = p /\ talk'[p] = talk[p] /\ talk'[m] = t
      BY <1>1, <1>4, <2>1
    <3>2. QED BY <1>1, <1>2, <1>6, <1>10, <2>1, <3>1
            DEF IdsMeant, NoInvitation, OfRun
  <2>2. CASE m = p
    <3>1. Party(m) = u /\ talk'[p] = talk[p] /\ talk'[u] = t
      BY <1>1, <1>4, <2>2
    <3>2. QED BY <1>1, <1>2, <1>7, <1>8, <1>10, <2>2, <3>1
            DEF IdsMeant, NoInvitation, OfRun
  <2>3. QED BY <1>4, <2>1, <2>2
<1>11. ASSUME NEW m \in Users, m \notin forgotten, NEW a \in answers', a.by = m
       PROVE /\ a.id <= current_id'[m]
             /\ a.type = "ANNOUNCE" => NoInvitation(m, a.id)'
             /\ a.type = "LOOK_UP" /\ a.answer = "SUCCESS"
                  => OfRun(m, a.id, a.addr)'
  BY <1>1, <1>2, <1>3, <1>11 DEF IdsMeant, NoInvitation, OfRun
<1>12. QED BY <1>1, <1>9, <1>10, <1>11 DEF IdsMeant

(* NoDelete: no step sends a DELETE for the invitation of one who may      *)
(* still be called.                                                        *)
LEMMA ProcessNoDelete ==
  ASSUME TalkInv, NEW u \in Users, NEW t, ProcessStep(u, t)
  PROVE NoDelete'
<1>1. /\ talk'[u] = t /\ talk[u] \in Processes /\ t \in Processes
      /\ \A v \in Users : v # u => talk'[v] = talk[v]
      /\ \A v \in Users : Invitations(v)' = Invitations(v)
      /\ forgotten' = forgotten
  BY ProcessFrame
<1>2. /\ IdsMeant /\ AnswersOK /\ NoDelete /\ NothingLeft
      /\ Changes(u, talk[u], t) /\ ProcessOK(talk[u]) /\ ProcessOK(t)
  BY DEF TalkInv, ProcessStep, ProcessesOK
<1>3. PICK p \in Users : /\ p = Party(u) /\ p # u /\ Party(p) = u
                         /\ \A v \in Users : v = u \/ v = p
  BY PartyFacts
(* The machine of u: others send nothing.                                  *)
<1>4. ASSUME u \notin forgotten, Listens(t)
      PROVE /\ \A q \in requests' : q.to = u /\ q.type = "DELETE" => ~Left(u, q.id)'
            /\ talk'[p].pc = "clear" => ~Left(u, talk[p].id)'
  <2>1. t.run = talk[u].run /\ (Uninvited(talk[u]) \/ Listens(talk[u]))
    BY <1>2, <1>4 DEF Changes, KeptIds, Listens, Uninvited
  <2>2. \A id : Left(u, id)' <=> Left(u, id)
    BY <1>1, <2>1 DEF Left
  <2>3. \A q \in requests' : q.to = u /\ q.type = "DELETE" => q \in requests
    BY <1>3, <1>4 DEF ProcessStep, Sends, Listens
  <2>4. talk'[p] = talk[p]
    BY <1>1, <1>3
  <2>5. CASE Uninvited(talk[u])
    <3>1. \A id : ~Left(u, id)
      BY <1>2, <2>5 DEF NothingLeft, Stands, Left
    <3>2. QED BY <2>2, <3>1
  <2>6. CASE Listens(talk[u])
    <3>1. /\ \A q \in requests : q.to = u /\ q.type = "DELETE" => ~Left(u, q.id)
          /\ talk[p].pc = "clear" => ~Left(u, talk[p].id)
      BY <1>2, <1>3, <1>4, <2>6 DEF NoDelete
    <3>2. QED BY <2>2, <2>3, <2>4, <3>1
  <2>7. QED BY <2>1, <2>5, <2>6
(* The machine of the party: only what u asks it to delete.                *)
<1>5. ASSUME p \notin forgotten, Listens(talk[p])
      PROVE /\ \A q \in requests' : q.to = p /\ q.type = "DELETE" => ~Left(p, q.id)'
            /\ t.pc = "clear" => ~Left(p, t.id)'
  <2>1. \A id : Left(p, id)' <=> Left(p, id)
    BY <1>1, <1>3 DEF Left
  <2>2. /\ \A q \in requests : q.to = p /\ q.type = "DELETE" => ~Left(p, q.id)
        /\ talk[u].pc = "clear" => ~Left(p, talk[u].id)
    BY <1>2, <1>3, <1>5 DEF NoDelete
  <2>3. ASSUME t.pc = "clear" PROVE ~Left(p, t.id)
    <3>1. CASE talk[u].pc = "clear" /\ t.id = talk[u].id
      BY <2>2, <3>1
    <3>2. CASE /\ talk[u].pc = "connect" /\ t.id = talk[u].id
               /\ ~(talk[p].run = talk[u].addr /\ Listens(talk[p]))
      <4>1. OfRun(p, talk[u].id, talk[u].addr) /\ talk[p].run # talk[u].addr
        BY <1>2, <1>3, <1>5, <3>2 DEF IdsMeant
      <4>2. QED BY <3>2, <4>1 DEF OfRun, Left
    <3>3. QED BY <1>2, <1>3, <2>3, <3>1, <3>2 DEF Changes
  <2>4. \A id : NoInvitation(p, id) => ~Left(p, id)
    BY DEF NoInvitation, Left
  <2>5. ASSUME NEW q \in requests', q.to = p, q.type = "DELETE"
        PROVE ~Left(p, q.id)
    <3>1. CASE q \in requests
      BY <2>2, <2>5, <3>1
    <3>2. CASE Sends(u, talk[u], t, q)
      <4>1. CASE t.pc = "clear" /\ q.id = t.id
        BY <2>3, <4>1
      <4>2. CASE t.pc = "unremote" /\ q.id = t.id
        <5>1. talk[u].remote_id = t.id
          BY <1>2, <4>2 DEF Changes, KeptIds, ProcessOK
        <5>2. QED BY <1>2, <1>3, <1>5, <2>4, <4>2, <5>1 DEF IdsMeant
      <4>3. CASE q.id = talk[u].remote_id
        BY <1>2, <1>3, <1>5, <2>4, <4>3 DEF IdsMeant
      <4>4. CASE \E a \in Replied(u, "ANNOUNCE") : q.id = a.id
        BY <1>2, <1>3, <1>5, <2>4, <4>4 DEF IdsMeant, Replied, AnswersOK
      <4>5. QED BY <1>3, <2>5, <3>2, <4>1, <4>2, <4>3, <4>4 DEF Sends
    <3>3. QED BY <3>1, <3>2 DEF ProcessStep
  <2>6. QED BY <2>1, <2>3, <2>5
<1>6. QED BY <1>1, <1>3, <1>4, <1>5 DEF NoDelete

(* Invited: the id taken from the answer to LEAVE_INVITE.                  *)
LEMMA ProcessInvited ==
  ASSUME TalkInv, NEW u \in Users, NEW t, ProcessStep(u, t)
  PROVE Invited'
<1>1. /\ talk'[u] = t /\ talk[u] \in Processes /\ t \in Processes
      /\ \A v \in Users : v # u => talk'[v] = talk[v]
      /\ \A v \in Users : Invitations(v)' = Invitations(v)
      /\ forgotten' = forgotten
  BY ProcessFrame
<1>2. Invited /\ NothingLeft /\ Changes(u, talk[u], t)
  BY DEF TalkInv, ProcessStep
<1>3. \A a \in answers' : a \in answers
  BY DEF ProcessStep
<1>4. ASSUME NEW v \in Users, v # u, Listens(talk'[v]), v \notin forgotten' \cup swept'
      PROVE /\ \A a \in answers' : a.to = v /\ a.type = "LEAVE_INVITE" => Left(v, a.id)'
            /\ talk'[v].pc \in {"listen", "accepted"} => Left(v, talk[v].local_id)'
  <2>1. talk'[v] = talk[v] /\ v \notin forgotten \cup swept
    BY <1>1, <1>4 DEF ProcessStep
  <2>2. \A id : Left(v, id)' <=> Left(v, id)
    BY <1>1, <2>1 DEF Left
  <2>3. QED BY <1>2, <1>3, <1>4, <2>1, <2>2 DEF Invited
<1>5. ASSUME Listens(t), u \notin forgotten' \cup swept'
      PROVE /\ \A a \in answers' : a.to = u /\ a.type = "LEAVE_INVITE" => Left(u, a.id)'
            /\ t.pc \in {"listen", "accepted"} => Left(u, talk[u].local_id)'
  <2>1. t.run = talk[u].run /\ (Uninvited(talk[u]) \/ Listens(talk[u]))
        /\ (t.pc \in {"listen", "accepted"} => Listens(talk[u]))
    BY <1>2, <1>5 DEF Changes, KeptIds, Listens, Uninvited
  <2>2. \A id : Left(u, id)' <=> Left(u, id)
    BY <1>1, <2>1 DEF Left
  <2>3. u \notin forgotten \cup swept
    BY <1>1, <1>5 DEF ProcessStep, Listens
  <2>4. ASSUME NEW a \in answers, a.to = u, a.type = "LEAVE_INVITE"
        PROVE Left(u, a.id)
    BY <1>2, <2>1, <2>3, <2>4 DEF Invited, NothingLeft
  <2>5. ASSUME t.pc \in {"listen", "accepted"} PROVE Left(u, t.local_id)
    <3>1. CASE talk[u].pc \in {"listen", "accepted"} /\ t.local_id = talk[u].local_id
      BY <1>2, <2>3, <3>1 DEF Invited, Listens
    <3>2. CASE \E a \in Replied(u, "LEAVE_INVITE") : t.local_id = a.id
      BY <2>4, <3>2 DEF Replied
    <3>3. QED BY <1>2, <2>5, <3>1, <3>2 DEF Changes, KeptIds
  <2>6. QED BY <1>1, <1>3, <2>2, <2>4, <2>5
<1>6. QED BY <1>1, <1>4, <1>5 DEF Invited

(* Deleted: the DELETE to the own talkd and the answer to it.              *)
LEMMA ProcessDeleted ==
  ASSUME TalkInv, NEW u \in Users, NEW t, ProcessStep(u, t)
  PROVE Deleted'
<1>1. /\ talk'[u] = t /\ talk[u] \in Processes /\ t \in Processes
      /\ \A v \in Users : v # u => talk'[v] = talk[v]
      /\ \A v \in Users : Invitations(v)' = Invitations(v)
      /\ forgotten' = forgotten
  BY ProcessFrame
<1>2. /\ Deleted /\ Invited /\ NothingLeft /\ AnswersOK /\ RequestsOK /\ Cleared
      /\ Changes(u, talk[u], t) /\ ProcessOK(talk[u]) /\ ProcessOK(t)
  BY DEF TalkInv, ProcessStep, ProcessesOK
<1>3. \A a \in answers' : a \in answers
  BY DEF ProcessStep
<1>4. PICK p \in Users : /\ p = Party(u) /\ p # u /\ Party(p) = u
                         /\ \A v \in Users : v = u \/ v = p
  BY PartyFacts
<1>5. \A q \in requests' : q \notin requests =>
        /\ q.from = u /\ q.pid = t.run
        /\ q.type = "DELETE" /\ q.to = u /\ t.pc # "exit" =>
             t.pc = "unlocal" /\ q.id = t.id
  BY <1>4 DEF ProcessStep, Sends
(* The other process.                                                      *)
<1>6. ASSUME NEW v \in Users, v # u
      PROVE /\ \A q \in requests' :
                 /\ q.type = "DELETE" /\ q.from = v /\ q.to = v
                 /\ q.pid = talk'[v].run /\ talk'[v].pc \notin {"off", "exit"}
                 => Called(talk'[v]) /\ q.id = talk'[v].local_id
            /\ \A a \in answers' : a.type = "DELETE" /\ a.to = v /\ a.by = v =>
                 /\ Called(talk'[v])
                 /\ v \notin late' \cup swept' \cup forgotten' => ~Stands(v)'
            /\ Called(talk'[v]) /\ v \notin late' \cup swept' \cup forgotten' =>
                 /\ Stands(v)' => Left(v, talk[v].local_id)'
                 /\ talk'[v].pc # "unlocal" => ~Stands(v)'
  <2>1. /\ talk'[v] = talk[v]
        /\ v \notin late' \cup swept' \cup forgotten' =>
             v \notin late \cup swept \cup forgotten
    BY <1>1, <1>6 DEF ProcessStep
  <2>2. Stands(v)' <=> Stands(v)
    BY <1>1, <2>1 DEF Stands
  <2>3. Left(v, talk[v].local_id)' <=> Left(v, talk[v].local_id)
    BY <1>1, <2>1 DEF Left
  <2>4. QED BY <1>2, <1>3, <1>5, <1>6, <2>1, <2>2, <2>3 DEF Deleted
(* The process itself: its requests,                                       *)
<1>7. ASSUME NEW q \in requests', q.type = "DELETE", q.from = u, q.to = u,
             q.pid = t.run, t.pc \notin {"off", "exit"}
      PROVE Called(t) /\ q.id = t.local_id
  <2>1. CASE q \notin requests
    BY <1>2, <1>5, <1>7, <2>1 DEF Called, ProcessOK
  <2>2. CASE q \in requests /\ talk[u].pc \in {"off", "exit"}
    <3>1. q.pid <= talk[u].run /\ q.pid \in Nat /\ talk[u].run \in Nat
      BY <1>1, <1>7, <2>2 DEF RequestsOK, TalkInv, Shape, Requests, Processes
    <3>2. t.run = talk[u].run + 1
      BY <1>2, <1>7, <2>2 DEF Changes
    <3>3. QED BY <1>7, <3>1, <3>2
  <2>3. CASE q \in requests /\ talk[u].pc \notin {"off", "exit"}
    <3>1. t.run = talk[u].run
      BY <1>2, <2>3 DEF Changes, KeptIds
    <3>2. Called(talk[u]) /\ q.id = talk[u].local_id
      BY <1>2, <1>7, <2>3, <3>1 DEF Deleted
    <3>3. QED BY <1>2, <1>7, <3>2 DEF Changes, KeptIds, Called
  <2>4. QED BY <2>1, <2>2, <2>3
(* its answers,                                                            *)
<1>8. ASSUME NEW a \in answers', a.type = "DELETE", a.to = u, a.by = u
      PROVE /\ Called(t)
            /\ u \notin late' \cup swept' \cup forgotten' => ~Stands(u)'
  <2>1. a \in answers /\ talk[u].pc \notin {"off", "exit"}
    BY <1>2, <1>3, <1>8 DEF AnswersOK
  <2>2. t.run = talk[u].run /\ t.pc # "exit"
    BY <1>2, <1>8, <2>1 DEF Changes, KeptIds
  <2>3. /\ Called(talk[u])
        /\ u \notin late \cup swept \cup forgotten => ~Stands(u)
    BY <1>2, <1>8, <2>1 DEF Deleted
  <2>4. Called(t)
    BY <1>2, <2>2, <2>3 DEF Changes, Called
  <2>5. Stands(u)' <=> Stands(u)
    BY <1>1, <2>2 DEF Stands
  <2>6. u \notin late' \cup swept' \cup forgotten' =>
          u \notin late \cup swept \cup forgotten
    BY <1>1, <2>1 DEF ProcessStep
  <2>7. QED BY <2>3, <2>4, <2>5, <2>6
(* and what stands.                                                        *)
<1>9. ASSUME Called(t), u \notin late' \cup swept' \cup forgotten'
      PROVE /\ Stands(u)' => Left(u, talk[u].local_id)'
            /\ t.pc # "unlocal" => ~Stands(u)'
  <2>1. /\ talk[u].pc \notin {"off", "exit"} /\ t.run = talk[u].run
        /\ t.local_id = talk[u].local_id
    BY <1>2, <1>9 DEF Changes, KeptIds, Called
  <2>2. u \notin late \cup swept \cup forgotten
    BY <1>1, <1>9, <2>1 DEF ProcessStep
  <2>3. /\ Stands(u)' <=> Stands(u)
        /\ Left(u, talk[u].local_id)' <=> Left(u, talk[u].local_id)
    BY <1>1, <2>1 DEF Stands, Left
  <2>4. CASE talk[u].pc = "connect"
    BY <1>2, <1>9, <2>3, <2>4 DEF NothingLeft, Uninvited
  <2>5. CASE talk[u].pc = "accepted"
    <3>1. t.pc = "unlocal"
      BY <1>2, <1>9, <2>5 DEF Changes, Called
    <3>2. Left(u, talk[u].local_id)
      BY <1>2, <2>2, <2>5 DEF Invited, Listens
    <3>3. QED BY <2>3, <3>1, <3>2
  <2>6. CASE Called(talk[u])
    <3>1. /\ Stands(u) => Left(u, talk[u].local_id)
          /\ talk[u].pc # "unlocal" => ~Stands(u)
      BY <1>2, <2>2, <2>6 DEF Deleted
    <3>2. CASE talk[u].pc = "unlocal" /\ t.pc # "unlocal"
      <4>1. PICK a \in Replied(u, "DELETE") : a.by = u
        BY <1>2, <1>9, <3>2 DEF Changes, Called
      <4>2. ~Stands(u)
        BY <1>2, <2>2, <4>1 DEF Deleted, Replied
      <4>3. QED BY <2>3, <4>2
    <3>3. CASE talk[u].pc = "unlocal" /\ t.pc = "unlocal"
      BY <2>3, <3>1, <3>3
    <3>4. CASE talk[u].pc # "unlocal"
      BY <2>3, <3>1, <3>4
    <3>5. QED BY <3>2, <3>3, <3>4
  <2>7. QED BY <1>2, <1>9, <2>4, <2>5, <2>6 DEF Changes, Called
<1>10. QED BY <1>1, <1>6, <1>7, <1>8, <1>9 DEF Deleted

(* Looked: what LOOK_UP found is still so, or the party waits no more.     *)
LEMMA ProcessLooked ==
  ASSUME TalkInv, NEW u \in Users, NEW t, ProcessStep(u, t)
  PROVE Looked'
<1>1. /\ talk'[u] = t /\ talk[u] \in Processes /\ t \in Processes
      /\ \A v \in Users : v # u => talk'[v] = talk[v]
  BY ProcessFrame
<1>2. /\ Looked /\ AnswersOK /\ Changes(u, talk[u], t)
      /\ ProcessOK(talk[u]) /\ ProcessOK(t)
  BY DEF TalkInv, ProcessStep, ProcessesOK
<1>3. \A a \in answers' : a \in answers /\ a.to \in Users /\ a.waits \in Nat
  BY DEF ProcessStep, TalkInv, Shape, AnswersOf
<1>4. PICK p \in Users : /\ p = Party(u) /\ p # u /\ Party(p) = u
                         /\ \A v \in Users : v = u \/ v = p
  BY PartyFacts
<1>5. /\ live \in [Users -> Nat] /\ live' \in [Users -> Nat] /\ live'[p] = live[p]
      /\ live'[u] # live[u] => talk[u].pc = "lookup" \/ t.pc = "lookup"
  BY <1>4 DEF TalkInv, Shape, ProcessStep
(* Having waited in a run is not undone.                                   *)
<1>6. ASSUME NEW v \in Users, NEW run \in Nat
      PROVE /\ HasWaited(v, run) => HasWaited(v, run)'
            /\ WaitsNoMore(v, run) => WaitsNoMore(v, run)'
  <2>1. CASE v # u
    BY <1>1, <2>1 DEF HasWaited, WaitsNoMore, Listens
  <2>2. CASE v = u /\ t.run = talk[u].run
    <3>1. /\ talk[u].pc \notin {"off", "lookup", "connect", "clear"}
             => t.pc \notin {"off", "lookup", "connect", "clear"}
          /\ /\ talk[u].pc \notin {"off", "lookup", "connect", "clear"}
             /\ ~Listens(talk[u])
             => ~Listens(t)
      <4>1. talk[u].run \in Nat
        BY <1>1 DEF Processes
      <4>2. QED BY <1>2, <2>2, <4>1 DEF Changes, Listens
    <3>2. QED BY <1>1, <2>2, <3>1 DEF HasWaited, WaitsNoMore
  <2>3. CASE v = u /\ t.run # talk[u].run
    <3>1. t.run = talk[u].run + 1 /\ talk[u].run \in Nat
      BY <1>1, <1>2, <2>3 DEF Changes, KeptIds, Processes
    <3>2. HasWaited(u, run) => t.run > run
      BY <3>1 DEF HasWaited
    <3>3. QED BY <1>1, <2>3, <3>1, <3>2 DEF HasWaited, WaitsNoMore
  <2>4. QED BY <2>1, <2>2, <2>3
<1>7. ASSUME NEW a \in answers', a.type = "LOOK_UP", a.waits # 0
      PROVE /\ a.answer = "SUCCESS" /\ a.addr = a.waits
            /\ HasWaited(Party(a.to), a.waits)'
  <2>1. /\ a.answer = "SUCCESS" /\ a.addr = a.waits
        /\ HasWaited(Party(a.to), a.waits)
    BY <1>2, <1>3, <1>7 DEF Looked
  <2>2. Party(a.to) \in Users
    BY <1>3, PartyFacts
  <2>3. QED BY <1>3, <1>6, <2>1, <2>2
<1>8. ASSUME live'[p] # 0
      PROVE /\ talk'[p].pc = "connect" =>
                 talk'[p].addr = live'[p] /\ HasWaited(u, live[p])'
            /\ Listens(talk'[p]) \/ talk'[p].pc = "clear" =>
                 WaitsNoMore(u, live[p])'
  <2>1. live'[p] = live[p] /\ live[p] \in Nat /\ talk'[p] = talk[p]
    BY <1>1, <1>4, <1>5
  <2>2. /\ talk[p].pc = "connect" =>
             talk[p].addr = live[p] /\ HasWaited(u, live[p])
        /\ Listens(talk[p]) \/ talk[p].pc = "clear" => WaitsNoMore(u, live[p])
    BY <1>2, <1>4, <1>8, <2>1 DEF Looked
  <2>3. PICK r \in Nat : r = live[p] /\ r = live'[p]
    BY <2>1
  <2>4. /\ HasWaited(u, r) => HasWaited(u, r)'
        /\ WaitsNoMore(u, r) => WaitsNoMore(u, r)'
    BY <1>6
  <2>5. QED BY <2>1, <2>2, <2>3, <2>4 DEF HasWaited, WaitsNoMore
<1>9. ASSUME live'[u] # 0
      PROVE /\ t.pc = "connect" => t.addr = live'[u] /\ HasWaited(p, live[u])'
            /\ Listens(t) \/ t.pc = "clear" => WaitsNoMore(p, live[u])'
  <2>1. PICK r \in Nat : r = live'[u]
    BY <1>5
  <2>2. talk'[p] = talk[p]
    BY <1>1, <1>4
  <2>3. SUFFICES /\ t.pc = "connect" => t.addr = r /\ HasWaited(p, r)
                 /\ Listens(t) \/ t.pc = "clear" => WaitsNoMore(p, r)
    BY <2>1, <2>2 DEF HasWaited, WaitsNoMore
  <2>4. CASE talk[u].pc = "lookup"
    <3>1. CASE t.pc = "connect"
      <4>1. PICK a \in Replied(u, "LOOK_UP") : t.addr = a.addr /\ r = a.waits
        BY <1>2, <2>1, <2>4, <3>1 DEF Changes
      <4>2. a.addr = a.waits /\ HasWaited(p, a.waits)
        BY <1>2, <1>4, <1>9, <2>1, <4>1 DEF Looked, Replied
      <4>3. QED BY <3>1, <4>1, <4>2 DEF Listens
    <3>2. CASE t.pc = "announce"
      <4>1. PICK a \in Replied(u, "LOOK_UP") : a.answer # "SUCCESS" /\ r = a.waits
        BY <1>2, <2>1, <2>4, <3>2 DEF Changes
      <4>2. QED BY <1>2, <1>9, <2>1, <4>1 DEF Looked, Replied
    <3>3. QED BY <1>2, <2>4, <3>1, <3>2 DEF Changes, Listens
  <2>5. CASE t.pc = "lookup"
    BY <2>5 DEF Listens
  <2>6. CASE talk[u].pc # "lookup" /\ t.pc # "lookup"
    <3>1. live[u] = r /\ r # 0
      BY <1>5, <1>9, <2>1, <2>6
    <3>2. /\ talk[u].pc = "connect" =>
               talk[u].addr = r /\ HasWaited(p, r)
          /\ Listens(talk[u]) \/ talk[u].pc = "clear" => WaitsNoMore(p, r)
      BY <1>2, <1>4, <3>1 DEF Looked
    <3>3. CASE t.pc = "connect"
      BY <1>2, <2>6, <3>2, <3>3 DEF Changes, Listens
    <3>4. CASE t.pc = "clear" /\ talk[u].pc = "connect"
      <4>1. ~(talk[p].run = r /\ Listens(talk[p]))
        BY <1>2, <1>4, <3>2, <3>4 DEF Changes
      <4>2. QED BY <3>2, <3>4, <4>1 DEF WaitsNoMore
    <3>5. CASE (Listens(t) \/ t.pc = "clear")
               /\ (Listens(talk[u]) \/ talk[u].pc = "clear")
      BY <3>2, <3>5 DEF Listens
    <3>6. QED BY <1>2, <2>6, <3>3, <3>4, <3>5 DEF Changes, Listens
  <2>7. QED BY <2>4, <2>5, <2>6
<1>10. QED BY <1>1, <1>4, <1>7, <1>8, <1>9 DEF Looked

(* Cleared: the DELETE of check_local is the first of the run.             *)
LEMMA ProcessCleared ==
  ASSUME TalkInv, NEW u \in Users, NEW t, ProcessStep(u, t)
  PROVE Cleared'
<1>1. /\ talk'[u] = t /\ talk[u] \in Processes /\ t \in Processes
      /\ \A v \in Users : v # u => talk'[v] = talk[v]
      /\ \A v \in Users : Entered(v)' = Entered(v)
      /\ forgotten' = forgotten
  BY ProcessFrame
<1>2. /\ Cleared /\ AnswersOK /\ RequestsOK /\ Changes(u, talk[u], t)
      /\ ProcessOK(talk[u]) /\ ProcessOK(t)
  BY DEF TalkInv, ProcessStep, ProcessesOK
<1>3. \A a \in answers' : a \in answers
  BY DEF ProcessStep
<1>4. PICK p \in Users : /\ p = Party(u) /\ p # u /\ Party(p) = u
                         /\ \A v \in Users : v = u \/ v = p
  BY PartyFacts
<1>5. ASSUME NEW v \in Users, v # u
      PROVE /\ \A q \in requests' :
                 q.type = "DELETE" /\ q.from = v /\ q.pid = talk'[v].run =>
                   /\ talk'[v].pc \notin {"lookup", "connect"}
                   /\ talk'[v].pc = "clear" => q.to = Party(v) /\ q.id = talk'[v].id
            /\ \A a \in answers' : a.type = "DELETE" /\ a.to = v =>
                   /\ talk'[v].pc \notin {"lookup", "connect"}
                   /\ talk'[v].pc = "clear" /\ Party(v) \notin forgotten' =>
                        \A e \in Entered(Party(v))' : e.id # talk'[v].id
  <2>1. talk'[v] = talk[v] /\ Party(v) \in Users
    BY <1>1, <1>5, PartyFacts
  <2>2. \A q \in requests' : q.from = v => q \in requests
    BY <1>5 DEF ProcessStep, Sends
  <2>3. QED BY <1>1, <1>2, <1>3, <2>1, <2>2 DEF Cleared
<1>6. ASSUME NEW q \in requests', q.type = "DELETE", q.from = u, q.pid = t.run
      PROVE /\ t.pc \notin {"lookup", "connect"}
            /\ t.pc = "clear" => q.to = p /\ q.id = t.id
  <2>1. CASE q \notin requests
    BY <1>4, <1>6, <2>1 DEF ProcessStep, Sends
  <2>2. CASE q \in requests /\ t.run # talk[u].run
    <3>1. t.run = talk[u].run + 1 /\ talk[u].run \in Nat
      BY <1>1, <1>2, <2>2 DEF Changes, KeptIds, Processes
    <3>2. q.pid <= talk[u].run /\ q.pid \in Nat
      BY <1>2, <1>6, <2>2 DEF RequestsOK, TalkInv, Shape, Requests
    <3>3. QED BY <1>6, <3>1, <3>2
  <2>3. CASE q \in requests /\ t.run = talk[u].run
    <3>1. /\ talk[u].pc \notin {"lookup", "connect"}
          /\ talk[u].pc = "clear" => q.to = p /\ q.id = talk[u].id
      BY <1>2, <1>4, <1>6, <2>3 DEF Cleared
    <3>2. talk[u].run \in Nat
      BY <1>1 DEF Processes
    <3>3. QED BY <1>2, <2>3, <3>1, <3>2 DEF Changes
  <2>4. QED BY <2>1, <2>2, <2>3
<1>7. ASSUME NEW a \in answers', a.type = "DELETE", a.to = u
      PROVE /\ t.pc \notin {"lookup", "connect"}
            /\ t.pc = "clear" /\ p \notin forgotten =>
                 \A e \in Entered(p) : e.id # t.id
  <2>1. a \in answers /\ talk[u].pc \notin {"off", "exit"}
    BY <1>2, <1>3, <1>7 DEF AnswersOK
  <2>2. /\ talk[u].pc \notin {"lookup", "connect"}
        /\ talk[u].pc = "clear" /\ p \notin forgotten =>
             \A e \in Entered(p) : e.id # talk[u].id
    BY <1>2, <1>4, <1>7, <2>1 DEF Cleared
  <2>3. QED BY <1>2, <2>1, <2>2 DEF Changes
<1>8. QED BY <1>1, <1>4, <1>5, <1>6, <1>7 DEF Cleared

(* Every step of a process keeps the invariant.                            *)
LEMMA ProcessKept ==
  ASSUME TalkInv, NEW u \in Users, NEW t, ProcessStep(u, t)
  PROVE TalkInv'
BY ProcessShape, ProcessTables, ProcessRequests, ProcessAnswers,
   ProcessNothingLeft, ProcessIdsMeant, ProcessNoDelete, ProcessInvited,
   ProcessDeleted, ProcessLooked, ProcessCleared DEF TalkInv

-----------------------------------------------------------------------------
(* Steps of the talkds.                                                    *)

(* What stays.                                                             *)
LEMMA DaemonFrame ==
  ASSUME TalkInv, NEW m \in Users, NEW q, DaemonStep(m, q)
  PROVE /\ talk' = talk /\ forgotten' = forgotten /\ live' = live
        /\ \A v \in Users : v # m => /\ Entered(v)' = Entered(v)
                                     /\ Invitations(v)' = Invitations(v)
                                     /\ current_id'[v] = current_id[v]
        /\ \A v \in Users : /\ current_id[v] <= current_id'[v]
                            /\ current_id[v] \in Nat
        /\ q \in requests /\ q \in Requests /\ q.to = m
        /\ \A r \in requests' : r \in requests
<1>1. /\ talk' = talk /\ forgotten' = forgotten /\ live' = live
      /\ \A v \in Users : v # m => /\ Entered(v)' = Entered(v)
                                   /\ current_id'[v] = current_id[v]
      /\ q \in requests /\ q.to = m
      /\ \A r \in requests' : r \in requests
  BY DEF DaemonStep
<1>2. \A v \in Users : v # m => Invitations(v)' = Invitations(v)
  BY <1>1 DEF Invitations
<1>3. \A v \in Users : current_id[v] \in Nat
  BY TalkConstants DEF TalkInv, Shape
<1>4. current_id[m] <= current_id'[m]
  BY <1>3 DEF DaemonStep, Taken
<1>5. q \in Requests
  BY <1>1 DEF TalkInv, Shape
<1>6. QED BY <1>1, <1>2, <1>3, <1>4, <1>5

(* A new invitation, if there is one.                                      *)
LEMMA DaemonInvitations ==
  ASSUME TalkInv, NEW m \in Users, NEW q, DaemonStep(m, q)
  PROVE /\ \A e \in Invitations(m)' :
             \/ e \in Invitations(m)
             \/ /\ q.type = "LEAVE_INVITE" /\ e.pid = q.pid
                /\ e.id = current_id[m] + 1
        /\ \A e \in Invitations(m) :
             \/ e \in Invitations(m)'
             \/ q.type = "DELETE" /\ (m \in swept' \/ e.id = q.id)
        /\ \A e \in Entered(m)' : e \in Entered(m) \/ e.id = current_id[m] + 1
        /\ q.type = "DELETE" => Invitations(m)' \subseteq Invitations(m)
BY DEF DaemonStep, Taken, Invitations

(* A new answer.                                                           *)
LEMMA DaemonAnswers ==
  ASSUME TalkInv, NEW m \in Users, NEW q, DaemonStep(m, q), NEW a \in answers',
         a \notin answers
  PROVE AnswerTo(m, q, a)
BY DEF DaemonStep

(* RequestsOK, AnswersOK and InOrder: requests of a machine to its own     *)
(* talkd are taken in order.                                               *)
LEMMA DaemonOrder ==
  ASSUME TalkInv, NEW m \in Users, NEW q, DaemonStep(m, q)
  PROVE RequestsOK' /\ AnswersOK' /\ InOrder'
<1>1. /\ talk' = talk /\ q \in requests /\ q \in Requests /\ q.to = m
      /\ \A r \in requests' : r \in requests
      /\ \A v \in Users : v # m => Invitations(v)' = Invitations(v)
  BY DaemonFrame
<1>2. RequestsOK /\ AnswersOK /\ InOrder
  BY DEF TalkInv
<1>3. RequestsOK'
  BY <1>1, <1>2 DEF RequestsOK
<1>4. ASSUME NEW a \in answers', a \notin answers
      PROVE /\ talk[a.to].pc \notin {"off", "exit"}
            /\ a.type \in {"LOOK_UP", "ANNOUNCE"} => a.by = Party(a.to)
            /\ a.type = "LEAVE_INVITE" => a.by = a.to /\ a.id # 0
  <2>1. AnswerTo(m, q, a)
    BY <1>4, DaemonAnswers
  <2>2. QED BY <1>1, <1>2, <2>1 DEF AnswerTo, Alive, RequestsOK
<1>5. AnswersOK'
  BY <1>1, <1>2, <1>4 DEF AnswersOK
<1>6. ASSUME NEW r \in requests', r.from = r.to, NEW e \in Invitations(r.to)'
      PROVE e.pid <= r.pid
  <2>1. r.to \in Users /\ r \in requests /\ r.pid \in Nat
    BY <1>1 DEF TalkInv, Shape, Requests
  <2>2. CASE e \in Invitations(r.to)
    BY <1>2, <1>6, <2>1, <2>2 DEF InOrder
  <2>3. CASE e \notin Invitations(r.to)
    <3>1. r.to = m /\ q.type = "LEAVE_INVITE" /\ e.pid = q.pid
      BY <1>1, <1>6, <2>1, <2>3, DaemonInvitations
    <3>2. q.from = m /\ q.pid \in Nat
      BY <1>1, <1>2, <3>1 DEF RequestsOK, Requests
    <3>3. r.pid >= q.pid
      BY <1>6, <2>1, <3>1, <3>2 DEF DaemonStep
    <3>4. QED BY <2>1, <3>1, <3>2, <3>3
  <2>4. QED BY <2>2, <2>3
<1>7. QED BY <1>3, <1>5, <1>6 DEF InOrder

(* NothingLeft: no invitation without its LEAVE_INVITE.                    *)
LEMMA DaemonNothingLeft ==
  ASSUME TalkInv, NEW m \in Users, NEW q, DaemonStep(m, q)
  PROVE NothingLeft'
<1>1. /\ talk' = talk /\ q \in requests /\ q \in Requests /\ q.to = m
      /\ \A r \in requests' : r \in requests
      /\ \A v \in Users : v # m => Invitations(v)' = Invitations(v)
  BY DaemonFrame
<1>2. RequestsOK /\ NothingLeft
  BY DEF TalkInv
<1>3. SUFFICES ASSUME NEW u \in Users, Uninvited(talk[u])
               PROVE /\ ~Stands(u)'
                     /\ \A a \in answers' : a.to = u => a.type # "LEAVE_INVITE"
  BY <1>1, <1>2 DEF NothingLeft
<1>4. /\ ~Stands(u)
      /\ \A r \in requests : r.from = u /\ r.pid = talk[u].run
           => r.type # "LEAVE_INVITE"
      /\ \A a \in answers : a.to = u => a.type # "LEAVE_INVITE"
  BY <1>2, <1>3 DEF NothingLeft
<1>5. ASSUME NEW e \in Invitations(u)', e.pid = talk[u].run
      PROVE FALSE
  <2>1. CASE e \in Invitations(u)
    BY <1>4, <1>5, <2>1 DEF Stands
  <2>2. CASE e \notin Invitations(u)
    <3>1. u = m /\ q.type = "LEAVE_INVITE" /\ e.pid = q.pid
      BY <1>1, <2>2, DaemonInvitations
    <3>2. QED BY <1>1, <1>2, <1>4, <1>5, <3>1 DEF RequestsOK
  <2>3. QED BY <2>1, <2>2
<1>6. ~Stands(u)'
  BY <1>1, <1>5 DEF Stands
<1>7. ASSUME NEW a \in answers', a.to = u, a.type = "LEAVE_INVITE", a \notin answers
      PROVE FALSE
  <2>1. q.from = u /\ q.type = "LEAVE_INVITE" /\ q.pid = talk[u].run
    BY <1>7, DaemonAnswers DEF AnswerTo, Alive
  <2>2. QED BY <1>1, <1>4, <2>1
<1>8. QED BY <1>4, <1>6, <1>7

(* IdsMeant: a new entry has an id above all that are known.               *)
LEMMA DaemonIdsMeant ==
  ASSUME TalkInv, NEW m \in Users, NEW q, DaemonStep(m, q)
  PROVE IdsMeant'
<1>1. /\ talk' = talk /\ q \in requests /\ forgotten' = forgotten
      /\ \A r \in requests' : r \in requests
      /\ \A v \in Users : v # m => Invitations(v)' = Invitations(v)
      /\ \A v \in Users : current_id[v] <= current_id'[v] /\ current_id[v] \in Nat
  BY DaemonFrame
<1>2. IdsMeant
  BY DEF TalkInv
<1>3. Shape' => \A v \in Users : current_id'[v] \in Nat
  BY TalkConstants DEF Shape
<1>4. \A v \in Users : current_id'[v] \in Nat
  BY <1>1 DEF DaemonStep, Taken
(* Up to the last id handed out before, the invitations are the same.      *)
<1>5. ASSUME NEW v \in Users, NEW id \in Nat, id <= current_id[v]
      PROVE \A e \in Invitations(v)' : e.id = id => e \in Invitations(v)
  BY <1>1, <1>5, DaemonInvitations
<1>6. ASSUME NEW v \in Users, NEW id \in Nat, id <= current_id[v], NEW run
      PROVE /\ id <= current_id'[v]
            /\ NoInvitation(v, id) => \A e \in Invitations(v)' : e.id # id
            /\ OfRun(v, id, run) => \A e \in Invitations(v)' : e.id = id => e.pid = run
  BY <1>1, <1>4, <1>5, <1>6 DEF NoInvitation, OfRun
<1>7. ASSUME NEW v \in Users, v \notin forgotten
      PROVE /\ talk[v].local_id <= current_id'[v]
            /\ talk[Party(v)].remote_id <= current_id'[v]
            /\ \A e \in Invitations(v)' : e.id # talk[Party(v)].remote_id
            /\ talk[Party(v)].pc \in {"connect", "clear"} =>
                 /\ talk[Party(v)].id <= current_id'[v]
                 /\ \A e \in Invitations(v)' : e.id = talk[Party(v)].id
                      => e.pid = talk[Party(v)].addr
            /\ \A r \in requests' : r.to = v /\ r.type = "DELETE"
                 => r.id <= current_id'[v]
  <2>1. PICK p \in Users : p = Party(v)
    BY PartyFacts
  <2>2. /\ talk[v].local_id \in Nat /\ talk[p].remote_id \in Nat /\ talk[p].id \in Nat
        /\ \A r \in requests : r.id \in Nat
    BY DEF TalkInv, Shape, Processes, Requests
  <2>3. /\ talk[v].local_id <= current_id[v]
        /\ talk[p].remote_id <= current_id[v]
        /\ NoInvitation(v, talk[p].remote_id)
        /\ talk[p].pc \in {"connect", "clear"} =>
             talk[p].id <= current_id[v] /\ OfRun(v, talk[p].id, talk[p].addr)
        /\ \A r \in requests : r.to = v /\ r.type = "DELETE" => r.id <= current_id[v]
    BY <1>2, <1>7, <2>1 DEF IdsMeant
  <2>4. talk[v].local_id <= current_id'[v]
    BY <1>6, <2>2, <2>3
  <2>5. /\ talk[p].remote_id <= current_id'[v]
        /\ \A e \in Invitations(v)' : e.id # talk[p].remote_id
    BY <1>6, <2>2, <2>3
  <2>6. ASSUME talk[p].pc \in {"connect", "clear"}
        PROVE /\ talk[p].id <= current_id'[v]
              /\ \A e \in Invitations(v)' : e.id = talk[p].id => e.pid = talk[p].addr
    BY <1>6, <2>2, <2>3, <2>6
  <2>7. \A r \in requests' : r.to = v /\ r.type = "DELETE" => r.id <= current_id'[v]
    BY <1>1, <1>6, <2>2, <2>3
  <2>8. QED BY <2>1, <2>4, <2>5, <2>6, <2>7
<1>8. ASSUME NEW v \in Users, v \notin forgotten, NEW a \in answers', a.by = v
      PROVE /\ a.id <= current_id'[v]
            /\ a.type = "ANNOUNCE" => \A e \in Invitations(v)' : e.id # a.id
            /\ a.type = "LOOK_UP" /\ a.answer = "SUCCESS"
                 => \A e \in Invitations(v)' : e.id = a.id => e.pid = a.addr
  <2>1. CASE a \in answers
    <3>1. a.id \in Nat
      BY <2>1 DEF TalkInv, Shape, AnswersOf
    <3>2. /\ a.id <= current_id[v]
          /\ a.type = "ANNOUNCE" => NoInvitation(v, a.id)
          /\ a.type = "LOOK_UP" /\ a.answer = "SUCCESS" => OfRun(v, a.id, a.addr)
      BY <1>2, <1>8, <2>1 DEF IdsMeant
    <3>3. QED BY <1>6, <3>1, <3>2
  <2>2. CASE a \notin answers
    <3>1. AnswerTo(m, q, a) /\ v = m
      BY <1>8, <2>2, DaemonAnswers DEF AnswerTo
    <3>2. a.id <= current_id'[v]
      BY <3>1 DEF AnswerTo
    <3>3. a.type = "ANNOUNCE" => \A e \in Invitations(v)' : e.id # a.id
      BY <3>1 DEF AnswerTo, NoInvitation
    <3>4. ASSUME a.type = "LOOK_UP", a.answer = "SUCCESS",
                 NEW e \in Invitations(v)', e.id = a.id
          PROVE e.pid = a.addr
      <4>1. PICK f \in Invitations(v) : f.id = a.id /\ f.pid = a.addr
        BY <3>1, <3>4 DEF AnswerTo
      <4>2. e \in Invitations(v)
        BY <3>1, <3>4 DEF AnswerTo
      <4>3. e = f
        BY <3>4, <4>1, <4>2, EntriesFacts DEF TalkInv
      <4>4. QED BY <4>1, <4>3
    <3>5. QED BY <3>2, <3>3, <3>4
  <2>3. QED BY <2>1, <2>2
<1>9. QED BY <1>1, <1>7, <1>8 DEF IdsMeant, NoInvitation, OfRun

(* An id handed out before names the same invitations after the step.      *)
LEMMA DaemonOld ==
  ASSUME TalkInv, NEW m \in Users, NEW q, DaemonStep(m, q), NEW v \in Users,
         NEW e \in Invitations(v)', e.id <= current_id[v]
  PROVE e \in Invitations(v)
<1>1. current_id[v] \in Nat /\ (v # m => Invitations(v)' = Invitations(v))
  BY DaemonFrame
<1>2. CASE v # m
  BY <1>1, <1>2
<1>3. CASE v = m
  <2>1. e \in Invitations(m)'
    BY <1>3
  <2>2. e \in Invitations(m) \/ e.id = current_id[m] + 1
    BY <2>1, DaemonInvitations
  <2>3. QED BY <1>1, <1>3, <2>2
<1>4. QED BY <1>2, <1>3

(* NoDelete: the invitation a DELETE would meet has an older id.           *)
LEMMA DaemonNoDelete ==
  ASSUME TalkInv, NEW m \in Users, NEW q, DaemonStep(m, q)
  PROVE NoDelete'
<1>1. /\ talk' = talk /\ forgotten' = forgotten
      /\ \A r \in requests' : r \in requests
  BY DaemonFrame
<1>2. SUFFICES ASSUME NEW v \in Users, v \notin forgotten, Listens(talk[v])
               PROVE /\ \A r \in requests' : r.to = v /\ r.type = "DELETE"
                          => ~Left(v, r.id)'
                     /\ talk[Party(v)].pc = "clear"
                          => ~Left(v, talk[Party(v)].id)'
  BY <1>1 DEF NoDelete
<1>3. /\ \A r \in requests : r.to = v /\ r.type = "DELETE"
           => ~Left(v, r.id) /\ r.id <= current_id[v]
      /\ talk[Party(v)].pc = "clear" =>
           ~Left(v, talk[Party(v)].id) /\ talk[Party(v)].id <= current_id[v]
  BY <1>2 DEF TalkInv, NoDelete, IdsMeant
<1>4. ASSUME NEW id, id <= current_id[v], ~Left(v, id)
      PROVE ~Left(v, id)'
  BY <1>1, <1>4, DaemonOld DEF Left
<1>5. QED BY <1>1, <1>3, <1>4

(* No request takes away the invitation of one who may still be called.    *)
LEMMA DaemonKeeps ==
  ASSUME TalkInv, NEW m \in Users, NEW q, DaemonStep(m, q), NEW v \in Users,
         Listens(talk[v]), v \notin forgotten \cup swept', NEW id, Left(v, id)
  PROVE Left(v, id)'
<1>1. /\ talk' = talk /\ q \in requests /\ q.to = m
      /\ v # m => Invitations(v)' = Invitations(v)
  BY DaemonFrame
<1>2. PICK e \in Invitations(v) : e.pid = talk[v].run /\ e.id = id
  BY DEF Left
<1>3. CASE e \in Invitations(v)'
  BY <1>1, <1>2, <1>3 DEF Left
<1>4. CASE e \notin Invitations(v)'
  <2>1. v = m
    BY <1>1, <1>4
  <2>2. q.type = "DELETE" /\ e.id = q.id
    BY <1>4, <2>1, DaemonInvitations
  <2>3. ~Left(v, q.id)
    BY <1>1, <2>1, <2>2 DEF TalkInv, NoDelete
  <2>4. QED BY <1>2, <2>2, <2>3
<1>5. QED BY <1>3, <1>4

(* Invited: a LEAVE_INVITE that is answered has left the invitation, and   *)
(* no DELETE meets it.                                                     *)
LEMMA DaemonInvited ==
  ASSUME TalkInv, NEW m \in Users, NEW q, DaemonStep(m, q)
  PROVE Invited'
<1>1. /\ talk' = talk /\ forgotten' = forgotten
      /\ q \in requests /\ q.to = m /\ swept \subseteq swept'
  BY DaemonFrame DEF DaemonStep
<1>2. SUFFICES ASSUME NEW v \in Users, Listens(talk[v]), v \notin forgotten \cup swept'
               PROVE /\ \A a \in answers' : a.to = v /\ a.type = "LEAVE_INVITE"
                          => Left(v, a.id)'
                     /\ talk[v].pc \in {"listen", "accepted"}
                          => Left(v, talk[v].local_id)'
  BY <1>1 DEF Invited
<1>3. /\ \A a \in answers : a.to = v /\ a.type = "LEAVE_INVITE" => Left(v, a.id)
      /\ talk[v].pc \in {"listen", "accepted"} => Left(v, talk[v].local_id)
  BY <1>1, <1>2 DEF TalkInv, Invited
<1>4. ASSUME NEW a \in answers', a.to = v, a.type = "LEAVE_INVITE"
      PROVE Left(v, a.id)'
  <2>1. CASE a \in answers
    BY <1>2, <1>3, <1>4, <2>1, DaemonKeeps
  <2>2. CASE a \notin answers
    <3>1. AnswerTo(m, q, a)
      BY <2>2, DaemonAnswers
    <3>2. q.from = v /\ q.type = "LEAVE_INVITE" /\ q.pid = talk[v].run
      BY <1>4, <3>1 DEF AnswerTo, Alive
    <3>3. v = m
      BY <1>1, <3>2 DEF TalkInv, RequestsOK
    <3>4. PICK e \in Invitations(m)' : e.pid = q.pid /\ e.id = a.id
      BY <1>4, <3>1 DEF AnswerTo
    <3>5. QED BY <1>1, <3>2, <3>3, <3>4 DEF Left
  <2>3. QED BY <2>1, <2>2
<1>5. talk[v].pc \in {"listen", "accepted"} => Left(v, talk[v].local_id)'
  BY <1>1, <1>2, <1>3, DaemonKeeps
<1>6. QED BY <1>4, <1>5

(* One who has been called gets no new invitation, unless it is late.      *)
LEMMA DaemonCalled ==
  ASSUME TalkInv, NEW m \in Users, NEW q, DaemonStep(m, q), NEW v \in Users,
         Called(talk[v]), v \notin late', NEW e \in Invitations(v)',
         e.pid = talk[v].run
  PROVE e \in Invitations(v)
<1>1. v # m => Invitations(v)' = Invitations(v)
  BY DaemonFrame
<1>2. SUFFICES ASSUME e \notin Invitations(v) PROVE FALSE
  OBVIOUS
<1>3. v = m
  BY <1>1, <1>2
<1>4. q.type = "LEAVE_INVITE" /\ e.pid = q.pid
  BY <1>2, <1>3, DaemonInvitations
<1>5. m \in late' \/ talk[m].pc = "leave"
  BY <1>3, <1>4 DEF DaemonStep
<1>6. QED BY <1>3, <1>5 DEF Called

(* Deleted: the DELETE of one who has been called names its invitation.    *)
LEMMA DaemonDeleted ==
  ASSUME TalkInv, NEW m \in Users, NEW q, DaemonStep(m, q)
  PROVE Deleted'
<1>1. /\ talk' = talk /\ forgotten' = forgotten
      /\ q \in requests /\ q.to = m /\ swept \subseteq swept' /\ late \subseteq late'
      /\ \A r \in requests' : r \in requests
  BY DaemonFrame DEF DaemonStep
<1>2. Deleted
  BY DEF TalkInv
<1>3. ASSUME NEW v \in Users, Called(talk[v]),
             v \notin late' \cup swept' \cup forgotten, Stands(v)'
      PROVE Stands(v) /\ Left(v, talk[v].local_id)' /\ talk[v].pc = "unlocal"
  <2>1. PICK e \in Invitations(v)' : e.pid = talk[v].run
    BY <1>1, <1>3 DEF Stands
  <2>2. e \in Invitations(v)
    BY <1>3, <2>1, DaemonCalled
  <2>3. Stands(v)
    BY <2>1, <2>2 DEF Stands
  <2>4. Left(v, talk[v].local_id) /\ talk[v].pc = "unlocal"
    BY <1>1, <1>2, <1>3, <2>3 DEF Deleted
  <2>5. PICK f \in Invitations(v) : f.pid = talk[v].run /\ f.id = talk[v].local_id
    BY <2>4 DEF Left
  <2>6. f = e
    BY <2>1, <2>2, <2>5, EntriesFacts DEF TalkInv
  <2>7. Left(v, talk[v].local_id)'
    BY <1>1, <2>1, <2>5, <2>6 DEF Left
  <2>8. QED BY <2>3, <2>4, <2>7
<1>4. ASSUME NEW v \in Users, NEW a \in answers', a.type = "DELETE", a.to = v, a.by = v
      PROVE /\ Called(talk[v])
            /\ v \notin late' \cup swept' \cup forgotten => ~Stands(v)'
  <2>1. CASE a \in answers
    <3>1. Called(talk[v]) /\ (v \notin late \cup swept \cup forgotten => ~Stands(v))
      BY <1>2, <1>4, <2>1 DEF Deleted
    <3>2. QED BY <1>1, <1>3, <3>1
  <2>2. CASE a \notin answers
    <3>1. AnswerTo(m, q, a)
      BY <2>2, DaemonAnswers
    <3>2. /\ q.from = v /\ q.type = "DELETE" /\ q.pid = talk[v].run /\ v = m
          /\ talk[v].pc \notin {"off", "exit"}
          /\ \A e \in Entered(m)' : e.id # q.id
      BY <1>4, <3>1 DEF AnswerTo, Alive
    <3>3. Called(talk[v]) /\ q.id = talk[v].local_id
      BY <1>1, <1>2, <3>2 DEF Deleted
    <3>4. ~Left(v, talk[v].local_id)'
      BY <1>1, <3>2, <3>3 DEF Left, Invitations
    <3>5. QED BY <1>3, <3>3, <3>4
  <2>3. QED BY <2>1, <2>2
<1>5. ASSUME NEW v \in Users, NEW r \in requests', r.type = "DELETE", r.from = v,
             r.to = v, r.pid = talk[v].run, talk[v].pc \notin {"off", "exit"}
      PROVE Called(talk[v]) /\ r.id = talk[v].local_id
  BY <1>1, <1>2, <1>5 DEF Deleted
<1>6. QED BY <1>1, <1>3, <1>4, <1>5 DEF Deleted

(* Looked: a LOOK_UP finds the invitation of one who waits.                *)
LEMMA DaemonLooked ==
  ASSUME TalkInv, NEW m \in Users, NEW q, DaemonStep(m, q)
  PROVE Looked'
<1>1. talk' = talk /\ live' = live /\ q \in requests /\ q.to = m
  BY DaemonFrame
<1>2. Looked
  BY DEF TalkInv
<1>3. ASSUME NEW a \in answers', a.type = "LOOK_UP", a.waits # 0
      PROVE /\ a.answer = "SUCCESS" /\ a.addr = a.waits
            /\ HasWaited(Party(a.to), a.waits)
  <2>1. CASE a \in answers
    BY <1>2, <1>3, <2>1 DEF Looked
  <2>2. CASE a \notin answers
    <3>1. AnswerTo(m, q, a)
      BY <2>2, DaemonAnswers
    <3>2. /\ a.answer = "SUCCESS" /\ a.waits = talk[m].run /\ a.addr = a.waits
          /\ talk[m].pc = "listen"
      BY <1>3, <3>1 DEF AnswerTo
    <3>3. a.to = q.from /\ q.type = "LOOK_UP"
      BY <1>3, <3>1 DEF AnswerTo
    <3>4. Party(a.to) = m
      BY <1>1, <3>3 DEF TalkInv, RequestsOK
    <3>5. HasWaited(m, talk[m].run)
      BY <3>2 DEF HasWaited
    <3>6. QED BY <3>2, <3>4, <3>5
  <2>3. QED BY <2>1, <2>2
<1>4. \A p, run : HasWaited(p, run)' = HasWaited(p, run)
  BY <1>1 DEF HasWaited
<1>5. \A p, run : WaitsNoMore(p, run)' = WaitsNoMore(p, run)
  BY <1>1, <1>4 DEF WaitsNoMore
<1>6. QED BY <1>1, <1>2, <1>3, <1>4, <1>5 DEF Looked

(* Cleared: once DELETE is answered no entry has the id, and no new one    *)
(* gets it.                                                                *)
LEMMA DaemonCleared ==
  ASSUME TalkInv, NEW m \in Users, NEW q, DaemonStep(m, q)
  PROVE Cleared'
<1>1. /\ talk' = talk /\ forgotten' = forgotten /\ q \in requests /\ q.to = m
      /\ \A r \in requests' : r \in requests
      /\ \A v \in Users : v # m => Entered(v)' = Entered(v)
      /\ \A v \in Users : current_id[v] \in Nat
  BY DaemonFrame
<1>2. Cleared
  BY DEF TalkInv
<1>3. ASSUME NEW v \in Users, NEW a \in answers', a.type = "DELETE", a.to = v
      PROVE /\ talk[v].pc \notin {"lookup", "connect"}
            /\ talk[v].pc = "clear" /\ Party(v) \notin forgotten =>
                 \A e \in Entered(Party(v))' : e.id # talk[v].id
  <2>1. CASE a \in answers
    <3>1. talk[v].pc \notin {"lookup", "connect"}
      BY <1>2, <1>3, <2>1 DEF Cleared
    <3>2. ASSUME talk[v].pc = "clear", Party(v) \notin forgotten,
                 NEW e \in Entered(Party(v))', e.id = talk[v].id
          PROVE FALSE
      <4>1. PICK p \in Users : p = Party(v) /\ v = Party(p)
        BY PartyFacts
      <4>2. talk[v].id <= current_id[p] /\ talk[v].id \in Nat
        BY <3>2, <4>1 DEF TalkInv, IdsMeant, Shape, Processes
      <4>3. e \in Entered(p) \/ (p = m /\ e.id = current_id[m] + 1)
        BY <1>1, <3>2, <4>1, DaemonInvitations
      <4>4. e \in Entered(p)
        BY <1>1, <3>2, <4>2, <4>3
      <4>5. QED BY <1>2, <1>3, <2>1, <3>2, <4>1, <4>4 DEF Cleared
    <3>3. QED BY <3>1, <3>2
  <2>2. CASE a \notin answers
    <3>1. AnswerTo(m, q, a)
      BY <2>2, DaemonAnswers
    <3>2. /\ q.from = v /\ q.type = "DELETE" /\ q.pid = talk[v].run
          /\ \A e \in Entered(m)' : e.id # q.id
      BY <1>3, <3>1 DEF AnswerTo, Alive
    <3>3. /\ talk[v].pc \notin {"lookup", "connect"}
          /\ talk[v].pc = "clear" => m = Party(v) /\ q.id = talk[v].id
      BY <1>1, <1>2, <3>2 DEF Cleared
    <3>4. QED BY <3>2, <3>3
  <2>3. QED BY <2>1, <2>2
<1>4. QED BY <1>1, <1>2, <1>3 DEF Cleared

-----------------------------------------------------------------------------
(* The tables of the talkds.                                               *)

(* new_id counts on, as long as there are ids left.                        *)
LEMMA NewId ==
  ASSUME TalkInv, IdsLeft, NEW m \in Users
  PROVE /\ new_id(m) = current_id[m] + 1 /\ new_id(m) \in 1..(MAX_ID - 1)
        /\ current_id[m] \in Nat
<1>1. /\ current_id[m] \in Nat /\ MAX_ID \in Nat
      /\ current_id[m] + 1 < MAX_ID /\ MAX_ID > 0
  BY TalkConstants DEF TalkInv, Shape, IdsLeft
<1>2. \A n, k \in Nat : n < k => n % k = n
  OBVIOUS
<1>3. (current_id[m] + 1) % MAX_ID = current_id[m] + 1
  BY <1>1, <1>2
<1>4. QED BY <1>1, <1>3 DEF new_id

(* A new first element.                                                    *)
LEMMA Prepended ==
  ASSUME NEW S, NEW s \in Seq(S), NEW e \in S
  PROVE LET r == <<e>> \o s IN
        /\ r \in Seq(S) /\ r[1] = e /\ 1 \in DOMAIN r
        /\ \A i \in DOMAIN s : i + 1 \in DOMAIN r /\ r[i + 1] = s[i]
        /\ \A i \in DOMAIN r : i = 1 \/ (i - 1 \in DOMAIN s /\ r[i] = s[i - 1])
        /\ DOMAIN r \subseteq Nat /\ DOMAIN s \subseteq Nat
<1> DEFINE r == <<e>> \o s
<1>1. <<e>> \in Seq(S) /\ Len(<<e>>) = 1 /\ <<e>>[1] = e
  OBVIOUS
<1>2. /\ r \in Seq(S) /\ Len(r) = 1 + Len(s)
      /\ \A i \in 1..(1 + Len(s)) : r[i] = IF i <= 1 THEN <<e>>[i] ELSE s[i - 1]
  BY <1>1, ConcatProperties
<1>3. DOMAIN s = 1..Len(s) /\ DOMAIN r = 1..(1 + Len(s)) /\ Len(s) \in Nat
  BY <1>2
<1> HIDE DEF r
<1>4. r[1] = e /\ 1 \in DOMAIN r
  BY <1>1, <1>2, <1>3
<1>5. \A i \in DOMAIN s : i + 1 \in DOMAIN r /\ r[i + 1] = s[i]
  BY <1>2, <1>3
<1>6. \A i \in DOMAIN r : i = 1 \/ (i - 1 \in DOMAIN s /\ r[i] = s[i - 1])
  BY <1>2, <1>3
<1>7. DOMAIN r \subseteq Nat /\ DOMAIN s \subseteq Nat
  BY <1>3
<1>8. QED BY <1>2, <1>4, <1>5, <1>6, <1>7 DEF r

(* The elements after an index.                                            *)
LEMMA After ==
  ASSUME NEW S, NEW s \in Seq(S), NEW k \in DOMAIN s
  PROVE LET r == SubSeq(s, k + 1, Len(s)) IN
        /\ r \in Seq(S)
        /\ \A i \in DOMAIN s : i > k => i - k \in DOMAIN r /\ r[i - k] = s[i]
        /\ \A i \in DOMAIN r : i + k \in DOMAIN s /\ r[i] = s[i + k]
        /\ DOMAIN r \subseteq Nat \ {0} /\ DOMAIN s \subseteq Nat
<1> DEFINE r == SubSeq(s, k + 1, Len(s))
<1>1. DOMAIN s = 1..Len(s) /\ Len(s) \in Nat /\ k \in 1..Len(s)
  OBVIOUS
<1>2. /\ r \in Seq(S)
      /\ Len(r) = IF k + 1 <= Len(s) THEN Len(s) - (k + 1) + 1 ELSE 0
      /\ \A i \in 1..(Len(s) - (k + 1) + 1) : r[i] = s[k + 1 + i - 1]
  BY <1>1, SubSeqProperties
<1>3. Len(r) = Len(s) - k
  BY <1>1, <1>2
<1>4. DOMAIN r = 1..(Len(s) - k)
  BY <1>2, <1>3
<1> HIDE DEF r
<1>5. ASSUME NEW i \in DOMAIN r PROVE i + k \in DOMAIN s /\ r[i] = s[i + k]
  <2>1. /\ i \in Nat /\ i + k \in DOMAIN s /\ i \in 1..(Len(s) - (k + 1) + 1)
        /\ k + 1 + i - 1 = i + k
    BY <1>1, <1>4
  <2>2. r[i] = s[k + 1 + i - 1]
    BY <1>2, <2>1
  <2>3. QED BY <2>1, <2>2
<1>6. \A i \in DOMAIN s : i > k => i - k \in DOMAIN r /\ r[i - k] = s[i]
  BY <1>1, <1>4, <1>5
<1>7. QED BY <1>1, <1>2, <1>4, <1>5, <1>6 DEF r

(* What TablesOK says of the table s of m when its talkd is at current and *)
(* the processes are p.                                                    *)
TableOK(m, s, current, p) ==
  /\ \A i \in DOMAIN s :
       /\ s[i].id <= current
       /\ s[i].pid <= p[s[i].l].run /\ s[i].pid # 0
       /\ s[i].type = "LEAVE_INVITE" => s[i].l = m
       /\ s[i].type = "ANNOUNCE" => s[i].l = Party(m)
  /\ \A i, j \in DOMAIN s : i # j => s[i].id # s[j].id
  /\ \A i, j \in DOMAIN s :
       i < j /\ s[i].type = "LEAVE_INVITE" /\ s[j].type = "LEAVE_INVITE"
       => s[i].pid > s[j].pid

(* The elements of a sequence.                                             *)
Elements(s) == {s[i] : i \in DOMAIN s}

(* Only the table of m changes.                                            *)
LEMMA OneTable ==
  ASSUME TalkInv, NEW m \in Users, NEW s \in Seq(Entries), NEW n \in 0..(MAX_ID - 1),
         table' = [table EXCEPT ![m] = s],
         current_id' = [current_id EXCEPT ![m] = n],
         talk' = talk, TableOK(m, s, n, talk)
  PROVE /\ table' \in [Users -> Seq(Entries)]
        /\ current_id' \in [Users -> 0..(MAX_ID - 1)]
        /\ TablesOK' /\ table'[m] = s /\ current_id'[m] = n
        /\ Entered(m)' = Elements(s)
        /\ \A v \in Users : v # m => /\ Entered(v)' = Entered(v)
                                     /\ current_id'[v] = current_id[v]
<1>1. /\ table \in [Users -> Seq(Entries)]
      /\ current_id \in [Users -> 0..(MAX_ID - 1)]
  BY DEF TalkInv, Shape
<1>2. /\ table' \in [Users -> Seq(Entries)]
      /\ current_id' \in [Users -> 0..(MAX_ID - 1)]
      /\ table'[m] = s /\ current_id'[m] = n
      /\ \A v \in Users : v # m => table'[v] = table[v] /\ current_id'[v] = current_id[v]
  BY <1>1
<1>3. /\ Entered(m)' = Elements(s)
      /\ \A v \in Users : v # m => Entered(v)' = Entered(v)
  BY <1>2 DEF Entered, Elements
<1>4. \A v \in Users : TableOK(v, table[v], current_id[v], talk)
  BY DEF TalkInv, TablesOK, TableOK
<1>5. \A v \in Users : TableOK(v, table'[v], current_id'[v], talk')
  BY <1>2, <1>4
<1>6. TablesOK'
  BY <1>5 DEF TablesOK, TableOK
<1>7. QED BY <1>2, <1>3, <1>6

(* insert_table: an entry with a new id goes first; if it is an invitation *)
(* it is newer than the others.                                            *)
LEMMA Inserted ==
  ASSUME TalkInv, IdsLeft, NEW m \in Users, NEW q \in requests, q.to = m,
         q.type \in {"ANNOUNCE", "LEAVE_INVITE"}, insert_table(m, q), talk' = talk,
         q.type = "LEAVE_INVITE" => \A f \in Invitations(m) : f.pid # q.pid
  PROVE /\ table' \in [Users -> Seq(Entries)]
        /\ current_id' \in [Users -> 0..(MAX_ID - 1)]
        /\ TablesOK'
        /\ \A v \in Users : v # m => /\ Entered(v)' = Entered(v)
                                     /\ current_id'[v] = current_id[v]
        /\ current_id'[m] = current_id[m] + 1
        /\ \E e \in Entries :
             /\ Entered(m)' = Entered(m) \cup {e} /\ e.type = q.type
             /\ e.pid = q.pid /\ e.id = current_id[m] + 1
<1> DEFINE n == new_id(m)
           e == [type |-> q.type, l |-> q.from, pid |-> q.pid, id |-> n]
           s == table[m]
           r == <<e>> \o s
<1>1. n = current_id[m] + 1 /\ n \in 1..(MAX_ID - 1) /\ current_id[m] \in Nat
  BY NewId
<1>2. /\ q \in Requests /\ q.pid \in Nat /\ q.from \in Users
      /\ q.pid <= talk[q.from].run /\ q.pid # 0
      /\ q.type = "ANNOUNCE" => m = Party(q.from)
      /\ q.type = "LEAVE_INVITE" => m = q.from
  BY DEF TalkInv, Shape, RequestsOK, Requests
<1>3. q.type = "ANNOUNCE" => q.from = Party(m)
  BY <1>2, PartyFacts
<1>4. table' = [table EXCEPT ![m] = r] /\ current_id' = [current_id EXCEPT ![m] = n]
  BY DEF insert_table
<1>5. e \in Entries
  BY <1>1, <1>2 DEF Entries
<1>6. s \in Seq(Entries) /\ TableOK(m, s, current_id[m], talk)
  BY DEF TalkInv, Shape, TablesOK, TableOK
<1>7. e.type = q.type /\ e.l = q.from /\ e.pid = q.pid /\ e.id = n
  OBVIOUS
<1>8. \A i \in DOMAIN s : s[i] \in Entries /\ s[i] \in Entered(m)
  BY <1>6 DEF Entered
<1>9. \A i \in DOMAIN s : s[i].id \in Nat /\ s[i].pid \in Nat /\ s[i].id < n
  BY <1>1, <1>8, EntriesFacts DEF TalkInv
<1>10. ASSUME q.type = "LEAVE_INVITE", NEW i \in DOMAIN s, s[i].type = "LEAVE_INVITE"
       PROVE q.pid > s[i].pid
  <2>1. s[i] \in Invitations(m)
    BY <1>8, <1>10 DEF Invitations
  <2>2. s[i].pid <= q.pid
    BY <1>2, <1>10, <2>1 DEF TalkInv, InOrder
  <2>3. s[i].pid # q.pid
    BY <1>10, <2>1
  <2>4. QED BY <1>2, <1>9, <2>2, <2>3
<1>11. Entered(m) = {s[i] : i \in DOMAIN s}
  BY DEF Entered
<1> HIDE DEF n, e, s
<1>12. /\ r \in Seq(Entries) /\ r[1] = e /\ 1 \in DOMAIN r
       /\ \A i \in DOMAIN s : i + 1 \in DOMAIN r /\ r[i + 1] = s[i]
       /\ \A i \in DOMAIN r : i = 1 \/ (i - 1 \in DOMAIN s /\ r[i] = s[i - 1])
       /\ DOMAIN r \subseteq Nat /\ DOMAIN s \subseteq Nat
  BY <1>5, <1>6, Prepended
<1> HIDE DEF r
<1>13. TableOK(m, r, n, talk)
  <2>1. ASSUME NEW i \in DOMAIN r
        PROVE /\ r[i].id <= n
              /\ r[i].pid <= talk[r[i].l].run /\ r[i].pid # 0
              /\ r[i].type = "LEAVE_INVITE" => r[i].l = m
              /\ r[i].type = "ANNOUNCE" => r[i].l = Party(m)
    <3>1. CASE i = 1
      BY <1>1, <1>2, <1>3, <1>7, <1>12, <3>1
    <3>2. CASE i # 1
      <4>1. PICK k \in DOMAIN s : r[i] = s[k]
        BY <1>12, <3>2
      <4>2. QED BY <1>1, <1>6, <1>9, <4>1 DEF TableOK
    <3>3. QED BY <3>1, <3>2
  <2>2. ASSUME NEW i \in DOMAIN r, NEW j \in DOMAIN r, i # j
        PROVE r[i].id # r[j].id
    <3>1. i \in Nat /\ j \in Nat /\ n \in Nat
      BY <1>1, <1>12
    <3>2. CASE i = 1
      <4>1. PICK k \in DOMAIN s : r[j] = s[k]
        BY <1>12, <2>2, <3>2
      <4>2. QED BY <1>7, <1>9, <1>12, <3>1, <3>2, <4>1
    <3>3. CASE j = 1
      <4>1. PICK k \in DOMAIN s : r[i] = s[k]
        BY <1>12, <2>2, <3>3
      <4>2. QED BY <1>7, <1>9, <1>12, <3>1, <3>3, <4>1
    <3>4. CASE i # 1 /\ j # 1
      <4>1. /\ i - 1 \in DOMAIN s /\ r[i] = s[i - 1]
            /\ j - 1 \in DOMAIN s /\ r[j] = s[j - 1] /\ i - 1 # j - 1
        BY <1>12, <2>2, <3>1, <3>4
      <4>2. QED BY <1>6, <4>1 DEF TableOK
    <3>5. QED BY <3>2, <3>3, <3>4
  <2>3. ASSUME NEW i \in DOMAIN r, NEW j \in DOMAIN r, i < j,
               r[i].type = "LEAVE_INVITE", r[j].type = "LEAVE_INVITE"
        PROVE r[i].pid > r[j].pid
    <3>1. i \in Nat /\ j \in Nat /\ j # 1
      <4>1. i \in Nat /\ j \in Nat
        BY <1>12
      <4>2. i = 1 \/ (i - 1 \in DOMAIN s /\ i - 1 \in Nat)
        BY <1>12
      <4>3. QED BY <4>1, <4>2, <2>3
    <3>2. j - 1 \in DOMAIN s /\ r[j] = s[j - 1]
      BY <1>12, <3>1
    <3>3. CASE i = 1
      BY <1>7, <1>10, <1>12, <2>3, <3>2, <3>3
    <3>4. CASE i # 1
      <4>1. i - 1 \in DOMAIN s /\ r[i] = s[i - 1] /\ i - 1 < j - 1
        BY <1>12, <2>3, <3>1, <3>4
      <4>2. QED BY <1>6, <2>3, <3>2, <4>1 DEF TableOK
    <3>5. QED BY <3>3, <3>4
  <2>4. QED BY <2>1, <2>2, <2>3 DEF TableOK
<1>14. Elements(r) = Entered(m) \cup {e}
  BY <1>11, <1>12 DEF Elements
<1>15. PICK z \in Seq(Entries), k \in 0..(MAX_ID - 1) : z = r /\ k = n
  BY <1>1, <1>12
<1>16. /\ table' \in [Users -> Seq(Entries)]
       /\ current_id' \in [Users -> 0..(MAX_ID - 1)]
       /\ TablesOK' /\ current_id'[m] = k
       /\ Entered(m)' = Elements(z)
       /\ \A v \in Users : v # m => /\ Entered(v)' = Entered(v)
                                    /\ current_id'[v] = current_id[v]
  <2>1. /\ table' = [table EXCEPT ![m] = z] /\ TableOK(m, z, k, talk)
        /\ current_id' = [current_id EXCEPT ![m] = k]
    BY <1>4, <1>13, <1>15
  <2>2. /\ TalkInv /\ talk' = talk /\ m \in Users
        /\ z \in Seq(Entries) /\ k \in 0..(MAX_ID - 1)
    OBVIOUS
  <2>3. QED BY ONLY <2>1, <2>2, OneTable
<1>17. /\ Entered(m)' = Entered(m) \cup {e} /\ e.type = q.type
       /\ e.pid = q.pid /\ e.id = current_id[m] + 1
  BY <1>1, <1>7, <1>14, <1>15, <1>16
<1>18. QED BY <1>1, <1>5, <1>15, <1>16, <1>17

(* do_announce: an entry that is no invitation gets a new id.              *)
LEMMA Renumbered ==
  ASSUME TalkInv, IdsLeft, NEW m \in Users, NEW i \in DOMAIN table[m],
         table[m][i].type = "ANNOUNCE", talk' = talk,
         current_id' = [current_id EXCEPT ![m] = new_id(m)],
         table' = [table EXCEPT ![m][i].id = new_id(m)]
  PROVE /\ table' \in [Users -> Seq(Entries)]
        /\ current_id' \in [Users -> 0..(MAX_ID - 1)]
        /\ TablesOK'
        /\ \A v \in Users : v # m => /\ Entered(v)' = Entered(v)
                                     /\ current_id'[v] = current_id[v]
        /\ current_id'[m] = current_id[m] + 1
        /\ \A e \in Entered(m)' : e \in Entered(m) \/ e.id = current_id[m] + 1
        /\ Invitations(m)' = Invitations(m)
<1> DEFINE n == new_id(m)
           s == table[m]
           e == [s[i] EXCEPT !.id = n]
           r == [s EXCEPT ![i] = e]
<1>1. n = current_id[m] + 1 /\ n \in 1..(MAX_ID - 1) /\ current_id[m] \in Nat
  BY NewId
<1>2. s \in Seq(Entries) /\ TableOK(m, s, current_id[m], talk)
  BY DEF TalkInv, Shape, TablesOK, TableOK
<1>3. table' = [table EXCEPT ![m] = r] /\ current_id' = [current_id EXCEPT ![m] = n]
  BY DEF TalkInv, Shape
<1>4. s[i] \in Entries
  BY <1>2
<1>5. /\ e \in Entries /\ e.type = "ANNOUNCE" /\ e.l = s[i].l
      /\ e.pid = s[i].pid /\ e.id = n
  BY <1>1, <1>4 DEF Entries
<1>6. Entered(m) = {s[j] : j \in DOMAIN s}
  BY DEF Entered
<1>7. \A j \in DOMAIN s : s[j].id \in Nat /\ s[j].pid \in Nat /\ s[j].id < n
  BY <1>1, <1>6, EntriesFacts DEF TalkInv
<1>8. s[i].type = "ANNOUNCE" /\ i \in DOMAIN s
  OBVIOUS
<1> HIDE DEF n, e, s
<1>9. r \in Seq(Entries) /\ DOMAIN r = DOMAIN s /\ r[i] = e
  BY <1>2, <1>5, <1>8
<1>10. \A j \in DOMAIN s : j # i => r[j] = s[j]
  BY <1>2, <1>8
<1> HIDE DEF r
<1>11. TableOK(m, r, n, talk)
  <2>1. ASSUME NEW j \in DOMAIN s
        PROVE /\ r[j].id <= n
              /\ r[j].pid = s[j].pid /\ r[j].l = s[j].l /\ r[j].type = s[j].type
    <3>1. CASE j = i
      BY <1>1, <1>5, <1>8, <1>9, <3>1
    <3>2. CASE j # i
      BY <1>1, <1>7, <1>10, <3>2
    <3>3. QED BY <3>1, <3>2
  <2>2. ASSUME NEW j \in DOMAIN s, NEW k \in DOMAIN s, j # k
        PROVE r[j].id # r[k].id
    <3>1. CASE j = i
      BY <1>1, <1>5, <1>7, <1>9, <1>10, <2>2, <3>1
    <3>2. CASE k = i
      BY <1>1, <1>5, <1>7, <1>9, <1>10, <2>2, <3>2
    <3>3. CASE j # i /\ k # i
      BY <1>2, <1>10, <2>2, <3>3 DEF TableOK
    <3>4. QED BY <3>1, <3>2, <3>3
  <2>3. \A j \in DOMAIN r : /\ r[j].id <= n
                            /\ r[j].pid <= talk[r[j].l].run /\ r[j].pid # 0
                            /\ r[j].type = "LEAVE_INVITE" => r[j].l = m
                            /\ r[j].type = "ANNOUNCE" => r[j].l = Party(m)
    BY <1>2, <1>9, <2>1 DEF TableOK
  <2>4. \A j, k \in DOMAIN r :
          j < k /\ r[j].type = "LEAVE_INVITE" /\ r[k].type = "LEAVE_INVITE"
          => r[j].pid > r[k].pid
    BY <1>2, <1>9, <2>1 DEF TableOK
  <2>5. QED BY <1>9, <2>2, <2>3, <2>4 DEF TableOK
<1>12. PICK z \in Seq(Entries), k \in 0..(MAX_ID - 1) : z = r /\ k = n
  BY <1>1, <1>9
<1>13. /\ table' \in [Users -> Seq(Entries)]
       /\ current_id' \in [Users -> 0..(MAX_ID - 1)]
       /\ TablesOK' /\ current_id'[m] = k
       /\ Entered(m)' = Elements(z)
       /\ \A v \in Users : v # m => /\ Entered(v)' = Entered(v)
                                    /\ current_id'[v] = current_id[v]
  BY <1>3, <1>11, <1>12, OneTable
<1>14. Entered(m)' = {r[j] : j \in DOMAIN s}
  BY <1>9, <1>12, <1>13 DEF Elements
<1>15. \A f \in Entered(m)' : f \in Entered(m) \/ f = e
  BY <1>6, <1>9, <1>10, <1>14
<1>16. \A f \in Entered(m) : f \in Entered(m)' \/ f = s[i]
  BY <1>6, <1>10, <1>14
<1>17. Invitations(m)' = Invitations(m)
  BY <1>5, <1>8, <1>15, <1>16 DEF Invitations
<1>18. QED BY <1>1, <1>5, <1>12, <1>13, <1>15, <1>17

(* table_delete: the entry and what was entered after it go, the rest      *)
(* stays.                                                                  *)
LEMMA CutOff ==
  ASSUME TalkInv, NEW m \in Users, NEW i \in DOMAIN table[m],
         talk' = talk, current_id' = current_id, table_delete(m, i)
  PROVE /\ table' \in [Users -> Seq(Entries)]
        /\ current_id' \in [Users -> 0..(MAX_ID - 1)]
        /\ TablesOK'
        /\ \A v \in Users : v # m => Entered(v)' = Entered(v)
        /\ Entered(m)' \subseteq Entered(m)
        /\ \A j \in DOMAIN table[m] : j > i => table[m][j] \in Entered(m)'
        /\ \A e \in Entered(m)' : e.id # table[m][i].id
<1> DEFINE s == table[m]
           r == SubSeq(s, i + 1, Len(s))
<1>1. s \in Seq(Entries) /\ TableOK(m, s, current_id[m], talk) /\ i \in DOMAIN s
  BY DEF TalkInv, Shape, TablesOK, TableOK
<1>2. table' = [table EXCEPT ![m] = r]
  BY DEF table_delete
<1>3. current_id \in [Users -> 0..(MAX_ID - 1)]
  BY DEF TalkInv, Shape
<1>4. Entered(m) = {s[j] : j \in DOMAIN s}
  BY DEF Entered
<1> HIDE DEF s
<1>5. /\ r \in Seq(Entries)
      /\ \A j \in DOMAIN s : j > i => j - i \in DOMAIN r /\ r[j - i] = s[j]
      /\ \A j \in DOMAIN r : j + i \in DOMAIN s /\ r[j] = s[j + i]
      /\ DOMAIN r \subseteq Nat \ {0} /\ DOMAIN s \subseteq Nat
  BY <1>1, After
<1> HIDE DEF r
<1>6. i \in Nat
  BY <1>1, <1>5
<1>7. TableOK(m, r, current_id[m], talk)
  <2>1. \A j \in DOMAIN r : /\ r[j].id <= current_id[m]
                            /\ r[j].pid <= talk[r[j].l].run /\ r[j].pid # 0
                            /\ r[j].type = "LEAVE_INVITE" => r[j].l = m
                            /\ r[j].type = "ANNOUNCE" => r[j].l = Party(m)
    BY <1>1, <1>5 DEF TableOK
  <2>2. ASSUME NEW j \in DOMAIN r, NEW k \in DOMAIN r
        PROVE /\ j # k => j + i # k + i
              /\ j < k => j + i < k + i
    BY <1>5, <1>6
  <2>3. ASSUME NEW j \in DOMAIN r, NEW k \in DOMAIN r, j # k
        PROVE r[j].id # r[k].id
    <3>1. j + i \in DOMAIN s /\ k + i \in DOMAIN s /\ j + i # k + i
      BY <1>5, <2>2, <2>3
    <3>2. s[j + i].id # s[k + i].id
      BY <1>1, <3>1 DEF TableOK
    <3>3. QED BY <1>5, <3>2
  <2>4. ASSUME NEW j \in DOMAIN r, NEW k \in DOMAIN r, j < k,
               r[j].type = "LEAVE_INVITE", r[k].type = "LEAVE_INVITE"
        PROVE r[j].pid > r[k].pid
    <3>1. /\ j + i \in DOMAIN s /\ k + i \in DOMAIN s /\ j + i < k + i
          /\ r[j] = s[j + i] /\ r[k] = s[k + i]
      BY <1>5, <2>2, <2>4
    <3>2. QED BY <1>1, <2>4, <3>1 DEF TableOK
  <2>5. QED BY <2>1, <2>3, <2>4 DEF TableOK
<1>8. PICK z \in Seq(Entries), k \in 0..(MAX_ID - 1) : z = r /\ k = current_id[m]
  BY <1>3, <1>5
<1>9. current_id' = [current_id EXCEPT ![m] = k]
  BY <1>3, <1>8
<1>10. /\ table' \in [Users -> Seq(Entries)]
       /\ TablesOK'
       /\ Entered(m)' = Elements(z)
       /\ \A v \in Users : v # m => Entered(v)' = Entered(v)
  BY <1>2, <1>7, <1>8, <1>9, OneTable
<1>11. Entered(m)' = {r[j] : j \in DOMAIN r}
  BY <1>8, <1>10 DEF Elements
<1>12. Entered(m)' \subseteq Entered(m)
  BY <1>4, <1>5, <1>11
<1>13. \A j \in DOMAIN s : j > i => s[j] \in Entered(m)'
  BY <1>5, <1>11
<1>14. ASSUME NEW e \in Entered(m)' PROVE e.id # s[i].id
  <2>1. PICK j \in DOMAIN r : e = r[j]
    BY <1>11
  <2>2. j + i \in DOMAIN s /\ e = s[j + i] /\ j + i # i
    BY <1>5, <1>6, <2>1
  <2>3. QED BY <1>1, <2>2 DEF TableOK
<1>15. QED BY <1>3, <1>10, <1>12, <1>13, <1>14 DEF s

-----------------------------------------------------------------------------
(* Every request talkd takes is a DaemonStep.                              *)

(* What a handler of talkd does.                                           *)
Handles(m, q) ==
  /\ table' \in [Users -> Seq(Entries)]
  /\ current_id' \in [Users -> 0..(MAX_ID - 1)]
  /\ TablesOK'
  /\ \A v \in Users : v # m => /\ Entered(v)' = Entered(v)
                               /\ current_id'[v] = current_id[v]
  /\ Taken(m, q)
  /\ \A a \in answers' : a \in answers \/ AnswerTo(m, q, a)

(* The answer that is sent.                                                *)
LEMMA AnswerFacts ==
  ASSUME TalkInv, NEW q \in requests, NEW code \in AnswerCodes, NEW id \in Nat,
         NEW addr \in Nat, Answers(q, code, id, addr), NEW a \in answers',
         a \notin answers
  PROVE /\ a \in AnswersOf /\ a.to = q.from /\ a.type = q.type /\ a.by = q.to
        /\ Alive(q.from, q.pid) /\ a.answer = code /\ a.id = id /\ a.addr = addr
        /\ a.waits # 0 => /\ q.type = "LOOK_UP" /\ talk[q.to].pc = "listen"
                          /\ Standing(q.to) /\ a.waits = talk[q.to].run
<1> DEFINE waits == IF /\ q.type = "LOOK_UP" /\ talk[q.to].pc = "listen"
                       /\ Standing(q.to)
                      THEN talk[q.to].run ELSE 0
<1>1. q \in Requests /\ talk \in [Users -> Processes]
  BY DEF TalkInv, Shape
<1>2. q.to \in Users /\ q.from \in Users /\ q.type \in RequestTypes
  BY <1>1 DEF Requests
<1>3. talk[q.to].run \in Nat
  BY <1>1, <1>2 DEF Processes
<1>4. waits \in Nat
  BY <1>3
<1>5. /\ Alive(q.from, q.pid)
      /\ a = [to |-> q.from, type |-> q.type, waits |-> waits, by |-> q.to,
              answer |-> code, id |-> id, addr |-> addr]
  BY DEF Answers
<1>6. waits # 0 => /\ q.type = "LOOK_UP" /\ talk[q.to].pc = "listen"
                   /\ Standing(q.to) /\ waits = talk[q.to].run
  OBVIOUS
<1> HIDE DEF waits
<1>7. QED BY <1>2, <1>4, <1>5, <1>6 DEF AnswersOf

(* The daemons stay as they are.                                           *)
LEMMA Untouched ==
  ASSUME TalkInv, UNCHANGED daemons, talk' = talk, NEW m \in Users
  PROVE /\ table' \in [Users -> Seq(Entries)]
        /\ current_id' \in [Users -> 0..(MAX_ID - 1)]
        /\ TablesOK'
        /\ \A v \in Users : /\ Entered(v)' = Entered(v)
                            /\ Invitations(v)' = Invitations(v)
                            /\ current_id'[v] = current_id[v]
        /\ current_id[m] \in Nat /\ current_id'[m] \in Nat
<1>1. table' = table /\ current_id' = current_id
  BY DEF daemons
<1>2. \A v \in Users : /\ Entered(v)' = Entered(v)
                       /\ Invitations(v)' = Invitations(v)
  BY <1>1 DEF Entered, Invitations
<1>3. TablesOK'
  BY <1>1 DEF TalkInv, TablesOK
<1>4. current_id[m] \in Nat
  BY DEF TalkInv, Shape
<1>5. QED BY <1>1, <1>2, <1>3, <1>4 DEF TalkInv, Shape

(* What find_request finds.                                                *)
LEMMA Found ==
  ASSUME TalkInv, NEW m \in Users, NEW q
  PROVE /\ find_request(m, q) = 0 =>
             \A e \in Entered(m) : ~(e.type = q.type /\ e.pid = q.pid /\ e.l = q.from)
        /\ find_request(m, q) # 0 =>
             /\ find_request(m, q) \in DOMAIN table[m]
             /\ table[m][find_request(m, q)].type = q.type
             /\ table[m][find_request(m, q)].pid = q.pid
<1> DEFINE S == {i \in DOMAIN table[m] : /\ table[m][i].type = q.type
                                         /\ table[m][i].pid = q.pid
                                         /\ table[m][i].l = q.from}
<1>1. find_request(m, q) = lookup_request(S)
  BY DEF find_request
<1>2. table[m] \in Seq(Entries)
  BY DEF TalkInv, Shape
<1>3. DOMAIN table[m] \subseteq Nat \ {0}
  BY <1>2
<1>4. PICK T : T = S
  OBVIOUS
<1>5. T \in SUBSET Nat /\ 0 \notin T
  BY <1>3, <1>4
<1>6. T = {} => lookup_request(T) = 0
  BY <1>5, LookupFacts
<1>7. T # {} => lookup_request(T) \in T
  BY <1>5, LookupFacts
<1>8. ASSUME lookup_request(T) = 0, NEW e \in Entered(m)
      PROVE ~(e.type = q.type /\ e.pid = q.pid /\ e.l = q.from)
  <2>1. T = {}
    BY <1>5, <1>7, <1>8
  <2>2. QED BY <1>4, <2>1 DEF Entered
<1>9. QED BY <1>1, <1>4, <1>6, <1>7, <1>8

(* ANNOUNCE                                                                *)
LEMMA Announces ==
  ASSUME TalkInv, IdsLeft, NEW m \in Users, NEW q \in requests, q.to = m,
         q.type = "ANNOUNCE", talk' = talk, NEW fault, do_announce(m, q, fault)
  PROVE Handles(m, q)
<1>1. PICK i, n : i = find_request(m, q) /\ n = new_id(m)
  OBVIOUS
<1>2. n = current_id[m] + 1 /\ n \in Nat /\ current_id[m] \in Nat
  BY <1>1, NewId
<1>3. i # 0 => i \in DOMAIN table[m] /\ table[m][i].type = "ANNOUNCE"
  BY <1>1, Found
<1>4. PICK code \in AnswerCodes :
        code = IF fault = 0 THEN "SUCCESS" ELSE "PERMISSION_DENIED"
  BY DEF AnswerCodes
<1>5. \A e \in Entered(m) : e.id \in Nat /\ e.id # 0 /\ e.id <= current_id[m]
  BY EntriesFacts DEF TalkInv
<1>6. \A e \in Invitations(m) : e \in Entered(m) /\ e.type = "LEAVE_INVITE"
  BY DEF Invitations
<1>7. ASSUME NEW c \in AnswerCodes, NEW id \in Nat, Answers(q, c, id, 0),
             id <= current_id'[m],
             \A e \in Invitations(m)' : e.id # id
      PROVE \A a \in answers' : a \in answers \/ AnswerTo(m, q, a)
  <2>1. \A a \in answers' : a \notin answers =>
          /\ a \in AnswersOf /\ a.to = q.from /\ a.type = q.type /\ a.by = q.to
          /\ Alive(q.from, q.pid) /\ a.id = id
    BY <1>7, AnswerFacts
  <2>2. QED BY <1>7, <2>1 DEF AnswerTo, NoInvitation
<1>8. CASE Answers(q, "NOT_HERE", 0, 0) /\ UNCHANGED daemons
  <2>1. "NOT_HERE" \in AnswerCodes
    BY DEF AnswerCodes
  <2>2. /\ 0 <= current_id'[m] /\ \A e \in Invitations(m)' : e.id # 0
    BY <1>5, <1>6, <1>8, Untouched
  <2>3. \A a \in answers' : a \in answers \/ AnswerTo(m, q, a)
    BY <1>7, <1>8, <2>1, <2>2
  <2>4. Taken(m, q)
    BY <1>8, Untouched DEF Taken
  <2>5. QED BY <1>8, <2>3, <2>4, Untouched DEF Handles
<1>9. CASE insert_table(m, q) /\ Answers(q, code, n, 0)
  <2>1. /\ table' \in [Users -> Seq(Entries)]
        /\ current_id' \in [Users -> 0..(MAX_ID - 1)]
        /\ TablesOK'
        /\ \A v \in Users : v # m => /\ Entered(v)' = Entered(v)
                                     /\ current_id'[v] = current_id[v]
        /\ current_id'[m] = current_id[m] + 1
    BY <1>9, Inserted
  <2>2. PICK e \in Entries :
             /\ Entered(m)' = Entered(m) \cup {e} /\ e.type = q.type
             /\ e.pid = q.pid /\ e.id = current_id[m] + 1
    BY <1>9, Inserted
  <2>3. Taken(m, q)
    BY <2>1, <2>2 DEF Taken
  <2>4. \A f \in Invitations(m)' : f \in Invitations(m)
    BY <2>2 DEF Invitations
  <2>5. n <= current_id'[m] /\ \A f \in Invitations(m)' : f.id # n
    BY <1>2, <1>5, <1>6, <2>1, <2>4
  <2>6. \A a \in answers' : a \in answers \/ AnswerTo(m, q, a)
    BY <1>2, <1>7, <1>9, <2>5
  <2>7. QED BY <2>1, <2>3, <2>6 DEF Handles
<1>10. CASE /\ i # 0 /\ current_id' = [current_id EXCEPT ![m] = new_id(m)]
            /\ table' = [table EXCEPT ![m][i].id = new_id(m)]
            /\ Answers(q, code, n, 0)
  <2>1. /\ table' \in [Users -> Seq(Entries)]
        /\ current_id' \in [Users -> 0..(MAX_ID - 1)]
        /\ TablesOK'
        /\ \A v \in Users : v # m => /\ Entered(v)' = Entered(v)
                                     /\ current_id'[v] = current_id[v]
        /\ current_id'[m] = current_id[m] + 1
        /\ \A e \in Entered(m)' : e \in Entered(m) \/ e.id = current_id[m] + 1
        /\ Invitations(m)' = Invitations(m)
    BY <1>3, <1>10, Renumbered
  <2>2. Taken(m, q)
    BY <2>1 DEF Taken
  <2>3. n <= current_id'[m] /\ \A f \in Invitations(m)' : f.id # n
    BY <1>2, <1>5, <1>6, <2>1
  <2>4. \A a \in answers' : a \in answers \/ AnswerTo(m, q, a)
    BY <1>2, <1>7, <1>10, <2>3
  <2>5. QED BY <2>1, <2>2, <2>4 DEF Handles
<1>11. CASE i # 0 /\ Answers(q, "SUCCESS", table[m][i].id, 0) /\ UNCHANGED daemons
  <2>1. "SUCCESS" \in AnswerCodes
    BY DEF AnswerCodes
  <2>2. PICK e : e = table[m][i]
    OBVIOUS
  <2>3. e \in Entered(m) /\ e.type = "ANNOUNCE"
    BY <1>3, <1>11, <2>2 DEF Entered
  <2>4. PICK id : id = e.id
    OBVIOUS
  <2>5. id \in Nat /\ id <= current_id[m]
    BY <1>5, <2>3, <2>4
  <2>6. \A f \in Invitations(m) : f.id # id
    <3>1. \A f \in Entered(m) : f.id = e.id => f = e
      BY <2>3, EntriesFacts DEF TalkInv
    <3>2. QED BY <1>6, <2>3, <2>4, <3>1
  <2>7. id <= current_id'[m] /\ \A f \in Invitations(m)' : f.id # id
    BY <1>11, <2>5, <2>6, Untouched
  <2>8. \A a \in answers' : a \in answers \/ AnswerTo(m, q, a)
    BY <1>7, <1>11, <2>1, <2>2, <2>4, <2>5, <2>7
  <2>9. Taken(m, q)
    BY <1>11, Untouched DEF Taken
  <2>10. QED BY <1>11, <2>8, <2>9, Untouched DEF Handles
<1>12. QED BY <1>1, <1>4, <1>8, <1>9, <1>10, <1>11 DEF do_announce

(* LEAVE_INVITE                                                            *)
LEMMA LeavesInvitation ==
  ASSUME TalkInv, IdsLeft, NEW m \in Users, NEW q \in requests, q.to = m,
         q.type = "LEAVE_INVITE", talk' = talk, leave_invite(m, q)
  PROVE Handles(m, q)
<1>1. PICK i, n : i = find_request(m, q) /\ n = new_id(m)
  OBVIOUS
<1>2. n = current_id[m] + 1 /\ n \in Nat /\ current_id[m] \in Nat
  BY <1>1, NewId
<1>3. /\ i # 0 => /\ i \in DOMAIN table[m] /\ table[m][i].type = "LEAVE_INVITE"
                  /\ table[m][i].pid = q.pid
      /\ i = 0 => \A e \in Entered(m) :
                    ~(e.type = q.type /\ e.pid = q.pid /\ e.l = q.from)
  BY <1>1, Found
<1>4. "SUCCESS" \in AnswerCodes
  BY DEF AnswerCodes
<1>5. /\ \A e \in Entered(m) : e.id \in Nat /\ e.id # 0 /\ e.id <= current_id[m]
      /\ \A e \in Invitations(m) : e.l = m /\ e.type = "LEAVE_INVITE" /\ e \in Entered(m)
  BY EntriesFacts DEF TalkInv
<1>6. q.from = m
  BY DEF TalkInv, RequestsOK
<1>7. ASSUME NEW id \in Nat, Answers(q, "SUCCESS", id, 0), id # 0,
             id <= current_id'[m],
             \E e \in Invitations(m)' : e.pid = q.pid /\ e.id = id
      PROVE \A a \in answers' : a \in answers \/ AnswerTo(m, q, a)
  <2>1. \A a \in answers' : a \notin answers =>
          /\ a \in AnswersOf /\ a.to = q.from /\ a.type = q.type /\ a.by = q.to
          /\ Alive(q.from, q.pid) /\ a.id = id
    BY <1>4, <1>7, AnswerFacts
  <2>2. QED BY <1>7, <2>1 DEF AnswerTo
<1>8. CASE i # 0 /\ Answers(q, "SUCCESS", table[m][i].id, 0) /\ UNCHANGED daemons
  <2>1. PICK e, id : e = table[m][i] /\ id = table[m][i].id
    OBVIOUS
  <2>2. e \in Entered(m) /\ e \in Invitations(m) /\ e.pid = q.pid /\ e.id = id
    BY <1>3, <1>8, <2>1 DEF Entered, Invitations
  <2>3. id \in Nat /\ id # 0 /\ id <= current_id[m]
    BY <1>5, <2>2
  <2>4. id <= current_id'[m] /\ e \in Invitations(m)'
    BY <1>8, <2>2, <2>3, Untouched
  <2>5. \A a \in answers' : a \in answers \/ AnswerTo(m, q, a)
    BY <1>7, <1>8, <2>1, <2>2, <2>3, <2>4
  <2>6. Taken(m, q)
    BY <1>8, Untouched DEF Taken
  <2>7. QED BY <1>8, <2>5, <2>6, Untouched DEF Handles
<1>9. CASE i = 0 /\ insert_table(m, q) /\ Answers(q, "SUCCESS", n, 0)
  <2>1. \A f \in Invitations(m) : f.pid # q.pid
    BY <1>3, <1>5, <1>6, <1>9
  <2>2. /\ table' \in [Users -> Seq(Entries)]
        /\ current_id' \in [Users -> 0..(MAX_ID - 1)]
        /\ TablesOK'
        /\ \A v \in Users : v # m => /\ Entered(v)' = Entered(v)
                                     /\ current_id'[v] = current_id[v]
        /\ current_id'[m] = current_id[m] + 1
    BY <1>9, <2>1, Inserted
  <2>3. PICK e \in Entries :
             /\ Entered(m)' = Entered(m) \cup {e} /\ e.type = q.type
             /\ e.pid = q.pid /\ e.id = current_id[m] + 1
    BY <1>9, <2>1, Inserted
  <2>4. Taken(m, q)
    BY <2>1, <2>2, <2>3 DEF Taken
  <2>5. e \in Invitations(m)' /\ e.pid = q.pid /\ e.id = n /\ n # 0 /\ n <= current_id'[m]
    BY <1>2, <2>2, <2>3 DEF Invitations
  <2>6. \A a \in answers' : a \in answers \/ AnswerTo(m, q, a)
    BY <1>2, <1>7, <1>9, <2>5
  <2>7. QED BY <2>2, <2>4, <2>6 DEF Handles
<1>10. QED BY <1>1, <1>8, <1>9 DEF leave_invite

(* LOOK_UP: the first invitation is that of the newest run, so that of one *)
(* who waits, if it is there, is found.                                    *)
LEMMA LooksUp ==
  ASSUME TalkInv, NEW m \in Users, NEW q \in requests, q.to = m,
         q.type = "LOOK_UP", talk' = talk, look_up(m, q)
  PROVE Handles(m, q)
<1> DEFINE S == {i \in DOMAIN table[m] : /\ table[m][i].type = "LEAVE_INVITE"
                                         /\ table[m][i].l = Party(q.from)}
<1>1. find_match(m, q) = lookup_request(S)
  BY DEF find_match
<1>2. table[m] \in Seq(Entries)
  BY DEF TalkInv, Shape
<1>3. DOMAIN table[m] \subseteq Nat \ {0}
  BY <1>2
<1>4. PICK T, i : T = S /\ i = lookup_request(T)
  OBVIOUS
<1>5. T \in SUBSET Nat /\ 0 \notin T
  BY <1>3, <1>4
<1>6. i = 0 => T = {}
  BY <1>4, <1>5, LookupFacts
<1>7. i # 0 => i \in T /\ \A j \in T : i <= j
  BY <1>4, <1>5, LookupFacts
<1>8. Party(q.from) = m
  BY DEF TalkInv, RequestsOK
<1>9. ASSUME Standing(m)
      PROVE i # 0 /\ i \in DOMAIN table[m] /\ table[m][i].pid = talk[m].run
  <2>1. PICK j \in DOMAIN table[m] : /\ table[m][j].type = "LEAVE_INVITE"
                                     /\ table[m][j].pid = talk[m].run
    BY <1>9 DEF Standing
  <2>2. table[m][j] \in Invitations(m)
    BY <2>1 DEF Entered, Invitations
  <2>3. table[m][j].l = m
    BY <2>2, EntriesFacts DEF TalkInv
  <2>4. j \in T
    BY <1>4, <1>8, <2>1, <2>3
  <2>5. i # 0 /\ i \in T /\ i <= j
    BY <1>6, <1>7, <2>4
  <2>6. i \in DOMAIN table[m] /\ table[m][i].type = "LEAVE_INVITE"
    BY <1>4, <2>5
  <2>7. table[m][i] \in Invitations(m)
    BY <2>6 DEF Entered, Invitations
  <2>8. table[m][i].pid <= talk[m].run /\ table[m][i].pid \in Nat
    BY <2>7, EntriesFacts DEF TalkInv
  <2>9. i < j => table[m][i].pid > table[m][j].pid
    BY <2>1, <2>6 DEF TalkInv, TablesOK
  <2>10. i \in Nat /\ j \in Nat /\ talk[m].run \in Nat
    BY <1>3, <2>1, <2>6 DEF TalkInv, Shape, Processes
  <2>11. i = j
    BY <2>1, <2>5, <2>8, <2>9, <2>10
  <2>12. QED BY <2>1, <2>5, <2>11
<1>10. UNCHANGED daemons
  BY DEF look_up
<1>11. /\ Taken(m, q) /\ current_id[m] \in Nat /\ current_id'[m] = current_id[m]
       /\ Invitations(m)' = Invitations(m)
  BY <1>10, Untouched DEF Taken
<1>12. "SUCCESS" \in AnswerCodes /\ "NOT_HERE" \in AnswerCodes /\ "SUCCESS" # "NOT_HERE"
  BY DEF AnswerCodes
<1>13. CASE i # 0 /\ Answers(q, "SUCCESS", table[m][i].id, table[m][i].pid)
  <2>1. PICK e, id, pid : e = table[m][i] /\ id = table[m][i].id /\ pid = table[m][i].pid
    OBVIOUS
  <2>2. i \in DOMAIN table[m] /\ table[m][i].type = "LEAVE_INVITE"
    BY <1>4, <1>7, <1>13
  <2>3. e \in Invitations(m) /\ e \in Entered(m) /\ e.id = id /\ e.pid = pid
    BY <2>1, <2>2 DEF Entered, Invitations
  <2>4. id \in Nat /\ pid \in Nat /\ id <= current_id[m]
    BY <2>3, EntriesFacts DEF TalkInv
  <2>5. Answers(q, "SUCCESS", id, pid)
    BY <1>13, <2>1
  <2>6. ASSUME NEW a \in answers', a \notin answers PROVE AnswerTo(m, q, a)
    <3>1. /\ a \in AnswersOf /\ a.to = q.from /\ a.type = q.type /\ a.by = q.to
          /\ Alive(q.from, q.pid) /\ a.answer = "SUCCESS" /\ a.id = id /\ a.addr = pid
          /\ a.waits # 0 => /\ talk[q.to].pc = "listen"
                            /\ Standing(q.to) /\ a.waits = talk[q.to].run
      BY <1>12, <2>4, <2>5, <2>6, AnswerFacts
    <3>2. a.waits # 0 => pid = talk[m].run
      BY <1>9, <2>1, <3>1
    <3>3. QED BY <1>11, <2>3, <2>4, <3>1, <3>2 DEF AnswerTo
  <2>7. QED BY <1>10, <1>11, <2>6, Untouched DEF Handles
<1>14. CASE i = 0 /\ Answers(q, "NOT_HERE", 0, 0)
  <2>1. ASSUME NEW a \in answers', a \notin answers PROVE AnswerTo(m, q, a)
    <3>1. /\ a \in AnswersOf /\ a.to = q.from /\ a.type = q.type /\ a.by = q.to
          /\ Alive(q.from, q.pid) /\ a.answer = "NOT_HERE" /\ a.id = 0
          /\ a.waits # 0 => Standing(q.to)
      BY <1>12, <1>14, <2>1, AnswerFacts
    <3>2. a.waits = 0
      BY <1>9, <1>14, <3>1
    <3>3. QED BY <1>11, <1>12, <3>1, <3>2 DEF AnswerTo
  <2>2. QED BY <1>10, <1>11, <2>1, Untouched DEF Handles
<1>15. QED BY <1>1, <1>4, <1>13, <1>14 DEF look_up

(* DELETE: unless a newer invitation is swept away with it, only the entry *)
(* with that id goes.                                                      *)
LEMMA Deletes ==
  ASSUME TalkInv, NEW m \in Users, NEW q \in requests, q.to = m,
         q.type = "DELETE", talk' = talk, delete_invite(m, q),
         (\E i \in DOMAIN table[m], j \in DOMAIN table[m] :
            i < j /\ table[m][i].type = "LEAVE_INVITE" /\ table[m][j].id = q.id)
         => m \in swept'
  PROVE Handles(m, q)
<1> DEFINE S == {j \in DOMAIN table[m] : table[m][j].id = q.id}
<1>1. table[m] \in Seq(Entries)
  BY DEF TalkInv, Shape
<1>2. DOMAIN table[m] \subseteq Nat \ {0}
  BY <1>1
<1>3. PICK T, i : T = S /\ i = lookup_request(T)
  OBVIOUS
<1>4. T \in SUBSET Nat /\ 0 \notin T
  BY <1>2, <1>3
<1>5. i = 0 => T = {}
  BY <1>3, <1>4, LookupFacts
<1>6. i # 0 => i \in T
  BY <1>3, <1>4, LookupFacts
<1>7. "SUCCESS" \in AnswerCodes /\ "NOT_HERE" \in AnswerCodes
  BY DEF AnswerCodes
<1>8. current_id' = current_id /\ current_id[m] \in Nat
  BY DEF delete_invite, TalkInv, Shape
<1>9. ASSUME NEW code \in AnswerCodes, Answers(q, code, 0, 0),
             \A e \in Entered(m)' : e.id # q.id
      PROVE \A a \in answers' : a \in answers \/ AnswerTo(m, q, a)
  <2>1. \A a \in answers' : a \notin answers =>
          /\ a \in AnswersOf /\ a.to = q.from /\ a.type = q.type /\ a.by = q.to
          /\ Alive(q.from, q.pid) /\ a.id = 0
    BY <1>9, AnswerFacts
  <2>2. QED BY <1>8, <1>9, <2>1 DEF AnswerTo
<1>10. CASE i # 0 /\ table_delete(m, i) /\ Answers(q, "SUCCESS", 0, 0)
  <2>1. i \in DOMAIN table[m] /\ table[m][i].id = q.id
    BY <1>3, <1>6, <1>10
  <2>2. /\ table' \in [Users -> Seq(Entries)]
        /\ current_id' \in [Users -> 0..(MAX_ID - 1)]
        /\ TablesOK'
        /\ \A v \in Users : v # m => Entered(v)' = Entered(v)
        /\ Entered(m)' \subseteq Entered(m)
        /\ \A j \in DOMAIN table[m] : j > i => table[m][j] \in Entered(m)'
        /\ \A e \in Entered(m)' : e.id # table[m][i].id
    BY <1>8, <1>10, <2>1, CutOff
  <2>3. \A a \in answers' : a \in answers \/ AnswerTo(m, q, a)
    BY <1>7, <1>9, <1>10, <2>1, <2>2
  <2>4. ASSUME NEW e \in Invitations(m), m \notin swept', e.id # q.id
        PROVE e \in Invitations(m)'
    <3>1. PICK j \in DOMAIN table[m] : e = table[m][j]
      BY DEF Invitations, Entered
    <3>2. e.type = "LEAVE_INVITE"
      BY DEF Invitations
    <3>3. ~(j < i) /\ j # i
      BY <2>1, <2>4, <3>1, <3>2
    <3>4. j > i
      BY <1>2, <2>1, <3>3
    <3>5. e \in Entered(m)'
      BY <2>2, <3>1, <3>4
    <3>6. QED BY <3>2, <3>5 DEF Invitations
  <2>5. Taken(m, q)
    BY <1>8, <2>2, <2>4 DEF Taken
  <2>6. QED BY <1>8, <2>2, <2>3, <2>5 DEF Handles
<1>11. CASE i = 0 /\ UNCHANGED table /\ Answers(q, "NOT_HERE", 0, 0)
  <2>1. UNCHANGED daemons
    BY <1>8, <1>11 DEF daemons
  <2>2. \A e \in Entered(m) : e.id # q.id
    BY <1>3, <1>5, <1>11 DEF Entered
  <2>3. \A e \in Entered(m)' : e.id # q.id
    BY <2>1, <2>2, Untouched
  <2>4. \A a \in answers' : a \in answers \/ AnswerTo(m, q, a)
    BY <1>7, <1>9, <1>11, <2>3
  <2>5. Taken(m, q)
    BY <2>1, Untouched DEF Taken
  <2>6. QED BY <2>1, <2>4, <2>5, Untouched DEF Handles
<1>12. QED BY <1>3, <1>10, <1>11 DEF delete_invite

(* talkd_run: the requests keep the invariant.                             *)
LEMMA DaemonKept ==
  ASSUME TalkInv, IdsLeft, NEW m \in Users, process_request(m)
  PROVE TalkInv'
<1>1. PICK q \in requests, fault \in 0..1 :
       /\ q.to = m
       /\ q.from = m => \A o \in requests :
                          o.to = m /\ o.from = m => o.pid >= q.pid
       /\ faults' = faults + fault /\ faults' <= MaxFaults
       /\ requests' = requests \ {q}
       /\ \/ q.type = "ANNOUNCE" /\ do_announce(m, q, fault)
          \/ q.type = "LEAVE_INVITE" /\ leave_invite(m, q)
          \/ q.type = "LOOK_UP" /\ look_up(m, q)
          \/ q.type = "DELETE" /\ delete_invite(m, q)
       /\ late' = IF /\ q.type = "LEAVE_INVITE" /\ talk[m].run = q.pid
                     /\ talk[m].pc # "leave"
                    THEN late \cup {m} ELSE late
       /\ swept' = IF \E i \in DOMAIN table[m], j \in DOMAIN table[m] :
                        /\ i < j /\ table[m][i].type = "LEAVE_INVITE"
                        /\ q.type = "DELETE" /\ table[m][j].id = q.id
                     THEN swept \cup {m} ELSE swept
  BY DEF process_request
<1>2. talk' = talk /\ calling' = calling /\ live' = live /\ forgotten' = forgotten
  BY DEF process_request
<1>3. Handles(m, q)
  <2>1. CASE q.type = "ANNOUNCE" /\ do_announce(m, q, fault)
    BY <1>1, <1>2, <2>1, Announces
  <2>2. CASE q.type = "LEAVE_INVITE" /\ leave_invite(m, q)
    BY <1>1, <1>2, <2>2, LeavesInvitation
  <2>3. CASE q.type = "LOOK_UP" /\ look_up(m, q)
    BY <1>1, <1>2, <2>3, LooksUp
  <2>4. CASE q.type = "DELETE" /\ delete_invite(m, q)
    <3>1. (\E i \in DOMAIN table[m], j \in DOMAIN table[m] :
             i < j /\ table[m][i].type = "LEAVE_INVITE" /\ table[m][j].id = q.id)
          => m \in swept'
      BY <1>1, <2>4
    <3>2. QED BY <1>1, <1>2, <2>4, <3>1, Deletes
  <2>5. QED BY <1>1, <2>1, <2>2, <2>3, <2>4
<1>4. swept' = swept \/ swept' = swept \cup {m}
  BY <1>1
<1>5. \/ late' = late \cup {m}
      \/ /\ late' = late
         /\ q.type = "LEAVE_INVITE" /\ talk[m].run = q.pid => talk[m].pc = "leave"
  BY <1>1
<1>6. DaemonStep(m, q)
  BY <1>1, <1>2, <1>3, <1>4, <1>5 DEF DaemonStep, Handles
<1>7. Shape' /\ TablesOK'
  <2>1. Shape
    BY DEF TalkInv
  <2>2. requests' \in SUBSET Requests
    BY <1>1, <2>1 DEF Shape
  <2>3. answers' \in SUBSET AnswersOf
    BY <1>3, <2>1 DEF Shape, Handles, AnswerTo
  <2>4. late' \in SUBSET Users /\ swept' \in SUBSET Users
    BY <1>4, <1>5, <2>1 DEF Shape
  <2>5. faults' \in 0..MaxFaults
    BY <1>1, <2>1, TalkConstants DEF Shape
  <2>6. QED BY <1>2, <1>3, <2>1, <2>2, <2>3, <2>4, <2>5 DEF Shape, Handles
<1>8. ProcessesOK'
  BY <1>2 DEF TalkInv, ProcessesOK, ProcessOK, Transacts
<1>9. RequestsOK' /\ AnswersOK' /\ InOrder'
  BY <1>6, DaemonOrder
<1>10. NothingLeft' /\ IdsMeant' /\ NoDelete' /\ Invited'
  BY <1>6, DaemonNothingLeft, DaemonIdsMeant, DaemonNoDelete, DaemonInvited
<1>11. Deleted' /\ Looked' /\ Cleared'
  BY <1>6, DaemonDeleted, DaemonLooked, DaemonCleared
<1>12. QED BY <1>7, <1>8, <1>9, <1>10, <1>11 DEF TalkInv

-----------------------------------------------------------------------------
(* The steps that only take something away: datagrams that are lost, a     *)
(* talkd that ends, and no step at all.                                    *)

(* Fewer datagrams, and entries only where the talkd has not ended.        *)
LEMMA LessKept ==
  ASSUME TalkInv, Shape', TablesOK', talk' = talk, live' = live, late' = late,
         swept' = swept, requests' \subseteq requests, answers' \subseteq answers,
         forgotten \subseteq forgotten',
         \A v \in Users : /\ Entered(v)' \subseteq Entered(v)
                          /\ v \notin forgotten' => /\ Entered(v)' = Entered(v)
                                                    /\ current_id'[v] = current_id[v]
  PROVE TalkInv'
<1>1. \A v \in Users : /\ Invitations(v)' \subseteq Invitations(v)
                       /\ v \notin forgotten' => Invitations(v)' = Invitations(v)
  BY DEF Invitations
<1>2. /\ \A v \in Users : v \notin forgotten' => v \notin forgotten
      /\ \A q \in requests' : q \in requests /\ q.to \in Users
      /\ \A a \in answers' : a \in answers
  BY DEF TalkInv, Shape, Requests
<1>3. ProcessesOK'
  BY DEF TalkInv, ProcessesOK, ProcessOK, Transacts
<1>4. RequestsOK' /\ AnswersOK'
  BY DEF TalkInv, RequestsOK, AnswersOK
<1>5. InOrder'
  BY <1>1, <1>2 DEF TalkInv, InOrder
<1>6. \A v \in Users : Stands(v)' => Stands(v)
  BY <1>1 DEF Stands
<1>7. \A id : \A v \in Users :
        /\ Left(v, id)' => Left(v, id)
        /\ v \notin forgotten' /\ Left(v, id) => Left(v, id)'
  BY <1>1 DEF Left
<1>8. NothingLeft'
  BY <1>2, <1>6 DEF TalkInv, NothingLeft
<1>9. IdsMeant'
  <2>1. SUFFICES ASSUME NEW v \in Users, v \notin forgotten'
                 PROVE /\ talk[v].local_id <= current_id'[v]
                       /\ talk[Party(v)].remote_id <= current_id'[v]
                       /\ NoInvitation(v, talk[Party(v)].remote_id)'
                       /\ talk[Party(v)].pc \in {"connect", "clear"} =>
                            /\ talk[Party(v)].id <= current_id'[v]
                            /\ OfRun(v, talk[Party(v)].id, talk[Party(v)].addr)'
                       /\ \A q \in requests' : q.to = v /\ q.type = "DELETE"
                            => q.id <= current_id'[v]
                       /\ \A a \in answers' : a.by = v =>
                            /\ a.id <= current_id'[v]
                            /\ a.type = "ANNOUNCE" => NoInvitation(v, a.id)'
                            /\ a.type = "LOOK_UP" /\ a.answer = "SUCCESS"
                                 => OfRun(v, a.id, a.addr)'
    BY DEF IdsMeant
  <2>2. v \notin forgotten /\ current_id'[v] = current_id[v]
    BY <2>1
  <2>3. \A id : NoInvitation(v, id) =>
                  \A e \in Invitations(v)' : e.id # id
    BY <1>1 DEF NoInvitation
  <2>4. \A id, run : OfRun(v, id, run) =>
                       \A e \in Invitations(v)' : e.id = id => e.pid = run
    BY <1>1 DEF OfRun
  <2>5. IdsMeant
    BY DEF TalkInv
  <2>6. /\ talk[v].local_id <= current_id'[v]
        /\ talk[Party(v)].remote_id <= current_id'[v]
        /\ NoInvitation(v, talk[Party(v)].remote_id)
        /\ talk[Party(v)].pc \in {"connect", "clear"} =>
             /\ talk[Party(v)].id <= current_id'[v]
             /\ OfRun(v, talk[Party(v)].id, talk[Party(v)].addr)
        /\ \A q \in requests : q.to = v /\ q.type = "DELETE"
             => q.id <= current_id'[v]
        /\ \A a \in answers : a.by = v =>
             /\ a.id <= current_id'[v]
             /\ a.type = "ANNOUNCE" => NoInvitation(v, a.id)
             /\ a.type = "LOOK_UP" /\ a.answer = "SUCCESS"
                  => OfRun(v, a.id, a.addr)
    BY <2>2, <2>5 DEF IdsMeant
  <2>7. \A id : NoInvitation(v, id) => NoInvitation(v, id)'
    BY <2>3 DEF NoInvitation
  <2>8. \A id, run : OfRun(v, id, run) => OfRun(v, id, run)'
    BY <2>4 DEF OfRun
  <2>9. PICK o : o = talk[Party(v)]
    OBVIOUS
  <2>10. /\ NoInvitation(v, talk[Party(v)].remote_id)'
         /\ talk[Party(v)].pc \in {"connect", "clear"} =>
              OfRun(v, talk[Party(v)].id, talk[Party(v)].addr)'
    <3>1. NoInvitation(v, o.remote_id)
      BY <2>6, <2>9
    <3>2. \A e \in Invitations(v)' : e.id # o.remote_id
      BY <2>3, <3>1
    <3>3. o.pc \in {"connect", "clear"} => OfRun(v, o.id, o.addr)
      BY <2>6, <2>9
    <3>4. o.pc \in {"connect", "clear"} =>
            \A e \in Invitations(v)' : e.id = o.id => e.pid = o.addr
      BY <2>4, <3>3
    <3>5. o = talk'[Party(v)]
      BY <2>9
    <3>6. QED BY <2>9, <3>2, <3>4, <3>5 DEF NoInvitation, OfRun
  <2>11. QED BY <1>2, <2>6, <2>7, <2>8, <2>10
<1>10. NoDelete'
  BY <1>2, <1>7 DEF TalkInv, NoDelete
<1>11. Invited'
  BY <1>2, <1>7 DEF TalkInv, Invited
<1>12. Deleted'
  BY <1>2, <1>6, <1>7 DEF TalkInv, Deleted
<1>13. Looked'
  <2>1. \A p, run : HasWaited(p, run)' = HasWaited(p, run)
    BY DEF HasWaited
  <2>2. \A p, run : WaitsNoMore(p, run)' = WaitsNoMore(p, run)
    BY <2>1 DEF WaitsNoMore
  <2>3. QED BY <1>2, <2>1, <2>2 DEF TalkInv, Looked
<1>14. Cleared'
  BY <1>2, PartyFacts DEF TalkInv, Cleared
<1>15. QED BY <1>3, <1>4, <1>5, <1>8, <1>9, <1>10, <1>11, <1>12, <1>13, <1>14
       DEF TalkInv

(* No step at all.                                                         *)
LEMMA StutterKept ==
  ASSUME TalkInv, UNCHANGED vars
  PROVE TalkInv'
<1>1. /\ UNCHANGED <<table, current_id>> /\ talk' = talk /\ live' = live
      /\ late' = late /\ swept' = swept /\ requests' = requests
      /\ answers' = answers /\ forgotten' = forgotten /\ calling' = calling
      /\ faults' = faults
  BY DEF vars, daemons, history
<1>2. \A v \in Users : Entered(v)' = Entered(v) /\ current_id'[v] = current_id[v]
  BY <1>1 DEF Entered
<1>3. Shape' /\ TablesOK'
  BY <1>1 DEF TalkInv, Shape, TablesOK
<1>4. QED BY <1>1, <1>2, <1>3, LessKept

(* A datagram is lost.                                                     *)
LEMMA LoseKept ==
  ASSUME TalkInv, Lose
  PROVE TalkInv'
<1>1. /\ UNCHANGED <<table, current_id>> /\ talk' = talk /\ live' = live
      /\ late' = late /\ swept' = swept /\ forgotten' = forgotten /\ calling' = calling
  BY DEF Lose, daemons, history
<1>2. requests' \subseteq requests /\ answers' \subseteq answers
  BY DEF Lose
<1>3. \A v \in Users : Entered(v)' = Entered(v) /\ current_id'[v] = current_id[v]
  BY <1>1 DEF Entered
<1>4. faults' \in 0..MaxFaults
  BY TalkConstants DEF Lose, TalkInv, Shape
<1>5. Shape' /\ TablesOK'
  BY <1>1, <1>2, <1>4 DEF TalkInv, Shape, TablesOK
<1>6. QED BY <1>1, <1>2, <1>3, <1>5, LessKept

(* A talkd ends, and with it what it knew.                                 *)
LEMMA AlarmKept ==
  ASSUME TalkInv, NEW m \in Users, alarm_handler(m)
  PROVE TalkInv'
<1>1. /\ talk' = talk /\ live' = live /\ late' = late /\ swept' = swept
      /\ requests' = requests /\ answers' = answers /\ calling' = calling
      /\ forgotten' = forgotten \cup {m}
      /\ table' = [table EXCEPT ![m] = <<>>]
      /\ current_id' = [current_id EXCEPT ![m] = 0]
  BY DEF alarm_handler
<1>2. Shape
  BY DEF TalkInv
<1>3. faults' \in 0..MaxFaults
  BY <1>2, TalkConstants DEF alarm_handler, Shape
<1>4. PICK z \in Seq(Entries) : z = <<>>
  BY EmptySeq
<1>5. PICK k \in 0..(MAX_ID - 1) : k = 0
  BY TalkConstants
<1>6. DOMAIN z = {}
  BY <1>4
<1>7. TableOK(m, z, k, talk)
  BY <1>6 DEF TableOK
<1>8. table' = [table EXCEPT ![m] = z] /\ current_id' = [current_id EXCEPT ![m] = k]
  BY <1>1, <1>4, <1>5
<1>9. /\ table' \in [Users -> Seq(Entries)]
      /\ current_id' \in [Users -> 0..(MAX_ID - 1)]
      /\ TablesOK'
      /\ Entered(m)' = Elements(z)
      /\ \A v \in Users : v # m => /\ Entered(v)' = Entered(v)
                                   /\ current_id'[v] = current_id[v]
  BY <1>1, <1>7, <1>8, OneTable
<1>10. Entered(m)' = {}
  BY <1>6, <1>9 DEF Elements
<1>11. Shape'
  BY <1>1, <1>2, <1>3, <1>9 DEF Shape
<1>12. \A v \in Users : /\ Entered(v)' \subseteq Entered(v)
                        /\ v \notin forgotten' => /\ Entered(v)' = Entered(v)
                                                  /\ current_id'[v] = current_id[v]
  BY <1>1, <1>9, <1>10
<1>13. QED BY <1>1, <1>9, <1>11, <1>12, LessKept

-----------------------------------------------------------------------------
(* Every step of a process is a ProcessStep.                               *)

(* The transactions.                                                       *)
LEMMA TypeFacts ==
  /\ DOMAIN RequestType =
       {"lookup", "clear", "announce", "leave", "unlocal", "unremote"}
  /\ RequestType["lookup"] = "LOOK_UP" /\ RequestType["announce"] = "ANNOUNCE"
  /\ RequestType["clear"] = "DELETE" /\ RequestType["leave"] = "LEAVE_INVITE"
  /\ RequestType["unlocal"] = "DELETE" /\ RequestType["unremote"] = "DELETE"
BY DEF RequestType

(* The process of u before the step.                                       *)
LEMMA Before ==
  ASSUME TalkInv, NEW u \in Users
  PROVE /\ talk \in [Users -> Processes] /\ talk[u] \in Processes
        /\ ProcessOK(talk[u]) /\ talk[u].run \in 0..MaxRuns[u]
        /\ talk[u].rings \in 0..MaxRings[u]
        /\ calling \in [Users -> Nat] /\ faults \in 0..MaxFaults
        /\ live \in [Users -> Nat] /\ answers \in SUBSET AnswersOf
BY DEF TalkInv, Shape, ProcessesOK

(* The request of a transaction that begins.                               *)
LEMMA BecomesSends ==
  ASSUME TalkInv, NEW u \in Users, NEW t \in Processes, Becomes(u, t)
  PROVE /\ \A r \in requests' : r \in requests \/ Sends(u, talk[u], t, r)
        /\ talk' = [talk EXCEPT ![u] = t]
<1>1. Party(u) \in Users
  BY PartyFacts
<1>2. t.run \in Nat /\ t.id \in Nat
  BY DEF Processes
<1>3. ASSUME Transacts(t) PROVE Sends(u, talk[u], t, Request(u, t))
  <2>1. PICK r : r = Request(u, t)
    OBVIOUS
  <2>2. /\ r.to = Target(u, t.pc) /\ r.type = RequestType[t.pc] /\ r.from = u
        /\ r.pid = t.run /\ r.id = t.id
    BY <2>1 DEF Request
  <2>3. Target(u, t.pc) \in Users
    BY <1>1 DEF Target
  <2>4. RequestType[t.pc] \in RequestTypes
    BY <1>3, TypeFacts DEF Transacts, RequestTypes
  <2>5. r \in Requests
    BY <1>2, <2>1, <2>3, <2>4 DEF Request, Requests
  <2>6. t.pc \in {"lookup", "clear", "announce", "leave", "unlocal", "unremote"}
    BY <1>3, TypeFacts DEF Transacts
  <2>7. Sends(u, talk[u], t, r)
    BY <2>2, <2>5, <2>6, TypeFacts DEF Sends, Target
  <2>8. QED BY <2>1, <2>7
<1>4. QED BY <1>3 DEF Becomes

(* What exit and quit send.                                                *)
LEMMA QuitsSends ==
  ASSUME TalkInv, NEW u \in Users, talk[u].pc \notin {"off", "exit"},
         NEW id \in Nat,
         id = talk[u].remote_id \/ \E a \in Replied(u, "ANNOUNCE") : id = a.id,
         Quits(u, id) \/ Exits(u, {}),
         late' = late, swept' = swept, live' = live, forgotten' = forgotten,
         UNCHANGED daemons, faults' \in 0..MaxFaults
  PROVE \E t : ProcessStep(u, t)
<1>1. PICK o \in Processes : o = talk[u]
  BY Before
<1>2. PICK t : t = [Off EXCEPT !.pc = "exit", !.run = o.run]
  OBVIOUS
<1>3. o.run \in Nat /\ o.local_id \in Nat /\ o.run \in 0..MaxRuns[u]
  BY <1>1, Before DEF Processes
<1>4. t \in Processes
  BY <1>2, <1>3 DEF Off, Processes, Places
<1>5. /\ t.pc = "exit" /\ t.run = o.run /\ t.local_id = 0 /\ t.remote_id = 0
      /\ t.blocked = FALSE /\ t.ringing = FALSE /\ t.rings = 0
  BY <1>2 DEF Off
<1>6. o.run >= 1
  BY <1>1, Before DEF ProcessOK
<1>7. ProcessOK(t)
  BY <1>5, <1>6 DEF ProcessOK
<1>8. MaxRings[u] \in Nat /\ t.rings \in 0..MaxRings[u]
  BY <1>5, TalkConstants
<1>9. PICK D : /\ D = {} \/ D = {Delete(u, Party(u), id), Delete(u, u, o.local_id)}
               /\ Exits(u, D)
  BY <1>1 DEF Quits
<1>10. ASSUME NEW r \in D PROVE Sends(u, o, t, r)
  <2>1. r = Delete(u, Party(u), id) \/ r = Delete(u, u, o.local_id)
    BY <1>9
  <2>2. /\ r.type = "DELETE" /\ r.from = u /\ r.pid = o.run
        /\ (r.to = Party(u) /\ r.id = id) \/ (r.to = u /\ r.id = o.local_id)
    BY <1>1, <2>1 DEF Delete
  <2>3. r \in Requests
    BY <1>1, <1>3, <2>1, PartyFacts DEF Delete, Requests, RequestTypes
  <2>4. QED BY <1>1, <1>5, <2>2, <2>3 DEF Sends
<1>11. Changes(u, o, t)
  BY <1>1, <1>5, <1>9 DEF Exits, Changes
<1>12. calling' \in [Users -> Nat]
  BY <1>9, Before DEF Exits
<1>13. talk' = [talk EXCEPT ![u] = t] /\ answers' \subseteq answers
  BY <1>1, <1>2, <1>9 DEF Exits
<1>14. \A r \in requests' : r \in requests \/ Sends(u, o, t, r)
  BY <1>9, <1>10 DEF Exits
<1>15. live' \in [Users -> Nat]
  BY Before
<1>16. ProcessStep(u, t)
  BY <1>1, <1>3, <1>4, <1>5, <1>7, <1>8, <1>11, <1>12, <1>13, <1>14, <1>15
     DEF ProcessStep, daemons
<1>17. QED BY <1>16

(* A step that only makes u become t.                                      *)
LEMMA BecomesStep ==
  ASSUME TalkInv, NEW u \in Users, NEW t \in Processes, Becomes(u, t),
         ProcessOK(t), t.run \in 0..MaxRuns[u], t.rings \in 0..MaxRings[u],
         Changes(u, talk[u], t), answers' \subseteq answers, UNCHANGED daemons,
         forgotten' = forgotten, calling' \in [Users -> Nat],
         faults' \in 0..MaxFaults, live' \in [Users -> Nat],
         \A v \in Users : v # u => live'[v] = live[v],
         live'[u] # live[u] => talk[u].pc = "lookup" \/ t.pc = "lookup",
         t.pc = "lookup" /\ talk[u].pc # "lookup" => live'[u] = 0,
         \/ late' = late /\ swept' = swept
         \/ late' = late \cup {u} /\ swept' = swept
         \/ /\ late' = late \ {u} /\ swept' = swept \ {u}
            /\ talk[u].pc \in {"off", "exit"} /\ t.pc = "lookup"
  PROVE \E w : ProcessStep(u, w)
<1>1. /\ \A r \in requests' : r \in requests \/ Sends(u, talk[u], t, r)
      /\ talk' = [talk EXCEPT ![u] = t]
  BY BecomesSends
<1>2. ProcessStep(u, t)
  BY <1>1 DEF ProcessStep, daemons
<1>3. QED BY <1>2

(* The same, when the history stays as it is.                              *)
LEMMA PlainStep ==
  ASSUME TalkInv, NEW u \in Users, NEW t \in Processes,
         Becomes(u, t) \/ (talk' = [talk EXCEPT ![u] = t] /\ requests' = requests),
         ProcessOK(t), t.run \in 0..MaxRuns[u], t.rings \in 0..MaxRings[u],
         Changes(u, talk[u], t), answers' \subseteq answers, UNCHANGED daemons,
         live' = live, late' = late, swept' = swept, forgotten' = forgotten,
         calling' \in [Users -> Nat], faults' \in 0..MaxFaults,
         t.pc = "lookup" => talk[u].pc = "lookup"
  PROVE \E w : ProcessStep(u, w)
<1>1. /\ \A r \in requests' : r \in requests \/ Sends(u, talk[u], t, r)
      /\ talk' = [talk EXCEPT ![u] = t]
  BY BecomesSends
<1>2. live' \in [Users -> Nat]
  BY Before
<1>3. ProcessStep(u, t)
  BY <1>1, <1>2 DEF ProcessStep, daemons
<1>4. QED BY <1>3

(* A new call.                                                             *)
LEMMA StartStep ==
  ASSUME TalkInv, NEW u \in Users, Start(u)
  PROVE \E t : ProcessStep(u, t)
<1>1. PICK o \in Processes : o = talk[u]
  BY Before
<1>2. PICK n, t : n = o.run + 1 /\ t = [Off EXCEPT !.pc = "lookup", !.run = n]
  OBVIOUS
<1>3. o.run \in Nat /\ o.run < MaxRuns[u] /\ MaxRuns[u] \in Nat /\ MaxRings[u] \in Nat
  BY <1>1, TalkConstants DEF Processes, Start
<1>4. t \in Processes
  <2>1. n \in Nat
    BY <1>2, <1>3
  <2>2. QED BY <1>2, <2>1 DEF Off, Processes, Places
<1>5. /\ t.pc = "lookup" /\ t.run = o.run + 1 /\ t.local_id = 0 /\ t.remote_id = 0
      /\ t.blocked = FALSE /\ t.ringing = FALSE /\ t.rings = 0
  BY <1>2 DEF Off
<1>6. ProcessOK(t) /\ t.run \in 0..MaxRuns[u] /\ t.rings \in 0..MaxRings[u]
  BY <1>3, <1>5 DEF ProcessOK
<1>7. o.pc \in {"off", "exit"} /\ Becomes(u, t)
  BY <1>1, <1>2 DEF Start
<1>8. Changes(u, talk[u], t)
  BY <1>1, <1>5, <1>7 DEF Changes
<1>9. /\ live' \in [Users -> Nat] /\ live'[u] = 0
      /\ \A v \in Users : v # u => live'[v] = live[v]
  BY Before DEF Start
<1>10. /\ UNCHANGED daemons /\ calling' = calling /\ answers' = answers
       /\ faults' = faults /\ forgotten' = forgotten
       /\ late' = late \ {u} /\ swept' = swept \ {u}
  BY DEF Start
<1>11. calling' \in [Users -> Nat] /\ faults' \in 0..MaxFaults
  BY <1>10, Before
<1>12. QED BY <1>1, <1>4, <1>5, <1>6, <1>7, <1>8, <1>9, <1>10, <1>11, BecomesStep

(* The answer a transaction waits for.                                     *)
LEMMA ReceiveStep ==
  ASSUME TalkInv, NEW u \in Users, Receive(u)
  PROVE \E t : ProcessStep(u, t)
<1>1. PICK o \in Processes : o = talk[u]
  BY Before
<1>2. PICK a \in answers :
        /\ a.to = u /\ Accepts(o, a)
        /\ \/ Answered(u, a) /\ answers' = answers \ {a}
           \/ o.pc = "announce" /\ a.answer # "SUCCESS" /\ Quits(u, a.id)
        /\ live' = IF o.pc = "lookup" THEN [live EXCEPT ![u] = a.waits] ELSE live
        /\ late' = IF o.pc = "unlocal" /\ a.by # u THEN late \cup {u} ELSE late
  BY <1>1 DEF Receive
<1>3. /\ Transacts(o) /\ UNCHANGED daemons /\ faults' = faults /\ swept' = swept
      /\ forgotten' = forgotten
  BY <1>1 DEF Receive
<1>4. a \in AnswersOf /\ a.id \in Nat /\ a.addr \in Nat /\ a.waits \in Nat
  BY Before DEF AnswersOf
<1>5. a \in Replied(u, RequestType[o.pc])
  BY <1>2 DEF Replied, Accepts
<1>6. ProcessOK(o) /\ o.run \in 0..MaxRuns[u] /\ o.rings \in 0..MaxRings[u]
  BY <1>1, Before
<1>7. o.pc \notin {"off", "exit"}
  BY <1>3, TypeFacts DEF Transacts
<1>8. faults' \in 0..MaxFaults /\ calling \in [Users -> Nat] /\ live \in [Users -> Nat]
  BY <1>3, Before
<1>9. /\ live' \in [Users -> Nat]
      /\ \A v \in Users : v # u => live'[v] = live[v]
      /\ o.pc = "lookup" => live'[u] = a.waits
      /\ o.pc # "lookup" => live' = live
  BY <1>2, <1>4, <1>8
<1>10. CASE o.pc = "announce" /\ a.answer # "SUCCESS" /\ Quits(u, a.id)
  <2>1. PICK id \in Nat : id = a.id
    BY <1>4
  <2>2. late' = late /\ live' = live
    BY <1>2, <1>10
  <2>3. \E b \in Replied(u, "ANNOUNCE") : id = b.id
    BY <1>5, <1>10, <2>1, TypeFacts
  <2>4. talk[u].pc \notin {"off", "exit"} /\ Quits(u, id)
    BY <1>1, <1>7, <1>10, <2>1
  <2>5. QED BY <1>3, <1>8, <2>2, <2>3, <2>4, QuitsSends
<1>11. ASSUME Answered(u, a), answers' = answers \ {a}
       PROVE \E t : ProcessStep(u, t)
  <2>1. calling' = calling
    BY <1>11 DEF Answered
  <2>2. calling' \in [Users -> Nat] /\ answers' \subseteq answers
    BY <1>8, <1>11, <2>1
  <2>3. \/ late' = late /\ swept' = swept
        \/ late' = late \cup {u} /\ swept' = swept
    BY <1>2, <1>3
  <2>4. ASSUME NEW t \in Processes, Becomes(u, t), ProcessOK(t), t.pc # "lookup",
               t.run = o.run, t.rings = o.rings, Changes(u, o, t)
        PROVE \E w : ProcessStep(u, w)
    <3>1. t.run \in 0..MaxRuns[u] /\ t.rings \in 0..MaxRings[u]
      BY <1>6, <2>4
    <3>2. Changes(u, talk[u], t)
      BY <1>1, <2>4
    <3>3. live'[u] # live[u] => talk[u].pc = "lookup" \/ t.pc = "lookup"
      BY <1>1, <1>9
    <3>4. QED BY <1>3, <1>8, <1>9, <2>2, <2>3, <2>4, <3>1, <3>2, <3>3, BecomesStep
  <2>5. PICK s \in Processes : s = [o EXCEPT !.blocked = FALSE]
    BY DEF Processes
  <2>6. /\ s.pc = o.pc /\ s.run = o.run /\ s.id = o.id /\ s.local_id = o.local_id
        /\ s.remote_id = o.remote_id /\ s.addr = o.addr /\ s.rings = o.rings
        /\ s.ringing = o.ringing /\ s.blocked = FALSE
    BY <2>5 DEF Processes
  <2>7. CASE /\ o.pc = "lookup" /\ a.answer = "SUCCESS"
             /\ Becomes(u, [s EXCEPT !.pc = "connect", !.id = a.id, !.addr = a.addr])
    <3>1. PICK t : t = [s EXCEPT !.pc = "connect", !.id = a.id, !.addr = a.addr]
      OBVIOUS
    <3>2. t \in Processes
      BY <1>4, <3>1 DEF Processes, Places
    <3>3. /\ t.pc = "connect" /\ t.run = o.run /\ t.id = a.id /\ t.addr = a.addr
          /\ t.local_id = o.local_id /\ t.remote_id = o.remote_id
          /\ t.rings = o.rings /\ t.ringing = o.ringing /\ t.blocked = FALSE
      BY <2>6, <3>1 DEF Processes
    <3>4. o.ringing = FALSE /\ o.local_id = 0 /\ o.run >= 1
      BY <1>6, <2>7 DEF ProcessOK, Processes
    <3>5. ProcessOK(t)
      BY <3>3, <3>4 DEF ProcessOK
    <3>6. Changes(u, o, t)
      BY <1>5, <1>9, <2>7, <3>3, <3>4, TypeFacts DEF Changes, KeptIds
    <3>7. QED BY <2>4, <2>7, <3>1, <3>2, <3>3, <3>5, <3>6
  <2>8. CASE /\ o.pc = "clear" \/ (o.pc = "lookup" /\ a.answer # "SUCCESS")
             /\ Becomes(u, Invites(s))
    <3>1. PICK t : t = Invites(s)
      OBVIOUS
    <3>2. t \in Processes
      BY <3>1, TalkConstants DEF Invites, Processes, Places
    <3>3. /\ t.pc = "announce" /\ t.run = o.run
          /\ t.local_id = o.local_id /\ t.remote_id = o.remote_id
          /\ t.rings = o.rings /\ t.ringing = o.ringing /\ t.blocked = FALSE
      BY <2>6, <3>1 DEF Invites, Processes
    <3>4. o.ringing = FALSE /\ o.local_id = 0 /\ o.run >= 1
      BY <1>6, <2>8 DEF ProcessOK, Processes
    <3>5. ProcessOK(t)
      BY <3>3, <3>4 DEF ProcessOK
    <3>6. CASE o.pc = "clear"
      <4>1. Replied(u, "DELETE") # {}
        BY <1>5, <3>6, TypeFacts
      <4>2. Changes(u, o, t)
        BY <3>3, <3>4, <3>6, <4>1 DEF Changes, KeptIds
      <4>3. QED BY <2>4, <2>8, <3>1, <3>2, <3>3, <3>5, <4>2
    <3>7. CASE o.pc = "lookup" /\ a.answer # "SUCCESS"
      <4>1. a \in Replied(u, "LOOK_UP") /\ live'[u] = a.waits
        BY <1>5, <1>9, <3>7, TypeFacts
      <4>2. Changes(u, o, t)
        BY <3>3, <3>4, <3>7, <4>1 DEF Changes, KeptIds
      <4>3. QED BY <2>4, <2>8, <3>1, <3>2, <3>3, <3>5, <4>2
    <3>8. QED BY <2>8, <3>6, <3>7
  <2>9. CASE /\ o.pc = "announce" /\ a.answer = "SUCCESS"
             /\ Becomes(u, [s EXCEPT !.pc = "leave", !.remote_id = a.id])
    <3>1. PICK t : t = [s EXCEPT !.pc = "leave", !.remote_id = a.id]
      OBVIOUS
    <3>2. t \in Processes
      BY <1>4, <3>1 DEF Processes, Places
    <3>3. /\ t.pc = "leave" /\ t.run = o.run
          /\ t.local_id = o.local_id /\ t.remote_id = a.id
          /\ t.rings = o.rings /\ t.blocked = FALSE
      BY <2>6, <3>1 DEF Processes
    <3>4. o.run >= 1
      BY <1>6, <2>9 DEF ProcessOK
    <3>5. ProcessOK(t)
      BY <3>3, <3>4 DEF ProcessOK
    <3>6. a \in Replied(u, "ANNOUNCE")
      BY <1>5, <2>9, TypeFacts
    <3>7. Changes(u, o, t)
      BY <2>9, <3>3, <3>6 DEF Changes
    <3>8. QED BY <2>4, <2>9, <3>1, <3>2, <3>3, <3>5, <3>7
  <2>10. CASE /\ o.pc = "leave"
              /\ Becomes(u, [s EXCEPT !.pc = "listen", !.local_id = a.id, !.ringing = FALSE])
    <3>1. PICK t : t = [s EXCEPT !.pc = "listen", !.local_id = a.id, !.ringing = FALSE]
      OBVIOUS
    <3>2. t \in Processes
      BY <1>4, <3>1 DEF Processes, Places
    <3>3. /\ t.pc = "listen" /\ t.run = o.run
          /\ t.local_id = a.id /\ t.remote_id = o.remote_id
          /\ t.rings = o.rings /\ t.ringing = FALSE /\ t.blocked = FALSE
      BY <2>6, <3>1 DEF Processes
    <3>4. a \in Replied(u, "LEAVE_INVITE")
      BY <1>5, <2>10, TypeFacts
    <3>5. o.run >= 1 /\ a.id # 0
      BY <1>6, <2>10, <3>4 DEF ProcessOK, Replied, TalkInv, AnswersOK
    <3>6. ProcessOK(t)
      BY <3>3, <3>5 DEF ProcessOK
    <3>7. Changes(u, o, t)
      BY <2>10, <3>3, <3>4 DEF Changes
    <3>8. QED BY <2>4, <2>10, <3>1, <3>2, <3>3, <3>6, <3>7
  <2>11. CASE /\ o.pc = "unlocal"
              /\ Becomes(u, [s EXCEPT !.pc = "unremote", !.id = s.remote_id])
    <3>1. PICK t : t = [s EXCEPT !.pc = "unremote", !.id = s.remote_id]
      OBVIOUS
    <3>2. t \in Processes
      BY <3>1 DEF Processes, Places
    <3>3. /\ t.pc = "unremote" /\ t.run = o.run /\ t.id = o.remote_id
          /\ t.local_id = o.local_id /\ t.remote_id = o.remote_id
          /\ t.rings = o.rings /\ t.ringing = o.ringing /\ t.blocked = FALSE
      BY <2>6, <3>1 DEF Processes
    <3>4. o.ringing = FALSE /\ o.local_id # 0 /\ o.run >= 1
      BY <1>6, <2>11 DEF ProcessOK, Processes
    <3>5. ProcessOK(t)
      BY <3>3, <3>4 DEF ProcessOK
    <3>6. a \in Replied(u, "DELETE") /\ (a.by = u \/ u \in late')
      BY <1>2, <1>5, <2>11, TypeFacts
    <3>7. Changes(u, o, t)
      BY <2>11, <3>3, <3>6 DEF Changes, KeptIds
    <3>8. QED BY <2>4, <2>11, <3>1, <3>2, <3>3, <3>5, <3>7
  <2>12. CASE /\ o.pc = "unremote"
              /\ Becomes(u, [s EXCEPT !.pc = "edit", !.invitation_waiting = FALSE])
    <3>1. PICK t : t = [s EXCEPT !.pc = "edit", !.invitation_waiting = FALSE]
      OBVIOUS
    <3>2. t \in Processes
      BY <3>1 DEF Processes, Places
    <3>3. /\ t.pc = "edit" /\ t.run = o.run
          /\ t.local_id = o.local_id /\ t.remote_id = o.remote_id
          /\ t.rings = o.rings /\ t.ringing = o.ringing /\ t.blocked = FALSE
      BY <2>6, <3>1 DEF Processes
    <3>4. o.ringing = FALSE /\ o.run >= 1
      BY <1>6, <2>12 DEF ProcessOK, Processes
    <3>5. ProcessOK(t)
      BY <3>3, <3>4 DEF ProcessOK
    <3>6. Changes(u, o, t)
      BY <2>12, <3>3 DEF Changes, KeptIds
    <3>7. QED BY <2>4, <2>12, <3>1, <3>2, <3>3, <3>5, <3>6
  <2>13. QED BY <1>1, <1>11, <2>5, <2>6, <2>7, <2>8, <2>9, <2>10, <2>11, <2>12
         DEF Answered
<1>12. QED BY <1>2, <1>10, <1>11

(* The steps that leave the process at the same place.                     *)
LEMMA WaitingStep ==
  ASSUME TalkInv, NEW u \in Users,
         WrongType(u) \/ Resend(u) \/ ResendEarly(u) \/ disp_msg(u)
  PROVE \E t : ProcessStep(u, t)
<1>1. PICK o \in Processes : o = talk[u]
  BY Before
<1>2. ProcessOK(o) /\ o.run \in 0..MaxRuns[u] /\ o.rings \in 0..MaxRings[u]
  BY <1>1, Before
<1>3. talk \in [Users -> Processes] /\ talk = [talk EXCEPT ![u] = o]
  BY <1>1, Before
<1>4. Transacts(o)
  BY <1>1 DEF WrongType, Resend, ResendEarly, disp_msg
<1>5. /\ UNCHANGED daemons /\ calling' = calling /\ answers' \subseteq answers
      /\ live' = live /\ late' = late /\ swept' = swept /\ forgotten' = forgotten
  BY DEF WrongType, Resend, ResendEarly, disp_msg, history
<1>6. calling' \in [Users -> Nat] /\ faults \in 0..MaxFaults
  BY <1>5, Before
<1>7. faults' \in 0..MaxFaults
  BY <1>6, TalkConstants DEF WrongType, Resend, ResendEarly, disp_msg
<1>8. ASSUME NEW b \in BOOLEAN,
             \/ Becomes(u, [o EXCEPT !.blocked = b])
             \/ talk' = [talk EXCEPT ![u] = [o EXCEPT !.blocked = b]] /\ requests' = requests
      PROVE \E t : ProcessStep(u, t)
  <2>1. PICK t : t = [o EXCEPT !.blocked = b]
    OBVIOUS
  <2>2. t \in Processes
    BY <2>1 DEF Processes
  <2>3. /\ t.pc = o.pc /\ t.run = o.run /\ t.id = o.id /\ t.local_id = o.local_id
        /\ t.remote_id = o.remote_id /\ t.addr = o.addr /\ t.rings = o.rings
        /\ t.ringing = o.ringing
    BY <2>1 DEF Processes
  <2>4. Transacts(t)
    BY <1>4, <2>3 DEF Transacts
  <2>5. ProcessOK(t)
    BY <1>2, <2>3, <2>4 DEF ProcessOK
  <2>6. Changes(u, talk[u], t)
    BY <1>1, <2>3 DEF Changes, KeptIds
  <2>7. Becomes(u, t) \/ (talk' = [talk EXCEPT ![u] = t] /\ requests' = requests)
    BY <1>8, <2>1
  <2>8. t.pc = "lookup" => talk[u].pc = "lookup"
    BY <1>1, <2>3
  <2>9. t.run \in 0..MaxRuns[u] /\ t.rings \in 0..MaxRings[u]
    BY <1>2, <2>3
  <2>10. QED BY <1>5, <1>6, <1>7, <2>2, <2>5, <2>6, <2>7, <2>8, <2>9, PlainStep
<1>9. PICK b \in BOOLEAN : b = o.blocked
  BY DEF Processes
<1>10. o = [o EXCEPT !.blocked = b]
  BY <1>9 DEF Processes
<1>11. CASE Becomes(u, talk[u]) \/ (talk' = talk /\ requests' = requests)
  <2>1. \/ Becomes(u, [o EXCEPT !.blocked = b])
        \/ talk' = [talk EXCEPT ![u] = [o EXCEPT !.blocked = b]] /\ requests' = requests
    BY <1>1, <1>3, <1>10, <1>11
  <2>2. QED BY <1>8, <2>1
<1>12. CASE Becomes(u, [talk[u] EXCEPT !.blocked = FALSE])
  BY <1>1, <1>8, <1>12
<1>13. CASE talk' = [talk EXCEPT ![u].blocked = TRUE] /\ requests' = requests
  <2>1. talk' = [talk EXCEPT ![u] = [o EXCEPT !.blocked = TRUE]]
    BY <1>1, <1>3, <1>13
  <2>2. QED BY <1>8, <1>13, <2>1
<1>14. QED BY <1>11, <1>12, <1>13 DEF WrongType, Resend, ResendEarly, disp_msg

(* check_local connects, or is refused.                                    *)
LEMMA ConnectStep ==
  ASSUME TalkInv, NEW u \in Users, Connect(u)
  PROVE \E t : ProcessStep(u, t)
<1>1. PICK o \in Processes : o = talk[u]
  BY Before
<1>2. PICK p : p = talk[Party(u)]
  OBVIOUS
<1>3. ProcessOK(o) /\ o.run \in 0..MaxRuns[u] /\ o.rings \in 0..MaxRings[u]
  BY <1>1, Before
<1>4. /\ UNCHANGED daemons /\ answers' = answers /\ faults' = faults
      /\ live' = live /\ late' = late /\ swept' = swept /\ forgotten' = forgotten
      /\ o.pc = "connect"
  BY <1>1 DEF Connect, history
<1>5. o.ringing = FALSE /\ o.blocked = FALSE /\ o.local_id = 0 /\ o.run >= 1
  BY <1>3, <1>4, TypeFacts DEF ProcessOK, Processes, Transacts
<1>6. faults' \in 0..MaxFaults /\ o.run \in Nat /\ o.addr \in Nat
  BY <1>4, Before DEF Processes
<1>7. CASE /\ talk' = [talk EXCEPT ![u].pc = "edit", ![u].conn = o.addr]
           /\ calling' = [calling EXCEPT ![Party(u)] = o.run]
           /\ UNCHANGED requests
  <2>1. PICK t : t = [o EXCEPT !.pc = "edit", !.conn = o.addr]
    OBVIOUS
  <2>2. talk' = [talk EXCEPT ![u] = t]
    BY <1>1, <1>7, <2>1, Before
  <2>3. t \in Processes
    BY <1>6, <2>1 DEF Processes, Places
  <2>4. /\ t.pc = "edit" /\ t.run = o.run /\ t.local_id = o.local_id
        /\ t.remote_id = o.remote_id /\ t.rings = o.rings
        /\ t.ringing = o.ringing /\ t.blocked = o.blocked
    BY <2>1 DEF Processes
  <2>5. ProcessOK(t)
    BY <1>5, <2>4 DEF ProcessOK
  <2>6. Changes(u, talk[u], t)
    BY <1>1, <1>4, <2>4 DEF Changes, KeptIds
  <2>7. calling' \in [Users -> Nat]
    BY <1>6, <1>7, Before
  <2>8. t.run \in 0..MaxRuns[u] /\ t.rings \in 0..MaxRings[u] /\ t.pc # "lookup"
    BY <1>3, <2>4
  <2>9. QED BY <1>4, <1>6, <1>7, <2>2, <2>3, <2>5, <2>6, <2>7, <2>8, PlainStep
<1>8. CASE /\ ~(p.run = o.addr /\ Listens(p))
           /\ Becomes(u, [o EXCEPT !.pc = "clear"])
           /\ UNCHANGED calling
  <2>1. PICK t : t = [o EXCEPT !.pc = "clear"]
    OBVIOUS
  <2>2. t \in Processes
    BY <2>1 DEF Processes, Places
  <2>3. /\ t.pc = "clear" /\ t.run = o.run /\ t.local_id = o.local_id
        /\ t.remote_id = o.remote_id /\ t.rings = o.rings /\ t.id = o.id
        /\ t.ringing = o.ringing /\ t.blocked = o.blocked /\ t.addr = o.addr
    BY <2>1 DEF Processes
  <2>4. ProcessOK(t)
    BY <1>5, <2>3 DEF ProcessOK
  <2>5. Changes(u, talk[u], t)
    BY <1>1, <1>2, <1>4, <1>8, <2>3 DEF Changes, KeptIds
  <2>6. calling' \in [Users -> Nat] /\ Becomes(u, t)
    BY <1>8, <2>1, Before
  <2>7. t.run \in 0..MaxRuns[u] /\ t.rings \in 0..MaxRings[u] /\ t.pc # "lookup"
    BY <1>3, <2>3
  <2>8. QED BY <1>4, <1>6, <2>2, <2>4, <2>5, <2>6, <2>7, PlainStep
<1>9. QED BY <1>1, <1>2, <1>7, <1>8 DEF Connect

(* accept () returns.                                                      *)
LEMMA AcceptStep ==
  ASSUME TalkInv, NEW u \in Users, Accept(u)
  PROVE \E t : ProcessStep(u, t)
<1>1. PICK o \in Processes : o = talk[u]
  BY Before
<1>2. PICK c \in Nat : c = calling[u]
  BY Before
<1>3. ProcessOK(o) /\ o.run \in 0..MaxRuns[u] /\ o.rings \in 0..MaxRings[u]
  BY <1>1, Before
<1>4. /\ UNCHANGED daemons /\ answers' = answers /\ faults' = faults
      /\ live' = live /\ late' = late /\ swept' = swept /\ forgotten' = forgotten
      /\ o.pc = "listen" /\ requests' = requests
      /\ talk' = [talk EXCEPT ![u].pc = "accepted", ![u].conn = c]
      /\ calling' = [calling EXCEPT ![u] = 0]
  BY <1>1, <1>2 DEF Accept, history
<1>5. o.ringing = FALSE /\ o.blocked = FALSE /\ o.local_id # 0 /\ o.run >= 1
  BY <1>3, <1>4, TypeFacts DEF ProcessOK, Processes, Transacts
<1>6. PICK t : t = [o EXCEPT !.pc = "accepted", !.conn = c]
  OBVIOUS
<1>7. talk' = [talk EXCEPT ![u] = t]
  BY <1>1, <1>4, <1>6, Before
<1>8. t \in Processes
  BY <1>6 DEF Processes, Places
<1>9. /\ t.pc = "accepted" /\ t.run = o.run /\ t.local_id = o.local_id
      /\ t.remote_id = o.remote_id /\ t.rings = o.rings
      /\ t.ringing = o.ringing /\ t.blocked = o.blocked
  BY <1>6 DEF Processes
<1>10. ProcessOK(t)
  BY <1>5, <1>9 DEF ProcessOK
<1>11. Changes(u, talk[u], t)
  BY <1>1, <1>4, <1>9 DEF Changes, KeptIds
<1>12. calling' \in [Users -> Nat] /\ faults' \in 0..MaxFaults
  BY <1>4, Before
<1>13. t.run \in 0..MaxRuns[u] /\ t.rings \in 0..MaxRings[u] /\ t.pc # "lookup"
  BY <1>3, <1>9
<1>14. QED BY <1>4, <1>7, <1>8, <1>10, <1>11, <1>12, <1>13, PlainStep

(* re_invite rings once more.                                              *)
LEMMA ReInviteStep ==
  ASSUME TalkInv, NEW u \in Users, re_invite(u)
  PROVE \E t : ProcessStep(u, t)
<1>1. PICK o \in Processes : o = talk[u]
  BY Before
<1>2. ProcessOK(o) /\ o.run \in 0..MaxRuns[u] /\ o.rings \in 0..MaxRings[u]
  BY <1>1, Before
<1>3. PICK id \in Nat, n \in Nat : id = o.remote_id + 1 /\ n = o.rings + 1
  BY DEF Processes
<1>4. PICK t : t = [o EXCEPT !.pc = "announce", !.conn = 0, !.id = id,
                             !.rings = n, !.ringing = TRUE]
  OBVIOUS
<1>5. t = [o EXCEPT !.pc = "announce", !.conn = 0, !.id = o.remote_id + 1,
                    !.rings = @ + 1, !.ringing = TRUE]
  BY <1>3, <1>4 DEF Processes
<1>6. /\ UNCHANGED daemons /\ answers' = answers /\ faults' = faults
      /\ live' = live /\ late' = late /\ swept' = swept /\ forgotten' = forgotten
      /\ o.pc \in {"listen", "accepted"} /\ calling' = calling
      /\ o.rings < MaxRings[u]
  BY <1>1 DEF re_invite
<1>7. Becomes(u, t)
  BY <1>1, <1>5 DEF re_invite
<1>8. o.blocked = FALSE /\ o.run >= 1
  BY <1>2, <1>6, TypeFacts DEF ProcessOK, Processes, Transacts
<1>9. t \in Processes
  BY <1>4 DEF Processes, Places
<1>10. /\ t.pc = "announce" /\ t.run = o.run /\ t.local_id = o.local_id
       /\ t.remote_id = o.remote_id /\ t.rings = n
       /\ t.ringing = TRUE /\ t.blocked = o.blocked
  BY <1>4 DEF Processes
<1>11. ProcessOK(t)
  BY <1>8, <1>10 DEF ProcessOK
<1>12. Changes(u, talk[u], t)
  BY <1>1, <1>6, <1>10 DEF Changes, KeptIds
<1>13. calling' \in [Users -> Nat] /\ faults' \in 0..MaxFaults
  BY <1>6, Before
<1>14. MaxRings[u] \in Nat
  BY TalkConstants
<1>15. t.run \in 0..MaxRuns[u] /\ t.rings \in 0..MaxRings[u] /\ t.pc # "lookup"
  BY <1>2, <1>3, <1>6, <1>10, <1>14 DEF Processes
<1>16. QED BY <1>6, <1>7, <1>9, <1>11, <1>12, <1>13, <1>15, PlainStep

(* The first DELETE of one who has been called.                            *)
LEMMA ConnectedStep ==
  ASSUME TalkInv, NEW u \in Users, Connected(u)
  PROVE \E t : ProcessStep(u, t)
<1>1. PICK o \in Processes : o = talk[u]
  BY Before
<1>2. ProcessOK(o) /\ o.run \in 0..MaxRuns[u] /\ o.rings \in 0..MaxRings[u]
  BY <1>1, Before
<1>3. PICK t : t = [o EXCEPT !.pc = "unlocal", !.id = o.local_id]
  OBVIOUS
<1>4. /\ UNCHANGED daemons /\ answers' = answers /\ faults' = faults
      /\ live' = live /\ late' = late /\ swept' = swept /\ forgotten' = forgotten
      /\ o.pc = "accepted" /\ calling' = calling /\ Becomes(u, t)
  BY <1>1, <1>3 DEF Connected, history
<1>5. o.ringing = FALSE /\ o.blocked = FALSE /\ o.local_id # 0 /\ o.run >= 1
  BY <1>2, <1>4, TypeFacts DEF ProcessOK, Processes, Transacts
<1>6. t \in Processes
  BY <1>3 DEF Processes, Places
<1>7. /\ t.pc = "unlocal" /\ t.run = o.run /\ t.local_id = o.local_id
      /\ t.remote_id = o.remote_id /\ t.rings = o.rings /\ t.id = o.local_id
      /\ t.ringing = o.ringing /\ t.blocked = o.blocked
  BY <1>3 DEF Processes
<1>8. ProcessOK(t)
  BY <1>5, <1>7 DEF ProcessOK
<1>9. Changes(u, talk[u], t)
  BY <1>1, <1>4, <1>7 DEF Changes, KeptIds
<1>10. calling' \in [Users -> Nat] /\ faults' \in 0..MaxFaults
  BY <1>4, Before
<1>11. t.run \in 0..MaxRuns[u] /\ t.rings \in 0..MaxRings[u] /\ t.pc # "lookup"
  BY <1>2, <1>7
<1>12. QED BY <1>4, <1>6, <1>8, <1>9, <1>10, <1>11, PlainStep

(* Both have exchanged their edit characters.                              *)
LEMMA EditStep ==
  ASSUME TalkInv, NEW u \in Users, set_edit_chars(u)
  PROVE \E t : ProcessStep(u, t)
<1>1. PICK o \in Processes : o = talk[u]
  BY Before
<1>2. ProcessOK(o) /\ o.run \in 0..MaxRuns[u] /\ o.rings \in 0..MaxRings[u]
  BY <1>1, Before
<1>3. PICK t : t = [o EXCEPT !.pc = "talk"]
  OBVIOUS
<1>4. /\ UNCHANGED daemons /\ answers' = answers /\ faults' = faults
      /\ live' = live /\ late' = late /\ swept' = swept /\ forgotten' = forgotten
      /\ o.pc = "edit" /\ calling' = calling /\ requests' = requests
      /\ talk' = [talk EXCEPT ![u].pc = "talk"]
  BY <1>1 DEF set_edit_chars, history
<1>5. o.ringing = FALSE /\ o.blocked = FALSE /\ o.run >= 1
  BY <1>2, <1>4, TypeFacts DEF ProcessOK, Processes, Transacts
<1>6. t \in Processes
  BY <1>3 DEF Processes, Places
<1>7. talk' = [talk EXCEPT ![u] = t]
  BY <1>1, <1>3, <1>4, Before
<1>8. /\ t.pc = "talk" /\ t.run = o.run /\ t.local_id = o.local_id
      /\ t.remote_id = o.remote_id /\ t.rings = o.rings
      /\ t.ringing = o.ringing /\ t.blocked = o.blocked
  BY <1>3 DEF Processes
<1>9. ProcessOK(t)
  BY <1>5, <1>8 DEF ProcessOK
<1>10. Changes(u, talk[u], t)
  BY <1>1, <1>4, <1>8 DEF Changes, KeptIds
<1>11. calling' \in [Users -> Nat] /\ faults' \in 0..MaxFaults
  BY <1>4, Before
<1>12. t.run \in 0..MaxRuns[u] /\ t.rings \in 0..MaxRings[u] /\ t.pc # "lookup"
  BY <1>2, <1>8
<1>13. QED BY <1>4, <1>6, <1>7, <1>9, <1>10, <1>11, <1>12, PlainStep

(* The ends of a process.                                                  *)
LEMMA EndStep ==
  ASSUME TalkInv, NEW u \in Users, Closed(u) \/ p_error(u) \/ Killed(u)
  PROVE \E t : ProcessStep(u, t)
<1>1. talk[u].pc \notin {"off", "exit"}
  BY DEF Closed, p_error, Killed
<1>2. PICK id \in Nat : id = talk[u].remote_id
  BY Before DEF Processes
<1>3. Quits(u, id) \/ Exits(u, {})
  BY <1>2 DEF Closed, p_error, Killed
<1>4. /\ late' = late /\ swept' = swept /\ live' = live /\ forgotten' = forgotten
      /\ UNCHANGED daemons
  BY DEF Closed, p_error, Killed, history
<1>5. faults \in 0..MaxFaults
  BY Before
<1>6. faults' \in 0..MaxFaults
  BY <1>5, TalkConstants DEF Closed, p_error, Killed
<1>7. QED BY <1>1, <1>2, <1>3, <1>4, <1>6, QuitsSends

-----------------------------------------------------------------------------
(* The invariant, and what follows from it.                                *)

(* The invariant holds initially.                                          *)
LEMMA InitKept ==
  Init => TalkInv
<1> SUFFICES ASSUME Init PROVE TalkInv
  OBVIOUS
<1>1. /\ table = [u \in Users |-> <<>>] /\ current_id = [u \in Users |-> 0]
      /\ talk = [u \in Users |-> Off] /\ calling = [u \in Users |-> 0]
      /\ requests = {} /\ answers = {} /\ faults = 0
      /\ live = [u \in Users |-> 0] /\ late = {} /\ swept = {} /\ forgotten = {}
  BY DEF Init
<1>2. Off \in Processes
  BY DEF Off, Processes, Places
<1>3. <<>> \in Seq(Entries)
  BY EmptySeq
<1>4. 0 \in 0..(MAX_ID - 1) /\ 0 \in 0..MaxFaults
  BY TalkConstants
<1>5. Shape
  BY <1>1, <1>2, <1>3, <1>4 DEF Shape
<1>6. /\ Off.pc = "off" /\ Off.run = 0 /\ Off.id = 0 /\ Off.local_id = 0
      /\ Off.remote_id = 0 /\ Off.rings = 0 /\ Off.blocked = FALSE
      /\ Off.ringing = FALSE
  BY DEF Off
<1>7. \A u \in Users : talk[u] = Off /\ table[u] = <<>> /\ live[u] = 0 /\ current_id[u] = 0
  BY <1>1
<1>8. \A u \in Users : Party(u) \in Users
  BY PartyFacts
<1>9. ProcessesOK
  <2>1. ProcessOK(Off)
    BY <1>6 DEF ProcessOK
  <2>2. \A u \in Users : 0 \in 0..MaxRuns[u] /\ 0 \in 0..MaxRings[u]
    BY TalkConstants
  <2>3. QED BY <1>6, <1>7, <2>1, <2>2 DEF ProcessesOK
<1>10. \A u \in Users : Entered(u) = {} /\ Invitations(u) = {}
  BY <1>7 DEF Entered, Invitations
<1>11. RequestsOK /\ AnswersOK /\ InOrder
  BY <1>1 DEF RequestsOK, AnswersOK, InOrder
<1>12. TablesOK
  BY <1>7 DEF TablesOK
<1>13. NothingLeft
  BY <1>6, <1>7 DEF NothingLeft, Uninvited
<1>14. IdsMeant
  BY <1>1, <1>6, <1>7, <1>8, <1>10 DEF IdsMeant, NoInvitation, OfRun
<1>15. NoDelete /\ Invited
  BY <1>6, <1>7 DEF NoDelete, Invited, Listens
<1>16. Deleted
  BY <1>1, <1>6, <1>7 DEF Deleted, Called
<1>17. Looked /\ Cleared
  BY <1>1, <1>7 DEF Looked, Cleared
<1>18. QED BY <1>5, <1>9, <1>11, <1>12, <1>13, <1>14, <1>15, <1>16, <1>17 DEF TalkInv

(* Every step is one of these.                                             *)
LEMMA StepCases ==
  ASSUME TalkInv, [Next]_vars
  PROVE \/ \E u \in Users : \E t : ProcessStep(u, t)
        \/ \E m \in Users : process_request(m) \/ alarm_handler(m)
        \/ Lose \/ UNCHANGED vars
<1>1. ASSUME NEW u \in Users, Step(u)
      PROVE \E t : ProcessStep(u, t)
  BY <1>1, ReceiveStep, WaitingStep, ConnectStep, AcceptStep, ConnectedStep,
     EditStep, EndStep DEF Step
<1>2. ASSUME NEW u \in Users,
             \/ Start(u) \/ Step(u) \/ ResendEarly(u) \/ disp_msg(u)
             \/ re_invite(u) \/ p_error(u) \/ Killed(u)
      PROVE \E t : ProcessStep(u, t)
  BY <1>1, <1>2, StartStep, WaitingStep, ReInviteStep, EndStep
<1>3. QED BY <1>2 DEF Next

(* Every step keeps the invariant, as long as there are ids left.          *)
LEMMA NextKept ==
  ASSUME TalkInv, IdsLeft, [Next]_vars
  PROVE TalkInv'
<1>1. ASSUME NEW u \in Users, NEW t, ProcessStep(u, t)
      PROVE TalkInv'
  BY <1>1, ProcessKept
<1>2. ASSUME NEW m \in Users, process_request(m) \/ alarm_handler(m)
      PROVE TalkInv'
  BY <1>2, DaemonKept, AlarmKept
<1>3. Lose \/ UNCHANGED vars => TalkInv'
  BY LoseKept, StutterKept
<1>4. QED BY <1>1, <1>2, <1>3, StepCases

(* The invariant holds for as long as there are ids left.                  *)
LEMMA TalkInvariant ==
  Spec /\ []IdsLeft => []TalkInv
<1>1. TalkInv /\ IdsLeft /\ [Next]_vars => TalkInv'
  BY NextKept
<1>2. QED BY <1>1, InitKept, PTL DEF Spec

(* The talkds answer for those who wait and those who look: whatever       *)
(* requests and answers are lost, delayed, reordered or doubled and        *)
(* however often the users call, the invitation of one who waits in        *)
(* accept () is in the table of talkd under the id that will delete it,    *)
(* unless the DELETE of an older entry swept it away; and one who sets out *)
(* to call was not being called when LOOK_UP was answered by a party that  *)
(* still waits.                                                            *)
THEOREM TalkFound ==
  Spec /\ []IdsLeft => []InvitationsFound
<1>1. ASSUME TalkInv PROVE InvitationsFound
  <2>1. Shape /\ ProcessesOK
    BY <1>1 DEF TalkInv
  <2>2. TypeOK
    BY <2>1 DEF Shape, ProcessesOK, ProcessOK, TypeOK, Entries
  <2>3. ASSUME NEW u \in Users, talk[u].pc = "listen", u \notin forgotten \cup swept
        PROVE Kept(u)
    <3>1. Left(u, talk[u].local_id)
      BY <1>1, <2>3 DEF TalkInv, Invited, Listens
    <3>2. QED BY <3>1 DEF Left, Kept, Invitations, Entered
  <2>4. ASSUME NEW u \in Users, Listens(talk[u]) \/ talk[u].pc = "clear",
               live[u] # 0, talk[Party(u)].run = live[u],
               talk[Party(u)].pc = "listen"
        PROVE FALSE
    <3>1. WaitsNoMore(Party(u), live[u])
      BY <1>1, <2>4 DEF TalkInv, Looked
    <3>2. QED BY <2>4, <3>1 DEF WaitsNoMore, Listens
  <2>5. QED BY <2>2, <2>3, <2>4
        DEF InvitationsFound, OnlySweptAway, NewestInvitationWins
<1>2. QED BY <1>1, TalkInvariant, PTL

(* One who has been called leaves no invitation of this call with the own  *)
(* talkd: when the conversation begins the table holds none, unless        *)
(* LEAVE_INVITE came once more after the DELETE, the answer to another     *)
(* DELETE was taken for that to this one, talkd ended, or the invitation   *)
(* had been swept away.                                                    *)
THEOREM TalkCleared ==
  Spec /\ []IdsLeft => []InvitationsCleared
<1>1. ASSUME TalkInv PROVE InvitationsCleared
  <2>1. SUFFICES ASSUME NEW u \in Users, talk[u].pc \in {"edit", "talk"},
                        u \notin late \cup swept \cup forgotten
                 PROVE ~Standing(u)
    BY DEF InvitationsCleared
  <2>2. ~Stands(u)
    BY <1>1, <2>1 DEF TalkInv, Deleted, Called
  <2>3. QED BY <2>2, StandingFacts
<1>2. QED BY <1>1, TalkInvariant, PTL

(* check_local goes on to call only when the stale invitation it met is    *)
(* gone: the answer it takes for that to its DELETE is one, as no other    *)
(* DELETE of the run is under way, and ids are not handed out again.       *)
THEOREM TalkStaleCleared ==
  Spec /\ []IdsLeft => StaleCleared
<1>1. ASSUME TalkInv, [Next]_vars
      PROVE [\A u \in Users : /\ talk[u].pc = "clear" /\ talk'[u].pc = "announce"
                              /\ Party(u) \notin forgotten
               => \A i \in DOMAIN table[Party(u)] :
                    table[Party(u)][i].id # talk[u].id]_vars
  <2>1. SUFFICES ASSUME NEW u \in Users, talk[u].pc = "clear",
                        talk'[u].pc = "announce", Party(u) \notin forgotten,
                        NEW i \in DOMAIN table[Party(u)]
                 PROVE table[Party(u)][i].id # talk[u].id
    OBVIOUS
  <2>2. talk' # talk
    BY <2>1
  <2>3. PICK v \in Users : \E t : ProcessStep(v, t)
    BY <1>1, <2>2, StepCases
       DEF process_request, alarm_handler, Lose, vars
  <2>4. PICK t : ProcessStep(v, t)
    BY <2>3
  <2>5. v = u /\ t.pc = "announce"
    BY <1>1, <2>1, <2>4, ProcessFrame
  <2>6. Changes(u, talk[u], t)
    BY <2>4, <2>5 DEF ProcessStep
  <2>7. PICK a \in answers : a.to = u /\ a.type = "DELETE"
    BY <2>1, <2>5, <2>6 DEF Changes, Replied
  <2>8. \A e \in Entered(Party(u)) : e.id # talk[u].id
    BY <1>1, <2>1, <2>7 DEF TalkInv, Cleared
  <2>9. QED BY <2>8 DEF Entered
<1>2. QED BY <1>1, TalkInvariant, PTL DEF Spec, StaleCleared

===============================================================================
