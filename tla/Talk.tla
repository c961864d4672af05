-------------------------------- MODULE Talk --------------------------------
(***************************************************************************)
(* talk (talk/*.c) and talkd (talkd/*.c).  Two users, each on a machine of *)
(* their own with a talkd, call each other with talk, perhaps at the same  *)
(* time and several times over.                                            *)
(*                                                                         *)
(* A talk process asks the daemon of the other machine whether it is being *)
(* called (LOOK_UP).  If so it connects to the address left there;         *)
(* otherwise, or when nobody listens at that address any more, it has its  *)
(* party called (ANNOUNCE), leaves an invitation with its own daemon       *)
(* (LEAVE_INVITE) and waits in accept (), ringing again on a timer.  Once  *)
(* connected it deletes what it left.                                      *)
(*                                                                         *)
(* Requests and answers are datagrams that may be lost, delayed, reordered *)
(* and, being sent again, doubled.  A user is known by the machine, a      *)
(* process by its user and run, the number of the call, which stands for   *)
(* msg.pid and for the addresses of its sockets.                           *)
(***************************************************************************)
EXTENDS Integers, Sequences, FiniteSets

CONSTANTS
  Users,
  MAX_ID,      \* 16000 in the code
  MaxRuns,     \* bound: calls of each user
  MaxRings,    \* bound: calls of re_invite in a run; at most one with the
               \* GNU C library, as its longjmp leaves SIGALRM blocked
  MaxFaults    \* bound: datagrams lost or sent too early, requests refused, errors,
               \* calls of disp_msg within ctl_transact and
               \* ends of an idle talkd

ASSUME TalkConstants ==
  /\ \E u, v \in Users : u # v /\ Users = {u, v}
  /\ MAX_ID \in Nat \ {0, 1}
  /\ MaxRuns \in [Users -> Nat] /\ MaxRings \in [Users -> Nat]
  /\ MaxFaults \in Nat

Party(u) == CHOOSE v \in Users : v # u

VARIABLES
  table, current_id,   \* of each talkd
  talk,                \* the talk process of each user
  calling,             \* connections no accept () has taken: the run of the
                       \* caller, or 0, for each user
  requests, answers,   \* datagrams
  faults,
  \* History variables: no action reads them.
  live,                \* for each user, the run of the party that waited with
                       \* an invitation when LOOK_UP was answered, or 0
  swept,               \* machines where DELETE of an entry took away a newer
                       \* invitation
  late,                \* users whose LEAVE_INVITE came once more after DELETE,
                       \* or who took the answer to another DELETE for that
                       \* of their own talkd
  dropped,             \* a connection accept () returned was forgotten
  forgotten            \* machines whose talkd ended

daemons == <<table, current_id>>
history == <<live, late, swept, dropped, forgotten>>
vars == <<daemons, talk, calling, requests, answers, faults, history>>

(* pc "off" before the first call; id is msg.id_num, blocked is being in   *)
(* recv () rather than select (), ringing is being in re_invite.           *)
Off == [pc |-> "off", run |-> 0, id |-> 0, local_id |-> 0, remote_id |-> 0,
        addr |-> 0, conn |-> 0, rings |-> 0, blocked |-> FALSE,
        ringing |-> FALSE, invitation_waiting |-> FALSE]

Init ==
  /\ table = [u \in Users |-> <<>>] /\ current_id = [u \in Users |-> 0]
  /\ talk = [u \in Users |-> Off] /\ calling = [u \in Users |-> 0]
  /\ requests = {} /\ answers = {}
  /\ faults = 0
  /\ live = [u \in Users |-> 0] /\ late = {} /\ swept = {} /\ dropped = FALSE
  /\ forgotten = {}
-----------------------------------------------------------------------------
(* The transactions: what is asked, and of which daemon.                   *)
RequestType ==
  [lookup |-> "LOOK_UP", clear |-> "DELETE", announce |-> "ANNOUNCE",
   leave |-> "LEAVE_INVITE", unlocal |-> "DELETE", unremote |-> "DELETE"]
Transacts(t) == t.pc \in DOMAIN RequestType
Target(u, pc) == IF pc \in {"leave", "unlocal"} THEN u ELSE Party(u)

Request(u, t) ==
  [to |-> Target(u, t.pc), type |-> RequestType[t.pc], from |-> u,
   pid |-> t.run, id |-> t.id]
Delete(u, machine, id) ==
  [to |-> machine, type |-> "DELETE", from |-> u, pid |-> talk[u].run, id |-> id]

(* The socket talk listens at is open.                                     *)
Listens(t) == t.pc \in {"announce", "leave", "listen", "accepted"}
Alive(u, run) == talk[u].run = run /\ talk[u].pc \notin {"off", "exit"}

(* u becomes t and, if that begins a transaction, sends its request.       *)
Becomes(u, t) ==
  /\ talk' = [talk EXCEPT ![u] = t]
  /\ requests' = IF Transacts(t) THEN requests \cup {Request(u, t)} ELSE requests

(* exit: the sockets are closed.                                           *)
Exits(u, deletes) ==
  /\ talk' = [talk EXCEPT ![u] = [Off EXCEPT !.pc = "exit", !.run = talk[u].run]]
  /\ calling' = [calling EXCEPT ![u] = 0]
  /\ requests' = requests \cup deletes
  /\ answers' = {a \in answers : a.to # u}

(* quit, with the requests of send_delete.                                 *)
Quits(u, remote_id) ==
  Exits(u, IF talk[u].invitation_waiting
             THEN {Delete(u, Party(u), remote_id), Delete(u, u, talk[u].local_id)}
             ELSE {})

(* invite_remote up to its first request; -1 is larger than any id.        *)
Invites(t) ==
  [t EXCEPT !.pc = "announce", !.id = MAX_ID, !.invitation_waiting = TRUE]

(* main up to the first request of check_local.                            *)
Start(u) ==
  /\ talk[u].pc \in {"off", "exit"} /\ talk[u].run < MaxRuns[u]
  /\ Becomes(u, [Off EXCEPT !.pc = "lookup", !.run = talk[u].run + 1])
  /\ live' = [live EXCEPT ![u] = 0]
  /\ late' = late \ {u} /\ swept' = swept \ {u}
  /\ UNCHANGED <<daemons, calling, answers, faults, dropped, forgotten>>
-----------------------------------------------------------------------------
(* talkd                                                                   *)

(* Faulty variant of new_id: the counter stands still.                     *)
new_idSame(m) == 1

new_id(m) == LET n == (current_id[m] + 1) % MAX_ID IN IF n = 0 THEN 1 ELSE n

(* Faulty variant of lookup_request: the oldest entry.                     *)
lookup_requestLast(matches) ==
  IF matches = {} THEN 0 ELSE CHOOSE i \in matches : \A j \in matches : i >= j

(* lookup_request: the first of the entries that match, or 0.  Nothing     *)
(* expires: "(ptr->time - now) > max_request_ttl" is false of every entry. *)
lookup_request(matches) ==
  IF matches = {} THEN 0 ELSE CHOOSE i \in matches : \A j \in matches : i <= j

(* find_match: an invitation for the sender from whom it asks for          *)
find_match(m, q) ==
  LET fuzzy_comp(e) == e.type = "LEAVE_INVITE" /\ e.l = Party(q.from)
  IN lookup_request({i \in DOMAIN table[m] : fuzzy_comp(table[m][i])})

(* find_request: the same request                                          *)
find_request(m, q) ==
  LET exact_comp(e) == e.type = q.type /\ e.pid = q.pid /\ e.l = q.from
  IN lookup_request({i \in DOMAIN table[m] : exact_comp(table[m][i])})

(* insert_table                                                            *)
insert_table(m, q) ==
  /\ current_id' = [current_id EXCEPT ![m] = new_id(m)]
  /\ table' = [table EXCEPT ![m] =
       <<[type |-> q.type, l |-> q.from, pid |-> q.pid, id |-> new_id(m)]>> \o @]

Standing(u) == \E i \in DOMAIN table[u] : /\ table[u][i].type = "LEAVE_INVITE"
                                           /\ table[u][i].pid = talk[u].run

(* What talkd answers to q, if the process is still there to receive it;   *)
(* by and waits are for the history.                                       *)
Answers(q, answer, id, addr) ==
  LET waits == IF /\ q.type = "LOOK_UP" /\ talk[q.to].pc = "listen"
                  /\ Standing(q.to)
                 THEN talk[q.to].run ELSE 0
  IN
  answers' = IF Alive(q.from, q.pid)
               THEN answers \cup {[to |-> q.from, type |-> q.type, waits |-> waits,
                                   by |-> q.to, answer |-> answer, id |-> id,
                                   addr |-> addr]}
               ELSE answers

(* do_announce.  find_user or the terminal may refuse, the latter after    *)
(* the request has been entered.                                           *)
do_announce(m, q, fault) ==
  LET i == find_request(m, q) IN
  \/ /\ fault = 1 /\ Answers(q, "NOT_HERE", 0, 0) /\ UNCHANGED daemons
  \/ /\ i = 0 /\ insert_table(m, q)
     /\ Answers(q, IF fault = 0 THEN "SUCCESS" ELSE "PERMISSION_DENIED", new_id(m), 0)
  \/ /\ i # 0 /\ q.id > table[m][i].id
     /\ current_id' = [current_id EXCEPT ![m] = new_id(m)]
     /\ table' = [table EXCEPT ![m][i].id = new_id(m)]
     /\ Answers(q, IF fault = 0 THEN "SUCCESS" ELSE "PERMISSION_DENIED", new_id(m), 0)
  \/ /\ i # 0 /\ q.id <= table[m][i].id /\ fault = 0
     /\ Answers(q, "SUCCESS", table[m][i].id, 0) /\ UNCHANGED daemons

leave_invite(m, q) ==
  LET i == find_request(m, q) IN
  \/ /\ i # 0 /\ Answers(q, "SUCCESS", table[m][i].id, 0) /\ UNCHANGED daemons
  \/ /\ i = 0 /\ insert_table(m, q) /\ Answers(q, "SUCCESS", new_id(m), 0)

look_up(m, q) ==
  LET i == find_match(m, q) IN
  /\ \/ i # 0 /\ Answers(q, "SUCCESS", table[m][i].id, table[m][i].pid)
     \/ i = 0 /\ Answers(q, "NOT_HERE", 0, 0)
  /\ UNCHANGED daemons

(* table_delete: insert_table never sets the prev of the entry it puts a   *)
(* new one before, so prev is NULL everywhere and what follows the deleted *)
(* entry becomes the table: newer entries are lost.                        *)
table_delete(m, i) == table' = [table EXCEPT ![m] = SubSeq(@, i + 1, Len(@))]

(* delete_invite: the first entry with that id                             *)
delete_invite(m, q) ==
  LET i == lookup_request({j \in DOMAIN table[m] : table[m][j].id = q.id}) IN
  /\ \/ i # 0 /\ table_delete(m, i) /\ Answers(q, "SUCCESS", 0, 0)
     \/ i = 0 /\ UNCHANGED table /\ Answers(q, "NOT_HERE", 0, 0)
  /\ UNCHANGED current_id

(* talkd_run: a request is taken.  Those of processes on the same machine  *)
(* do not overtake each other.                                             *)
process_request(m) ==
  /\ \E q \in requests, fault \in 0..1 :
       /\ q.to = m
       /\ q.from = m => \A o \in requests :
                          o.to = m /\ o.from = m => o.pid >= q.pid
       /\ faults' = faults + fault /\ faults' <= MaxFaults
       /\ requests' = requests \ {q}
       /\ \/ q.type = "ANNOUNCE" /\ do_announce(m, q, fault)
          \/ q.type = "LEAVE_INVITE" /\ fault = 0 /\ leave_invite(m, q)
          \/ q.type = "LOOK_UP" /\ fault = 0 /\ look_up(m, q)
          \/ q.type = "DELETE" /\ fault = 0 /\ delete_invite(m, q)
       /\ late' = IF /\ q.type = "LEAVE_INVITE" /\ talk[m].run = q.pid
                     /\ talk[m].pc # "leave"
                    THEN late \cup {m} ELSE late
       /\ swept' = IF \E i \in DOMAIN table[m], j \in DOMAIN table[m] :
                        /\ i < j /\ table[m][i].type = "LEAVE_INVITE"
                        /\ q.type = "DELETE" /\ table[m][j].id = q.id
                     THEN swept \cup {m} ELSE swept
  /\ UNCHANGED <<talk, calling, live, dropped, forgotten>>

(* alarm_handler: talkd ends when there was no request for a while; the    *)
(* next one is started by inetd, and counts ids from 1.  That long a while *)
(* no process is in a transaction, unless it hangs there, or rings again.  *)
alarm_handler(m) ==
  /\ faults < MaxFaults /\ faults' = faults + 1
  /\ \A u \in Users :
       /\ Transacts(talk[u]) => talk[u].blocked
       /\ talk[u].pc # "connect" /\ talk[u].pc # "accepted"
       /\ talk[u].pc = "listen" => talk[u].rings = MaxRings[u]
  /\ \A q \in requests : q.to # m
  /\ table' = [table EXCEPT ![m] = <<>>]
  /\ current_id' = [current_id EXCEPT ![m] = 0]
  /\ forgotten' = forgotten \cup {m}
  /\ UNCHANGED <<talk, calling, requests, answers, live, late, swept, dropped>>
-----------------------------------------------------------------------------
(* ctl_transact                                                            *)

(* What follows the answer a to the transaction of u.                      *)
Answered(u, a) ==
  LET t == [talk[u] EXCEPT !.blocked = FALSE] IN
  \/ /\ t.pc = "lookup" /\ a.answer = "SUCCESS"
     /\ Becomes(u, [t EXCEPT !.pc = "connect", !.id = a.id, !.addr = a.addr])
     /\ UNCHANGED calling
  \/ /\ t.pc = "clear" \/ (t.pc = "lookup" /\ a.answer # "SUCCESS")
     /\ Becomes(u, Invites(t)) /\ UNCHANGED calling
  \/ /\ t.pc = "announce" /\ a.answer = "SUCCESS"
     /\ Becomes(u, [t EXCEPT !.pc = "leave", !.remote_id = a.id])
     /\ UNCHANGED calling
  \/ /\ t.pc = "leave"
     /\ Becomes(u, [t EXCEPT !.pc = "listen", !.local_id = a.id, !.ringing = FALSE])
     /\ UNCHANGED calling
  \/ /\ t.pc = "unlocal"
     /\ Becomes(u, [t EXCEPT !.pc = "unremote", !.id = t.remote_id])
     /\ UNCHANGED calling
  \/ /\ t.pc = "unremote"
     /\ Becomes(u, [t EXCEPT !.pc = "edit", !.invitation_waiting = FALSE])
     /\ UNCHANGED calling

(* "until a response of the proper type is obtained"                       *)
Accepts(t, a) == a.type = RequestType[t.pc]

Receive(u) ==
  /\ Transacts(talk[u])
  /\ \E a \in answers :
       /\ a.to = u /\ Accepts(talk[u], a)
       /\ \/ Answered(u, a) /\ answers' = answers \ {a}
          \/ /\ talk[u].pc = "announce" /\ a.answer # "SUCCESS"
             /\ Quits(u, a.id)
       /\ live' = IF talk[u].pc = "lookup" THEN [live EXCEPT ![u] = a.waits] ELSE live
       /\ late' = IF talk[u].pc = "unlocal" /\ a.by # u THEN late \cup {u} ELSE late
  /\ UNCHANGED <<daemons, faults, swept, dropped, forgotten>>

(* An answer of another type is dropped; the request is sent again unless  *)
(* more answers are there already.                                         *)
WrongType(u) ==
  /\ Transacts(talk[u])
  /\ \E a \in answers :
       /\ a.to = u /\ ~Accepts(talk[u], a)
       /\ answers' = answers \ {a}
       /\ \/ Becomes(u, [talk[u] EXCEPT !.blocked = FALSE])
          \/ /\ \E b \in answers \ {a} : b.to = u
             /\ UNCHANGED <<talk, requests>>
  /\ UNCHANGED <<daemons, calling, faults, history>>

InFlight(u) ==
  Request(u, talk[u]) \in requests \/ \E a \in answers : a.to = u

(* Faulty variant of Resend: waits once more.                              *)
ResendNot(u) ==
  /\ Transacts(talk[u]) /\ ~talk[u].blocked /\ ~InFlight(u)
  /\ UNCHANGED vars

(* select () times out: the request is sent again, too early perhaps.      *)
Resend(u) ==
  /\ Transacts(talk[u]) /\ ~talk[u].blocked /\ ~InFlight(u)
  /\ Becomes(u, talk[u])
  /\ UNCHANGED <<daemons, calling, answers, faults, history>>
ResendEarly(u) ==
  /\ Transacts(talk[u]) /\ ~talk[u].blocked
  /\ Request(u, talk[u]) \notin requests /\ InFlight(u)
  /\ faults < MaxFaults /\ faults' = faults + 1
  /\ Becomes(u, talk[u])
  /\ UNCHANGED <<daemons, calling, answers, history>>

(* disp_msg interrupts select (): "continue" leaves the loop that resends, *)
(* as nready is not 0, and recv () waits for an answer that may never come.*)
disp_msg(u) ==
  /\ Transacts(talk[u]) /\ ~talk[u].blocked
  /\ ~talk[u].ringing /\ talk[u].rings = 0
  /\ faults < MaxFaults /\ faults' = faults + 1
  /\ talk' = [talk EXCEPT ![u].blocked = TRUE]
  /\ UNCHANGED <<daemons, calling, requests, answers, history>>
-----------------------------------------------------------------------------
(* check_local: connect () to the address found.                           *)
Connect(u) ==
  LET t == talk[u]
      p == talk[Party(u)]
      open == p.run = t.addr /\ Listens(p)
  IN
  /\ t.pc = "connect"
  /\ \/ /\ open /\ talk' = [talk EXCEPT ![u].pc = "edit", ![u].conn = t.addr]
        /\ calling' = [calling EXCEPT ![Party(u)] = t.run]
        /\ UNCHANGED requests
     \/ /\ ~open /\ Becomes(u, [t EXCEPT !.pc = "clear"]) \* ECONNREFUSED
        /\ UNCHANGED calling
  /\ UNCHANGED <<daemons, answers, faults, history>>

(* invite_remote: accept () returns.                                       *)
Accept(u) ==
  /\ talk[u].pc = "listen" /\ calling[u] # 0
  /\ talk' = [talk EXCEPT ![u].pc = "accepted", ![u].conn = calling[u]]
  /\ calling' = [calling EXCEPT ![u] = 0]
  /\ UNCHANGED <<daemons, requests, answers, faults, history>>

(* re_invite: SIGALRM during accept (), or when it has just returned.  The *)
(* longjmp leads back to accept ().                                        *)
re_invite(u) ==
  /\ talk[u].pc \in {"listen", "accepted"} /\ talk[u].rings < MaxRings[u]
  /\ Becomes(u, [talk[u] EXCEPT !.pc = "announce", !.conn = 0,
                                !.id = talk[u].remote_id + 1,
                                !.rings = @ + 1, !.ringing = TRUE])
  /\ dropped' = (dropped \/ talk[u].pc = "accepted")
  /\ UNCHANGED <<daemons, calling, answers, faults, live, late, swept, forgotten>>

(* Faulty variant of Connected: the id of the other daemon.                *)
ConnectedSwapped(u) ==
  /\ talk[u].pc = "accepted"
  /\ Becomes(u, [talk[u] EXCEPT !.pc = "unlocal", !.id = talk[u].remote_id])
  /\ UNCHANGED <<daemons, calling, answers, faults, history>>

(* sockt is replaced, and the first DELETE sent.                           *)
Connected(u) ==
  /\ talk[u].pc = "accepted"
  /\ Becomes(u, [talk[u] EXCEPT !.pc = "unlocal", !.id = talk[u].local_id])
  /\ UNCHANGED <<daemons, calling, answers, faults, history>>

Gone(u) == ~Alive(Party(u), talk[u].conn)

(* set_edit_chars: both write, then read what the other one wrote.         *)
set_edit_chars(u) ==
  /\ talk[u].pc = "edit"
  /\ talk[Party(u)].pc \in {"edit", "talk"} /\ talk[Party(u)].conn = talk[u].run
  /\ talk' = [talk EXCEPT ![u].pc = "talk"]
  /\ UNCHANGED <<daemons, calling, requests, answers, faults, history>>

(* The end of the connection: talk () and set_edit_chars.                  *)
Closed(u) ==
  /\ talk[u].pc \in {"edit", "talk"} /\ Gone(u)
  /\ Quits(u, talk[u].remote_id)
  /\ UNCHANGED <<daemons, faults, history>>

(* p_error: a system call fails.                                           *)
p_error(u) ==
  /\ talk[u].pc \notin {"off", "exit"} /\ faults < MaxFaults
  /\ faults' = faults + 1
  /\ Quits(u, talk[u].remote_id)
  /\ UNCHANGED <<daemons, history>>

(* ^C: until init_display has been called nothing catches it.  (Bound: the *)
(* last call of a user is not broken off.)                                 *)
Killed(u) ==
  /\ talk[u].pc \notin {"off", "exit"} /\ talk[u].run < MaxRuns[u]
  /\ Exits(u, {})
  /\ UNCHANGED <<daemons, faults, history>>

Lose ==
  /\ faults < MaxFaults /\ faults' = faults + 1
  /\ \/ \E q \in requests : requests' = requests \ {q} /\ UNCHANGED answers
     \/ \E a \in answers : answers' = answers \ {a} /\ UNCHANGED requests
  /\ UNCHANGED <<daemons, talk, calling, history>>

Step(u) == \/ Receive(u) \/ WrongType(u) \/ Resend(u) \/ Connect(u)
           \/ Accept(u) \/ Connected(u) \/ set_edit_chars(u) \/ Closed(u)
Next ==
  \/ \E u \in Users : \/ Start(u) \/ Step(u) \/ ResendEarly(u) \/ disp_msg(u)
                      \/ re_invite(u) \/ p_error(u) \/ Killed(u)
                      \/ process_request(u) \/ alarm_handler(u)
  \/ Lose

(* Processes run, a daemon takes what reaches it, and what is not lost     *)
(* does so; users need not call, and timers need not interrupt anything.   *)
Spec == /\ Init /\ [][Next]_vars
        /\ \A u \in Users : WF_vars(Step(u)) /\ WF_vars(process_request(u))
-----------------------------------------------------------------------------
TypeOK ==
  /\ table \in [Users -> Seq([type : {"ANNOUNCE", "LEAVE_INVITE"}, l : Users,
                              pid : Nat, id : 1..(MAX_ID - 1)])]
  /\ current_id \in [Users -> 0..(MAX_ID - 1)]
  /\ \A u \in Users :
       /\ talk[u].run \in 0..MaxRuns[u] /\ talk[u].rings \in 0..MaxRings[u]
       /\ talk[u].blocked => Transacts(talk[u])
       /\ talk[u].ringing => talk[u].pc \in {"announce", "leave"}
  /\ calling \in [Users -> Nat] /\ faults \in 0..MaxFaults

Kept(u) == \E i \in DOMAIN table[u] : /\ table[u][i].type = "LEAVE_INVITE"
                                       /\ table[u][i].pid = talk[u].run
                                       /\ table[u][i].id = talk[u].local_id

(* "leave the actual invitation on my talk daemon" (announce_invite) and   *)
(* "Delete the invitation with id 'id_num'" (delete_invite): as long as a  *)
(* caller waits in accept (), the invitation is there, under the id that   *)
(* will delete it, whatever DELETEs arrive; unless talkd itself has ended  *)
(* for want of requests.                                                   *)
InvitationStands ==
  \A u \in Users : talk[u].pc = "listen" /\ u \notin forgotten => Kept(u)

(* What holds of that: only the DELETE of an older entry takes the         *)
(* invitation away; no late, repeated or foreign DELETE for a stale        *)
(* invitation hits the standing one, the ids being unique.                 *)
OnlySweptAway ==
  \A u \in Users : talk[u].pc = "listen" /\ u \notin forgotten \cup swept => Kept(u)

(* "We know there are no newer invitations, the talkd works LIFO"          *)
(* (check_local): one who sets out to call was not being called by a party *)
(* that waits to this day, when LOOK_UP was answered; stale invitations of *)
(* earlier calls do not hide a new one.                                    *)
NewestInvitationWins ==
  \A u \in Users : Listens(talk[u]) \/ talk[u].pc = "clear" =>
    ~(live[u] # 0 /\ talk[Party(u)].run = live[u] /\ talk[Party(u)].pc = "listen")

(* The table of talkd answers for those who wait and those who look.       *)
InvitationsFound == TypeOK /\ OnlySweptAway /\ NewestInvitationWins

(* "Clear it and initiate an invitation" (check_local): the invitation     *)
(* that led nowhere is gone when the call goes on, so that the next call   *)
(* does not meet it again; unless talkd ended and counts from 1 again.     *)
StaleCleared ==
  [][\A u \in Users : /\ talk[u].pc = "clear" /\ talk'[u].pc = "announce"
                      /\ Party(u) \notin forgotten
       => \A i \in DOMAIN table[Party(u)] : table[Party(u)][i].id # talk[u].id]_vars

(* "Have the daemons delete the invitations now that we have connected"    *)
(* (invite_remote): none is left with the own daemon, unless a copy of     *)
(* LEAVE_INVITE came after the DELETE, the answer to another DELETE was    *)
(* taken for the one to this, or talkd lost the invitation and its id.     *)
InvitationsCleared ==
  \A u \in Users : /\ talk[u].pc \in {"edit", "talk"}
                   /\ u \notin late \cup swept \cup forgotten
    => ~Standing(u)

(* A party that looks for an invitation while the caller waits gets to     *)
(* talk with the caller, unless one of them gives up, a talkd ends or      *)
(* loses an invitation, or a timer interrupts accept () or select () at    *)
(* the wrong moment.                                                       *)
Rendezvous ==
  \A u \in Users :
    (/\ talk[u].pc = "listen" /\ talk[Party(u)].pc = "lookup"
     /\ \A a \in answers : a.to # Party(u))
    ~> \/ talk[u].pc = "talk" /\ talk[Party(u)].pc = "talk"
       \/ \E v \in Users : talk[v].pc = "exit" \/ talk[v].blocked
       \/ dropped \/ forgotten # {} \/ swept # {}

(* Stale invitations do not stand in the way, and callers meet.            *)
PartiesMeet == StaleCleared /\ Rendezvous
=============================================================================
