---------------------------- MODULE TelnetOption ----------------------------
(***************************************************************************)
(* Negotiation of one telnet option between the client (telnet/telnet.c)   *)
(* and the server (telnetd/state.c).  One side, the performer, sends WILL  *)
(* and WONT; the other one, the requester, sends DO and DONT.  Both        *)
(* directions of an option are independent of each other, so the model has *)
(* one of them, with either program as the performer.                      *)
(*                                                                         *)
(* For its role each side keeps the state negotiated last (MY_STATE_WILL   *)
(* or MY_STATE_DO of options[]), the state it wants and the number of      *)
(* requests not yet answered (will_wont_resp or do_dont_resp).  A message  *)
(* is TRUE for WILL and DO, FALSE for WONT and DONT.  TCP delivers them in *)
(* order.  Left out: the options whose handlers act on other options       *)
(* (LINEMODE, TM), end the session (LOGOUT) or need a compile-time choice  *)
(* (AUTHENTICATION, ENCRYPT), and the terminal modes set on the way.  A    *)
(* side accepts an option throughout the session or not at all.            *)
(***************************************************************************)
EXTENDS Integers, Sequences

CONSTANTS
  Options,    \* the options considered
  Display,    \* whether DISPLAY is set in the client's environment
  Held,       \* whether telnetd keeps to kludge line mode: it is in force, was
              \* asked for with alwayslinemode, and the pty stays in ICANON
  MaxStarts   \* bound: changes each side asks for of its own accord

Sides == {"client", "server"}
Peer(s) == IF s = "client" THEN "server" ELSE "client"

VARIABLES
  option, performer,
  state, want, resp,   \* of each side
  inbox,               \* messages on their way to each side
  starts               \* changes asked for by each side

vars == <<option, performer, state, want, resp, inbox, starts>>

Init ==
  /\ option \in Options /\ performer \in Sides
  /\ state = [s \in Sides |-> FALSE] /\ want = [s \in Sides |-> FALSE]
  /\ resp = [s \in Sides |-> 0] /\ inbox = [s \in Sides |-> <<>>]
  /\ starts = [s \in Sides |-> 0]
-----------------------------------------------------------------------------
(* The send routines called with init = 1: a change is asked for unless it *)
(* is agreed upon or asked for already.                                    *)
Ask(s, v) ==
  /\ starts[s] < MaxStarts
  /\ ~(resp[s] = 0 /\ state[s] = v) /\ want[s] # v
  /\ want' = [want EXCEPT ![s] = v]
  /\ resp' = [resp EXCEPT ![s] = @ + 1]
  /\ inbox' = [inbox EXCEPT ![Peer(s)] = Append(@, v)]
  /\ starts' = [starts EXCEPT ![s] = @ + 1]
  /\ UNCHANGED <<option, performer, state>>

(* The user's commands, telnet () and the terminal modes.                  *)
ClientSend == \E v \in BOOLEAN : Ask("client", v)

(* getterminaltype, telnetd_run and localstat.                             *)
ServerSend == \E v \in BOOLEAN : Ask("server", v)

(* The requests unanswered once v has come in.                             *)
Answered(s, v) ==
  IF resp[s] = 0 THEN 0
  ELSE IF resp[s] > 1 /\ state[s] = v THEN resp[s] - 2 ELSE resp[s] - 1

(* s takes its first message and sends reply; wanted and unanswered are    *)
(* its new want and resp.                                                  *)
Respond(s, wanted, unanswered, reply) ==
  /\ state' = [state EXCEPT ![s] = Head(inbox[s])]
  /\ want' = [want EXCEPT ![s] = wanted]
  /\ resp' = [resp EXCEPT ![s] = unanswered]
  /\ inbox' = [inbox EXCEPT ![s] = Tail(@), ![Peer(s)] = @ \o reply]
  /\ UNCHANGED <<option, performer, starts>>

(* Faulty variant of Positive: a refusal is not sent.                      *)
PositiveSilent(s, accepted) ==
  /\ inbox[s] # <<>> /\ Head(inbox[s])
  /\ LET r == Answered(s, TRUE) IN
     \/ (r > 0 \/ want[s] \/ ~accepted) /\ Respond(s, want[s], r, <<>>)
     \/ r = 0 /\ ~want[s] /\ accepted /\ Respond(s, TRUE, 0, <<TRUE>>)

(* WILL or DO.                                                             *)
Positive(s, accepted) ==
  /\ inbox[s] # <<>> /\ Head(inbox[s])
  /\ LET r == Answered(s, TRUE) IN
     \/ (r > 0 \/ want[s]) /\ Respond(s, want[s], r, <<>>)
     \/ r = 0 /\ ~want[s] /\ accepted /\ Respond(s, TRUE, 0, <<TRUE>>)
     \/ r = 0 /\ ~want[s] /\ ~accepted /\ Respond(s, FALSE, 1, <<FALSE>>)

(* Faulty variant of Negative: every WONT or DONT is answered.             *)
NegativeAlwaysAnswered(s) ==
  /\ inbox[s] # <<>> /\ ~Head(inbox[s])
  /\ Respond(s, FALSE, Answered(s, FALSE), <<FALSE>>)

(* Faulty variant of Negative: the change is not acknowledged.             *)
NegativeSilent(s) ==
  /\ inbox[s] # <<>> /\ ~Head(inbox[s])
  /\ LET r == Answered(s, FALSE) IN
     Respond(s, IF r = 0 THEN FALSE ELSE want[s], r, <<>>)

(* WONT or DONT: always accepted.                                          *)
Negative(s) ==
  /\ inbox[s] # <<>> /\ ~Head(inbox[s])
  /\ LET r == Answered(s, FALSE) IN
     IF r = 0 /\ want[s]
       THEN Respond(s, FALSE, 0, IF state[s] THEN <<FALSE>> ELSE <<>>)
       ELSE Respond(s, want[s], r, <<>>)
-----------------------------------------------------------------------------
(* new_state_ok of the client's willoption and dooption                    *)
ClientAccepts ==
  IF performer = "server" THEN option \in {"ECHO", "BINARY", "SGA", "STATUS"}
  ELSE \/ option \in {"BINARY", "NAWS", "TSPEED", "LFLOW", "TTYPE", "SGA",
                      "NEW_ENVIRON"}
       \/ option = "XDISPLOC" /\ Display

(* changeok of the server's willoption and dooption.  DO SGA asks it to    *)
(* leave kludge line mode, which it may not do.                            *)
ServerAccepts ==
  IF performer = "server"
  THEN option \in {"ECHO", "BINARY", "STATUS"} \/ (option = "SGA" /\ ~Held)
  ELSE option \in {"BINARY", "LFLOW", "TTYPE", "SGA", "NAWS", "TSPEED",
                   "XDISPLOC", "NEW_ENVIRON", "OLD_ENVIRON"}

(* willoption, wontoption, dooption and dontoption of the client           *)
ClientWill == performer = "server" /\ Positive("client", ClientAccepts)
ClientWont == performer = "server" /\ Negative("client")
ClientDo == performer = "client" /\ Positive("client", ClientAccepts)
ClientDont == performer = "client" /\ Negative("client")

(* and of the server.  On WILL ECHO it calls send_dont before it notes     *)
(* that the client echoes, so that nothing is sent the first time; only a  *)
(* WILL ECHO that comes when it is noted already is answered by DONT.      *)
ServerWill ==
  /\ performer = "client"
  /\ IF option = "ECHO" /\ inbox["server"] # <<>> /\ Head(inbox["server"])
        /\ Answered("server", TRUE) = 0 /\ want["server"] /\ state["server"]
       THEN Respond("server", FALSE, 1, <<FALSE>>)
       ELSE Positive("server", ServerAccepts)
ServerWont == performer = "client" /\ Negative("server")
ServerDo == performer = "server" /\ Positive("server", ServerAccepts)
ServerDont == performer = "server" /\ Negative("server")

Client == ClientWill \/ ClientWont \/ ClientDo \/ ClientDont
Server == ServerWill \/ ServerWont \/ ServerDo \/ ServerDont

Next == Client \/ Server \/ ClientSend \/ ServerSend

(* Each program reads what TCP delivers.                                   *)
Spec == Init /\ [][Next]_vars /\ WF_vars(Client) /\ WF_vars(Server)
-----------------------------------------------------------------------------
Accepts(s) == IF s = "client" THEN ClientAccepts ELSE ServerAccepts
(* Unless a side asks for a change again the wire falls silent: no         *)
(* acknowledgement is acknowledged for ever.                               *)
Quiet == \A s \in Sides : inbox[s] = <<>>

(* "send_do (TELOPT_X, 1)" and its kin may cross each other on the wire in *)
(* any way.  Once the wire is quiet both sides of an option that both of   *)
(* them support have the same idea of it, and wait for nothing.            *)
AgreedWhenSupported ==
  Quiet /\ Accepts("client") /\ Accepts("server") =>
    \A s \in Sides : /\ state[s] = state[Peer(s)]
                     /\ want[s] = state[s] /\ resp[s] = 0

(* A side that refuses an option, and never asks for it itself, never      *)
(* gets it, and the other side learns of the refusal.  One that asks for   *)
(* what it refuses may get it: telnetd's DO ECHO crossing a WILL ECHO of   *)
(* the client is not taken back, "Turn it off right now!" of willoption    *)
(* notwithstanding.                                                        *)
RefusalRespected ==
  \A s \in Sides : Quiet /\ ~Accepts(s) /\ starts[s] = 0 =>
    ~want[s] /\ ~want[Peer(s)] /\ ~state[Peer(s)] /\ resp[Peer(s)] = 0

(* What the negotiation of an option comes to.                             *)
OptionsAgree == AgreedWhenSupported /\ RefusalRespected

(* ttloop (his_will_wont_is_changing (...)) of the server is over: what   *)
(* the server asks of the client is settled, accepted or refused, provided *)
(* that the client does not itself ask for what one of them refuses.       *)
TtloopOver ==
  performer = "client" /\ (starts["client"] = 0 \/ (ClientAccepts /\ ServerAccepts)) =>
    state["server"] = want["server"] /\ resp["server"] = 0
=============================================================================
