---------------------------- MODULE TelnetSecure ----------------------------
(***************************************************************************)
(* Authentication and encryption between telnet and telnetd (libtelnet:    *)
(* auth.c, shishi.c, encrypt.c, enc_des.c), from the first options to the  *)
(* session.  One cipher is modelled.  What is sent is a sequence of items; *)
(* each carries a stamp: Clear, or the key, the initial vector and the     *)
(* position of the stream cipher that encrypted it.                        *)
(***************************************************************************)
EXTENDS Naturals, Sequences, SequencesExt

CONSTANTS MaxEvents,   \* commands of the user, data sent in the session, failures
          MaxFaults    \* calls of the Kerberos library that fail

VARIABLES c, s,        \* the client and telnetd
          toS, toC,    \* what is on its way
          garbled,     \* an item was read with another stamp than it was sent with
          spoilt,      \* a second session key, credentials refused after they were accepted or
                       \* after the response, a server that did not prove itself, or
                       \* decryption disabled by the user
          commands, faults

vars == <<c, s, toS, toC, garbled, spoilt, commands, faults>>

FAILED == {"failed"}
IN_PROGRESS == {"send_iv", "recv_iv", "keyid"}   \* what is missing

Clear == [key |-> 0, iv |-> 0, n |-> 0]

\* The ways of authentication, in the order of the table authenticators.
Ways == <<"mutual", "oneway">>

-----------------------------------------------------------------------------
(* Both ends.                                                              *)

\* encrypt_init, fb64_init, auth_init.
Start(server, auto) ==
  [server |-> server, out |-> <<>>, autoE |-> auto, autoD |-> auto, emode |-> FALSE, dmode |-> FALSE,
   wontE |-> FALSE, wontD |-> FALSE, remE |-> FALSE, remD |-> FALSE, support |-> TRUE,
   encrypt_output |-> FALSE, decrypt_input |-> FALSE, havesessionkey |-> FALSE, krbdes_key |-> 0, keys |-> 0,
   feed |-> 0, need_start |-> FALSE, state |-> [e |-> FAILED, d |-> FAILED], keylen |-> [e |-> 0, d |-> 0],
   e |-> [key |-> 0, iv |-> 0, n |-> 0], d |-> [key |-> 0, iv |-> 0, n |-> 0],
   authenticated |-> "none", authenticating |-> FALSE, enckey |-> 0, ways |-> Ways, mutual_complete |-> FALSE,
   pc |-> IF server THEN "options" ELSE "run", optDone |-> {}, stopped |-> FALSE]

\* cfb64_encrypt: the stream advances with what it encrypts.
cfb64_encrypt(x) == [x EXCEPT !.e.n = @ + 1]

\* cfb64_decrypt
cfb64_decrypt(x) == [x EXCEPT !.d.n = @ + 1]

\* net_write; what is written is encrypted as encrypt_output says now (net_encrypt).
net_write(x, kind, arg) ==
  LET item == [kind |-> kind, arg |-> arg, stamp |-> IF x.encrypt_output THEN x.e ELSE Clear]
  IN [(IF x.encrypt_output THEN cfb64_encrypt(x) ELSE x) EXCEPT !.out = Append(@, item)]

findencryption(x) == ~x.wontE /\ x.remD
finddecryption(x) == ~x.wontD /\ x.remE

\* fb64_start, to encrypt: a new initial vector is sent, or once the key is there.
fb64_start(x) ==
  LET state == IF x.state.e = FAILED THEN IN_PROGRESS ELSE x.state.e IN
  IF "send_iv" \notin state THEN x
  ELSE IF x.krbdes_key = 0 THEN [x EXCEPT !.state.e = state, !.need_start = TRUE]
  ELSE net_write([x EXCEPT !.state.e = (state \ {"send_iv"}) \union {"recv_iv"}, !.feed = @ + 1], "IS", x.feed + 1)

\* fb64_stream_iv, fb64_stream_key: the stream starts anew.
fb64_stream_iv(st, iv) == [st EXCEPT !.iv = iv, !.n = 0]
fb64_stream_key(st, key) == [st EXCEPT !.key = key, !.n = 0]

\* fb64_is: the decrypting stream has its vector.
fb64_is(x, iv) == net_write([x EXCEPT !.d = fb64_stream_iv(@, iv), !.state.d = IN_PROGRESS], "REPLY", 0)

\* encrypt_send_keyid
encrypt_send_keyid(x, dir, len) == net_write(x, IF dir = "e" THEN "ENC_KEYID" ELSE "DEC_KEYID", len)

\* fb64_reply: the peer has the vector.
fb64_reply(x) ==
  encrypt_send_keyid([x EXCEPT !.e = fb64_stream_iv(@, x.feed), !.keylen.e = 1,
                               !.state.e = (IF @ = FAILED THEN IN_PROGRESS ELSE @) \ {"recv_iv"}], "e", 1)

\* fb64_keyid
fb64_keyid(x, dir) == [x EXCEPT !.state[dir] = (IF @ = FAILED THEN IN_PROGRESS ELSE @) \ {"keyid"}]

\* Faulty variant of encrypt_start_output: the message START is encrypted already.
encrypt_start_outputEarly(x) ==
  LET y == fb64_start(x) IN
  IF ~findencryption(x) THEN x
  ELSE IF y.state.e # {} THEN y
  ELSE net_write([y EXCEPT !.encrypt_output = TRUE, !.emode = TRUE], "START", 0)

\* encrypt_start_output: once nothing is missing, START, and all that follows is
\* encrypted.
encrypt_start_output(x) ==
  LET y == fb64_start(x) IN
  IF ~findencryption(x) THEN x
  ELSE IF y.state.e # {} THEN y
  ELSE [net_write(y, "START", 0) EXCEPT !.encrypt_output = TRUE, !.emode = TRUE]

\* encrypt_send_end: END, and all that follows is in clear.
encrypt_send_end(x) == IF x.encrypt_output THEN [net_write(x, "END", 0) EXCEPT !.encrypt_output = FALSE] ELSE x

encrypt_send_request_start(x) == net_write(x, "REQSTART", 0)
encrypt_send_request_end(x) == net_write(x, "REQEND", 0)

\* encrypt_send_support: once; the client that wants to decrypt asks for it before.
encrypt_send_support(x) ==
  IF ~x.support THEN x
  ELSE [net_write(IF ~x.server /\ x.autoD THEN encrypt_send_request_start(x) ELSE x, "SUPPORT", 0) EXCEPT !.support = FALSE]

\* fb64_session, encrypt_session_key
encrypt_session_key(x, key) ==
  LET y == [x EXCEPT !.havesessionkey = TRUE, !.krbdes_key = key, !.keys = @ + 1, !.need_start = FALSE,
                     !.e = fb64_stream_key(@, key), !.d = fb64_stream_key(@, key)]
  IN IF x.need_start THEN fb64_start(y) ELSE y

-----------------------------------------------------------------------------
(* What comes in.                                                          *)

encrypt_support(x) ==
  LET y == fb64_start([x EXCEPT !.remD = TRUE]) IN
  IF x.wontE THEN [x EXCEPT !.remD = FALSE]
  ELSE IF y.state.e = {} THEN encrypt_start_output([y EXCEPT !.emode = TRUE])
  ELSE [y EXCEPT !.emode = TRUE]

encrypt_is(x, iv) ==
  IF x.wontD THEN [x EXCEPT !.remE = TRUE]
  ELSE [fb64_is(x, iv) EXCEPT !.remE = TRUE, !.dmode = TRUE]

encrypt_reply(x) ==
  LET y == [fb64_reply(x) EXCEPT !.emode = TRUE] IN
  IF ~findencryption(x) THEN x
  ELSE IF y.state.e = {} /\ x.autoE THEN encrypt_start_output(y) ELSE y

\* encrypt_keyid, for the encrypting or the decrypting stream: a new key id is
\* confirmed, the confirmation of the own one is what encryption waits for.
encrypt_keyid(x, dir, len) ==
  LET found == IF dir = "e" THEN x.emode /\ findencryption(x) ELSE x.dmode /\ finddecryption(x)
      y == fb64_keyid(x, dir)
  IN IF ~found THEN (IF len = 0 THEN x ELSE encrypt_send_keyid([x EXCEPT !.keylen[dir] = 0], dir, 0))
     ELSE IF len = 0 THEN (IF x.keylen[dir] = 0 THEN x ELSE encrypt_send_keyid([x EXCEPT !.keylen[dir] = 0], dir, 0))
     ELSE IF x.keylen[dir] # len THEN encrypt_send_keyid([y EXCEPT !.keylen[dir] = len], dir, len)
     ELSE IF dir = "e" /\ y.state.e = {} /\ x.autoE THEN encrypt_start_output(y) ELSE y

encrypt_start(x) ==
  IF x.dmode /\ finddecryption(x) THEN [x EXCEPT !.decrypt_input = TRUE] ELSE encrypt_send_request_end(x)

encrypt_end(x) == [x EXCEPT !.decrypt_input = FALSE]

\* Faulty variant of encrypt_request_start: telnetd forgets a request that comes
\* before it knows the cipher.
encrypt_request_startForgets(x) == IF ~x.emode THEN x ELSE encrypt_start_output(x)

\* encrypt_request_start: telnetd remembers a request that comes before the type is known.
encrypt_request_start(x) ==
  IF ~x.emode THEN [x EXCEPT !.autoE = @ \/ x.server] ELSE encrypt_start_output(x)

-----------------------------------------------------------------------------
(* Authentication.                                                         *)

auth_finished(x, way) == [x EXCEPT !.authenticated = IF way = "" THEN "NoAuth" ELSE way]

\* auth_request: the ways telnetd supports.
auth_request(x) == IF x.authenticating THEN x ELSE net_write([x EXCEPT !.authenticating = TRUE], "SEND", 0)

\* auth_send, krb5shishi_send: the first way for which credentials can be made, n - 1
\* ways failing; each attempt has a session key of its own.
auth_send(x, n) ==
  IF n > Len(x.ways) THEN auth_finished(net_write([x EXCEPT !.ways = <<>>], "NULL", 0), "")
  ELSE net_write([x EXCEPT !.ways = SubSeq(@, n + 1, Len(@)), !.enckey = @ + 1], "AUTH",
                 [way |-> x.ways[n], key |-> x.enckey + 1])

\* krb5shishi_reply: the client hears what telnetd thinks of the credentials.
krb5shishi_reply(x, m, n, verified) ==
  CASE m.kind = "REJECT" -> auth_send(x, n)
    [] m.kind = "ACCEPT" -> IF x.mutual_complete THEN auth_finished(x, m.arg.way)
                            ELSE IF m.arg.way = "mutual" THEN auth_send(x, n)
                            ELSE auth_finished(encrypt_session_key(x, x.enckey), m.arg.way)
    [] m.kind = "RESPONSE" -> IF ~verified THEN auth_send(x, n)
                              ELSE [encrypt_session_key(x, x.enckey) EXCEPT !.mutual_complete = TRUE]

\* krb5shishi_is, krb5shishi_is_auth: telnetd looks at the credentials; "none" of the
\* calls fails, the library cannot be set up, the credentials are "bad", the client's
\* name or the session key cannot be had.
krb5shishi_is(x, m, fault) ==
  LET mutual == IF m.arg.way = "mutual" THEN net_write(x, "RESPONSE", m.arg) ELSE x
      y == auth_finished(net_write(mutual, "ACCEPT", m.arg), m.arg.way)
  IN CASE fault = "init" -> x
       [] fault = "bad" -> net_write(x, "REJECT", m.arg)
       [] fault = "name" -> net_write(mutual, "REJECT", m.arg)
       [] fault = "key" -> net_write(y, "REJECT", m.arg)
       [] OTHER -> encrypt_session_key(y, m.arg.key)

-----------------------------------------------------------------------------

\* What suboption makes of an item, at both ends.
Suboption(x, m) ==
  CASE m.kind = "SUPPORT" -> encrypt_support(x)
    [] m.kind = "IS" -> encrypt_is(x, m.arg)
    [] m.kind = "REPLY" -> encrypt_reply(x)
    [] m.kind = "START" -> encrypt_start(x)
    [] m.kind = "END" -> encrypt_end(x)
    [] m.kind = "REQSTART" -> encrypt_request_start(x)
    [] m.kind = "REQEND" -> encrypt_send_end(x)
    [] m.kind = "ENC_KEYID" -> encrypt_keyid(x, "d", m.arg)
    [] m.kind = "DEC_KEYID" -> encrypt_keyid(x, "e", m.arg)
    [] m.kind = "WILL ENCRYPT" -> encrypt_send_support([x EXCEPT !.optDone = @ \union {"will"}])
    [] m.kind = "data" -> x

\* The loops of getterminaltype: the answer to DO AUTHENTICATION, auth_wait, the
\* answers to the other options, encrypt_wait.
getterminaltype(x) ==
  CASE x.pc = "options" /\ "auth" \in x.optDone -> [x EXCEPT !.pc = IF x.authenticating THEN "auth_wait" ELSE "more"]
    [] x.pc = "auth_wait" /\ x.authenticated # "none" -> [x EXCEPT !.pc = "more"]
    [] x.pc = "more" /\ {"do", "will"} \subseteq x.optDone ->
         [x EXCEPT !.pc = IF x.havesessionkey /\ findencryption(x) THEN "encrypt_wait" ELSE "run"]
    [] x.pc = "encrypt_wait" /\ (~x.autoE \/ x.encrypt_output) -> [x EXCEPT !.pc = "run"]
    [] OTHER -> x

Understood(x, m) == m.stamp = (IF x.decrypt_input THEN x.d ELSE Clear)

Read(x) == IF x.decrypt_input THEN cfb64_decrypt(x) ELSE x

Sent(x) == [x EXCEPT !.out = <<>>]

\* So many calls more may fail.
Fails(cost) == faults + cost <= MaxFaults /\ (cost = 0 \/ commands + faults + cost <= MaxEvents)

\* Init: the client has offered what it wants (telnet), telnetd has asked for
\* authentication and waits.
Init ==
  /\ \E auto, autologin \in BOOLEAN :
       /\ c = Start(FALSE, auto)
       /\ toS = LET m(k) == [kind |-> k, arg |-> 0, stamp |-> Clear]
                IN <<m(IF autologin THEN "WILL AUTH" ELSE "WONT AUTH"), m("DO ENCRYPT"), m("WILL ENCRYPT")>>
  /\ s = Start(TRUE, FALSE) /\ toC = <<>>
  /\ garbled = FALSE /\ spoilt = FALSE /\ commands = 0 /\ faults = 0

\* The client reads an item.
ClientReceives ==
  /\ toC # <<>>
  /\ \E n \in 1..Len(c.ways) + 1, verified \in BOOLEAN :
       LET m == Head(toC)
           x == Read(c)
           auth == m.kind \in {"SEND", "REJECT", "ACCEPT", "RESPONSE"}
           y == IF m.kind = "SEND" THEN auth_send(x, n)
                ELSE IF auth THEN krb5shishi_reply(x, m, n, verified) ELSE Suboption(x, m)
           cost == (IF auth /\ c.ways # <<>> THEN n - 1 ELSE 0) + (IF verified THEN 0 ELSE 1)
       IN /\ Understood(c, m)
          /\ ~auth => n = 1 /\ verified
          /\ m.kind # "RESPONSE" => verified
          /\ Fails(cost) /\ faults' = faults + cost
          /\ c' = Sent(y) /\ toS' = toS \o y.out
          /\ spoilt' = (spoilt \/ y.keys > 1 \/ ~verified)
  /\ toC' = Tail(toC)
  /\ UNCHANGED <<s, garbled, commands>>

\* telnetd reads an item, and what waits for it goes on.
ServerReceives ==
  /\ toS # <<>> /\ s.pc # "exited"
  /\ \E fault \in {"none", "init", "bad", "name", "key"} :
       LET m == Head(toS)
           x == Read(s)
           y == CASE m.kind = "WILL AUTH" -> auth_request([x EXCEPT !.optDone = @ \union {"auth"}])
                  [] m.kind = "WONT AUTH" -> [x EXCEPT !.optDone = @ \union {"auth"}]
                  [] m.kind = "DO ENCRYPT" -> net_write([x EXCEPT !.optDone = @ \union {"do"}], "WILL ENCRYPT", 0)
                  [] m.kind = "AUTH" -> krb5shishi_is(x, m, fault)
                  [] m.kind = "NULL" -> auth_finished(x, "")
                  [] OTHER -> Suboption(x, m)
           cost == IF fault = "none" THEN 0 ELSE 1
       IN /\ Understood(s, m)
          /\ m.kind # "AUTH" => fault = "none"
          /\ Fails(cost) /\ faults' = faults + cost
          /\ s' = Sent(y) /\ toC' = toC \o y.out
          /\ spoilt' = (spoilt \/ y.keys > 1 \/ fault = "key" \/ (fault = "name" /\ m.arg.way = "mutual"))
  /\ toS' = Tail(toS)
  /\ UNCHANGED <<c, garbled, commands>>

\* An item that is read with another stamp than it was sent with: what follows means
\* nothing.
Garble ==
  /\ \/ toC # <<>> /\ ~Understood(c, Head(toC))
     \/ toS # <<>> /\ ~Understood(s, Head(toS)) /\ s.pc # "exited"
  /\ garbled' = TRUE /\ toC' = <<>> /\ toS' = <<>>
  /\ UNCHANGED <<c, s, spoilt, commands, faults>>

\* getterminaltype goes on.
ServerGoesOn ==
  /\ getterminaltype(s) # s /\ s' = getterminaltype(s)
  /\ UNCHANGED <<c, toS, toC, garbled, spoilt, commands, faults>>

\* SIGALRM in auth_wait (auth_intr): the select of io_drain is interrupted, and
\* telnetd ends.
Alarm ==
  /\ s.pc = "auth_wait" /\ s.authenticated = "none" /\ toS = <<>>
  /\ s' = [auth_finished(s, "") EXCEPT !.pc = "exited"]
  /\ UNCHANGED <<c, toS, toC, garbled, spoilt, commands, faults>>

\* The commands "encrypt ..." of the user, and data of either side.
EncryptStartInput(x) == IF x.dmode THEN encrypt_send_request_start(x) ELSE x
EncryptStartOutput(x) == IF x.emode THEN encrypt_start_output(x) ELSE x
EncryptStopInput(x) == [encrypt_send_request_end(x) EXCEPT !.stopped = TRUE]
EncryptStopOutput(x) == encrypt_send_end(x)
EncryptType(x, input) == IF input THEN [x EXCEPT !.dmode = TRUE, !.wontD = FALSE] ELSE [x EXCEPT !.emode = TRUE, !.wontE = FALSE]
EncryptEnable(x, input) == LET y == EncryptType(x, input) IN IF input THEN EncryptStartInput(y) ELSE EncryptStartOutput(y)
EncryptDisable(x, input) ==
  IF input THEN [(IF x.dmode THEN EncryptStopInput(x) ELSE x) EXCEPT !.wontD = TRUE]
  ELSE [(IF x.emode THEN EncryptStopOutput(x) ELSE x) EXCEPT !.wontE = TRUE]

encrypt_cmd ==
  /\ ~garbled /\ commands + faults < MaxEvents /\ commands' = commands + 1
  /\ \E x \in {EncryptStartInput(c), EncryptStartOutput(c), EncryptStopInput(c), EncryptStopOutput(c),
               EncryptEnable(c, TRUE), EncryptEnable(c, FALSE), EncryptDisable(c, TRUE), EncryptDisable(c, FALSE),
               [c EXCEPT !.autoE = ~@], net_write(c, "data", 0)} :
       c' = Sent(x) /\ toS' = toS \o x.out /\ spoilt' = (spoilt \/ x.wontD)
  /\ UNCHANGED <<s, toC, garbled, faults>>

ServerWrites ==
  /\ ~garbled /\ s.pc = "run" /\ commands + faults < MaxEvents /\ commands' = commands + 1
  /\ LET x == net_write(s, "data", 0) IN s' = Sent(x) /\ toC' = toC \o x.out
  /\ UNCHANGED <<c, toS, garbled, spoilt, faults>>

Receive == ClientReceives \/ ServerReceives \/ Garble \/ ServerGoesOn

Next == Receive \/ Alarm \/ encrypt_cmd \/ ServerWrites

Fairness == WF_vars(Receive) /\ WF_vars(Alarm)

Spec == Init /\ [][Next]_vars /\ Fairness

-----------------------------------------------------------------------------
(* Properties.                                                             *)

\* Each item is decrypted with the key, the vector and at the position it was
\* encrypted with, or read in clear if it was sent so: START and END change both
\* ends at the same place of the stream, however requests and commands cross.
InStep == ~spoilt => ~garbled

\* What holds in the end: telnetd has not stayed in one of its waits (it may when
\* the user stops decryption while telnetd waits to encrypt: encrypt_wait knows no
\* way back), and a client that asked for encryption (-x) and was authenticated at
\* once has it both ways.
Settled ==
  /\ garbled \/ spoilt \/ c.stopped \/ s.pc \in {"run", "exited"}
  /\ c.autoE /\ c.autoD /\ commands = 0 /\ faults = 0 /\ c.authenticated # "none" /\ c.authenticated # "NoAuth"
       => c.encrypt_output /\ s.decrypt_input /\ s.encrypt_output /\ c.decrypt_input
=============================================================================
