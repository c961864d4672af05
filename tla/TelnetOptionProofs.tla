-------------------------- MODULE TelnetOptionProofs --------------------------
(* Proofs about TelnetOption: for every option, either program as the      *)
(* performer, and any number of changes the two sides ask for.             *)
EXTENDS TelnetOption, TLAPS

(* b after n changes.                                                      *)
Flip(b, n) == IF n % 2 = 0 THEN b ELSE ~b

TypeOK ==
  /\ state \in [Sides -> BOOLEAN] /\ want \in [Sides -> BOOLEAN]
  /\ resp \in [Sides -> Nat] /\ inbox \in [Sides -> Seq(BOOLEAN)]
  /\ starts \in [Sides -> Nat] /\ performer \in Sides

(* Both sides support the option: what a side sends is a change of what it *)
(* sent before, the last being what it wants; each message that comes in   *)
(* settles a request of its own, or is answered; so there are as many      *)
(* requests unanswered as messages on their way.                           *)
Supported == Accepts("client") /\ Accepts("server")

(* The messages q change b, the last value received before them, to w.     *)
Alternates(q, b, w) ==
  (\A i \in 1..Len(q) : q[i] = Flip(b, i)) /\ w = Flip(b, Len(q))

Alternate ==
  \A s \in Sides : Alternates(inbox[s], state[s], want[Peer(s)])

Unsettled == \A s \in Sides : want[s] = Flip(state[s], resp[s])

Counted ==
  resp["client"] + resp["server"] = Len(inbox["client"]) + Len(inbox["server"])

AgreeInv == Supported => Alternate /\ Unsettled /\ Counted

(* s refuses the option and has not asked for it: its peer asks for it, and*)
(* for its end, in turn, and s answers each request for it by a refusal.   *)
(* The peer's unanswered requests are the ones s has still to read, and    *)
(* one or two for each refusal that is on its way.                         *)
Refuses(s) == ~Accepts(s) /\ starts[s] = 0

OnlyRefusals(s) ==
  /\ ~want[s] /\ resp[s] <= 1
  /\ \A i \in 1..Len(inbox[Peer(s)]) : inbox[Peer(s)][i] = FALSE
  /\ ~state[Peer(s)] /\ want[Peer(s)] = Flip(FALSE, resp[Peer(s)])

(* The messages q are changes that end with w.                             *)
InOrder(q, w) == \A i \in 1..Len(q) : q[i] = Flip(w, Len(q) - i)

InTurn(s) == InOrder(inbox[s], want[Peer(s)])

Owed(s) ==
  LET n == Len(inbox[s])
      asked == resp[Peer(s)] - 2 * Len(inbox[Peer(s)])
  IN  IF n = 0 THEN asked = 0 \/ asked = -1
      ELSE n = asked + (IF inbox[s][1] THEN 0 ELSE 1)

RefuseOK(s) == OnlyRefusals(s) /\ InTurn(s) /\ Owed(s)

RefuseInv == \A s \in Sides : Refuses(s) => RefuseOK(s)

-----------------------------------------------------------------------------
(* Lemmas about the operators.                                             *)

(* There are two sides.                                                    *)
LEMMA PeerFacts ==
  ASSUME NEW s \in Sides
  PROVE /\ Peer(s) \in Sides /\ Peer(s) # s /\ Peer(Peer(s)) = s
        /\ Sides = {s, Peer(s)}
BY DEF Sides, Peer

(* What changes do to a Boolean.                                           *)
LEMMA FlipFacts ==
  ASSUME NEW b \in BOOLEAN, NEW n \in Nat
  PROVE /\ Flip(b, n) \in BOOLEAN
        /\ Flip(b, 0) = b /\ Flip(b, 1) = ~b
        /\ Flip(b, n + 1) = ~Flip(b, n) /\ Flip(~b, n) = ~Flip(b, n)
<1>1. n % 2 \in {0, 1} /\ (n + 1) % 2 = (IF n % 2 = 0 THEN 1 ELSE 0)
  OBVIOUS
<1>2. 0 % 2 = 0 /\ 1 % 2 = 1
  OBVIOUS
<1>3. Flip(b, 0) = b /\ Flip(b, 1) = ~b
  BY <1>2 DEF Flip
<1>4. CASE n % 2 = 0
  <2>1. Flip(b, n) = b /\ Flip(b, n + 1) = ~b /\ Flip(~b, n) = ~b
    BY <1>1, <1>4 DEF Flip
  <2>2. QED BY <1>3, <2>1
<1>5. CASE n % 2 = 1
  <2>1. Flip(b, n) = ~b /\ Flip(b, n + 1) = b /\ Flip(~b, n) = ~~b
    BY <1>1, <1>5 DEF Flip
  <2>2. QED BY <1>3, <2>1
<1>6. QED BY <1>1, <1>4, <1>5

(* The first message is taken away.                                        *)
LEMMA TakeFacts ==
  ASSUME NEW q \in Seq(BOOLEAN), q # <<>>
  PROVE /\ Tail(q) \in Seq(BOOLEAN) /\ Len(q) \in Nat /\ Len(q) >= 1
        /\ Len(Tail(q)) = Len(q) - 1 /\ Head(q) = q[1] /\ q[1] \in BOOLEAN
        /\ \A i \in 1..Len(Tail(q)) : Tail(q)[i] = q[i + 1]
OBVIOUS

(* A message is sent.                                                      *)
LEMMA SendFacts ==
  ASSUME NEW q \in Seq(BOOLEAN), NEW b \in BOOLEAN
  PROVE /\ q \o <<b>> \in Seq(BOOLEAN) /\ Len(q) \in Nat
        /\ Append(q, b) = q \o <<b>> /\ Len(q \o <<b>>) = Len(q) + 1
        /\ \A i \in 1..Len(q) : (q \o <<b>>)[i] = q[i]
        /\ (q \o <<b>>)[Len(q) + 1] = b
OBVIOUS

(* The number of unanswered requests after a message is known.             *)
LEMMA AnsweredFacts ==
  ASSUME TypeOK, NEW s \in Sides, NEW v \in BOOLEAN
  PROVE /\ Answered(s, v) \in Nat
        /\ resp[s] = 0 => Answered(s, v) = 0
        /\ resp[s] = 1 => Answered(s, v) = 0
        /\ resp[s] > 0 /\ state[s] # v => Answered(s, v) = resp[s] - 1
        /\ resp[s] > 1 /\ state[s] = v => Answered(s, v) = resp[s] - 2
<1>1. resp[s] \in Nat
  BY DEF TypeOK
<1>2. QED BY <1>1 DEF Answered

(* A side responds to its first message.                                   *)
LEMMA RespondFacts ==
  ASSUME TypeOK, NEW s \in Sides, inbox[s] # <<>>, NEW w \in BOOLEAN,
         NEW r \in Nat, NEW reply \in Seq(BOOLEAN), Respond(s, w, r, reply)
  PROVE LET p == Peer(s) IN
        /\ TypeOK' /\ state'[s] = inbox[s][1] /\ state'[p] = state[p]
        /\ want'[s] = w /\ want'[p] = want[p]
        /\ resp'[s] = r /\ resp'[p] = resp[p]
        /\ inbox'[s] = Tail(inbox[s]) /\ inbox'[p] = inbox[p] \o reply
        /\ UNCHANGED <<option, performer, starts>>
<1> DEFINE p == Peer(s)
<1>1. p \in Sides /\ p # s
  BY PeerFacts
<1>2. inbox[s] \in Seq(BOOLEAN) /\ inbox[p] \in Seq(BOOLEAN)
  BY <1>1 DEF TypeOK
<1>3. /\ Tail(inbox[s]) \in Seq(BOOLEAN) /\ Head(inbox[s]) = inbox[s][1]
      /\ inbox[s][1] \in BOOLEAN
  BY <1>2, TakeFacts
<1>4. inbox[p] \o reply \in Seq(BOOLEAN)
  BY <1>2
<1> HIDE DEF p
<1>5. /\ state' = [state EXCEPT ![s] = inbox[s][1]]
      /\ want' = [want EXCEPT ![s] = w] /\ resp' = [resp EXCEPT ![s] = r]
      /\ inbox' = [inbox EXCEPT ![s] = Tail(inbox[s]), ![p] = inbox[p] \o reply]
      /\ UNCHANGED <<option, performer, starts>>
  <2>1. inbox' = [inbox EXCEPT ![s] = Tail(@), ![p] = @ \o reply]
    BY DEF Respond, p
  <2>2. [inbox EXCEPT ![s] = Tail(@)][p] = inbox[p]
    BY <1>1 DEF TypeOK
  <2>3. inbox' = [inbox EXCEPT ![s] = Tail(inbox[s]), ![p] = inbox[p] \o reply]
    BY <1>1, <2>1, <2>2 DEF TypeOK
  <2>4. QED BY <1>3, <2>3 DEF Respond
<1>6. /\ inbox' \in [Sides -> Seq(BOOLEAN)]
      /\ inbox'[s] = Tail(inbox[s]) /\ inbox'[p] = inbox[p] \o reply
  BY <1>1, <1>3, <1>4, <1>5 DEF TypeOK
<1>7. /\ state' \in [Sides -> BOOLEAN]
      /\ state'[s] = inbox[s][1] /\ state'[p] = state[p]
  BY <1>1, <1>3, <1>5 DEF TypeOK
<1>8. want' \in [Sides -> BOOLEAN] /\ want'[s] = w /\ want'[p] = want[p]
  BY <1>1, <1>5 DEF TypeOK
<1>9. resp' \in [Sides -> Nat] /\ resp'[s] = r /\ resp'[p] = resp[p]
  BY <1>1, <1>5 DEF TypeOK
<1>10. TypeOK'
  BY <1>5, <1>6, <1>7, <1>8, <1>9 DEF TypeOK
<1>11. QED BY <1>5, <1>6, <1>7, <1>8, <1>9, <1>10 DEF p

(* A side asks for a change: for what it does not want so far.             *)
LEMMA AskFacts ==
  ASSUME TypeOK, NEW s \in Sides, NEW v \in BOOLEAN, Ask(s, v)
  PROVE LET p == Peer(s) IN
        /\ TypeOK' /\ state' = state /\ v = ~want[s]
        /\ want'[s] = v /\ want'[p] = want[p]
        /\ resp'[s] = resp[s] + 1 /\ resp'[p] = resp[p]
        /\ inbox'[s] = inbox[s] /\ inbox'[p] = inbox[p] \o <<v>>
        /\ starts'[s] = starts[s] + 1 /\ starts'[p] = starts[p]
        /\ UNCHANGED <<option, performer>>
<1> DEFINE p == Peer(s)
<1>1. p \in Sides /\ p # s
  BY PeerFacts
<1>2. inbox[p] \in Seq(BOOLEAN)
  BY <1>1 DEF TypeOK
<1>3. inbox[p] \o <<v>> \in Seq(BOOLEAN) /\ Append(inbox[p], v) = inbox[p] \o <<v>>
  BY <1>2, SendFacts
<1>4. /\ inbox' = [inbox EXCEPT ![p] = inbox[p] \o <<v>>]
      /\ want' = [want EXCEPT ![s] = v] /\ want[s] # v
      /\ resp' = [resp EXCEPT ![s] = @ + 1]
      /\ starts' = [starts EXCEPT ![s] = @ + 1]
      /\ UNCHANGED <<option, performer, state>>
  BY <1>3 DEF Ask
<1> HIDE DEF p
<1>5. /\ inbox' \in [Sides -> Seq(BOOLEAN)]
      /\ inbox'[s] = inbox[s] /\ inbox'[p] = inbox[p] \o <<v>>
  BY <1>1, <1>3, <1>4 DEF TypeOK
<1>6. want' \in [Sides -> BOOLEAN] /\ want'[s] = v /\ want'[p] = want[p]
  BY <1>1, <1>4 DEF TypeOK
<1>7. resp' \in [Sides -> Nat] /\ resp'[s] = resp[s] + 1 /\ resp'[p] = resp[p]
  BY <1>1, <1>4 DEF TypeOK
<1>8. /\ starts' \in [Sides -> Nat] /\ starts'[s] = starts[s] + 1
      /\ starts'[p] = starts[p]
  BY <1>1, <1>4 DEF TypeOK
<1>9. TypeOK'
  BY <1>4, <1>5, <1>6, <1>7, <1>8 DEF TypeOK
<1>10. v = ~want[s]
  <2>1. want[s] \in BOOLEAN
    BY DEF TypeOK
  <2>2. QED BY <1>4, <2>1
<1>11. QED BY <1>4, <1>5, <1>6, <1>7, <1>8, <1>9, <1>10 DEF p

(* Every step is one of a side: a request, or one of the responses.        *)
EchoOff ==
  /\ option = "ECHO" /\ performer = "client"
  /\ inbox["server"] # <<>> /\ Head(inbox["server"])
  /\ want["server"] /\ state["server"]
  /\ Respond("server", FALSE, 1, <<FALSE>>)

(* The handlers of both programs are Positive and Negative.                *)
LEMMA StepCases ==
  ASSUME Next
  PROVE \/ EchoOff
        \/ \E s \in Sides : \/ \E v \in BOOLEAN : Ask(s, v)
                            \/ Positive(s, Accepts(s)) \/ Negative(s)
<1>1. "client" \in Sides /\ "server" \in Sides
  BY DEF Sides
<1>2. CASE ClientSend \/ ServerSend
  BY <1>1, <1>2 DEF ClientSend, ServerSend
<1>3. CASE Client
  <2>1. Positive("client", ClientAccepts) \/ Negative("client")
    BY <1>3 DEF Client, ClientWill, ClientWont, ClientDo, ClientDont
  <2>2. Accepts("client") = ClientAccepts
    BY DEF Accepts
  <2>3. QED BY <1>1, <2>1, <2>2
<1>4. CASE Server
  <2>1. EchoOff \/ Positive("server", ServerAccepts) \/ Negative("server")
    BY <1>4 DEF Server, ServerWill, ServerWont, ServerDo, ServerDont, EchoOff
  <2>2. Accepts("server") = ServerAccepts
    BY DEF Accepts
  <2>3. QED BY <1>1, <2>1, <2>2
<1>5. QED BY <1>2, <1>3, <1>4 DEF Next

-----------------------------------------------------------------------------
(* Options both sides support.                                             *)

(* What the first message is, and what is left.                            *)
LEMMA AlternateFirst ==
  ASSUME TypeOK, Alternate, NEW s \in Sides, inbox[s] # <<>>
  PROVE inbox[s][1] = ~state[s]
<1>1. inbox[s] \in Seq(BOOLEAN) /\ state[s] \in BOOLEAN
  BY DEF TypeOK
<1>2. 1 \in 1..Len(inbox[s])
  BY <1>1
<1>3. inbox[s][1] = Flip(state[s], 1)
  BY <1>2 DEF Alternate, Alternates
<1>4. Flip(state[s], 1) = ~state[s]
  BY <1>1, FlipFacts
<1>5. QED BY <1>3, <1>4

(* A message that comes in settles a request, or is answered by a change   *)
(* of what the side wants.                                                 *)
LEMMA SupportedReceive ==
  ASSUME TypeOK, Supported, Alternate, Unsettled, NEW s \in Sides,
         Positive(s, Accepts(s)) \/ Negative(s)
  PROVE /\ inbox[s] # <<>>
        /\ \/ resp[s] > 0 /\ Respond(s, want[s], resp[s] - 1, <<>>)
           \/ \E u \in BOOLEAN : /\ u = ~want[s] /\ resp[s] = 0
                                 /\ Respond(s, u, 0, <<u>>)
<1> DEFINE v == Head(inbox[s])
           r == Answered(s, v)
           Settle == Respond(s, want[s], r, <<>>)
           Agree == Respond(s, TRUE, 0, <<TRUE>>)
           GiveUp == Respond(s, FALSE, 0, <<FALSE>>)
<1>1. inbox[s] # <<>>
  BY DEF Positive, Negative
<1>2. /\ inbox[s] \in Seq(BOOLEAN) /\ state[s] \in BOOLEAN
      /\ want[s] \in BOOLEAN /\ resp[s] \in Nat
  BY DEF TypeOK
<1>3. v = ~state[s]
  <2>1. v = inbox[s][1]
    BY <1>1, <1>2, TakeFacts
  <2>2. QED BY <1>1, <2>1, AlternateFirst
<1>4. want[s] = Flip(state[s], resp[s])
  BY DEF Unsettled
<1>5. resp[s] = 0 => want[s] = state[s]
  BY <1>2, <1>4, FlipFacts
<1>6. resp[s] = 1 => want[s] = ~state[s]
  BY <1>2, <1>4, FlipFacts
<1>7. v \in BOOLEAN /\ state[s] # v
  BY <1>2, <1>3
<1>8. /\ resp[s] = 0 => r = 0
      /\ resp[s] > 0 => r = resp[s] - 1
  BY <1>7, AnsweredFacts
<1>9. Accepts(s)
  BY DEF Supported, Sides
<1>10. CASE Positive(s, Accepts(s))
  <2>1. v = TRUE /\ state[s] = FALSE
    BY <1>2, <1>3, <1>7, <1>10 DEF Positive
  <2>2. \/ (r > 0 \/ want[s]) /\ Settle
        \/ r = 0 /\ ~want[s] /\ Agree
    BY <1>9, <1>10, <2>1 DEF Positive
  <2> HIDE DEF v, r, Settle, Agree
  <2>3. CASE resp[s] = 0
    <3>1. r = 0 /\ want[s] = FALSE
      BY <1>5, <1>8, <2>1, <2>3
    <3>2. Agree
      BY <2>2, <3>1
    <3>3. TRUE = ~want[s]
      BY <3>1
    <3>4. QED BY <1>1, <2>3, <3>2, <3>3 DEF Agree
  <2>4. CASE resp[s] > 0
    <3>1. r = resp[s] - 1
      BY <1>8, <2>4
    <3>2. r > 0 \/ want[s]
      BY <1>2, <1>6, <2>1, <2>4, <3>1
    <3>3. Settle
      BY <2>2, <3>2
    <3>4. QED BY <1>1, <2>4, <3>1, <3>3 DEF Settle
  <2>5. resp[s] = 0 \/ resp[s] > 0
    BY <1>2
  <2>6. QED BY <2>3, <2>4, <2>5
<1>11. CASE Negative(s)
  <2>1. v = FALSE /\ state[s] = TRUE
    BY <1>2, <1>3, <1>7, <1>11 DEF Negative
  <2>2. IF r = 0 /\ want[s] THEN GiveUp ELSE Settle
    BY <1>11, <2>1 DEF Negative
  <2> HIDE DEF v, r, Settle, GiveUp
  <2>3. CASE resp[s] = 0
    <3>1. r = 0 /\ want[s] = TRUE
      BY <1>5, <1>8, <2>1, <2>3
    <3>2. GiveUp
      BY <2>2, <3>1
    <3>3. FALSE = ~want[s]
      BY <3>1
    <3>4. QED BY <1>1, <2>3, <3>2, <3>3 DEF GiveUp
  <2>4. CASE resp[s] > 0
    <3>1. r = resp[s] - 1
      BY <1>8, <2>4
    <3>2. ~(r = 0 /\ want[s])
      BY <1>2, <1>6, <2>1, <2>4, <3>1
    <3>3. Settle
      BY <2>2, <3>2
    <3>4. QED BY <1>1, <2>4, <3>1, <3>3 DEF Settle
  <2>5. resp[s] = 0 \/ resp[s] > 0
    BY <1>2
  <2>6. QED BY <2>3, <2>4, <2>5
<1>12. QED BY <1>10, <1>11

(* The next change is sent.                                                *)
LEMMA AlternatesSend ==
  ASSUME NEW q \in Seq(BOOLEAN), NEW b \in BOOLEAN, NEW w \in BOOLEAN,
         Alternates(q, b, w), NEW u \in BOOLEAN, u = ~w
  PROVE Alternates(q \o <<u>>, b, u)
<1> DEFINE n == Len(q)
           m == q \o <<u>>
<1>1. n \in Nat
  OBVIOUS
<1>2. /\ Len(m) = n + 1 /\ \A i \in 1..n : m[i] = q[i]
      /\ m[n + 1] = u
  BY <1>1, SendFacts
<1>3. w = Flip(b, n) /\ \A i \in 1..n : q[i] = Flip(b, i)
  BY DEF Alternates
<1>4. Flip(b, n + 1) = ~Flip(b, n)
  BY <1>1, FlipFacts
<1>5. u = Flip(b, n + 1)
  BY <1>3, <1>4
<1> HIDE DEF m, n
<1>6. ASSUME NEW i \in 1..(n + 1) PROVE m[i] = Flip(b, i)
  <2>1. CASE i = n + 1
    BY <1>2, <1>5, <2>1
  <2>2. CASE i # n + 1
    <3>1. i \in 1..n
      BY <1>1, <2>2
    <3>2. QED BY <1>2, <1>3, <3>1
  <2>3. QED BY <2>1, <2>2
<1>7. Alternates(m, b, u)
  BY <1>2, <1>5, <1>6 DEF Alternates
<1>8. QED BY <1>7 DEF m

(* The first one is received.                                              *)
LEMMA AlternatesTake ==
  ASSUME NEW q \in Seq(BOOLEAN), q # <<>>, NEW b \in BOOLEAN,
         NEW w \in BOOLEAN, Alternates(q, b, w)
  PROVE Alternates(Tail(q), ~b, w)
<1> DEFINE n == Len(q)
           m == Tail(q)
<1>1. n \in Nat /\ n >= 1 /\ Len(m) = n - 1 /\ \A i \in 1..(n - 1) : m[i] = q[i + 1]
  BY TakeFacts
<1>2. w = Flip(b, n) /\ \A i \in 1..n : q[i] = Flip(b, i)
  BY DEF Alternates
<1> HIDE DEF m, n
<1>3. ASSUME NEW k \in Nat PROVE Flip(~b, k) = Flip(b, k + 1)
  <2>1. Flip(b, k + 1) = ~Flip(b, k) /\ Flip(~b, k) = ~Flip(b, k)
    BY FlipFacts
  <2>2. QED BY <2>1
<1>4. w = Flip(~b, n - 1)
  <2>1. n - 1 \in Nat /\ (n - 1) + 1 = n
    BY <1>1
  <2>2. Flip(~b, n - 1) = Flip(b, (n - 1) + 1)
    BY <1>3, <2>1
  <2>3. QED BY <1>2, <2>1, <2>2
<1>5. ASSUME NEW i \in 1..(n - 1) PROVE m[i] = Flip(~b, i)
  <2>1. i \in Nat /\ i + 1 \in 1..n
    BY <1>1
  <2>2. m[i] = Flip(b, i + 1)
    BY <1>1, <1>2, <2>1
  <2>3. QED BY <1>3, <2>1, <2>2
<1>6. QED BY <1>1, <1>4, <1>5 DEF Alternates, m

(* Alternate in these words.                                               *)
LEMMA AlternateIs ==
  ASSUME NEW s \in Sides
  PROVE /\ Alternate <=>
             /\ Alternates(inbox[s], state[s], want[Peer(s)])
             /\ Alternates(inbox[Peer(s)], state[Peer(s)], want[s])
        /\ Unsettled <=> /\ want[s] = Flip(state[s], resp[s])
                         /\ want[Peer(s)] = Flip(state[Peer(s)], resp[Peer(s)])
<1>1. Sides = {s, Peer(s)} /\ Peer(Peer(s)) = s
  BY PeerFacts
<1>2. QED BY <1>1 DEF Alternate, Alternates, Unsettled

(* Counted for a side and its peer.                                        *)
LEMMA CountedIs ==
  ASSUME TypeOK, NEW s \in Sides
  PROVE Counted <=> resp[s] + resp[Peer(s)] = Len(inbox[s]) + Len(inbox[Peer(s)])
<1>1. "client" \in Sides /\ "server" \in Sides
  BY DEF Sides
<1>2. /\ resp["client"] \in Nat /\ resp["server"] \in Nat
      /\ inbox["client"] \in Seq(BOOLEAN) /\ inbox["server"] \in Seq(BOOLEAN)
  BY <1>1 DEF TypeOK
<1>3. Len(inbox["client"]) \in Nat /\ Len(inbox["server"]) \in Nat
  BY <1>2
<1>4. CASE s = "client"
  BY <1>4 DEF Counted, Peer
<1>5. CASE s = "server"
  <2>1. Peer(s) = "client"
    BY <1>5 DEF Peer
  <2>2. resp["client"] + resp["server"] = resp["server"] + resp["client"]
    BY <1>2
  <2>3. Len(inbox["client"]) + Len(inbox["server"]) =
          Len(inbox["server"]) + Len(inbox["client"])
    <3>1. \A a, b \in Nat : a + b = b + a
      OBVIOUS
    <3>2. QED BY <1>3, <3>1, Zenon
  <2>4. QED BY <1>5, <2>1, <2>2, <2>3 DEF Counted
<1>6. QED BY <1>4, <1>5 DEF Sides

(* The same after a step.                                                  *)
LEMMA CountedNext ==
  ASSUME TypeOK', NEW s \in Sides
  PROVE Counted' <=>
          resp'[s] + resp'[Peer(s)] = Len(inbox'[s]) + Len(inbox'[Peer(s)])
<1>1. "client" \in Sides /\ "server" \in Sides
  BY DEF Sides
<1>2. /\ resp'["client"] \in Nat /\ resp'["server"] \in Nat
      /\ inbox'["client"] \in Seq(BOOLEAN) /\ inbox'["server"] \in Seq(BOOLEAN)
  BY <1>1 DEF TypeOK
<1>3. Len(inbox'["client"]) \in Nat /\ Len(inbox'["server"]) \in Nat
  BY <1>2
<1>4. CASE s = "client"
  BY <1>4 DEF Counted, Peer
<1>5. CASE s = "server"
  <2>1. Peer(s) = "client"
    BY <1>5 DEF Peer
  <2>2. resp'["client"] + resp'["server"] = resp'["server"] + resp'["client"]
    BY <1>2
  <2>3. Len(inbox'["client"]) + Len(inbox'["server"]) =
          Len(inbox'["server"]) + Len(inbox'["client"])
    <3>1. \A a, b \in Nat : a + b = b + a
      OBVIOUS
    <3>2. QED BY <1>3, <3>1, Zenon
  <2>4. QED BY <1>5, <2>1, <2>2, <2>3 DEF Counted
<1>6. QED BY <1>4, <1>5 DEF Sides

(* A side asks for a change of an option both support.                     *)
LEMMA AgreeAsk ==
  ASSUME TypeOK, Alternate, Unsettled, Counted,
         NEW s \in Sides, NEW v \in BOOLEAN, Ask(s, v)
  PROVE Alternate' /\ Unsettled' /\ Counted'
<1> DEFINE p == Peer(s)
<1>1. /\ TypeOK' /\ state' = state /\ v = ~want[s]
      /\ want'[s] = v /\ want'[p] = want[p]
      /\ resp'[s] = resp[s] + 1 /\ resp'[p] = resp[p]
      /\ inbox'[s] = inbox[s] /\ inbox'[p] = inbox[p] \o <<v>>
  BY AskFacts
<1>2. p \in Sides
  BY PeerFacts
<1>3. /\ state[s] \in BOOLEAN /\ state[p] \in BOOLEAN
      /\ want[s] \in BOOLEAN /\ want[p] \in BOOLEAN
      /\ resp[s] \in Nat /\ resp[p] \in Nat
      /\ inbox[s] \in Seq(BOOLEAN) /\ inbox[p] \in Seq(BOOLEAN)
  BY <1>2 DEF TypeOK
<1>4. /\ Alternates(inbox[s], state[s], want[p])
      /\ Alternates(inbox[p], state[p], want[s])
      /\ want[s] = Flip(state[s], resp[s]) /\ want[p] = Flip(state[p], resp[p])
  BY AlternateIs
<1>5. resp[s] + resp[p] = Len(inbox[s]) + Len(inbox[p])
  BY CountedIs
<1>6. Alternates(inbox'[p], state[p], v)
  BY <1>1, <1>3, <1>4, AlternatesSend
<1>7. v = Flip(state[s], resp[s] + 1)
  <2>1. Flip(state[s], resp[s] + 1) = ~Flip(state[s], resp[s])
    BY <1>3, FlipFacts
  <2>2. QED BY <1>1, <1>4, <2>1
<1>8. Alternate' /\ Unsettled'
  <2>1. /\ Alternates(inbox'[s], state'[s], want'[p])
        /\ Alternates(inbox'[p], state'[p], want'[s])
        /\ want'[s] = Flip(state'[s], resp'[s])
        /\ want'[p] = Flip(state'[p], resp'[p])
    BY <1>1, <1>4, <1>6, <1>7
  <2>2. Sides = {s, p} /\ Peer(p) = s
    BY PeerFacts
  <2>3. QED BY <2>1, <2>2 DEF Alternate, Alternates, Unsettled
<1>9. Counted'
  <2>1. Len(inbox'[p]) = Len(inbox[p]) + 1
    BY <1>1, <1>3, SendFacts
  <2>2. Len(inbox[s]) \in Nat /\ Len(inbox[p]) \in Nat
    BY <1>3
  <2>3. PICK a, b, c, d \in Nat : /\ a = resp[s] /\ b = resp[p]
                                  /\ c = Len(inbox[s]) /\ d = Len(inbox[p])
    BY <1>3, <2>2
  <2>4. a + b = c + d
    BY <1>5, <2>3
  <2>5. (a + 1) + b = c + (d + 1)
    BY <2>4
  <2>6. resp'[s] + resp'[p] = Len(inbox'[s]) + Len(inbox'[p])
    BY <1>1, <2>1, <2>3, <2>5
  <2>7. QED BY <1>1, <2>6, CountedNext
<1>10. QED BY <1>8, <1>9

(* A message comes in.                                                     *)
LEMMA AgreeReceive ==
  ASSUME TypeOK, Supported, Alternate, Unsettled, Counted, NEW s \in Sides,
         Positive(s, Accepts(s)) \/ Negative(s)
  PROVE TypeOK' /\ Alternate' /\ Unsettled' /\ Counted'
<1> DEFINE p == Peer(s)
<1>1. p \in Sides /\ Sides = {s, p} /\ Peer(p) = s
  BY PeerFacts
<1>2. /\ state[s] \in BOOLEAN /\ state[p] \in BOOLEAN
      /\ want[s] \in BOOLEAN /\ want[p] \in BOOLEAN
      /\ resp[s] \in Nat /\ resp[p] \in Nat
      /\ inbox[s] \in Seq(BOOLEAN) /\ inbox[p] \in Seq(BOOLEAN)
  BY <1>1 DEF TypeOK
<1>3. /\ Alternates(inbox[s], state[s], want[p])
      /\ Alternates(inbox[p], state[p], want[s])
      /\ want[s] = Flip(state[s], resp[s]) /\ want[p] = Flip(state[p], resp[p])
  BY AlternateIs
<1>4. resp[s] + resp[p] = Len(inbox[s]) + Len(inbox[p])
  BY CountedIs
<1>5. inbox[s] # <<>>
  BY SupportedReceive
<1>6. inbox[s][1] = ~state[s]
  BY <1>5, AlternateFirst
<1>7. Alternates(Tail(inbox[s]), ~state[s], want[p])
  BY <1>2, <1>3, <1>5, AlternatesTake
<1>8. /\ Len(Tail(inbox[s])) = Len(inbox[s]) - 1 /\ Len(inbox[s]) \in Nat
      /\ Len(inbox[s]) >= 1 /\ Len(inbox[p]) \in Nat
  BY <1>2, <1>5, TakeFacts
<1>9. CASE resp[s] > 0 /\ Respond(s, want[s], resp[s] - 1, <<>>)
  <2>1. resp[s] - 1 \in Nat /\ <<>> \in Seq(BOOLEAN)
    BY <1>2, <1>9
  <2>2. /\ TypeOK' /\ state'[s] = inbox[s][1] /\ state'[p] = state[p]
        /\ want'[s] = want[s] /\ want'[p] = want[p]
        /\ resp'[s] = resp[s] - 1 /\ resp'[p] = resp[p]
        /\ inbox'[s] = Tail(inbox[s]) /\ inbox'[p] = inbox[p] \o <<>>
    <3> DEFINE r == resp[s] - 1
               none == <<>>
               w == want[s]
    <3>1. Respond(s, w, r, none) /\ r \in Nat /\ none \in Seq(BOOLEAN)
      BY <1>9, <2>1
    <3>2. w \in BOOLEAN
      BY <1>2
    <3> HIDE DEF r, none, w
    <3>3. /\ TypeOK' /\ state'[s] = inbox[s][1] /\ state'[p] = state[p]
          /\ want'[s] = w /\ want'[p] = want[p]
          /\ resp'[s] = r /\ resp'[p] = resp[p]
          /\ inbox'[s] = Tail(inbox[s]) /\ inbox'[p] = inbox[p] \o none
      BY <1>5, <3>1, <3>2, RespondFacts
    <3>4. QED BY <3>3 DEF r, none, w
  <2>3. inbox[p] \o <<>> = inbox[p]
    BY <1>2
  <2>4. want[s] = Flip(~state[s], resp[s] - 1)
    <3>1. Flip(~state[s], resp[s] - 1) = ~Flip(state[s], resp[s] - 1)
      BY <1>2, <2>1, FlipFacts
    <3>2. Flip(state[s], (resp[s] - 1) + 1) = ~Flip(state[s], resp[s] - 1)
      BY <1>2, <2>1, FlipFacts
    <3>3. (resp[s] - 1) + 1 = resp[s]
      BY <1>2
    <3>4. QED BY <1>3, <3>1, <3>2, <3>3
  <2>5. /\ Alternates(inbox'[s], state'[s], want'[p])
        /\ Alternates(inbox'[p], state'[p], want'[s])
        /\ want'[s] = Flip(state'[s], resp'[s])
        /\ want'[p] = Flip(state'[p], resp'[p])
    BY <1>3, <1>6, <1>7, <2>2, <2>3, <2>4
  <2>6. Alternate' /\ Unsettled'
    BY <1>1, <2>5 DEF Alternate, Alternates, Unsettled
  <2>7. Counted'
    <3>1. PICK a, b, c, d \in Nat : /\ a = resp[s] /\ b = resp[p]
                                    /\ c = Len(inbox[s]) /\ d = Len(inbox[p])
      BY <1>2, <1>8
    <3>2. a + b = c + d
      BY <1>4, <3>1
    <3>3. (a - 1) + b = (c - 1) + d
      BY <3>2
    <3>4. resp'[s] + resp'[p] = Len(inbox'[s]) + Len(inbox'[p])
      BY <1>8, <2>2, <2>3, <3>1, <3>3
    <3>5. QED BY <2>2, <3>4, CountedNext
  <2>8. QED BY <2>2, <2>6, <2>7
<1>10. ASSUME NEW u \in BOOLEAN, u = ~want[s], resp[s] = 0,
              Respond(s, u, 0, <<u>>)
       PROVE TypeOK' /\ Alternate' /\ Unsettled' /\ Counted'
  <2>1. 0 \in Nat /\ <<u>> \in Seq(BOOLEAN)
    OBVIOUS
  <2>2. /\ TypeOK' /\ state'[s] = inbox[s][1] /\ state'[p] = state[p]
        /\ want'[s] = u /\ want'[p] = want[p]
        /\ resp'[s] = 0 /\ resp'[p] = resp[p]
        /\ inbox'[s] = Tail(inbox[s]) /\ inbox'[p] = inbox[p] \o <<u>>
    <3> DEFINE r == 0
               one == <<u>>
    <3>1. Respond(s, u, r, one) /\ r \in Nat /\ one \in Seq(BOOLEAN)
      BY <1>10, <2>1
    <3> HIDE DEF r, one
    <3>2. /\ TypeOK' /\ state'[s] = inbox[s][1] /\ state'[p] = state[p]
          /\ want'[s] = u /\ want'[p] = want[p]
          /\ resp'[s] = r /\ resp'[p] = resp[p]
          /\ inbox'[s] = Tail(inbox[s]) /\ inbox'[p] = inbox[p] \o one
      BY <1>5, <3>1, RespondFacts
    <3>3. QED BY <3>2 DEF r, one
  <2>3. Alternates(inbox[p] \o <<u>>, state[p], u)
    BY <1>2, <1>3, <1>10, AlternatesSend
  <2>4. u = Flip(~state[s], 0)
    <3>1. Flip(~state[s], 0) = ~state[s] /\ Flip(state[s], 0) = state[s]
      BY <1>2, FlipFacts
    <3>2. QED BY <1>3, <1>10, <3>1
  <2>5. /\ Alternates(inbox'[s], state'[s], want'[p])
        /\ Alternates(inbox'[p], state'[p], want'[s])
        /\ want'[s] = Flip(state'[s], resp'[s])
        /\ want'[p] = Flip(state'[p], resp'[p])
    BY <1>3, <1>6, <1>7, <2>2, <2>3, <2>4
  <2>6. Alternate' /\ Unsettled'
    BY <1>1, <2>5 DEF Alternate, Alternates, Unsettled
  <2>7. Counted'
    <3>1. Len(inbox[p] \o <<u>>) = Len(inbox[p]) + 1
      BY <1>2, SendFacts
    <3>2. PICK a, b, c, d \in Nat : /\ a = resp[s] /\ b = resp[p]
                                    /\ c = Len(inbox[s]) /\ d = Len(inbox[p])
      BY <1>2, <1>8
    <3>3. a + b = c + d
      BY <1>4, <3>2
    <3>4. a + b = (c - 1) + (d + 1)
      BY <3>3
    <3>5. resp'[s] + resp'[p] = Len(inbox'[s]) + Len(inbox'[p])
      BY <1>8, <1>10, <2>2, <3>1, <3>2, <3>4
    <3>6. QED BY <2>2, <3>5, CountedNext
  <2>8. QED BY <2>2, <2>6, <2>7
<1>11. QED BY <1>9, <1>10, SupportedReceive

(* The invariant gives agreement once the wire is quiet.                   *)
LEMMA AgreeDone ==
  ASSUME TypeOK, AgreeInv
  PROVE AgreedWhenSupported
<1> SUFFICES ASSUME Quiet, Supported, NEW s \in Sides
             PROVE /\ state[s] = state[Peer(s)]
                   /\ want[s] = state[s] /\ resp[s] = 0
  BY DEF AgreedWhenSupported, Supported
<1> DEFINE p == Peer(s)
<1>1. p \in Sides
  BY PeerFacts
<1>2. /\ state[s] \in BOOLEAN /\ state[p] \in BOOLEAN
      /\ resp[s] \in Nat /\ resp[p] \in Nat
  BY <1>1 DEF TypeOK
<1>3. /\ Alternates(inbox[s], state[s], want[p])
      /\ Alternates(inbox[p], state[p], want[s])
      /\ want[s] = Flip(state[s], resp[s]) /\ want[p] = Flip(state[p], resp[p])
  BY AlternateIs DEF AgreeInv
<1>4. inbox[s] = <<>> /\ inbox[p] = <<>>
  BY <1>1 DEF Quiet
<1>5. Len(inbox[s]) = 0 /\ Len(inbox[p]) = 0
  BY <1>4
<1>6. resp[s] + resp[p] = 0 + 0
  BY <1>5, CountedIs DEF AgreeInv
<1>7. resp[s] = 0 /\ resp[p] = 0
  BY <1>2, <1>6
<1>8. want[p] = Flip(state[s], 0) /\ want[s] = Flip(state[p], 0)
  BY <1>3, <1>5 DEF Alternates
<1>9. Flip(state[s], 0) = state[s] /\ Flip(state[p], 0) = state[p]
  BY <1>2, FlipFacts
<1>10. QED BY <1>3, <1>7, <1>8, <1>9

-----------------------------------------------------------------------------
(* An option one side refuses.                                             *)

(* The first of the messages that end with w is taken.                     *)
LEMMA InOrderTake ==
  ASSUME NEW q \in Seq(BOOLEAN), q # <<>>, NEW w \in BOOLEAN, InOrder(q, w)
  PROVE /\ InOrder(Tail(q), w)
        /\ Len(q) > 1 => Tail(q)[1] = ~q[1]
<1> DEFINE n == Len(q)
           m == Tail(q)
<1>1. n \in Nat /\ n >= 1 /\ Len(m) = n - 1 /\ \A i \in 1..(n - 1) : m[i] = q[i + 1]
  BY TakeFacts
<1>2. \A i \in 1..n : q[i] = Flip(w, n - i)
  BY DEF InOrder
<1> HIDE DEF m, n
<1>3. ASSUME NEW i \in 1..(n - 1) PROVE m[i] = Flip(w, (n - 1) - i)
  <2>1. i + 1 \in 1..n /\ n - (i + 1) = (n - 1) - i
    BY <1>1
  <2>2. m[i] = q[i + 1]
    BY <1>1
  <2>3. QED BY <1>2, <2>1, <2>2
<1>4. InOrder(m, w)
  BY <1>1, <1>3 DEF InOrder
<1>5. ASSUME n > 1 PROVE m[1] = ~q[1]
  <2>1. 1 \in 1..(n - 1) /\ n - 2 \in Nat /\ 1 \in 1..n /\ n - 1 = (n - 2) + 1
    BY <1>1, <1>5
  <2>2. m[1] = Flip(w, n - 2)
    <3>1. (n - 1) - 1 = n - 2
      BY <1>1
    <3>2. m[1] = Flip(w, (n - 1) - 1)
      BY <1>3, <2>1
    <3>3. QED BY <3>1, <3>2
  <2>3. q[1] = Flip(w, (n - 2) + 1)
    BY <1>2, <2>1
  <2>4. Flip(w, (n - 2) + 1) = ~Flip(w, n - 2) /\ Flip(w, n - 2) \in BOOLEAN
    BY <2>1, FlipFacts
  <2>5. QED BY <2>2, <2>3, <2>4
<1>6. QED BY <1>4, <1>5 DEF m, n

(* One more change is sent.                                                *)
LEMMA InOrderSend ==
  ASSUME NEW q \in Seq(BOOLEAN), NEW w \in BOOLEAN, InOrder(q, w),
         NEW u \in BOOLEAN, u = ~w
  PROVE InOrder(q \o <<u>>, u)
<1> DEFINE n == Len(q)
           m == q \o <<u>>
<1>1. n \in Nat
  OBVIOUS
<1>2. /\ Len(m) = n + 1 /\ \A i \in 1..n : m[i] = q[i]
      /\ m[n + 1] = u
  BY SendFacts
<1>3. \A i \in 1..n : q[i] = Flip(w, n - i)
  BY DEF InOrder
<1> HIDE DEF m, n
<1>4. ASSUME NEW i \in 1..(n + 1) PROVE m[i] = Flip(u, (n + 1) - i)
  <2>1. CASE i = n + 1
    <3>1. (n + 1) - i = 0
      BY <1>1, <2>1
    <3>2. Flip(u, 0) = u
      BY FlipFacts
    <3>3. m[i] = u
      BY <1>2, <2>1
    <3>4. QED BY <3>1, <3>2, <3>3
  <2>2. CASE i # n + 1
    <3>1. PICK k \in Nat : k = n - i
      BY <1>1, <2>2
    <3>2. i \in 1..n /\ (n + 1) - i = k + 1
      BY <1>1, <2>2, <3>1
    <3>3. m[i] = Flip(w, k)
      BY <1>2, <1>3, <3>1, <3>2
    <3>4. /\ Flip(u, k + 1) = ~Flip(u, k) /\ Flip(~w, k) = ~Flip(w, k)
          /\ Flip(w, k) \in BOOLEAN
      BY FlipFacts
    <3>5. Flip(u, k + 1) = Flip(w, k)
      BY <3>4
    <3>6. QED BY <3>2, <3>3, <3>5
  <2>3. QED BY <2>1, <2>2
<1>5. QED BY <1>2, <1>4 DEF InOrder, m

(* The side that refuses reads a request for the option, and refuses.      *)
LEMMA RefuseRead ==
  ASSUME TypeOK, NEW s \in Sides, RefuseOK(s), ~Accepts(s),
         Positive(s, Accepts(s)) \/ Negative(s)
  PROVE /\ inbox[s] # <<>>
        /\ \/ inbox[s][1] = TRUE /\ Respond(s, FALSE, 1, <<FALSE>>)
           \/ inbox[s][1] = FALSE /\ Respond(s, FALSE, 0, <<>>)
<1> DEFINE v == Head(inbox[s])
           r == Answered(s, v)
           Settle == Respond(s, want[s], r, <<>>)
           Agree == Respond(s, TRUE, 0, <<TRUE>>)
           Refuse == Respond(s, FALSE, 1, <<FALSE>>)
           Ignore == Respond(s, FALSE, 0, <<>>)
<1>1. inbox[s] # <<>>
  BY DEF Positive, Negative
<1>2. /\ inbox[s] \in Seq(BOOLEAN) /\ want[s] \in BOOLEAN /\ resp[s] \in Nat
  BY DEF TypeOK
<1>3. v = inbox[s][1] /\ v \in BOOLEAN
  BY <1>1, <1>2, TakeFacts
<1>4. want[s] = FALSE /\ (resp[s] = 0 \/ resp[s] = 1)
  BY <1>2 DEF RefuseOK, OnlyRefusals
<1>5. r = 0
  BY <1>3, <1>4, AnsweredFacts
<1>6. CASE Positive(s, Accepts(s))
  <2>1. v = TRUE
    BY <1>3, <1>6 DEF Positive
  <2>2. \/ (r > 0 \/ want[s]) /\ Settle
        \/ r = 0 /\ ~want[s] /\ Accepts(s) /\ Agree
        \/ r = 0 /\ ~want[s] /\ ~Accepts(s) /\ Refuse
    BY <1>6, <2>1 DEF Positive
  <2> HIDE DEF v, r, Settle, Agree, Refuse
  <2>3. Refuse
    BY <1>4, <1>5, <2>2
  <2>4. QED BY <1>1, <1>3, <2>1, <2>3 DEF Refuse
<1>7. CASE Negative(s)
  <2>1. v = FALSE
    BY <1>3, <1>7 DEF Negative
  <2>2. Respond(s, want[s], r, <<>>)
    BY <1>4, <1>5, <1>7, <2>1 DEF Negative
  <2> HIDE DEF v, r
  <2>3. Ignore
    BY <1>4, <1>5, <2>2
  <2>4. QED BY <1>1, <1>3, <2>1, <2>3
<1>8. QED BY <1>6, <1>7

(* It sends nothing but refusals, and the peer's requests stay in turn.    *)
LEMMA RefuseReadKeeps ==
  ASSUME TypeOK, NEW s \in Sides, RefuseOK(s), ~Accepts(s),
         Positive(s, Accepts(s)) \/ Negative(s)
  PROVE TypeOK' /\ RefuseOK(s)'
<1> DEFINE p == Peer(s)
           q == inbox[s]
<1>1. p \in Sides /\ p # s
  BY PeerFacts
<1>2. /\ q \in Seq(BOOLEAN) /\ inbox[p] \in Seq(BOOLEAN)
      /\ want[p] \in BOOLEAN /\ resp[p] \in Nat
  BY <1>1 DEF TypeOK
<1>3. q # <<>>
  BY RefuseRead
<1>4. PICK n \in Nat :
        /\ n = Len(q) /\ n >= 1 /\ Len(Tail(q)) = n - 1 /\ q[1] \in BOOLEAN
        /\ Tail(q) \in Seq(BOOLEAN)
  BY <1>2, <1>3, TakeFacts
<1>5. InOrder(Tail(q), want[p]) /\ (n > 1 => Tail(q)[1] = ~q[1])
  <2>1. InOrder(q, want[p])
    BY DEF RefuseOK, InTurn
  <2>2. QED BY <1>2, <1>3, <1>4, <2>1, InOrderTake
<1>6. /\ \A i \in 1..Len(inbox[p]) : inbox[p][i] = FALSE
      /\ ~state[p] /\ want[p] = Flip(FALSE, resp[p])
  BY DEF RefuseOK, OnlyRefusals
<1>7. PICK k \in Nat : k = Len(inbox[p])
  BY <1>2
<1>8. PICK a \in Nat : a = resp[p] /\ n = (a - 2 * k) + (IF q[1] THEN 0 ELSE 1)
  <2>1. n = (resp[p] - 2 * k) + (IF q[1] THEN 0 ELSE 1)
    BY <1>4, <1>7 DEF RefuseOK, Owed
  <2>2. QED BY <1>2, <2>1
<1>9. ASSUME NEW r \in {0, 1}, NEW reply \in Seq(BOOLEAN),
             Respond(s, FALSE, r, reply)
      PROVE /\ TypeOK' /\ want'[s] = FALSE /\ resp'[s] = r
            /\ state'[p] = state[p] /\ want'[p] = want[p] /\ resp'[p] = resp[p]
            /\ inbox'[s] = Tail(q) /\ inbox'[p] = inbox[p] \o reply
  <2> DEFINE no == FALSE
  <2>1. Respond(s, no, r, reply)
    BY <1>9
  <2>2. no \in BOOLEAN /\ r \in Nat
    OBVIOUS
  <2> HIDE DEF no
  <2>3. /\ TypeOK' /\ want'[s] = no /\ resp'[s] = r
        /\ state'[p] = state[p] /\ want'[p] = want[p] /\ resp'[p] = resp[p]
        /\ inbox'[s] = Tail(q) /\ inbox'[p] = inbox[p] \o reply
    BY <1>3, <2>1, <2>2, RespondFacts
  <2>4. QED BY <2>3 DEF no
<1>10. ASSUME NEW r \in {0, 1}, want'[s] = FALSE, resp'[s] = r,
              state'[p] = state[p], want'[p] = want[p], resp'[p] = resp[p],
              inbox'[s] = Tail(q),
              \A i \in 1..Len(inbox'[p]) : inbox'[p][i] = FALSE,
              NEW j \in Nat, j = Len(inbox'[p]),
              IF n = 1 THEN a - 2 * j = 0 \/ a - 2 * j = -1
              ELSE n - 1 = (a - 2 * j) + (IF q[1] THEN 1 ELSE 0)
       PROVE RefuseOK(s)'
  <2>1. OnlyRefusals(s)'
    BY <1>6, <1>10 DEF OnlyRefusals
  <2>2. InTurn(s)'
    BY <1>5, <1>10 DEF InTurn
  <2>3. Owed(s)'
    <3>1. Len(inbox'[s]) = n - 1
      BY <1>4, <1>10
    <3>2. CASE n = 1
      <4>1. Len(inbox'[s]) = 0
        BY <3>1, <3>2
      <4>2. a - 2 * j = 0 \/ a - 2 * j = -1
        BY <1>10, <3>2
      <4>3. resp'[p] - 2 * Len(inbox'[p]) = a - 2 * j
        BY <1>8, <1>10
      <4>4. QED BY <4>1, <4>2, <4>3 DEF Owed
    <3>3. CASE n > 1
      <4>1. inbox'[s][1] = ~q[1]
        BY <1>5, <1>10, <3>3
      <4>2. (IF inbox'[s][1] THEN 0 ELSE 1) = (IF q[1] THEN 1 ELSE 0)
        BY <1>4, <4>1
      <4>3. n # 1 /\ n - 1 # 0
        BY <3>3
      <4>4. n - 1 = (a - 2 * j) + (IF q[1] THEN 1 ELSE 0)
        BY <1>10, <4>3
      <4>5. resp'[p] - 2 * Len(inbox'[p]) = a - 2 * j
        BY <1>8, <1>10
      <4>6. QED BY <3>1, <4>2, <4>3, <4>4, <4>5 DEF Owed
    <3>4. n = 1 \/ n > 1
      <4>1. n >= 1
        BY <1>4
      <4>2. QED BY <4>1
    <3>5. QED BY <3>2, <3>3, <3>4
  <2>4. QED BY <2>1, <2>2, <2>3 DEF RefuseOK
<1>11. CASE q[1] = TRUE /\ Respond(s, FALSE, 1, <<FALSE>>)
  <2> DEFINE one == <<FALSE>>
             new == inbox[p] \o one
  <2>1. one \in Seq(BOOLEAN) /\ 1 \in {0, 1} /\ FALSE \in BOOLEAN
    OBVIOUS
  <2>2. /\ Len(new) = Len(inbox[p]) + 1
        /\ \A i \in 1..Len(inbox[p]) : new[i] = inbox[p][i]
        /\ new[Len(inbox[p]) + 1] = FALSE
    BY <1>2, <2>1, SendFacts
  <2>3. \A i \in 1..Len(new) : new[i] = FALSE
    <3>1. SUFFICES ASSUME NEW i \in 1..(k + 1) PROVE new[i] = FALSE
      BY <1>7, <2>2
    <3>2. i = k + 1 \/ i \in 1..k
      OBVIOUS
    <3> HIDE DEF new
    <3>3. QED BY <1>6, <1>7, <2>2, <3>2
  <2>4. Respond(s, FALSE, 1, one)
    BY <1>11
  <2> HIDE DEF one
  <2>5. /\ TypeOK' /\ want'[s] = FALSE /\ resp'[s] = 1
        /\ state'[p] = state[p] /\ want'[p] = want[p] /\ resp'[p] = resp[p]
        /\ inbox'[s] = Tail(q) /\ inbox'[p] = new
    BY <1>9, <2>1, <2>4
  <2> HIDE DEF new
  <2>6. Len(inbox'[p]) = k + 1
    BY <1>7, <2>2, <2>5
  <2>7. n = (a - 2 * k) + 0
    BY <1>8, <1>11
  <2>8. PICK j \in Nat : j = k + 1
    OBVIOUS
  <2>9. IF n = 1 THEN a - 2 * j = 0 \/ a - 2 * j = -1
        ELSE n - 1 = (a - 2 * j) + 1
    BY <2>7, <2>8
  <2>10. RefuseOK(s)'
    BY <1>10, <1>11, <2>3, <2>5, <2>6, <2>8, <2>9
  <2>11. QED BY <2>5, <2>10
<1>12. CASE q[1] = FALSE /\ Respond(s, FALSE, 0, <<>>)
  <2> DEFINE none == <<>>
  <2>1. none \in Seq(BOOLEAN) /\ 0 \in {0, 1} /\ inbox[p] \o none = inbox[p]
    BY <1>2
  <2>2. Respond(s, FALSE, 0, none)
    BY <1>12
  <2> HIDE DEF none
  <2>3. /\ TypeOK' /\ want'[s] = FALSE /\ resp'[s] = 0
        /\ state'[p] = state[p] /\ want'[p] = want[p] /\ resp'[p] = resp[p]
        /\ inbox'[s] = Tail(q) /\ inbox'[p] = inbox[p]
    BY <1>9, <2>1, <2>2
  <2>4. n = (a - 2 * k) + 1
    BY <1>8, <1>12
  <2>5. IF n = 1 THEN a - 2 * k = 0 \/ a - 2 * k = -1
        ELSE n - 1 = (a - 2 * k) + 0
    BY <2>4
  <2>6. RefuseOK(s)'
    BY <1>6, <1>7, <1>10, <1>12, <2>3, <2>5
  <2>7. QED BY <2>3, <2>6
<1>13. QED BY <1>11, <1>12, RefuseRead

(* Its peer asks for the option, or for its end.                           *)
LEMMA RefuseAsk ==
  ASSUME TypeOK, NEW s \in Sides, RefuseOK(s),
         NEW v \in BOOLEAN, Ask(Peer(s), v)
  PROVE RefuseOK(s)'
<1> DEFINE p == Peer(s)
           q == inbox[s]
           m == q \o <<v>>
<1>1. p \in Sides /\ p # s /\ Peer(p) = s
  BY PeerFacts
<1>2. /\ q \in Seq(BOOLEAN) /\ inbox[p] \in Seq(BOOLEAN)
      /\ want[p] \in BOOLEAN /\ resp[p] \in Nat
  BY <1>1 DEF TypeOK
<1>3. Ask(p, v)
  OBVIOUS
<1> HIDE DEF p
<1>4. /\ state' = state /\ v = ~want[p]
      /\ want'[p] = v /\ want'[s] = want[s]
      /\ resp'[p] = resp[p] + 1 /\ resp'[s] = resp[s]
      /\ inbox'[p] = inbox[p] /\ inbox'[s] = m
  BY <1>1, <1>3, AskFacts
<1>5. PICK n \in Nat :
        /\ n = Len(q) /\ Len(m) = n + 1 /\ m[n + 1] = v
        /\ \A i \in 1..n : m[i] = q[i]
  BY <1>2, SendFacts
<1>6. InOrder(m, v)
  <2>1. InOrder(q, want[p])
    BY DEF RefuseOK, InTurn, p
  <2>2. QED BY <1>2, <1>4, <2>1, InOrderSend
<1> HIDE DEF m
<1>7. /\ ~want[s] /\ resp[s] <= 1
      /\ \A i \in 1..Len(inbox[p]) : inbox[p][i] = FALSE
      /\ ~state[p] /\ want[p] = Flip(FALSE, resp[p])
  BY DEF RefuseOK, OnlyRefusals, p
<1>8. PICK k \in Nat, a \in Nat : k = Len(inbox[p]) /\ a = resp[p]
  BY <1>2
<1>9. v = Flip(FALSE, a + 1)
  <2>1. Flip(FALSE, a + 1) = ~Flip(FALSE, a)
    BY FlipFacts
  <2>2. QED BY <1>4, <1>7, <1>8, <2>1
<1>10. OnlyRefusals(s)'
  <2>1. Peer(s) = p
    BY DEF p
  <2>2. want'[p] = Flip(FALSE, resp'[p])
    BY <1>4, <1>8, <1>9
  <2>3. QED BY <1>4, <1>7, <2>1, <2>2 DEF OnlyRefusals
<1>11. InTurn(s)'
  BY <1>4, <1>6 DEF InTurn, p
<1>12. IF n = 0 THEN a - 2 * k = 0 \/ a - 2 * k = -1
       ELSE n = (a - 2 * k) + (IF q[1] THEN 0 ELSE 1)
  BY <1>5, <1>8 DEF RefuseOK, Owed, p
<1>13. n + 1 = ((a + 1) - 2 * k) + (IF m[1] THEN 0 ELSE 1)
  <2>1. CASE n = 0
    <3>1. m[1] = v
      BY <1>5, <2>1
    <3>2. CASE a - 2 * k = 0
      <4>1. (a + 1) % 2 # 0
        BY <3>2
      <4>2. v = TRUE
        BY <1>9, <4>1 DEF Flip
      <4>3. 0 + 1 = ((a + 1) - 2 * k) + 0
        BY <3>2
      <4>4. QED BY <2>1, <3>1, <4>2, <4>3
    <3>3. CASE a - 2 * k = -1
      <4>1. (a + 1) % 2 = 0
        BY <3>3
      <4>2. v = FALSE
        BY <1>9, <4>1 DEF Flip
      <4>3. 0 + 1 = ((a + 1) - 2 * k) + 1
        BY <3>3
      <4>4. QED BY <2>1, <3>1, <4>2, <4>3
    <3>4. QED BY <1>12, <2>1, <3>2, <3>3
  <2>2. CASE n # 0
    <3>1. 1 \in 1..n
      BY <2>2
    <3>2. m[1] = q[1]
      BY <1>5, <3>1
    <3>3. PICK f \in Nat : f = IF q[1] THEN 0 ELSE 1
      OBVIOUS
    <3>4. n = (a - 2 * k) + f
      BY <1>12, <2>2, <3>3
    <3>5. n + 1 = ((a + 1) - 2 * k) + f
      BY <3>4
    <3>6. QED BY <3>2, <3>3, <3>5
  <2>3. QED BY <2>1, <2>2
<1>14. Owed(s)'
  <2>1. /\ Len(inbox'[s]) = n + 1 /\ n + 1 # 0 /\ inbox'[s][1] = m[1]
        /\ resp'[p] - 2 * Len(inbox'[p]) = (a + 1) - 2 * k
    BY <1>4, <1>5, <1>8
  <2>2. Peer(s) = p
    BY DEF p
  <2>3. QED BY <1>13, <2>1, <2>2 DEF Owed
<1>15. QED BY <1>10, <1>11, <1>14 DEF RefuseOK

(* Its peer reads a refusal.                                               *)
LEMMA RefuseLearn ==
  ASSUME TypeOK, NEW s \in Sides, RefuseOK(s), NEW b,
         Positive(Peer(s), b) \/ Negative(Peer(s))
  PROVE TypeOK' /\ RefuseOK(s)'
<1> DEFINE p == Peer(s)
           q == inbox[p]
           r == Answered(p, FALSE)
<1>1. p \in Sides /\ p # s /\ Peer(p) = s
  BY PeerFacts
<1>2. /\ q \in Seq(BOOLEAN) /\ inbox[s] \in Seq(BOOLEAN)
      /\ want[p] \in BOOLEAN /\ resp[p] \in Nat
  BY <1>1 DEF TypeOK
<1>3. Positive(p, b) \/ Negative(p)
  OBVIOUS
<1>4. Peer(s) = p
  OBVIOUS
<1> HIDE DEF p
<1>5. q # <<>>
  BY <1>3 DEF Positive, Negative
<1>6. PICK k \in Nat :
        /\ k = Len(q) /\ k >= 1 /\ Len(Tail(q)) = k - 1 /\ Head(q) = q[1]
        /\ Tail(q) \in Seq(BOOLEAN)
        /\ \A i \in 1..Len(Tail(q)) : Tail(q)[i] = q[i + 1]
  BY <1>2, <1>5, TakeFacts
<1>7. /\ ~want[s] /\ resp[s] <= 1
      /\ \A i \in 1..Len(q) : q[i] = FALSE
      /\ ~state[p] /\ want[p] = Flip(FALSE, resp[p])
  BY <1>4 DEF RefuseOK, OnlyRefusals
<1>8. Head(q) = FALSE /\ \A i \in 1..Len(Tail(q)) : Tail(q)[i] = FALSE
  <2>1. k >= 1
    BY <1>6
  <2>2. 1 \in 1..k /\ \A i \in 1..(k - 1) : i + 1 \in 1..k
    BY <2>1
  <2>3. QED BY <1>6, <1>7, <2>2
<1>9. PICK n \in Nat, a \in Nat : n = Len(inbox[s]) /\ a = resp[p]
  BY <1>2
<1>10. IF n = 0 THEN a - 2 * k = 0 \/ a - 2 * k = -1
       ELSE n = (a - 2 * k) + (IF inbox[s][1] THEN 0 ELSE 1)
  BY <1>4, <1>6, <1>9 DEF RefuseOK, Owed
<1>11. (a = 1 /\ n = 0 /\ k = 1) \/ a > 1
  <2>1. PICK f \in {0, 1} : f = IF inbox[s][1] THEN 0 ELSE 1
    OBVIOUS
  <2>2. k >= 1
    BY <1>6
  <2>3. IF n = 0 THEN a - 2 * k = 0 \/ a - 2 * k = -1 ELSE n = (a - 2 * k) + f
    BY <1>10, <2>1
  <2>4. QED BY <2>2, <2>3
<1>12. Negative(p)
  BY <1>3, <1>8 DEF Positive
<1>13. state[p] = FALSE
  <2>1. state[p] \in BOOLEAN
    BY <1>1 DEF TypeOK
  <2>2. QED BY <1>7, <2>1
<1>14. ASSUME NEW w \in BOOLEAN, NEW c \in Nat, Respond(p, w, c, <<>>)
       PROVE /\ TypeOK' /\ state'[p] = FALSE /\ want'[s] = want[s]
             /\ want'[p] = w /\ resp'[p] = c /\ resp'[s] = resp[s]
             /\ inbox'[p] = Tail(q) /\ inbox'[s] = inbox[s]
  <2> DEFINE none == <<>>
  <2>1. none \in Seq(BOOLEAN) /\ inbox[s] \o none = inbox[s]
    BY <1>2
  <2>2. Respond(p, w, c, none)
    BY <1>14
  <2> HIDE DEF none
  <2>3. /\ TypeOK' /\ state'[p] = q[1] /\ want'[s] = want[s]
        /\ want'[p] = w /\ resp'[p] = c /\ resp'[s] = resp[s]
        /\ inbox'[p] = Tail(q) /\ inbox'[s] = inbox[s] \o none
    BY <1>1, <1>5, <2>1, <2>2, RespondFacts
  <2>4. QED BY <1>6, <1>8, <2>1, <2>3
<1>15. CASE a = 1 /\ n = 0 /\ k = 1
  <2>1. r = 0
    BY <1>1, <1>9, <1>15, AnsweredFacts
  <2>2. want[p] = TRUE
    <3>1. Flip(FALSE, 1) = ~FALSE
      BY FlipFacts
    <3>2. QED BY <1>7, <1>9, <1>15, <3>1
  <2>3. Respond(p, FALSE, 0, <<>>)
    BY <1>12, <1>13, <2>1, <2>2 DEF Negative
  <2>4. /\ TypeOK' /\ state'[p] = FALSE /\ want'[s] = want[s]
        /\ want'[p] = FALSE /\ resp'[p] = 0 /\ resp'[s] = resp[s]
        /\ inbox'[p] = Tail(q) /\ inbox'[s] = inbox[s]
    <3> DEFINE no == FALSE
    <3>1. no \in BOOLEAN /\ 0 \in Nat /\ Respond(p, no, 0, <<>>)
      BY <2>3
    <3> HIDE DEF no
    <3>2. /\ TypeOK' /\ state'[p] = FALSE /\ want'[s] = want[s]
          /\ want'[p] = no /\ resp'[p] = 0 /\ resp'[s] = resp[s]
          /\ inbox'[p] = Tail(q) /\ inbox'[s] = inbox[s]
      BY <1>14, <3>1
    <3>3. QED BY <3>2 DEF no
  <2>5. OnlyRefusals(s)'
    <3>1. Flip(FALSE, 0) = FALSE
      BY FlipFacts
    <3>2. QED BY <1>4, <1>7, <1>8, <2>4, <3>1 DEF OnlyRefusals
  <2>5a. Len(inbox'[s]) = 0
    BY <1>9, <1>15, <2>4
  <2>6. InTurn(s)'
    <3>1. 1..0 = {}
      OBVIOUS
    <3>2. QED BY <2>5a, <3>1 DEF InTurn, InOrder
  <2>7. Owed(s)'
    <3>1. Len(inbox'[s]) = 0 /\ Len(inbox'[p]) = 0 /\ resp'[p] = 0
      <4>1. k - 1 = 0
        BY <1>15
      <4>2. Len(Tail(q)) = 0
        BY <1>6, <4>1
      <4>3. QED BY <2>4, <2>5a, <4>2
    <3>2. QED BY <1>4, <3>1 DEF Owed
  <2>8. QED BY <2>4, <2>5, <2>6, <2>7 DEF RefuseOK
<1>16. CASE a > 1
  <2>1. PICK c \in Nat : c = a - 2
    BY <1>16
  <2>2. r = c
    BY <1>1, <1>9, <1>13, <1>16, <2>1, AnsweredFacts
  <2>3. want[p] = Flip(FALSE, c)
    <3>1. a = c + 2
      BY <2>1
    <3>2. a % 2 = c % 2
      BY <3>1
    <3>3. QED BY <1>7, <1>9, <3>2 DEF Flip
  <2>4. Respond(p, want[p], c, <<>>)
    <3>1. r = 0 => ~want[p]
      <4>1. Flip(FALSE, 0) = FALSE
        BY FlipFacts
      <4>2. QED BY <2>2, <2>3, <4>1
    <3>2. Head(inbox[p]) = FALSE
      BY <1>8
    <3>3. Respond(p, want[p], r, <<>>)
      BY <1>12, <3>1 DEF Negative
    <3>4. QED BY <2>2, <3>3
  <2>5. /\ TypeOK' /\ state'[p] = FALSE /\ want'[s] = want[s]
        /\ want'[p] = want[p] /\ resp'[p] = c /\ resp'[s] = resp[s]
        /\ inbox'[p] = Tail(q) /\ inbox'[s] = inbox[s]
    BY <1>2, <1>14, <2>4
  <2>6. OnlyRefusals(s)'
    BY <1>4, <1>7, <1>8, <2>3, <2>5 DEF OnlyRefusals
  <2>7. InTurn(s)'
    <3>1. InOrder(inbox[s], want[p])
      BY <1>4 DEF RefuseOK, InTurn
    <3>2. QED BY <1>4, <2>5, <3>1 DEF InTurn
  <2>8. Owed(s)'
    <3>1. PICK j \in Nat : j = k - 1
      <4>1. k >= 1
        BY <1>6
      <4>2. QED BY <4>1
    <3>2. c - 2 * j = a - 2 * k
      BY <2>1, <3>1
    <3>3. Len(inbox'[p]) = j /\ Len(inbox'[s]) = n
      BY <1>6, <1>9, <2>5, <3>1
    <3>4. resp'[p] - 2 * Len(inbox'[p]) = a - 2 * k
      BY <2>5, <3>2, <3>3
    <3>5. QED BY <1>4, <1>10, <2>5, <3>3, <3>4 DEF Owed
  <2>9. QED BY <2>5, <2>6, <2>7, <2>8 DEF RefuseOK
<1>17. QED BY <1>11, <1>15, <1>16

(* The invariant gives what a refusal comes to once the wire is quiet.     *)
LEMMA RefuseDone ==
  ASSUME TypeOK, RefuseInv
  PROVE RefusalRespected
<1> SUFFICES ASSUME NEW s \in Sides, Quiet, ~Accepts(s), starts[s] = 0
             PROVE /\ ~want[s] /\ ~want[Peer(s)] /\ ~state[Peer(s)]
                   /\ resp[Peer(s)] = 0
  BY DEF RefusalRespected
<1> DEFINE p == Peer(s)
<1>1. p \in Sides
  BY PeerFacts
<1>2. resp[p] \in Nat
  BY <1>1 DEF TypeOK
<1>3. RefuseOK(s)
  BY DEF RefuseInv, Refuses
<1>4. Len(inbox[s]) = 0 /\ Len(inbox[p]) = 0
  BY <1>1 DEF Quiet
<1>5. resp[p] = 0
  <2>1. PICK a \in Nat : a = resp[p]
    BY <1>2
  <2>2. a - 2 * 0 = 0 \/ a - 2 * 0 = -1
    BY <1>3, <1>4, <2>1 DEF RefuseOK, Owed
  <2>3. QED BY <2>1, <2>2
<1>6. Flip(FALSE, 0) = FALSE
  BY FlipFacts
<1>7. QED BY <1>3, <1>5, <1>6 DEF RefuseOK, OnlyRefusals

-----------------------------------------------------------------------------
(* The steps, and the theorem.                                             *)

(* Whatever comes in is taken, and leaves the types alone.                 *)
LEMMA ReceiveType ==
  ASSUME TypeOK, NEW s \in Sides, NEW b, Positive(s, b) \/ Negative(s)
  PROVE TypeOK' /\ UNCHANGED <<option, performer, starts>>
<1> DEFINE none == <<>>
           yes == <<TRUE>>
           no == <<FALSE>>
           t == TRUE
           f == FALSE
<1>1. inbox[s] # <<>>
  BY DEF Positive, Negative
<1>2. /\ want[s] \in BOOLEAN /\ t \in BOOLEAN /\ f \in BOOLEAN
      /\ none \in Seq(BOOLEAN) /\ yes \in Seq(BOOLEAN) /\ no \in Seq(BOOLEAN)
      /\ 0 \in Nat /\ 1 \in Nat
  BY DEF TypeOK
<1>3. Answered(s, TRUE) \in Nat /\ Answered(s, FALSE) \in Nat
  BY AnsweredFacts
<1>4. \/ Respond(s, want[s], Answered(s, TRUE), none)
      \/ Respond(s, t, 0, yes) \/ Respond(s, f, 1, no)
      \/ Respond(s, f, 0, no) \/ Respond(s, f, 0, none)
      \/ Respond(s, want[s], Answered(s, FALSE), none)
  BY DEF Positive, Negative
<1> HIDE DEF none, yes, no, t, f
<1>5. ASSUME NEW w \in BOOLEAN, NEW r \in Nat, NEW reply \in Seq(BOOLEAN),
             Respond(s, w, r, reply)
      PROVE TypeOK' /\ UNCHANGED <<option, performer, starts>>
  BY <1>1, <1>5, RespondFacts
<1>6. CASE Respond(s, want[s], Answered(s, TRUE), none)
  BY <1>2, <1>3, <1>5, <1>6
<1>7. CASE Respond(s, t, 0, yes)
  BY <1>2, <1>5, <1>7
<1>8. CASE Respond(s, f, 1, no)
  BY <1>2, <1>5, <1>8
<1>9. CASE Respond(s, f, 0, no)
  BY <1>2, <1>5, <1>9
<1>10. CASE Respond(s, f, 0, none)
  BY <1>2, <1>5, <1>10
<1>11. CASE Respond(s, want[s], Answered(s, FALSE), none)
  BY <1>2, <1>3, <1>5, <1>11
<1>12. QED BY <1>4, <1>6, <1>7, <1>8, <1>9, <1>10, <1>11

(* What a side accepts is settled from the start.                          *)
LEMMA AcceptsKept ==
  ASSUME UNCHANGED <<option, performer>>, NEW s
  PROVE Accepts(s)' <=> Accepts(s)
BY DEF Accepts, ClientAccepts, ServerAccepts

OptionInv == TypeOK /\ AgreeInv /\ RefuseInv

(* Nothing has been said yet.                                              *)
LEMMA OptionInit ==
  ASSUME Init
  PROVE OptionInv
<1>1. TypeOK
  BY DEF Init, TypeOK
<1>2. /\ \A s \in Sides : /\ state[s] = FALSE /\ want[s] = FALSE /\ resp[s] = 0
                          /\ inbox[s] = <<>>
      /\ \A s \in Sides : Peer(s) \in Sides
  BY PeerFacts DEF Init
<1>3. Flip(FALSE, 0) = FALSE /\ 1..0 = {} /\ Len(<<>>) = 0
  <2>1. Flip(FALSE, 0) = FALSE
    BY FlipFacts
  <2>2. 1..0 = {} /\ Len(<<>>) = 0
    OBVIOUS
  <2>3. QED BY <2>1, <2>2
<1>4. Alternate
  BY <1>2, <1>3 DEF Alternate, Alternates
<1>5. Unsettled
  BY <1>2, <1>3 DEF Unsettled
<1>6. Counted
  BY <1>2, <1>3 DEF Counted, Sides
<1>7. ASSUME NEW s \in Sides PROVE RefuseOK(s)
  <2>1. OnlyRefusals(s)
    <3>1. ~want[s] /\ resp[s] <= 1 /\ ~state[Peer(s)]
      BY <1>2
    <3>2. want[Peer(s)] = Flip(FALSE, resp[Peer(s)])
      BY <1>2, <1>3
    <3>3. Len(inbox[Peer(s)]) = 0
      BY <1>2, <1>3
    <3>4. \A i \in 1..Len(inbox[Peer(s)]) : inbox[Peer(s)][i] = FALSE
      BY <1>3, <3>3
    <3>5. QED BY <3>1, <3>2, <3>4 DEF OnlyRefusals
  <2>2. InTurn(s)
    BY <1>2, <1>3 DEF InTurn, InOrder
  <2>3. Owed(s)
    BY <1>2, <1>3 DEF Owed
  <2>4. QED BY <2>1, <2>2, <2>3 DEF RefuseOK
<1>8. QED BY <1>1, <1>4, <1>5, <1>6, <1>7 DEF OptionInv, AgreeInv, RefuseInv

(* A side that is told to stop echoing wanted the option, so that neither  *)
(* of the two cases of the invariant is at hand.                           *)
LEMMA EchoKeeps ==
  ASSUME OptionInv, EchoOff
  PROVE OptionInv'
<1> DEFINE sv == "server"
           no == FALSE
           one == <<FALSE>>
<1>1. sv \in Sides /\ Peer(sv) = "client" /\ Peer("client") = sv
  BY DEF Sides, Peer
<1>2. /\ no \in BOOLEAN /\ one \in Seq(BOOLEAN) /\ 1 \in Nat /\ TypeOK
      /\ inbox[sv] # <<>> /\ Respond(sv, no, 1, one)
  <2>1. no \in BOOLEAN /\ one \in Seq(BOOLEAN) /\ 1 \in Nat
    OBVIOUS
  <2>2. TypeOK /\ inbox[sv] # <<>>
    BY DEF EchoOff, OptionInv
  <2>3. Respond(sv, no, 1, one)
    BY DEF EchoOff
  <2>4. QED BY <2>1, <2>2, <2>3
<1>3. TypeOK' /\ UNCHANGED <<option, performer, starts>>
  <2> HIDE DEF sv, no, one
  <2>1. QED BY <1>1, <1>2, RespondFacts
<1>4. ~Accepts("client")
  BY DEF EchoOff, Accepts, ClientAccepts
<1>5. AgreeInv'
  <2>1. ~Supported'
    BY <1>3, <1>4, AcceptsKept DEF Supported
  <2>2. QED BY <2>1 DEF AgreeInv
<1>6. ~RefuseOK("server")
  BY DEF EchoOff, RefuseOK, OnlyRefusals
<1>7. ~RefuseOK("client")
  <2>1. inbox["server"] \in Seq(BOOLEAN)
    BY <1>1, <1>2 DEF TypeOK
  <2>2. Head(inbox["server"]) = inbox["server"][1] /\ Len(inbox["server"]) >= 1
    BY <1>2, <2>1, TakeFacts
  <2>3. 1 \in 1..Len(inbox["server"])
    BY <2>1, <2>2
  <2>4. inbox["server"][1] # FALSE
    BY <2>2 DEF EchoOff
  <2>5. QED BY <1>1, <2>3, <2>4 DEF RefuseOK, OnlyRefusals
<1>8. RefuseInv'
  <2>1. ASSUME NEW s \in Sides PROVE ~Refuses(s)'
    <3>1. ~Refuses(s)
      <4>1. s = "client" \/ s = "server"
        BY DEF Sides
      <4>2. QED BY <1>6, <1>7, <4>1 DEF OptionInv, RefuseInv
    <3>2. QED BY <1>3, <3>1, AcceptsKept DEF Refuses
  <2>2. QED BY <2>1 DEF RefuseInv
<1>9. QED BY <1>3, <1>5, <1>8 DEF OptionInv

(* A side asks for a change.                                               *)
LEMMA AskKeeps ==
  ASSUME OptionInv, NEW s \in Sides, NEW v \in BOOLEAN, Ask(s, v)
  PROVE OptionInv'
<1> DEFINE p == Peer(s)
<1>1. p \in Sides /\ p # s /\ Peer(p) = s /\ Sides = {s, p}
  BY PeerFacts
<1>2. TypeOK
  BY DEF OptionInv
<1>3. /\ TypeOK' /\ UNCHANGED <<option, performer>>
      /\ starts'[s] = starts[s] + 1 /\ starts'[p] = starts[p]
  BY <1>2, AskFacts
<1>4. AgreeInv'
  <2>1. SUFFICES ASSUME Supported' PROVE (Alternate /\ Unsettled /\ Counted)'
    BY DEF AgreeInv
  <2>2. Supported
    BY <1>3, <2>1, AcceptsKept DEF Supported
  <2>3. QED BY <1>2, <2>2, AgreeAsk DEF OptionInv, AgreeInv
<1>5. RefuseInv'
  <2>1. ~Refuses(s)'
    <3>1. starts[s] \in Nat
      BY <1>2 DEF TypeOK
    <3>2. QED BY <1>3, <3>1 DEF Refuses
  <2>2. ASSUME Refuses(p)' PROVE RefuseOK(p)'
    <3>1. Refuses(p)
      BY <1>3, <2>2, AcceptsKept DEF Refuses
    <3>2. RefuseOK(p)
      BY <1>1, <3>1 DEF OptionInv, RefuseInv
    <3>3. Ask(Peer(p), v)
      BY <1>1
    <3>4. QED BY <1>1, <1>2, <3>2, <3>3, RefuseAsk
  <2>3. QED BY <1>1, <2>1, <2>2 DEF RefuseInv
<1>6. QED BY <1>3, <1>4, <1>5 DEF OptionInv

(* A side reads a message.                                                 *)
LEMMA ReceiveKeeps ==
  ASSUME OptionInv, NEW s \in Sides, Positive(s, Accepts(s)) \/ Negative(s)
  PROVE OptionInv'
<1> DEFINE p == Peer(s)
<1>1. p \in Sides /\ p # s /\ Peer(p) = s /\ Sides = {s, p}
  BY PeerFacts
<1>2. TypeOK
  BY DEF OptionInv
<1>3. TypeOK' /\ UNCHANGED <<option, performer, starts>>
  BY <1>2, ReceiveType
<1>4. AgreeInv'
  <2>1. SUFFICES ASSUME Supported' PROVE (Alternate /\ Unsettled /\ Counted)'
    BY DEF AgreeInv
  <2>2. Supported
    BY <1>3, <2>1, AcceptsKept DEF Supported
  <2>3. QED BY <1>2, <2>2, AgreeReceive DEF OptionInv, AgreeInv
<1>5. RefuseInv'
  <2>1. ASSUME Refuses(s)' PROVE RefuseOK(s)'
    <3>1. Refuses(s)
      BY <1>3, <2>1, AcceptsKept DEF Refuses
    <3>2. RefuseOK(s) /\ ~Accepts(s)
      BY <3>1 DEF OptionInv, RefuseInv, Refuses
    <3>3. QED BY <1>2, <3>2, RefuseReadKeeps
  <2>2. ASSUME Refuses(p)' PROVE RefuseOK(p)'
    <3>1. Refuses(p)
      BY <1>3, <2>2, AcceptsKept DEF Refuses
    <3>2. RefuseOK(p)
      BY <1>1, <3>1 DEF OptionInv, RefuseInv
    <3>3. Positive(Peer(p), Accepts(s)) \/ Negative(Peer(p))
      BY <1>1
    <3>4. QED BY <1>1, <1>2, <3>2, <3>3, RefuseLearn
  <2>3. QED BY <1>1, <2>1, <2>2 DEF RefuseInv
<1>6. QED BY <1>3, <1>4, <1>5 DEF OptionInv

(* Nothing happens.                                                        *)
LEMMA StutterKeeps ==
  ASSUME OptionInv, UNCHANGED vars
  PROVE OptionInv'
<1>1. TypeOK'
  BY DEF OptionInv, TypeOK, vars
<1>2. AgreeInv'
  BY DEF OptionInv, AgreeInv, Supported, Accepts, ClientAccepts, ServerAccepts,
         Alternate, Unsettled, Counted, vars
<1>3. ASSUME NEW s PROVE RefuseOK(s)' = RefuseOK(s) /\ Refuses(s)' = Refuses(s)
  BY DEF RefuseOK, OnlyRefusals, InTurn, Owed, Refuses, Accepts, ClientAccepts,
         ServerAccepts, vars
<1>4. RefuseInv'
  BY <1>3 DEF OptionInv, RefuseInv
<1>5. QED BY <1>1, <1>2, <1>4 DEF OptionInv

(* For every option, whichever program performs it, and however many       *)
(* changes the two of them ask for and however these cross on the wire:    *)
(* once the wire is quiet an option that both support is agreed upon and   *)
(* nothing is waited for, and one that a side refuses is off and known to  *)
(* be by the side that asked.                                              *)
THEOREM Agreement == Spec => []OptionsAgree
<1>1. Init => OptionInv
  BY OptionInit
<1>2. OptionInv /\ [Next]_vars => OptionInv'
  <2>1. SUFFICES ASSUME OptionInv, [Next]_vars PROVE OptionInv'
    OBVIOUS
  <2>2. CASE Next
    BY <2>1, <2>2, StepCases, EchoKeeps, AskKeeps, ReceiveKeeps
  <2>3. CASE UNCHANGED vars
    BY <2>1, <2>3, StutterKeeps
  <2>4. QED BY <2>1, <2>2, <2>3
<1>3. OptionInv => OptionsAgree
  BY AgreeDone, RefuseDone DEF OptionInv, OptionsAgree
<1>4. QED BY <1>1, <1>2, <1>3, PTL DEF Spec

===============================================================================
