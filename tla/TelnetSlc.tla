----------------------------- MODULE TelnetSlc -----------------------------
(***************************************************************************)
(* The agreement of telnet and telnetd on a special character of line mode *)
(* (telnet/telnet.c slc and friends, telnetd/slc.c).  Each function (erase *)
(* character, interrupt, ...) is agreed upon by itself, so the model has   *)
(* one.  A message is what one suboption says of it: a level, whether it   *)
(* is an acknowledgement, and a value; or a request for all values (the    *)
(* function number 0).                                                     *)
(***************************************************************************)
EXTENDS Naturals, Sequences

CONSTANTS Values,    \* characters, 0 is _POSIX_VDISABLE
          MaxMoves   \* changes made by the user and by programs on the server

VARIABLES
  kind,      \* <<client, server>>: how each side supports the function
  cl,        \* the client's spc_data: [val, level, mylevel], and the terminal: [tc, old]
  sv,        \* telnetd's slctab: [level, val, defLevel, defVal], and the terminal: [tty]
  mode,      \* slc_mode of the client
  deferred,  \* def_slcbuf: <<>> or the one message kept
  terminit,  \* the server's terminal is set up
  dropped,   \* a message came before that and was not kept
  silent,    \* telnetd's last word was to say nothing of a function it lacks
  toServer, toClient, moves

vars == <<kind, cl, sv, mode, deferred, terminit, dropped, silent, toServer, toClient, moves>>

NOSUPPORT == 0
CANTCHANGE == 1
VARIABLE_ == 2
DEFAULT == 3

Msg(level, ack, val) == [level |-> level, ack |-> ack, val |-> val]

\* The client has a variable for the character, knows the function without one,
\* or does not know it.
HasVar == kind[1] = "variable"
\* A character of telnetd's terminal stands behind the function; for XON and XOFF
\* ("flow") the client's default is preferred once it has offered LFLOW (willoption).
HasTty == kind[2] \in {"variable", "editing", "flow"}

-----------------------------------------------------------------------------
(* The client.                                                             *)

\* slc_update: an acknowledged value goes to the terminal.
slc_update(c, ack) == IF ack /\ HasVar THEN [c EXCEPT !.tc = c.val] ELSE c

\* slc_export: the terminal's own characters are put back and sent.  The level is
\* computed from the value before it is refreshed.
slc_export(c) ==
  LET tc == c.old
      level == IF c.val = 0 THEN NOSUPPORT ELSE c.mylevel
      val == IF HasVar THEN tc ELSE c.val
  IN [c |-> [c EXCEPT !.tc = tc, !.level = level, !.val = val],
      out |-> IF c.mylevel = NOSUPPORT THEN <<>> ELSE <<Msg(level, FALSE, val)>>]

\* slc_import: all values wanted, the defaults or the present ones.
slc_import(def) == <<[all |-> TRUE, def |-> def]>>

\* Faulty variant of slc: an acknowledgement changes nothing.
slcIgnoresAck(c, m) ==
  LET accept == m.level <= c.mylevel
      d == [c EXCEPT !.level = IF m.level = DEFAULT
                                 THEN (IF c.mylevel # DEFAULT THEN c.mylevel ELSE NOSUPPORT)
                                 ELSE IF accept THEN m.level ELSE @,
                     !.val = IF accept THEN m.val ELSE @]
      ack == accept /\ m.level # DEFAULT
  IN IF m.ack \/ (m.val = c.val /\ m.level = c.level) THEN [c |-> c, out |-> <<>>]
     ELSE [c |-> slc_update(d, ack), out |-> <<Msg(d.level, ack, d.val)>>]

\* slc: what the server says of the function.  Nothing new, or an acknowledgement
\* of the present level: no answer.  A level up to the own one is accepted and
\* acknowledged; a wish for the default is answered by the own level.
slc(c, m) ==
  LET accept == m.level <= c.mylevel
      d == [c EXCEPT !.level = IF m.level = DEFAULT
                                 THEN (IF c.mylevel # DEFAULT THEN c.mylevel ELSE NOSUPPORT)
                                 ELSE IF accept THEN m.level ELSE @,
                     !.val = IF accept THEN m.val ELSE @]
      ack == accept /\ m.level # DEFAULT
  IN IF m.val = c.val /\ m.level = c.level THEN [c |-> c, out |-> <<>>]
     ELSE IF m.ack /\ m.level = c.level THEN [c |-> slc_update([c EXCEPT !.val = m.val], TRUE), out |-> <<>>]
     ELSE [c |-> slc_update(d, ack), out |-> <<Msg(d.level, ack, d.val)>>]

\* slc_check: characters the user has set are sent.
slc_check(c) ==
  IF HasVar /\ c.val # c.tc
    THEN LET level == IF c.tc = 0 THEN NOSUPPORT ELSE c.mylevel
         IN [c |-> [c EXCEPT !.val = c.tc, !.level = level], out |-> <<Msg(level, FALSE, c.tc)>>]
    ELSE [c |-> c, out |-> <<>>]

-----------------------------------------------------------------------------
(* telnetd.                                                                *)

\* default_slc: back to the values of the start.
default_slc(s) == [s EXCEPT !.val = s.defVal, !.level = IF s.defVal = 0 THEN NOSUPPORT ELSE s.defLevel,
                            !.tty = IF HasTty THEN s.defVal ELSE @]

\* send_slc: what telnetd has, or, for an editing character (EC, EL, EW, RP, LNEXT),
\* the wish for the client's default.
send_slc(s) == IF s.level # NOSUPPORT THEN <<Msg(s.level, FALSE, s.val)>>
               ELSE IF kind[2] = "editing" THEN <<Msg(DEFAULT, FALSE, 0)>> ELSE <<>>

\* change_slc: a proposal.
change_slc(s, m) ==
  IF m.level = NOSUPPORT
    THEN [s |-> [s EXCEPT !.level = NOSUPPORT, !.val = 0], out |-> <<Msg(NOSUPPORT, TRUE, m.val)>>]
  ELSE IF m.level = DEFAULT
    THEN LET t == [s EXCEPT !.level = IF s.defLevel = DEFAULT THEN NOSUPPORT ELSE s.defLevel, !.val = s.defVal]
         IN [s |-> t, out |-> <<Msg(t.level, FALSE, t.val)>>]
  ELSE IF HasTty
    THEN [s |-> [s EXCEPT !.val = m.val, !.tty = m.val, !.level = m.level], out |-> <<Msg(m.level, TRUE, m.val)>>]
  ELSE IF s.defLevel = DEFAULT
    THEN [s |-> [s EXCEPT !.level = m.level, !.val = m.val], out |-> <<Msg(m.level, TRUE, m.val)>>]
    ELSE [s |-> [s EXCEPT !.level = s.defLevel], out |-> <<Msg(s.defLevel, FALSE, m.val)>>]

\* process_slc: what the client says; acknowledgements are never answered.
process_slc(s, m) ==
  IF "all" \in DOMAIN m
    THEN LET t == IF m.def THEN default_slc(s) ELSE s IN [s |-> t, out |-> send_slc(t)]
  ELSE IF m.ack \/ (m.level = s.level /\ m.val = s.val) THEN [s |-> s, out |-> <<>>]
  ELSE change_slc(s, m)

\* check_slc: characters a program has set are sent.
check_slc(s) ==
  IF HasTty /\ s.tty # s.val
    THEN LET level == IF s.tty = 0 THEN NOSUPPORT ELSE s.defLevel
         IN [s |-> [s EXCEPT !.val = s.tty, !.level = level], out |-> <<Msg(level, FALSE, s.tty)>>]
    ELSE [s |-> s, out |-> <<>>]

-----------------------------------------------------------------------------

\* The client's answer to DO LINEMODE (slc_init) has just been sent; telnetd has
\* read its terminal's characters (get_slc_defaults, spcset).
Init ==
  /\ kind \in {<<"variable", "variable">>, <<"variable", "editing">>, <<"variable", "flow">>,
              <<"default", "default">>, <<"none", "default">>}
  /\ mode \in {"export", "import"}
  /\ \E tc \in Values, tty \in Values :
       LET c == [tc |-> tc, old |-> tc, val |-> IF HasVar THEN tc ELSE 0, level |-> NOSUPPORT,
                 mylevel |-> CASE kind[1] = "variable" -> VARIABLE_ [] kind[1] = "default" -> DEFAULT [] kind[1] = "none" -> NOSUPPORT]
           x == slc_export(c)
       IN /\ sv = [level |-> NOSUPPORT, val |-> 0, tty |-> tty, defVal |-> IF HasTty THEN tty ELSE 0,
                   defLevel |-> IF kind[2] \in {"variable", "editing"} THEN VARIABLE_ ELSE DEFAULT]
          /\ cl = IF mode = "export" THEN x.c ELSE c
          /\ toServer = IF mode = "export" THEN x.out ELSE slc_import(TRUE)
  /\ deferred = <<>> /\ terminit = FALSE /\ dropped = FALSE /\ silent = FALSE
  /\ toClient = <<>> /\ moves = 0

\* slccmd: slc export, slc import, slc check (which import without the defaults is).
slccmd ==
  /\ moves < MaxMoves /\ moves' = moves + 1
  /\ \/ LET x == slc_export(cl) IN cl' = x.c /\ toServer' = toServer \o x.out /\ mode' = "export"
     \/ \E def \in BOOLEAN : toServer' = toServer \o slc_import(def) /\ mode' = "import" /\ UNCHANGED cl
  /\ UNCHANGED <<kind, sv, deferred, terminit, dropped, silent, toClient>>

\* setcmd: the user sets the character.
setcmd ==
  /\ moves < MaxMoves /\ moves' = moves + 1 /\ HasVar
  /\ \E v \in Values \ {cl.tc} :
       LET x == slc_check([cl EXCEPT !.tc = v]) IN cl' = x.c /\ toServer' = toServer \o x.out
  /\ UNCHANGED <<kind, sv, mode, deferred, terminit, dropped, silent, toClient>>

ClientReceives ==
  /\ toClient # <<>>
  /\ LET x == slc(cl, Head(toClient)) IN cl' = x.c /\ toServer' = toServer \o x.out
  /\ toClient' = Tail(toClient)
  /\ UNCHANGED <<kind, sv, mode, deferred, terminit, dropped, silent, moves>>

\* end_slc: telnetd sends out; asked: it was asked for all it has.
end_slc(out, asked) ==
  /\ toClient' = toClient \o out
  /\ silent' = IF out = <<>> THEN silent \/ asked ELSE FALSE

\* do_opt_slc: processed, or kept until the terminal is set up if it is the first.
do_opt_slc ==
  /\ toServer # <<>> /\ toServer' = Tail(toServer)
  /\ LET m == Head(toServer) IN
     IF terminit
       THEN LET x == process_slc(sv, m)
            IN sv' = x.s /\ end_slc(x.out, "all" \in DOMAIN m) /\ UNCHANGED <<deferred, dropped>>
       ELSE /\ deferred' = IF deferred = <<>> THEN <<m>> ELSE deferred
            /\ dropped' = (dropped \/ deferred # <<>>)
            /\ UNCHANGED <<sv, toClient, silent>>
  /\ UNCHANGED <<kind, cl, mode, terminit, moves>>

\* What localstat finds: the character as it was, or set by a program.
Found(v) == IF v = sv.tty THEN UNCHANGED moves
            ELSE HasTty /\ moves < MaxMoves /\ moves' = moves + 1

\* The first localstat, which sets the terminal up (defer_terminit, deferslc).  A
\* character that differs is not yet sent if a message was kept; it is not looked
\* for if WILL LINEMODE, which comes before any message, may still be on its way.
deferslc ==
  /\ ~terminit /\ terminit' = TRUE
  /\ \E v \in Values, checked \in {TRUE, deferred # <<>>} :
       LET s == [sv EXCEPT !.tty = v]
           x == IF checked THEN check_slc(s) ELSE [s |-> s, out |-> <<>>]
           y == process_slc(x.s, deferred[1])
       IN /\ Found(v)
          /\ IF deferred = <<>> THEN sv' = x.s /\ end_slc(x.out, FALSE)
             ELSE sv' = y.s /\ end_slc(y.out, "all" \in DOMAIN deferred[1])
  /\ deferred' = <<>>
  /\ UNCHANGED <<kind, cl, mode, dropped, toServer>>

\* Any later one: the program has set the character, or something else.
localstat ==
  /\ terminit
  /\ \E v \in Values :
       LET x == check_slc([sv EXCEPT !.tty = v]) IN
       Found(v) /\ sv' = x.s /\ end_slc(x.out, FALSE)
  /\ UNCHANGED <<kind, cl, mode, deferred, terminit, dropped, toServer>>

Receive == ClientReceives \/ do_opt_slc \/ deferslc

Next == Receive \/ slccmd \/ setcmd \/ localstat

Fairness == WF_vars(Receive)

Spec == Init /\ [][Next]_vars /\ Fairness

-----------------------------------------------------------------------------
(* Properties.                                                             *)

Quiet == toServer = <<>> /\ toClient = <<>> /\ terminit

\* What holds in the end: proposals and acknowledgements come to an end, whatever
\* both sides start from and however their changes cross.
Settled == Quiet

\* Once all is said, both terminals have the same character or both sides know
\* that there is none, however the changes crossed.  (Not so when messages came
\* before telnetd's terminal was set up: only the first one is kept.  Nor when the
\* client asked for all characters and telnetd, which is "silent on other,
\* unsupported characters", had nothing to say of this one, until it speaks again.)
Agreed ==
  Quiet /\ ~dropped /\ ~silent /\ HasVar /\ HasTty
    => cl.level = sv.level /\ (cl.level # NOSUPPORT => cl.tc = sv.tty)
=============================================================================
