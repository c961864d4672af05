------------------------------ MODULE TelnetEnv ------------------------------
(***************************************************************************)
(* The environment option: telnet's list of variables and the commands on  *)
(* it (env_define and so on of telnet/commands.c), the coding of variables *)
(* into a suboption (telnet/telnet.c env_opt) and back (telnetd/state.c    *)
(* suboption), with the buffers both use.  A name or value is a sequence   *)
(* of bytes: "VAR", "VALUE", "ESC" and "USERVAR" are the codes 0 to 3,     *)
(* "IAC" is 255, any other string stands for ordinary characters.  The     *)
(* network has room (NETROOM).                                             *)
(***************************************************************************)
EXTENDS Naturals, Sequences, SequencesExt, FiniteSets

CONSTANTS Environs,   \* what environ may hold: sequences of <<name, value>>
          Names,      \* names and values the user may give
          Values,
          BufSize,    \* SUBBUFSIZE * 2 of telnet, sizeof subbuffer of telnetd
          MaxMoves    \* commands of the user

VARIABLES
  env,     \* envlisthead: sequence of [var, value, export]
  setenv,  \* telnetd's environment, of the variables that ever came
  wire,    \* suboptions on their way
  told,    \* what telnetd was told last of each variable, or undone by a message too long
  asked,   \* telnetd has sent SEND
  moves

vars == <<env, setenv, wire, told, asked, moves>>

Codes == {"VAR", "VALUE", "ESC", "USERVAR"}
USER == <<"USER">>
LOGNAME == <<"LOGNAME">>
DISPLAY == <<"DISPLAY">>

\* What setenv shows of a variable that unsetenv removed.
Unset == <<"unset">>

-----------------------------------------------------------------------------
(* The list.                                                               *)

opt_welldefined(var) == var \in {USER, DISPLAY}

\* env_find: the place of the variable, 0 if there is none.
env_find(e, var) == SelectInSeq(e, LAMBDA x : x.var = var)

\* env_define: in its place, or in front of all.
env_define(e, var, value, export) ==
  LET x == [var |-> var, value |-> value, export |-> export]
      i == env_find(e, var)
  IN IF i = 0 THEN <<x>> \o e ELSE [e EXCEPT ![i] = x]

\* env_export, env_unexport
env_export(e, var, on) == LET i == env_find(e, var) IN IF i = 0 THEN e ELSE [e EXCEPT ![i].export = on]

env_undefine(e, var) == SelectSeq(e, LAMBDA x : x.var # var)

\* env_init: the display of this host gets its name; LOGNAME does for USER.
env_init(environ) ==
  LET all == FoldLeft(LAMBDA e, x : env_define(e, x[1], x[2], FALSE), <<>>, environ)
      d == env_find(all, DISPLAY)
      named == IF d # 0 /\ all[d].value[1] = ":" THEN [all EXCEPT ![d].value = <<"host">> \o @] ELSE all
      l == env_find(named, LOGNAME)
      user == IF env_find(named, USER) = 0 /\ l # 0 THEN env_define(named, USER, named[l].value, FALSE) ELSE named
  IN env_export(user, DISPLAY, TRUE)

-----------------------------------------------------------------------------
(* telnet: a reply is [buf, cap, cut]: what is written, the end of the     *)
(* buffer, and whether something did not fit.                              *)

env_opt_start == [buf |-> <<"IAC", "SB", "NEW_ENVIRON", "IS">>, cap |-> BufSize, cut |-> FALSE]

\* Faulty variant of Escaped: the escape code itself is not escaped.
EscapedNotEsc(b) == IF b = "IAC" THEN <<"IAC", b>> ELSE IF b \in Codes \ {"ESC"} THEN <<"ESC", b>> ELSE <<b>>

Escaped(b) == IF b = "IAC" THEN <<"IAC", b>> ELSE IF b \in Codes THEN <<"ESC", b>> ELSE <<b>>

\* One byte of a name or a value, with what room must be left.
Add(r, bytes, room) ==
  IF r.cut \/ Len(r.buf) + room > r.cap THEN [r EXCEPT !.cut = TRUE] ELSE [r EXCEPT !.buf = @ \o bytes]

\* env_opt_add of one variable.  The buffer grows once, by what the bytes need
\* without their escapes; what does not fit then is left out without a word.
env_opt_add(r, x) ==
  LET grown == IF Len(r.buf) + Len(x.value) + Len(x.var) + 6 > r.cap THEN r.cap + BufSize ELSE r.cap
      r0 == [r EXCEPT !.cap = grown, !.buf = Append(@, IF opt_welldefined(x.var) THEN "VAR" ELSE "USERVAR")]
      AddAll(q, s) == FoldLeft(LAMBDA y, b : Add(y, Escaped(b), 4), q, s)
      r1 == Add(AddAll([r0 EXCEPT !.cut = FALSE], x.var), <<"VALUE">>, 5)
      r2 == AddAll(r1, x.value)
  IN [r2 EXCEPT !.cut = @ \/ r.cut]

\* env_default: the exported variables, those that are not well defined first.
env_default(e) ==
  SelectSeq(e, LAMBDA x : x.export /\ ~opt_welldefined(x.var)) \o SelectSeq(e, LAMBDA x : x.export /\ opt_welldefined(x.var))

\* env_opt_end
env_opt_end(r) == r.buf \o <<"IAC", "SE">>

\* What telnetd can hold of a message: without its frame and the doubling of IAC.
Content(m) == Len(m) - 4 - Cardinality({i \in 3..Len(m) - 2 : m[i] = "IAC"}) \div 2

\* The message that tells of the variables xs, and what it leaves to be claimed.
Told(xs) ==
  LET r == FoldLeft(env_opt_add, env_opt_start, xs)
      m == env_opt_end(r)
  IN /\ wire' = Append(wire, m)
     /\ told' = IF r.cut \/ Content(m) + 2 > BufSize THEN <<>>
                ELSE [v \in DOMAIN told \union {xs[i].var : i \in 1..Len(xs)} |->
                        IF \E i \in 1..Len(xs) : xs[i].var = v THEN xs[env_find(xs, v)].value ELSE told[v]]

-----------------------------------------------------------------------------
(* telnetd.                                                                *)

\* telrcv, states TS_SB and TS_SE: IAC is undoubled; at the end two bytes are taken
\* back that did not get into a full buffer.
Accumulated(m) ==
  LET Step(a, b) == IF b = "IAC" /\ ~a.iac THEN [a EXCEPT !.iac = TRUE]
                    ELSE [a EXCEPT !.iac = FALSE, !.buf = IF Len(@) < BufSize THEN Append(@, b) ELSE @]
      body == FoldLeft(Step, [iac |-> FALSE, buf |-> <<>>], SubSeq(m, 3, Len(m) - 2)).buf
      short == IF Len(body) + 2 > BufSize THEN Len(body) + 2 - BufSize ELSE 0
  IN SubSeq(body, 1, Len(body) - short)

\* suboption (TELOPT_NEW_ENVIRON): [var, val, hasval, at, esc, out], at is where
\* bytes go.
Assigned(p) == IF p.at = "none" THEN p.out ELSE [v \in DOMAIN p.out \union {p.var} |->
                 IF v = p.var THEN (IF p.at = "val" THEN p.val ELSE Unset) ELSE p.out[v]]

SuboptionByte(p, b) ==
  CASE p.esc \/ b \notin Codes ->
         [p EXCEPT !.esc = FALSE, !.var = IF p.at = "var" THEN Append(@, b) ELSE @, !.val = IF p.at = "val" THEN Append(@, b) ELSE @]
    [] b = "ESC" -> [p EXCEPT !.esc = p.at # "none"]
    [] b = "VALUE" -> IF p.at = "none" THEN p ELSE [p EXCEPT !.at = "val", !.val = <<>>]
    [] OTHER -> [p EXCEPT !.out = Assigned(p), !.at = "var", !.var = <<>>]

suboption(out, m) ==
  LET content == Accumulated(m)
  IN Assigned(FoldLeft(SuboptionByte, [var |-> <<>>, val |-> <<>>, at |-> "none", esc |-> FALSE, out |-> out],
                       SubSeq(content, 3, Len(content))))

-----------------------------------------------------------------------------

Init ==
  /\ \E environ \in Environs : env = env_init(environ)
  /\ setenv = <<>> /\ wire = <<>> /\ told = <<>> /\ asked = FALSE /\ moves = 0

\* telnetd asks for everything once (getterminaltype).
env_opt ==
  /\ ~asked /\ asked' = TRUE /\ Told(env_default(env))
  /\ UNCHANGED <<env, setenv, moves>>

\* environ define, undefine, export, unexport
env_cmd ==
  /\ moves < MaxMoves /\ moves' = moves + 1
  /\ \E var \in Names :
       env' \in {env_define(env, var, value, TRUE) : value \in Values}
                  \union {env_undefine(env, var), env_export(env, var, TRUE), env_export(env, var, FALSE)}
  /\ UNCHANGED <<setenv, wire, told, asked>>

\* environ send, once the option is on.
env_send ==
  /\ asked /\ moves < MaxMoves /\ moves' = moves + 1
  /\ \E i \in 1..Len(env) : Told(<<env[i]>>)
  /\ UNCHANGED <<env, setenv, asked>>

ServerReceives ==
  /\ wire # <<>> /\ wire' = Tail(wire)
  /\ setenv' = suboption(setenv, Head(wire))
  /\ UNCHANGED <<env, told, asked, moves>>

Next == env_opt \/ env_cmd \/ env_send \/ ServerReceives

Spec == Init /\ [][Next]_vars

-----------------------------------------------------------------------------
(* Properties.                                                             *)

\* Once everything has come, telnetd's environment has of each variable what the
\* client had when it told of it last, whatever bytes are in it, as long as no
\* message was longer than the buffers.
EnvironmentArrives ==
  wire = <<>> => \A v \in DOMAIN told : v \in DOMAIN setenv /\ setenv[v] = told[v]
=============================================================================
