------------------------------- MODULE MCRcmd -------------------------------
(***************************************************************************)
(* The family of remote commands for TLC.  The four models do not          *)
(* interact: a behaviour is one of Rcp, of Rsh, of Rlogin or of            *)
(* RlogindListen, chosen at the start, and the variables of the others     *)
(* stay idle.                                                              *)
(***************************************************************************)
EXTENDS Naturals, Sequences

VARIABLES program,
          main, s, t, toSink, toSource, faults, cut, stored,               \* Rcp
          cf, c, feeder, d, cmd, in, out, sig, err, pv, input,             \* Rsh
          sv, sh, wr, rd, net, toServer, term,                             \* Rlogin
          dm, live, dead, sigchld, calls, made,                            \* RlogindListen
          events                                                           \* Rsh and Rlogin

\* A file; two files one of which is in a directory; empty directories.
Copied == {<<"file">>, <<"dir", "file", "end", "file">>, <<"file", "dir", "dir", "end", "end">>}

Rcp == INSTANCE Rcp WITH Trees <- Copied, Sizes <- {0, 1, 2}, MaxOps <- 2, MaxFaults <- 1
Rsh == INSTANCE Rsh WITH MaxOutput <- 1, MaxInput <- 1, MaxEvents <- 2
Rlogin == INSTANCE Rlogin WITH MaxOutput <- 2, MaxEvents <- 2, Capacity <- 2
Listen == INSTANCE RlogindListen WITH NumFd <- 2, MaxChildren <- 1, MaxCalls <- 5, MaxFails <- 1

rcpVars == <<main, s, t, toSink, toSource, faults, cut, stored>>
rshVars == <<cf, c, feeder, d, cmd, in, out, sig, err, pv, input>>
rloginVars == <<sv, sh, wr, rd, net, toServer, term>>
listenVars == <<dm, live, dead, sigchld, calls, made>>
vars == <<program, rcpVars, rshVars, rloginVars, listenVars, events>>

RcpIdle ==
  /\ main = "idle" /\ s = "idle" /\ t = "idle" /\ toSink = "idle"
  /\ toSource = "idle" /\ faults = "idle" /\ cut = "idle" /\ stored = "idle"
RshIdle ==
  /\ cf = "idle" /\ c = "idle" /\ feeder = "idle" /\ d = "idle"
  /\ cmd = "idle" /\ in = "idle" /\ out = "idle" /\ sig = "idle"
  /\ err = "idle" /\ pv = "idle" /\ input = "idle"
RloginIdle ==
  /\ sv = "idle" /\ sh = "idle" /\ wr = "idle" /\ rd = "idle"
  /\ net = "idle" /\ toServer = "idle" /\ term = "idle"
ListenIdle ==
  /\ dm = "idle" /\ live = "idle" /\ dead = "idle" /\ sigchld = "idle"
  /\ calls = "idle" /\ made = "idle"

Init ==
  \/ program = "rcp" /\ Rcp!Init /\ RshIdle /\ RloginIdle /\ ListenIdle /\ events = 0
  \/ program = "rsh" /\ Rsh!Init /\ RcpIdle /\ RloginIdle /\ ListenIdle
  \/ program = "rlogin" /\ Rlogin!Init /\ RcpIdle /\ RshIdle /\ ListenIdle
  \/ program = "listen" /\ Listen!Init /\ RcpIdle /\ RshIdle /\ RloginIdle /\ events = 0

RcpAlone == program = "rcp" /\ UNCHANGED <<program, rshVars, rloginVars, listenVars, events>>
RshAlone == program = "rsh" /\ UNCHANGED <<program, rcpVars, rloginVars, listenVars>>
RloginAlone == program = "rlogin" /\ UNCHANGED <<program, rcpVars, rshVars, listenVars>>
ListenAlone == program = "listen" /\ UNCHANGED <<program, rcpVars, rshVars, rloginVars, events>>

Next == (RcpAlone /\ Rcp!Next) \/ (RshAlone /\ Rsh!Next) \/ (RloginAlone /\ Rlogin!Next) \/ (ListenAlone /\ Listen!Next)

\* The fairness that each of the models states, for the one that runs.
Fairness ==
  /\ WF_vars((RcpAlone /\ Rcp!Loop) \/ (RshAlone /\ Rsh!Client) \/ (RloginAlone /\ Rlogin!Start))
  /\ WF_vars((RcpAlone /\ Rcp!Source) \/ (RshAlone /\ Rsh!ClientErr) \/ (RloginAlone /\ Rlogin!PacketControl))
  /\ WF_vars((RcpAlone /\ Rcp!Sink) \/ (RshAlone /\ Rsh!ClientOut) \/ (RloginAlone /\ (Rlogin!control \/ Rlogin!FromNet \/ Rlogin!NetEnds)))
  /\ WF_vars((RshAlone /\ Rsh!Daemon) \/ (RloginAlone /\ Rlogin!ToPty) \/ (ListenAlone /\ Listen!Loop))
  /\ WF_vars((RshAlone /\ Rsh!Child) \/ (RloginAlone /\ Rlogin!FromPty) \/ (ListenAlone /\ Listen!rlogind_sigchld))
  /\ WF_vars((RshAlone /\ Rsh!CommandEnds) \/ (RloginAlone /\ Rlogin!ToNet) \/ (ListenAlone /\ Listen!ChildEnds))
  /\ WF_vars(RloginAlone /\ (Rlogin!main \/ Rlogin!doit \/ Rlogin!Resume \/ Rlogin!Continue))
  /\ WF_vars(RloginAlone /\ Rlogin!copytochild) /\ WF_vars(RloginAlone /\ Rlogin!writeroob)
  /\ WF_vars(RloginAlone /\ Rlogin!sigwinch) /\ WF_vars(RloginAlone /\ Rlogin!catch_child)
  /\ WF_vars(RloginAlone /\ Rlogin!Reader) /\ WF_vars(RloginAlone /\ Rlogin!ShellReads)

Spec == Init /\ [][Next]_vars /\ Fairness

-----------------------------------------------------------------------------

\* rcp: a copy reported complete is complete (Rcp).
Honest == program = "rcp" => Rcp!Honest

\* rsh, rexec: no command for a host whose name does not lead back to it, and a
\* client that ends by itself has shown all its command wrote (Rsh).
RightCommand == program = "rsh" => Rsh!OnlyAllowed /\ Rsh!AllShown

\* rlogin: output sent after the last urgent byte is kept (Rlogin).
KeptAfterMark == program = "rlogin" => Rlogin!KeptAfterMark

\* Every command comes to its end, the daemon learns the size of the window and
\* every later one, and the listening rlogind serves every connection, whatever
\* fails on the way.
Ends == <>[](/\ program = "rcp" => Rcp!Over
             /\ program = "rsh" => Rsh!Over
             /\ program = "rlogin" => Rlogin!Over /\ Rlogin!WindowAgrees
             /\ program = "listen" => Listen!Served)
=============================================================================
