------------------------------ MODULE MCTelnet ------------------------------
(***************************************************************************)
(* Sessions of telnet and telnetd for TLC.  Eight models look at one part  *)
(* of a session each: the rings, the negotiation of options, the special   *)
(* characters, authentication and encryption, the stream of data, the      *)
(* terminal, the environment and the client's prompt.  A behaviour is one  *)
(* of one of them, chosen at the start; the variables of the others stay   *)
(* idle, and a ring that is not looked at stays empty.                     *)
(***************************************************************************)
EXTENDS TelnetRing

VARIABLES part,
  option, performer, state, want, resp, inbox, starts,       \* TelnetOption
  kind, sv, mode, deferred, terminit, dropped, silent,       \* TelnetSlc
  toServer, toClient,
  garbled, spoilt, commands, faults,                         \* TelnetSecure
  c, s, toS, toC,                                            \* TelnetSecure, TelnetTerm
  set, td, up, down, urg, prog, flushed, typed, cuts,        \* TelnetStream
  cl,                                                        \* TelnetSlc, TelnetStream
  known, tty, crossed, unheard,                              \* TelnetTerm
  env, setenv, wire, told, asked,                            \* TelnetEnv
  p, t, handler, events,                                     \* TelnetCommand
  moves

\* Terminal modes, and what the user types: the escape character doubled and not,
\* bytes that are coded, an interrupt, the escapes of rlogin.
Setting(modes, chunks) ==
  [rlogin |-> "rlogin" \in modes, line |-> "line" \in modes, crlf |-> "crlf" \in modes,
   icrnl |-> "icrnl" \in modes, echo |-> "echo" \in modes, crmod |-> "crmod" \in modes,
   autoflush |-> "auto" \in modes, autosynch |-> "auto" \in modes, chunks |-> chunks]
StreamSettings ==
  {Setting({"echo"}, {<<"a", "cr", "lf", "esc", "esc">>, <<"iac", "cr", "esc", "a">>}),
   Setting({"line", "icrnl", "crmod", "auto"}, {<<"cr">>}),
   Setting({"line", "icrnl"}, {<<"lf", "int">>}),
   Setting({"rlogin", "crlf", "echo"}, {<<"tilde", "a", "cr", "tilde", "dot">>})}
Printed == {<<"a", "cr", "lf">>, <<"cr", "iac">>}

\* The terminal with one name is one with a display.
TermNames == {<<"y">>, <<"x", "y", "z">>}
TermDatabases == {{}, {"y", "z"}}

\* Two environments: without and with USER, with a local and a remote display.
EnvEnvirons ==
  {<< <<<<"LOGNAME">>, <<"b">>>>, <<<<"DISPLAY">>, <<":", "0">>>> >>,
   << <<<<"USER">>, <<"IAC", "VALUE">>>>, <<<<"DISPLAY">>, <<"x">>>> >>}
EnvNames == {<<"x", "ESC">>, <<"USER">>}
EnvValues == {<<>>, <<"VAR", "IAC">>, <<"ESC", "a", "ESC">>, <<"IAC", "IAC", "IAC">>}

Option == INSTANCE TelnetOption WITH Display <- FALSE, Held <- TRUE, MaxStarts <- 3,
            Options <- {"BINARY", "ECHO", "SGA", "STATUS", "TTYPE", "XDISPLOC", "unknown"}
Slc == INSTANCE TelnetSlc WITH Values <- {0, 1, 2}, MaxMoves <- 2
Secure == INSTANCE TelnetSecure WITH MaxEvents <- 2, MaxFaults <- 1
Stream == INSTANCE TelnetStream WITH Settings <- StreamSettings, Output <- Printed, MaxMoves <- 2, MaxCuts <- 1
Term == INSTANCE TelnetTerm WITH NameLists <- TermNames, Databases <- TermDatabases, Sizes <- {1, 2}, MaxMoves <- 2
Env == INSTANCE TelnetEnv WITH Environs <- EnvEnvirons, Names <- EnvNames, Values <- EnvValues, BufSize <- 14, MaxMoves <- 3
Command == INSTANCE TelnetCommand WITH MaxEvents <- 6

\* The variables of each part, and all of them.
optionVars == <<option, performer, state, want, resp, inbox, starts>>
slcVars == <<kind, sv, mode, deferred, terminit, dropped, silent, toServer, toClient>>
secureVars == <<garbled, spoilt, commands, faults>>
pairVars == <<c, s, toS, toC>>
streamVars == <<set, td, up, down, urg, prog, flushed, typed, cuts>>
termVars == <<known, tty, crossed, unheard>>
envVars == <<env, setenv, wire, told, asked>>
commandVars == <<p, t, handler, events>>
allVars == <<part, vars, optionVars, slcVars, secureVars, pairVars, streamVars, cl, termVars, envVars, commandVars, moves>>

\* A variable that is not used.
Idle(v) == v = <<>>

OptionIdle == Idle(option) /\ Idle(performer) /\ Idle(state) /\ Idle(want) /\ Idle(resp) /\ Idle(inbox) /\ Idle(starts)
SlcIdle == /\ Idle(kind) /\ Idle(sv) /\ Idle(mode) /\ Idle(deferred) /\ Idle(terminit) /\ Idle(dropped) /\ Idle(silent)
           /\ Idle(toServer) /\ Idle(toClient)
SecureIdle == Idle(garbled) /\ Idle(spoilt) /\ Idle(commands) /\ Idle(faults)
PairIdle == Idle(c) /\ Idle(s) /\ Idle(toS) /\ Idle(toC)
StreamIdle == /\ Idle(set) /\ Idle(td) /\ Idle(up) /\ Idle(down) /\ Idle(urg) /\ Idle(prog)
              /\ Idle(flushed) /\ Idle(typed) /\ Idle(cuts)
TermIdle == Idle(known) /\ Idle(tty) /\ Idle(crossed) /\ Idle(unheard)
EnvIdle == Idle(env) /\ Idle(setenv) /\ Idle(wire) /\ Idle(told) /\ Idle(asked)
CommandIdle == Idle(p) /\ Idle(t) /\ Idle(handler) /\ Idle(events)

PartInit ==
  \/ /\ part = "ring"
     /\ OptionIdle /\ SlcIdle /\ SecureIdle /\ PairIdle /\ StreamIdle /\ Idle(cl) /\ TermIdle /\ EnvIdle /\ CommandIdle /\ Idle(moves)
  \/ /\ part = "option" /\ Option!Init
     /\ SlcIdle /\ SecureIdle /\ PairIdle /\ StreamIdle /\ Idle(cl) /\ TermIdle /\ EnvIdle /\ CommandIdle /\ Idle(moves)
  \/ /\ part = "slc" /\ Slc!Init
     /\ OptionIdle /\ SecureIdle /\ PairIdle /\ StreamIdle /\ TermIdle /\ EnvIdle /\ CommandIdle
  \/ /\ part = "secure" /\ Secure!Init
     /\ OptionIdle /\ SlcIdle /\ StreamIdle /\ Idle(cl) /\ TermIdle /\ EnvIdle /\ CommandIdle /\ Idle(moves)
  \/ /\ part = "stream" /\ Stream!Init
     /\ OptionIdle /\ SlcIdle /\ SecureIdle /\ PairIdle /\ TermIdle /\ EnvIdle /\ CommandIdle
  \/ /\ part = "term" /\ Term!Init /\ (c.display <=> Len(c.names) = 1)
     /\ OptionIdle /\ SlcIdle /\ SecureIdle /\ StreamIdle /\ Idle(cl) /\ EnvIdle /\ CommandIdle
  \/ /\ part = "env" /\ Env!Init
     /\ OptionIdle /\ SlcIdle /\ SecureIdle /\ PairIdle /\ StreamIdle /\ Idle(cl) /\ TermIdle /\ CommandIdle
  \/ /\ part = "command" /\ Command!Init
     /\ OptionIdle /\ SlcIdle /\ SecureIdle /\ PairIdle /\ StreamIdle /\ Idle(cl) /\ TermIdle /\ EnvIdle /\ Idle(moves)

AllInit ==
  /\ PartInit /\ Init
  /\ part # "ring" => ring = "netoring"

OptionAlone ==
  part = "option" /\ UNCHANGED <<part, vars, slcVars, secureVars, pairVars, streamVars, cl, termVars, envVars, commandVars, moves>>
SlcAlone == part = "slc" /\ UNCHANGED <<part, vars, optionVars, secureVars, pairVars, streamVars, termVars, envVars, commandVars>>
SecureAlone == part = "secure" /\ UNCHANGED <<part, vars, optionVars, slcVars, streamVars, cl, termVars, envVars, commandVars, moves>>
StreamAlone == part = "stream" /\ UNCHANGED <<part, vars, optionVars, slcVars, secureVars, pairVars, termVars, envVars, commandVars>>
TermAlone == part = "term" /\ UNCHANGED <<part, vars, optionVars, slcVars, secureVars, streamVars, cl, envVars, commandVars>>
EnvAlone == part = "env" /\ UNCHANGED <<part, vars, optionVars, slcVars, secureVars, pairVars, streamVars, cl, termVars, commandVars>>
CommandAlone ==
  part = "command" /\ UNCHANGED <<part, vars, optionVars, slcVars, secureVars, pairVars, streamVars, cl, termVars, envVars, moves>>

RingAlone ==
  part = "ring" /\ UNCHANGED <<part, optionVars, slcVars, secureVars, pairVars, streamVars, cl, termVars, envVars, commandVars, moves>>

AllNext ==
  \/ (RingAlone /\ Next) \/ (OptionAlone /\ Option!Next) \/ (SlcAlone /\ Slc!Next) \/ (SecureAlone /\ Secure!Next) \/ (StreamAlone /\ Stream!Next)
  \/ (TermAlone /\ Term!Next) \/ (EnvAlone /\ Env!Next) \/ (CommandAlone /\ Command!Next)

\* The fairness that each part states, for the one that is looked at.
Fairness ==
  /\ WF_allVars((OptionAlone /\ Option!Client) \/ (SlcAlone /\ Slc!Receive) \/ (SecureAlone /\ Secure!Receive) \/ (TermAlone /\ Term!Receive))
  /\ WF_allVars((OptionAlone /\ Option!Server) \/ (SecureAlone /\ Secure!Alarm))

AllSpec == AllInit /\ [][AllNext]_allVars /\ Fairness

-----------------------------------------------------------------------------

\* Both sides have the same idea of an option they support, and a refusal is
\* respected (TelnetOption).
OptionsAgree == part = "option" => Option!OptionsAgree

\* Both terminals have the same special character (TelnetSlc).
CharactersAgree == part = "slc" => Slc!Agreed

\* What is encrypted is decrypted in the same state of the cipher (TelnetSecure).
CiphersInStep == part = "secure" => Secure!InStep

\* What is typed arrives, what is printed is shown (TelnetStream).
StreamIntact == part = "stream" => Stream!TypedArrives /\ Stream!PrintedIsShown

\* The pseudo terminal has the type, the size and the modes of the user's
\* (TelnetTerm).
TerminalsAgree == part = "term" => Term!TypeChosen /\ Term!TerminalsAgree

\* telnetd has the variables it was told, byte by byte (TelnetEnv).
EnvironmentArrives == part = "env" => Env!EnvironmentArrives

\* Outside a session the user has the terminal back (TelnetCommand).
TerminalGivenBack == part = "command" => Command!TerminalGivenBack

\* Every negotiation comes to its end, and telnetd through its waits, unless a user
\* does not stop asking.
Settles == <>[](/\ part = "option" => Option!Quiet /\ Option!TtloopOver
                /\ part = "slc" => Slc!Settled
                /\ part = "secure" => Secure!Settled
                /\ part = "term" => Term!Settled)
=============================================================================
