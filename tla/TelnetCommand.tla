---------------------------- MODULE TelnetCommand ----------------------------
(***************************************************************************)
(* The life of a telnet client: its prompt, the opening of connections,    *)
(* sessions and the commands given in them, the modes of the user's        *)
(* terminal, and the signals and jumps that lead from one to the other     *)
(* (telnet/main.c, commands.c, sys_bsd.c, terminal.c, utilities.c).  What  *)
(* goes over the connection is the matter of the other modules.            *)
(***************************************************************************)
EXTENDS Naturals

CONSTANTS MaxEvents  \* commands, signals and failures

VARIABLES
  p,        \* the process: [pc, back, args, connected, net, frame, left]
  t,        \* the terminal: [tty, saved, prevmode, nonblock, localchars, tstp, conn]
  handler,  \* of SIGINT and SIGPIPE
  events

vars == <<p, t, handler, events>>

\* Modes of the terminal: of the session, or (1, 2, ...) the user's own.
Session == 0

\* left: SIGINT has led to the prompt and the connection is still open.  frame is what is live of
\* tn: "none", "rc" (before setjmp (peerdied)) or "session".

-----------------------------------------------------------------------------
(* The terminal.                                                           *)

\* TerminalNewMode, of "line", "char" or "command" (-1)
TerminalNewMode(x, f) ==
  IF x.prevmode = f THEN x
  ELSE IF f = "command"
    THEN [x EXCEPT !.prevmode = f, !.tty = x.saved, !.nonblock = FALSE, !.localchars = TRUE, !.tstp = "default"]
    ELSE [x EXCEPT !.prevmode = f, !.tty = Session, !.nonblock = TRUE, !.localchars = f = "line", !.tstp = "susp"]

setcommandmode(x) == TerminalNewMode(x, "command")

\* setconnmode, getconnmode
setconnmode(x) == TerminalNewMode(x, x.conn)

TerminalSaveState(x) == [x EXCEPT !.saved = x.tty]

\* SetForExit
SetForExit(x) == setcommandmode(setconnmode(setcommandmode(setconnmode(x))))

-----------------------------------------------------------------------------
(* Where the program goes.                                                 *)

Go(q, x) == p' = q /\ t' = x

\* command (top, 0, 0)
command(q, x, top) ==
  /\ Go([q EXCEPT !.pc = IF top THEN "top" ELSE "sub"], setcommandmode(x))
  /\ handler' = IF top THEN [handler EXCEPT !.int = "default"] ELSE handler

\* Exit, exit
Exit(q, x) == Go([q EXCEPT !.pc = "exited"], SetForExit(x)) /\ UNCHANGED handler

ExitString(q, x) == Go([q EXCEPT !.pc = "exited", !.net = "closed"], x) /\ UNCHANGED handler

\* longjmp (toplevel)
toplevel(q, x) == IF q.args THEN Exit(q, x) ELSE command([q EXCEPT !.frame = "none"], x, TRUE)

\* bye, up to its jump.
Closed(q) == IF q.connected THEN [q EXCEPT !.connected = FALSE, !.net = "closed", !.left = FALSE] ELSE q

\* quit
quit == Exit(Closed(p), t)

\* tn returns: to the prompt, or to main, which ends with status 1.
TnReturns(q) == IF q.args THEN Go([q EXCEPT !.pc = "exited"], t) /\ UNCHANGED handler
                ELSE Go([q EXCEPT !.pc = "top", !.frame = "none"], t) /\ UNCHANGED handler

\* A command that ends the prompt: back to the session.
Done(x) ==
  IF p.pc = "top" THEN command(p, x, TRUE)
  ELSE Go([p EXCEPT !.pc = "session"], setconnmode(x)) /\ UNCHANGED handler

\* Faulty variant of deadpeer: the terminal is left as it is.
deadpeerKeeps ==
  IF handler.pipe = "default" THEN Go([p EXCEPT !.pc = "exited"], t) /\ UNCHANGED handler
  ELSE IF p.frame = "session" THEN ExitString(p, t)
  ELSE Go([p EXCEPT !.pc = "undefined"], t) /\ UNCHANGED handler

\* SIGPIPE: deadpeer, or the end of the process.
deadpeer ==
  IF handler.pipe = "default" THEN Go([p EXCEPT !.pc = "exited"], t) /\ UNCHANGED handler
  ELSE IF p.frame = "session" THEN ExitString(p, setcommandmode(t))
  ELSE Go([p EXCEPT !.pc = "undefined"], setcommandmode(t)) /\ UNCHANGED handler

\* netflush, and the peer has gone, or not.
netflush(done) == deadpeer \/ done

-----------------------------------------------------------------------------
(* Steps.                                                                  *)

Init ==
  /\ \E args \in BOOLEAN :
       LET x == [tty |-> 1, saved |-> 1, prevmode |-> "none", nonblock |-> FALSE, localchars |-> FALSE, tstp |-> "default", conn |-> "line"]
       IN /\ p = [pc |-> IF args THEN "arguments" ELSE "top", back |-> "", args |-> args, connected |-> FALSE, net |-> "none",
                  frame |-> "none", left |-> FALSE]
          /\ t = IF args THEN x ELSE setcommandmode(x)
  /\ handler = [int |-> "default", pipe |-> "default"] /\ events = 0

AtPrompt == p.pc \in {"top", "sub"}
Event == events < MaxEvents /\ events' = events + 1

\* Commands that change nothing here, unknown ones, one that needs a connection: the
\* prompt again (0) or its end (1); end of input.
OtherCommand == AtPrompt /\ Event /\ (Done(t) \/ quit)

\* open
open == AtPrompt /\ Event /\ IF p.connected THEN UNCHANGED <<p, t, handler>> ELSE Go([p EXCEPT !.pc = "arguments"], t) /\ UNCHANGED handler

\* close
bye == AtPrompt /\ p.connected /\ Event /\ toplevel(Closed(p), t)

\* logout, send: what is written at once.
logoutcmd == AtPrompt /\ p.connected /\ Event /\ netflush(Done(t))

\* z
suspend == AtPrompt /\ Event /\ Go([p EXCEPT !.pc = "stopped", !.back = p.pc], setcommandmode(t)) /\ UNCHANGED handler

\* !
shell == AtPrompt /\ Event /\ Go([p EXCEPT !.pc = "shell", !.back = p.pc], setcommandmode(t)) /\ UNCHANGED handler

\* The shell ends, or telnet goes on; the user may have changed the modes of the
\* terminal.  Only suspend looks at them.
Resume ==
  /\ p.pc \in {"stopped", "shell", "tstp"}
  /\ \E tty \in {t.tty, t.tty + 1} :
       LET x == [t EXCEPT !.tty = tty]
           q == [p EXCEPT !.pc = p.back]
       IN IF p.pc = "tstp" THEN Go(q, x) /\ UNCHANGED handler
          ELSE LET y == IF p.pc = "stopped" THEN setconnmode(TerminalSaveState(x)) ELSE x
               IN IF p.back = "top" THEN command(q, y, TRUE) ELSE Go([q EXCEPT !.pc = "session"], setconnmode(y)) /\ UNCHANGED handler
  /\ UNCHANGED events

\* tn: its arguments, the port and the name of the host.
tnArguments ==
  /\ p.pc = "arguments"
  /\ \/ Event /\ TnReturns(p)
     \/ Go([p EXCEPT !.pc = "connect"], t) /\ UNCHANGED <<handler, events>>

\* tn: the next address.  The socket of the last one stays open.
tnConnect ==
  /\ p.pc = "connect"
  /\ \/ Event /\ TnReturns([p EXCEPT !.net = "leaked"])
     \/ Event /\ Go([p EXCEPT !.net = "closed"], t) /\ UNCHANGED handler
     \/ Go([p EXCEPT !.pc = "rc", !.frame = "rc", !.connected = TRUE, !.net = "open"], t) /\ UNCHANGED <<handler, events>>

\* cmdrc: a command of .telnetrc, of those that matter here.
cmdrc == p.pc = "rc" /\ Event /\ (toplevel(Closed(p), t) \/ quit \/ netflush(UNCHANGED <<p, t, handler>>))

\* telnet, sys_telnet_init
telnet ==
  /\ p.pc = "rc"
  /\ Go([p EXCEPT !.pc = "session", !.frame = "session"], setconnmode(t)) /\ handler' = [int |-> "intr", pipe |-> "deadpeer"]
  /\ UNCHANGED events

\* An option changes the modes of the session.
NewMode ==
  /\ p.pc = "session" /\ Event
  /\ Go(p, setconnmode([t EXCEPT !.conn = IF @ = "line" THEN "char" ELSE "line"])) /\ UNCHANGED handler

\* The escape character.
Escape == p.pc = "session" /\ Event /\ command(p, t, FALSE)

\* The connection ends: telnet returns, or a write fails.
SessionEnds ==
  /\ p.pc = "session" /\ Event
  /\ ExitString(p, setcommandmode(t)) \/ deadpeer

\* SIGINT: intr, or the end of the process.
intr ==
  /\ p.pc \in {"top", "sub", "session", "arguments", "connect", "rc"} /\ Event
  /\ IF handler.int = "default" THEN Go([p EXCEPT !.pc = "exited"], t) /\ UNCHANGED handler
     ELSE IF t.localchars THEN UNCHANGED <<p, t, handler>>
     ELSE toplevel([p EXCEPT !.left = TRUE], setcommandmode(t))

\* SIGTSTP: susp, or telnet stops.
susp ==
  /\ p.pc \in {"top", "sub", "session", "arguments", "connect", "rc"} /\ Event
  /\ IF t.tstp = "susp" THEN UNCHANGED <<p, t, handler>>
     ELSE Go([p EXCEPT !.pc = "tstp", !.back = p.pc], t) /\ UNCHANGED handler

Next ==
  \/ OtherCommand \/ open \/ bye \/ logoutcmd \/ suspend \/ shell \/ Resume
  \/ tnArguments \/ tnConnect \/ cmdrc \/ telnet \/ NewMode \/ Escape \/ SessionEnds \/ intr \/ susp

Spec == Init /\ [][Next]_vars

-----------------------------------------------------------------------------
(* Properties.                                                             *)

\* Whoever has the terminal when telnet does not use it for a session (the user at
\* the prompt, a shell, the shell telnet was stopped by or ended in) finds it in the
\* user's own modes, blocking, with job control, on every way out of a session; and
\* no way out jumps into a function that has returned, except that of a write that
\* fails after SIGINT has left the session, or in .telnetrc before a second one.
TerminalGivenBack ==
  /\ p.pc = "undefined" => p.left \/ p.frame = "rc"
  /\ p.pc \in {"top", "sub", "stopped", "shell", "tstp", "exited"} =>
       t.tty # Session /\ t.saved # Session /\ ~t.nonblock /\ t.tstp = "default"
=============================================================================
