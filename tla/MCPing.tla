------------------------------- MODULE MCPing -------------------------------
(* Small instances of Ping for TLC.                                        *)
EXTENDS Ping

O(type, count, preload, linger, timeout) ==
  [type |-> type, count |-> count, preload |-> preload, interval |-> Sec,
   user |-> FALSE, flood |-> FALSE, root |-> FALSE, linger |-> linger,
   timeout |-> timeout, dgram |-> FALSE]

(* Enough requests for the sequence numbers to wrap around a table of one  *)
(* bit more than once, and every kind of end.                              *)
RunOptions ==
  {O("echo", 2, 0, 1, 0), O("echo", 1, 1, 1, 1), O("address", 0, 0, 1, 0),
   [O("timestamp", 2, 1, 1, 0) EXCEPT !.dgram = TRUE],
   O("echo", 0, 0, 1, 2), O("echo", 0, 0, 1, 0),
   [O("echo", 1, 0, 1, 0) EXCEPT !.user = TRUE, !.flood = TRUE, !.root = TRUE],
   [O("echo", 1, 0, 1, 0) EXCEPT !.flood = TRUE],
   [O("echo", 1, 0, 1, 0) EXCEPT !.user = TRUE, !.interval = 0]}
=============================================================================
