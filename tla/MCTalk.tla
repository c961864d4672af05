------------------------------- MODULE MCTalk -------------------------------
(* Small instances of Talk for TLC.                                        *)
EXTENDS Talk

(* One user calls twice, so that an invitation may be stale.               *)
Runs == [u \in Users |-> IF u = "ann" THEN 2 ELSE 1]
(* That user's talk rings again.                                           *)
Rings == [u \in Users |-> IF u = "ann" THEN 1 ELSE 0]
=============================================================================
