-------------------------------- MODULE Fifo --------------------------------
(***************************************************************************)
(* What a ring of the telnet client promises to its users: a queue of at   *)
(* most Size bytes, of which one may be urgent.  Bytes go in at one end    *)
(* and come out at the other, as many at a time as the system call takes;  *)
(* an urgent byte comes out alone, and what was urgent about a byte goes   *)
(* with it.                                                                *)
(***************************************************************************)
EXTENDS Naturals, Sequences

CONSTANTS Size, Bytes

VARIABLES
  queue,   \* the bytes, oldest first
  urgent   \* the place of the urgent byte, or 0

Init == queue = <<>> /\ urgent = 0

(* Bytes go in behind those that are there, no more than there is room for.*)
Put ==
  /\ queue' \in Seq(Bytes) /\ Len(queue') \in Len(queue)..Size
  /\ SubSeq(queue', 1, Len(queue)) = queue
  /\ UNCHANGED urgent

(* Two bytes go in; the first becomes the urgent one, or nothing is.       *)
PutUrgent ==
  /\ Len(queue) + 2 <= Size
  /\ \E a, b \in Bytes : queue' = queue \o <<a, b>>
  /\ urgent' \in {Len(queue) + 1, 0}

(* Bytes come out: all before the urgent one, or that one, or any.         *)
Take ==
  \E n \in 1..Len(queue) :
    /\ urgent = 0 \/ n < urgent \/ (urgent = 1 /\ n = 1)
    /\ queue' = SubSeq(queue, n + 1, Len(queue))
    /\ urgent' = IF n < urgent THEN urgent - n ELSE 0

(* The connection is closed: nothing is urgent any more.                   *)
Forget == urgent' = 0 /\ UNCHANGED queue

Next == Put \/ PutUrgent \/ Take \/ Forget

Spec == Init /\ [][Next]_<<queue, urgent>>
=============================================================================
