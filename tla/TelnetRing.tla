----------------------------- MODULE TelnetRing -----------------------------
(***************************************************************************)
(* The ring buffers of the telnet client (telnet/ring.c) as their users    *)
(* drive them: netoring and netflush (telnet/network.c, the NETADD macros  *)
(* and the writers that look at NETROOM first), ttyoring and ttyflush      *)
(* (telnet/terminal.c), and the two input rings filled by process_rings    *)
(* (telnet/sys_bsd.c) and emptied by telrcv and telsnd.                    *)
(*                                                                         *)
(* Pointers are offsets from bottom, so bottom is 0 and top is Size.  The  *)
(* times supplytime and consumetime are only ever compared with each       *)
(* other, so last, which of the two is younger, stands for both (they are  *)
(* equal, both zero, until the first ring_supplied).                       *)
(***************************************************************************)
EXTENDS Integers, Sequences

CONSTANTS
  Size,        \* bytes of the buffer
  Bytes,       \* the values of a byte
  MaxWrite,    \* bound: bytes added at a time
  Rings,       \* which of the four rings to consider
  Crowded      \* whether a writer that does not look at NETROOM may find
               \* the ring too full for what it adds

ASSUME RingConstants ==
  /\ Size \in Nat \ {0} /\ MaxWrite \in 1..Size
  /\ 0 \in Bytes /\ Crowded \in BOOLEAN
  /\ Rings \subseteq {"netoring", "ttyoring", "netiring", "ttyiring"}

Offsets == 0..(Size - 1)
NoMark == Size + 1     \* mark == 0 in the code, no address of the buffer

VARIABLES
  ring,              \* the ring under consideration
  buf,               \* its bytes
  consume, supply,   \* where data comes out, where data comes in
  last,              \* "none", "supply" or "consume"
  mark,              \* the byte to be sent as urgent data, or NoMark
  again,             \* netflush is about to call itself
  ret,               \* what ttyflush returned
  \* History variables: no action reads them.
  due,               \* the bytes supplied and not consumed, oldest first
  urgent             \* place in the queue of the byte marked last, or 0

vars == <<ring, buf, consume, supply, last, mark, again, ret, due, urgent>>

ring_subtract(a, b) == IF a - b >= 0 THEN a - b ELSE (a - b) + Size

ring_increment(a, c) == IF a + c < Size THEN a + c ELSE (a + c) - Size

(* The code subtracts size where it should add it.                         *)
ring_decrement(a, c) == IF a - c >= 0 THEN a - c ELSE (a - c) - Size

ring_empty == consume = supply /\ last # "supply"
ring_full == supply = consume /\ last = "supply"

(* Number of bytes that may be supplied: NETROOM and TTYROOM.              *)
ring_empty_count ==
  IF ring_empty THEN Size ELSE ring_subtract(consume, supply)

ring_empty_consecutive ==
  IF consume < supply \/ ring_empty
    THEN ring_subtract(Size, supply) ELSE ring_subtract(consume, supply)

(* Faulty variant of ring_full_count: the full ring is taken for empty.    *)
ring_full_count_NoClock ==
  IF mark = NoMark \/ mark = consume
    THEN ring_subtract(supply, consume)
    ELSE ring_subtract(mark, consume)

(* Number of bytes to consume, not crossing the mark.                      *)
ring_full_count ==
  IF mark = NoMark \/ mark = consume
    THEN IF ring_full THEN Size ELSE ring_subtract(supply, consume)
    ELSE ring_subtract(mark, consume)

ring_full_consecutive ==
  IF mark = NoMark \/ mark = consume
    THEN IF supply < consume \/ ring_full
           THEN ring_subtract(Size, consume) ELSE ring_subtract(supply, consume)
    ELSE IF mark < consume
           THEN ring_subtract(Size, consume) ELSE ring_subtract(mark, consume)

(* The bytes held, oldest first.                                           *)
Held == IF ring_full THEN Size ELSE ring_subtract(supply, consume)
Contents == [i \in 1..Held |-> buf[ring_increment(consume, i - 1)]]

(* ring_init                                                               *)
Init ==
  /\ ring \in Rings /\ buf = [o \in Offsets |-> 0]
  /\ consume = 0 /\ supply = 0 /\ last = "none" /\ mark = NoMark
  /\ again = FALSE /\ ret = 0 /\ due = <<>> /\ urgent = 0
-----------------------------------------------------------------------------
(* Faulty variant of Copied: the bytes beyond the top are not copied.      *)
CopiedToTopOnly(s) ==
  [o \in Offsets |->
     IF o >= supply /\ o - supply < Len(s) THEN s[(o - supply) + 1] ELSE buf[o]]

(* s is copied to where supply points, going round at the top: the loop of *)
(* ring_supply_data, or NETADD for one byte after the other.               *)
Copied(s) ==
  [o \in Offsets |->
     IF ring_subtract(o, supply) < Len(s)
       THEN s[ring_subtract(o, supply) + 1] ELSE buf[o]]

(* ring_supplied                                                           *)
Supplied(s) ==
  /\ buf' = Copied(s)
  /\ supply' = ring_increment(supply, Len(s))
  /\ last' = "supply" /\ due' = due \o s

(* A writer that checks NETROOM first (ring_supply_data, telsnd), or       *)
(* telrcv, which runs while TTYROOM () > 2.                                *)
SupplyData(s) ==
  /\ ring \in {"netoring", "ttyoring"} /\ ~again
  /\ Len(s) <= ring_empty_count
  /\ Supplied(s)
  /\ UNCHANGED <<ring, consume, mark, again, ret, urgent>>

(* A reply to an option request, queued without a look at NETROOM.         *)
NetAdd(s) ==
  /\ ring = "netoring" /\ ~again
  /\ Crowded \/ Len(s) <= ring_empty_count
  /\ Supplied(s)
  /\ UNCHANGED <<ring, consume, mark, again, ret, urgent>>

(* process_rings reads what fits without going round.                      *)
ReadInput(s) ==
  /\ ring \in {"netiring", "ttyiring"}
  /\ Len(s) <= ring_empty_consecutive
  /\ Supplied(s)
  /\ UNCHANGED <<ring, consume, mark, again, ret, urgent>>

(* dosynch: IAC, setneturg (ring_mark) and DM.                             *)
DoSynch(iac, dm) ==
  /\ ring = "netoring" /\ ~again
  /\ Crowded \/ ring_empty_count >= 2
  /\ Supplied(<<iac, dm>>)
  /\ mark' = ring_decrement(ring_increment(supply, 1), 1)
  /\ urgent' = Len(due) + 1
  /\ UNCHANGED <<ring, consume, again, ret>>
-----------------------------------------------------------------------------
(* Faulty variant of Consumed: an empty ring is not rewound, and the mark  *)
(* stays.                                                                  *)
ConsumedKeepsMark(n) ==
  /\ mark' = mark
  /\ last' = "consume"
  /\ consume' = ring_increment(consume, n)
  /\ UNCHANGED supply
  /\ due' = SubSeq(due, n + 1, Len(due))
  /\ urgent' = IF urgent > n THEN urgent - n ELSE 0

(* ring_consumed (n > 0): a mark that was passed is cleared and an empty   *)
(* ring starts again at bottom.                                            *)
Consumed(n) ==
  /\ mark' = IF mark # NoMark /\ ring_subtract(mark, consume) < n
               THEN NoMark ELSE mark
  /\ last' = "consume"
  /\ LET c == ring_increment(consume, n) IN
     IF c = supply THEN consume' = 0 /\ supply' = 0
                   ELSE consume' = c /\ supply' = supply
  /\ due' = SubSeq(due, n + 1, Len(due))
  /\ urgent' = IF urgent > n THEN urgent - n ELSE 0

(* netflush, one send of it: the byte at the mark alone as urgent data,    *)
(* else what is contiguous up to the mark.  The socket may take less.  The *)
(* function calls itself for the other half.                               *)
NetFlush ==
  /\ ring = "netoring" /\ ring_full_consecutive > 0
  /\ LET most == IF mark = consume THEN 1 ELSE ring_full_consecutive IN
     \E n \in 1..most :
       /\ Consumed(n)
       /\ again' = (n = ring_full_consecutive /\ (ring_full_consecutive > 0)')
  /\ UNCHANGED <<ring, buf, ret>>

(* send fails: EWOULDBLOCK leaves everything as it is, any other error     *)
(* closes the connection and clears the mark.                              *)
NetFlushFails ==
  /\ ring = "netoring" /\ ring_full_consecutive > 0
  /\ again' = FALSE
  /\ \/ UNCHANGED <<mark, urgent>>
     \/ mark' = NoMark /\ urgent' = 0
  /\ UNCHANGED <<ring, buf, consume, supply, last, ret, due>>

(* ttyflush: what is contiguous and, if the terminal took all of it, the   *)
(* rest from bottom on.                                                    *)
TtyFlush ==
  /\ ring = "ttyoring"
  /\ \/ /\ ring_full_count = 0 /\ ret' = 0
        /\ UNCHANGED <<consume, supply, last, mark, due, urgent>>
     \/ \E n \in 1..ring_full_count :
          Consumed(n) /\ ret' = IF n = ring_full_count THEN -1
                                ELSE (ring_full_count - n) + 1
     \/ /\ ring_full_count > 0 /\ ret' \in {-1, ring_full_count + 1}
        /\ UNCHANGED <<consume, supply, last, mark, due, urgent>>
  /\ UNCHANGED <<ring, buf, again>>

(* telrcv and telsnd consume up to what was contiguous, less when the      *)
(* output ring they fill has no room.                                      *)
ConsumeInput ==
  /\ ring \in {"netiring", "ttyiring"}
  /\ \E n \in 1..ring_full_consecutive : Consumed(n)
  /\ UNCHANGED <<ring, buf, again, ret>>

Writes == UNION {[1..n -> Bytes] : n \in 1..MaxWrite}

Next ==
  \/ \E s \in Writes : SupplyData(s) \/ NetAdd(s) \/ ReadInput(s)
  \/ \E iac, dm \in Bytes : DoSynch(iac, dm)
  \/ NetFlush \/ NetFlushFails \/ TtyFlush \/ ConsumeInput

Spec == Init /\ [][Next]_vars
-----------------------------------------------------------------------------
TypeOK ==
  /\ ring \in Rings /\ buf \in [Offsets -> Bytes]
  /\ consume \in Offsets /\ supply \in Offsets
  /\ last \in {"none", "supply", "consume"}
  /\ mark \in Offsets \cup {NoMark, (-1) - Size}
  /\ again \in BOOLEAN /\ ret \in -1..(Size + 1)
  /\ due \in Seq(Bytes) /\ urgent \in Nat

(* "full: [consume, supply)" (ring.h): between consume and supply lie      *)
(* exactly the bytes that were supplied and not consumed, each one once    *)
(* and in order, across wrap-arounds, rewinds, marks and partial writes.   *)
HoldsAll == Contents = due

(* The mark that is set stands on the byte that setneturg meant: a mark    *)
(* never outlives its byte, so no later byte is sent as urgent data.       *)
NoStaleMark ==
  mark \in Offsets =>
    urgent \in 1..Len(due) /\ mark = ring_increment(consume, urgent - 1)

(* Scheduler asks ring_full_count whether to select for output and         *)
(* ring_empty_count whether to read; netflush, telrcv and telsnd stop when *)
(* ring_full_consecutive is 0.  None of these may be 0 while there is data *)
(* to consume (or room), whatever was wrapped or marked, and none may      *)
(* reach beyond the data (or the room).                                    *)
NoStall ==
  /\ ring_full_count # 0 <=> due # <<>>
  /\ IF due = <<>> THEN ring_full_consecutive = 0
     ELSE ring_full_consecutive \in 1..Len(due)
  /\ ring_empty_count = Size - Len(due)
  /\ IF Len(due) = Size THEN ring_empty_consecutive = 0
     ELSE ring_empty_consecutive \in 1..(Size - Len(due))

(* Where the mark stands in the queue; a mark that ring_decrement has put  *)
(* below bottom stands nowhere.                                            *)
MarkPlace == IF mark \in Offsets THEN ring_subtract(mark, consume) + 1 ELSE 0

Queue == INSTANCE Fifo WITH queue <- Contents, urgent <- MarkPlace

(* The ring, its pointers and clocks implement a queue: every operation on *)
(* them is one step of Fifo or none, so bytes come out in order and once,  *)
(* the urgent byte alone, and urgency never passes to another byte.        *)
IsFifo == Queue!Spec

(* ring_decrement goes below bottom only when the byte to be marked was    *)
(* the last one before the top, so the data then lies across the top.      *)
LostMark == mark = (-1) - Size => due # <<>> /\ supply <= consume

RingInv == TypeOK /\ HoldsAll /\ NoStaleMark /\ LostMark
=============================================================================
