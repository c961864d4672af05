---------------------------- MODULE TftpBuffers -----------------------------
(***************************************************************************)
(* The two packet buffers of libinetutils/tftpsubs.c, which tftp and tftpd *)
(* share: data are read from the file while the previous block is on its   *)
(* way (read_ahead) and written to it while the next one is (write_behind).*)
(*                                                                         *)
(* The state bfs, current, nextone and the position of the open file is a  *)
(* record, the routines are functions of it.  A file is a sequence of      *)
(* blocks of SEGSIZE bytes, of which the last one is shorter and may be    *)
(* empty; a block of the file t is <<t, n>>.                               *)
(***************************************************************************)
EXTENDS Integers, Sequences

NoBody == [op |-> "none", block |-> 0, data |-> <<0, 0>>]
Data(n, d) == [op |-> "DATA", block |-> n, data |-> d]

(* counter is BF_ALLOC, BF_FREE or a size; body is what the buffer holds,  *)
(* which stays there when it is freed.                                     *)
Buffers(counter, body, current, nextone, pos) ==
  [counter |-> counter, body |-> body, current |-> current,
   nextone |-> nextone, pos |-> pos]

(* rw_init: x is 1 to read ahead, 0 to write behind                        *)
rw_init(x) ==
  Buffers([i \in 0..1 |-> IF i = 0 THEN "alloc" ELSE "free"],
          [i \in 0..1 |-> NoBody], 0, x, 0)

(* Faulty variant of read_ahead: a buffer in use is filled again.          *)
read_aheadAgain(b, t) ==
  Buffers([b.counter EXCEPT ![b.nextone] = "full"],
          [b.body EXCEPT ![b.nextone] = Data(0, <<t, b.pos + 1>>)],
          b.current, 1 - b.nextone, b.pos + 1)

(* The next block of the file t is read into the next buffer if it is free.*)
read_ahead(b, t) ==
  IF b.counter[b.nextone] # "free" THEN b
  ELSE Buffers([b.counter EXCEPT ![b.nextone] = "full"],
               [b.body EXCEPT ![b.nextone] = Data(0, <<t, b.pos + 1>>)],
               b.current, 1 - b.nextone, b.pos + 1)

(* The old buffer is freed, the other one, filled now if it was not read   *)
(* ahead, becomes current.                                                 *)
readit(b, t) ==
  LET other == 1 - b.current
      freed == Buffers([b.counter EXCEPT ![b.current] = "free"], b.body,
                       other, b.nextone, b.pos)
  IN IF b.counter[other] = "free" THEN read_ahead(freed, t) ELSE freed

ToWrite(b) == b.counter[b.nextone] = "full"

(* Faulty variant of write_behind: the buffer is not released.             *)
write_behindKeeps(b, lost) ==
  IF ~ToWrite(b) THEN b
  ELSE Buffers(b.counter, b.body, b.current, 1 - b.nextone, b.pos + 1)

(* write_behind: the next buffer is written to the file, where the file    *)
(* descriptor stands, and freed.  A write () that is lost (1 for yes)      *)
(* leaves the descriptor where it is.                                      *)
write_behind(b, lost) ==
  IF ~ToWrite(b) THEN b
  ELSE Buffers([b.counter EXCEPT ![b.nextone] = "free"], b.body,
               b.current, 1 - b.nextone, (b.pos + 1) - lost)

(* The body received becomes the contents of the current buffer, and the   *)
(* other buffer is handed out.  (It was written already; the code would    *)
(* call write_behind here if it was not.)                                  *)
writeit(b, received) ==
  LET other == 1 - b.current IN
  Buffers([b.counter EXCEPT ![b.current] = "full", ![other] = "alloc"],
          [b.body EXCEPT ![b.current] = received], other, b.nextone, b.pos)

Hole == <<0, 0>>

(* write (): a block goes where the descriptor stands; what lies between   *)
(* it and the end of a file truncated meanwhile reads as zeros.            *)
WriteAt(file, pos, d) ==
  [i \in 1..(IF pos < Len(file) THEN Len(file) ELSE pos + 1) |->
     IF i = pos + 1 THEN d ELSE IF i <= Len(file) THEN file[i] ELSE Hole]
=============================================================================
