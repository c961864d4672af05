------------------------------ MODULE Netascii ------------------------------
(***************************************************************************)
(* The netascii conversion of libinetutils/tftpsubs.c: read_ahead turns LF *)
(* into CR LF and CR into CR NUL while it fills a block of SEGSIZE bytes,  *)
(* write_behind turns them back.  A pair may be cut in two by the end of a *)
(* block, so both keep what they need in global variables.  One step is    *)
(* one turn of either loop; how blocks get across is the matter of Tftp.   *)
(***************************************************************************)
EXTENDS Integers, Sequences

CONSTANTS
  SEGSIZE,   \* bytes of a block: 512 in the code
  MaxLen     \* bound: length of the files

Bytes == {"LF", "CR", "NUL", "x"}
Files == UNION {[1..n -> Bytes] : n \in 0..MaxLen}

VARIABLES
  file, pos,          \* the file read and how many of its bytes were
  newline, prevRead,  \* newline and prevchar of the reading process
  block, eof,         \* the block being filled, or emptied; the last one
  filling,            \* which loop runs
  out, prevchar       \* the file written, prevchar of the writing process

vars == <<file, pos, newline, prevRead, block, eof, filling, out, prevchar>>

(* rw_init on both sides                                                   *)
Init ==
  /\ file \in Files /\ pos = 0
  /\ newline = FALSE /\ prevRead = "none"
  /\ block = <<>> /\ eof = FALSE /\ filling = TRUE
  /\ out = <<>> /\ prevchar = "none"
-----------------------------------------------------------------------------
(* The second byte of a pair.                                              *)
SecondByte ==
  /\ filling /\ Len(block) < SEGSIZE /\ newline
  /\ block' = Append(block, IF prevRead = "LF" THEN "LF" ELSE "NUL")
  /\ newline' = FALSE
  /\ UNCHANGED <<file, pos, prevRead, eof, filling, out, prevchar>>

(* getc, and the first byte of a pair for LF and CR                        *)
NextByte ==
  /\ filling /\ Len(block) < SEGSIZE /\ ~newline /\ pos < Len(file)
  /\ LET c == file[pos + 1] IN
     /\ block' = Append(block, IF c \in {"LF", "CR"} THEN "CR" ELSE c)
     /\ newline' = (c \in {"LF", "CR"})
     /\ prevRead' = IF c \in {"LF", "CR"} THEN c ELSE prevRead
  /\ pos' = pos + 1
  /\ UNCHANGED <<file, eof, filling, out, prevchar>>

(* Faulty variant of BlockFilled: a pair does not outlive its block.       *)
BlockFilledForgets ==
  /\ filling
  /\ Len(block) = SEGSIZE \/ (~newline /\ pos = Len(file))
  /\ eof' = (Len(block) < SEGSIZE) /\ filling' = FALSE /\ newline' = FALSE
  /\ UNCHANGED <<file, pos, prevRead, block, out, prevchar>>

(* The block is full, or the file is at its end: the block is sent.        *)
BlockFilled ==
  /\ filling
  /\ Len(block) = SEGSIZE \/ (~newline /\ pos = Len(file))
  /\ eof' = (Len(block) < SEGSIZE) /\ filling' = FALSE
  /\ UNCHANGED <<file, pos, newline, prevRead, block, out, prevchar>>

(* One byte received: the LF of CR LF goes on top of the CR, the NUL of    *)
(* CR NUL is dropped.                                                      *)
WriteByte ==
  /\ ~filling /\ block # <<>>
  /\ LET c == Head(block) IN
     /\ out' = IF prevchar = "CR" /\ c = "LF"
                 THEN [out EXCEPT ![Len(out)] = "LF"]
                 ELSE IF prevchar = "CR" /\ c = "NUL" THEN out
                 ELSE Append(out, c)
     /\ prevchar' = c
  /\ block' = Tail(block)
  /\ UNCHANGED <<file, pos, newline, prevRead, eof, filling>>

BlockWritten ==
  /\ ~filling /\ block = <<>> /\ ~eof
  /\ filling' = TRUE
  /\ UNCHANGED <<file, pos, newline, prevRead, block, eof, out, prevchar>>

Done == ~filling /\ block = <<>> /\ eof /\ UNCHANGED vars

Next == SecondByte \/ NextByte \/ BlockFilled \/ WriteByte \/ BlockWritten
        \/ Done
Spec == Init /\ [][Next]_vars /\ WF_vars(Next)
-----------------------------------------------------------------------------
TypeOK ==
  /\ file \in Seq(Bytes) /\ pos \in 0..Len(file)
  /\ newline \in BOOLEAN /\ prevRead \in {"none", "LF", "CR"}
  /\ block \in Seq(Bytes) /\ Len(block) <= SEGSIZE
  /\ eof \in BOOLEAN /\ filling \in BOOLEAN
  /\ out \in Seq(Bytes) /\ prevchar \in Bytes \cup {"none"}

(* Whenever a block has been written, wherever it was cut, the file        *)
(* written is what was read of the other one, or has in place of its last  *)
(* byte the CR of a pair cut in two.  After the last block it is that file.*)
Converted ==
  ~filling /\ block = <<>> =>
    out = IF newline THEN Append(SubSeq(file, 1, pos - 1), "CR")
          ELSE SubSeq(file, 1, pos)

(* The transfer has ended, also when the file fills its last block exactly.*)
Over == eof /\ block = <<>> /\ out = file
=============================================================================
