-------------------------- MODULE TelnetRingProofs --------------------------
(* Proofs about TelnetRing, for buffers of any size and writes of any      *)
(* length.                                                                 *)
EXTENDS TelnetRing, SequenceTheorems, TLAPS

(* HoldsAll, byte by byte.                                                 *)
Matches ==
  /\ Len(due) = Held
  /\ \A i \in 1..Len(due) : due[i] = buf[ring_increment(consume, i - 1)]

(* The ring holds between 0 and Size bytes.                                *)
LEMMA HeldRange ==
  ASSUME TypeOK
  PROVE Held \in 0..Size
BY RingConstants DEF TypeOK, Held, ring_full, ring_subtract, Offsets

(* The two statements of what the ring holds agree.                        *)
LEMMA HoldsByteByByte ==
  ASSUME TypeOK
  PROVE HoldsAll <=> Matches
<1>1. Held \in Nat /\ due \in Seq(Bytes) /\ Len(due) \in Nat
  BY HeldRange, RingConstants DEF TypeOK
<1>2. ASSUME HoldsAll PROVE Matches
  <2>1. Len(Contents) = Held
    BY <1>1 DEF Contents
  <2>2. QED BY <1>1, <1>2, <2>1 DEF HoldsAll, Matches, Contents
<1>3. ASSUME Matches PROVE HoldsAll
  <2>1. due = [i \in 1..Len(due) |-> due[i]]
    BY <1>1
  <2>2. QED BY <1>1, <1>3, <2>1 DEF HoldsAll, Matches, Contents
<1>4. QED BY <1>2, <1>3

(* Adding bytes where there is room for them appends them to the queue.    *)
LEMMA SuppliedAppends ==
  ASSUME TypeOK, Matches, NEW s \in Seq(Bytes),
         Len(s) \in 1..(Size - Len(due)), Supplied(s), consume' = consume
  PROVE /\ buf' \in [Offsets -> Bytes] /\ supply' \in Offsets
        /\ due' \in Seq(Bytes) /\ Len(due') = Len(due) + Len(s) /\ Matches'
<1> DEFINE h == Len(due)
           l == Len(s)
<1>1. /\ h \in Nat /\ l \in Nat /\ l >= 1 /\ h + l <= Size
      /\ consume \in 0..(Size - 1) /\ supply \in 0..(Size - 1)
      /\ Size \in Nat \ {0} /\ h = Held
  BY RingConstants DEF TypeOK, Offsets, Matches
<1>2. supply = ring_increment(consume, h)
  BY <1>1 DEF Held, ring_full, ring_subtract, ring_increment
<1>3. supply' = ring_increment(supply, l) /\ supply' \in Offsets
  BY <1>1 DEF Supplied, ring_increment, Offsets
<1>4. Held' = h + l
  <2>1. last' = "supply"
    BY DEF Supplied
  <2>2. QED BY <1>1, <1>2, <1>3, <2>1
          DEF Held, ring_full, ring_subtract, ring_increment
<1>5. /\ due' = due \o s /\ due \in Seq(Bytes)
      /\ due' \in Seq(Bytes) /\ Len(due') = h + l
  BY DEF Supplied, TypeOK
<1>6. buf' = [o \in Offsets |->
                IF ring_subtract(o, supply) < l
                  THEN s[ring_subtract(o, supply) + 1] ELSE buf[o]]
  BY DEF Supplied, Copied
<1>7. buf' \in [Offsets -> Bytes]
  <2>1. ASSUME NEW o \in Offsets, ring_subtract(o, supply) < l
        PROVE s[ring_subtract(o, supply) + 1] \in Bytes
    <3>1. ring_subtract(o, supply) + 1 \in 1..l
      BY <1>1, <2>1 DEF ring_subtract, Offsets
    <3>2. QED BY <3>1
  <2>2. ASSUME NEW o \in Offsets PROVE buf[o] \in Bytes
    BY DEF TypeOK
  <2>3. QED BY <1>6, <2>1, <2>2
<1>8. ASSUME NEW i \in 1..(h + l)
      PROVE due'[i] = buf'[ring_increment(consume, i - 1)]
  <2> DEFINE o == ring_increment(consume, i - 1)
  <2>1. o \in Offsets
    BY <1>1 DEF ring_increment, Offsets
  <2>2. CASE i <= h
    <3>1. ring_subtract(o, supply) >= l
      BY <1>1, <1>2, <2>2, SMTT(30) DEF ring_increment, ring_subtract
    <3>2. buf'[o] = buf[o]
      BY <1>1, <1>6, <2>1, <3>1 DEF ring_subtract, Offsets
    <3>3. due[i] = buf[o] /\ due'[i] = due[i]
      BY <1>1, <1>5, <2>2 DEF Matches
    <3>4. QED BY <3>2, <3>3
  <2>3. CASE i > h
    <3>1. ring_subtract(o, supply) = i - 1 - h
      BY <1>1, <1>2, <2>3, SMTT(30) DEF ring_increment, ring_subtract
    <3>2. buf'[o] = s[i - h]
      BY <1>1, <1>6, <2>1, <2>3, <3>1
    <3>3. due'[i] = s[i - h]
      BY <1>1, <1>5, <2>3
    <3>4. QED BY <3>2, <3>3
  <2>4. QED BY <1>1, <2>2, <2>3
<1>9. QED BY <1>3, <1>4, <1>5, <1>7, <1>8 DEF Matches

(* Consuming takes bytes from the front of the queue.                      *)
LEMMA ConsumedRemoves ==
  ASSUME TypeOK, Matches, NEW n \in 1..Len(due), Consumed(n), buf' = buf
  PROVE /\ consume' \in Offsets /\ supply' \in Offsets
        /\ due' \in Seq(Bytes) /\ Len(due') = Len(due) - n /\ Matches'
<1> DEFINE h == Len(due)
           c == ring_increment(consume, n)
<1>1. /\ h \in Nat /\ n \in Nat /\ n >= 1 /\ n <= h /\ h <= Size
      /\ consume \in 0..(Size - 1) /\ supply \in 0..(Size - 1)
      /\ Size \in Nat \ {0} /\ h = Held
  BY RingConstants, HeldRange DEF TypeOK, Offsets, Matches
<1>2. /\ due' = SubSeq(due, n + 1, h) /\ due \in Seq(Bytes)
      /\ due' \in Seq(Bytes) /\ Len(due') = h - n
  BY <1>1 DEF Consumed, TypeOK
<1>3. ASSUME NEW i \in 1..(h - n) PROVE due'[i] = due[n + i]
  BY <1>1, <1>2
<1>4. last' = "consume" /\ c \in 0..(Size - 1)
  BY <1>1 DEF Consumed, ring_increment
<1>5. CASE c = supply
  <2>1. consume' = 0 /\ supply' = 0
    BY <1>5 DEF Consumed
  <2>2. h = n
    BY <1>1, <1>5 DEF Held, ring_full, ring_subtract, ring_increment
  <2>3. Held' = 0
    BY <1>4, <2>1 DEF Held, ring_full, ring_subtract
  <2>4. QED BY <1>1, <1>2, <2>1, <2>2, <2>3 DEF Matches, Offsets
<1>6. CASE c # supply
  <2>1. consume' = c /\ supply' = supply
    BY <1>6 DEF Consumed
  <2>2. Held' = h - n
    BY <1>1, <1>4, <1>6, <2>1
      DEF Held, ring_full, ring_subtract, ring_increment
  <2>3. ASSUME NEW i \in 1..(h - n)
        PROVE due'[i] = buf'[ring_increment(consume', i - 1)]
    <3>1. ring_increment(c, i - 1) = ring_increment(consume, n + i - 1)
      BY <1>1 DEF ring_increment
    <3>2. due[n + i] = buf[ring_increment(consume, n + i - 1)]
      BY <1>1 DEF Matches
    <3>3. QED BY <1>3, <2>1, <3>1, <3>2
  <2>4. QED BY <1>1, <1>2, <1>4, <2>1, <2>2, <2>3 DEF Matches, Offsets
<1>7. QED BY <1>5, <1>6

(* What the query routines answer, from the invariant.                     *)
LEMMA InvNoStall ==
  ASSUME RingInv
  PROVE NoStall /\ ring_full_count <= Len(due) /\ ring_full_consecutive <= Len(due)
<1> DEFINE h == Len(due)
<1>1. /\ consume \in 0..(Size - 1) /\ supply \in 0..(Size - 1)
      /\ Size \in Nat \ {0} /\ h \in Nat /\ h <= Size /\ h = Held
      /\ (due = <<>>) = (h = 0)
  BY RingConstants, HoldsByteByByte, HeldRange DEF RingInv, TypeOK, Offsets, Matches
<1>2. /\ ring_empty_count = Size - h
      /\ IF h = Size THEN ring_empty_consecutive = 0
         ELSE ring_empty_consecutive \in 1..(Size - h)
  BY <1>1 DEF ring_empty_count, ring_empty_consecutive, ring_empty, Held,
              ring_full, ring_subtract
<1>3. CASE mark = NoMark \/ mark = consume
  <2>1. ring_full_count = h
    BY <1>1, <1>3 DEF ring_full_count, Held
  <2>2. IF h = 0 THEN ring_full_consecutive = 0
        ELSE ring_full_consecutive \in 1..h
    BY <1>1, <1>3 DEF ring_full_consecutive, Held, ring_full, ring_subtract
  <2>3. QED BY <1>1, <1>2, <2>1, <2>2 DEF NoStall
<1>4. CASE mark \in Offsets /\ mark # consume
  <2>1. mark \in 0..(Size - 1) /\ mark # NoMark
    BY <1>1, <1>4 DEF Offsets, NoMark
  <2>2. urgent \in 1..h /\ mark = ring_increment(consume, urgent - 1)
    BY <1>4 DEF RingInv, NoStaleMark
  <2>3. ring_full_count \in 1..h
    BY <1>1, <1>4, <2>1, <2>2 DEF ring_full_count, ring_subtract, ring_increment
  <2>4. ring_full_consecutive \in 1..h
    BY <1>1, <1>4, <2>1, <2>2
      DEF ring_full_consecutive, ring_subtract, ring_increment
  <2>5. QED BY <1>1, <1>2, <2>2, <2>3, <2>4 DEF NoStall
<1>5. CASE mark = (-1) - Size
  <2>1. mark # NoMark /\ mark < consume /\ mark # consume
    BY <1>1, <1>5 DEF NoMark
  <2>2. h > 0 /\ supply <= consume
    BY <1>1, <1>5 DEF RingInv, LostMark
  <2>3. ring_full_count = (-1) - consume
    BY <1>1, <1>5, <2>1 DEF ring_full_count, ring_subtract
  <2>4. ring_full_consecutive = Size - consume
    BY <1>1, <2>1 DEF ring_full_consecutive, ring_subtract
  <2>5. h >= Size - consume
    BY <1>1, <2>2 DEF Held, ring_full, ring_subtract
  <2>6. QED BY <1>1, <1>2, <2>2, <2>3, <2>4, <2>5 DEF NoStall
<1>6. QED BY <1>3, <1>4, <1>5 DEF RingInv, TypeOK

(* The marks while bytes are added.                                        *)
LEMMA SuppliedKeepsMark ==
  ASSUME RingInv, NEW s \in Seq(Bytes), Len(s) \in 1..ring_empty_count,
         Supplied(s), UNCHANGED <<ring, consume, mark, again, ret, urgent>>
  PROVE RingInv'
<1>1. TypeOK /\ Matches /\ Len(s) \in 1..(Size - Len(due))
  BY InvNoStall, HoldsByteByByte DEF RingInv, NoStall
<1>2. /\ buf' \in [Offsets -> Bytes] /\ supply' \in Offsets
      /\ due' \in Seq(Bytes) /\ Len(due') = Len(due) + Len(s) /\ Matches'
  BY <1>1, SuppliedAppends
<1>3. last' = "supply"
  BY DEF Supplied
<1>4. TypeOK'
  BY <1>1, <1>2, <1>3 DEF TypeOK
<1>5. HoldsAll'
  <2>1. TypeOK' => (HoldsAll' <=> Matches')
    BY HoldsByteByByte, PTL
  <2>2. QED BY <1>2, <1>4, <2>1
<1>6. NoStaleMark'
  BY <1>1, <1>2, RingConstants DEF RingInv, NoStaleMark, TypeOK
<1>7. LostMark'
  <2> SUFFICES ASSUME mark = (-1) - Size
               PROVE due' # <<>> /\ supply' <= consume
    BY DEF LostMark
  <2>1. due # <<>> /\ supply <= consume
    BY DEF RingInv, LostMark
  <2>2. Len(due) = Held /\ Len(due) \in Nat /\ Len(s) \in Nat
        /\ consume \in 0..(Size - 1) /\ supply \in 0..(Size - 1)
    BY <1>1 DEF Matches, TypeOK, Offsets
  <2>3. supply' <= consume
    BY <1>1, <2>1, <2>2, RingConstants
      DEF Supplied, Held, ring_full, ring_subtract, ring_increment
  <2>4. QED BY <1>1, <1>2, <2>2, <2>3, RingConstants
<1>8. QED BY <1>4, <1>5, <1>6, <1>7 DEF RingInv

(* The marks while bytes are consumed: a mark that is passed is cleared, a *)
(* mark that is not passed keeps its byte.                                 *)
LEMMA ConsumedKeepsInv ==
  ASSUME RingInv, NEW n \in 1..Len(due), Consumed(n),
         UNCHANGED <<ring, buf>>, again' \in BOOLEAN, ret' \in -1..(Size + 1)
  PROVE RingInv'
<1> DEFINE h == Len(due)
<1>1. TypeOK /\ Matches
  BY HoldsByteByByte DEF RingInv
<1>2. /\ consume' \in Offsets /\ supply' \in Offsets
      /\ due' \in Seq(Bytes) /\ Len(due') = h - n /\ Matches'
  BY <1>1, ConsumedRemoves
<1>3. /\ h \in Nat /\ n \in Nat /\ n >= 1 /\ n <= h /\ h <= Size /\ h = Held
      /\ consume \in 0..(Size - 1) /\ supply \in 0..(Size - 1)
      /\ Size \in Nat \ {0} /\ urgent \in Nat /\ mark \in Int
  BY <1>1, RingConstants, HeldRange DEF TypeOK, Matches, Offsets, NoMark
<1>4. /\ mark' = IF mark # NoMark /\ ring_subtract(mark, consume) < n
                   THEN NoMark ELSE mark
      /\ last' = "consume"
      /\ urgent' = IF urgent > n THEN urgent - n ELSE 0
  BY DEF Consumed
<1>5. TypeOK'
  <2>1. mark' \in Offsets \cup {NoMark, (-1) - Size} /\ urgent' \in Nat
    BY <1>1, <1>3, <1>4 DEF TypeOK
  <2>2. QED BY <1>1, <1>2, <1>4, <2>1 DEF TypeOK
<1>6. HoldsAll'
  <2>1. TypeOK' => (HoldsAll' <=> Matches')
    BY HoldsByteByByte, PTL
  <2>2. QED BY <1>2, <1>5, <2>1
<1>7. mark # (-1) - Size => mark' # (-1) - Size
  BY <1>3, <1>4 DEF NoMark
<1>8. mark = (-1) - Size => mark' = NoMark
  BY <1>3, <1>4 DEF NoMark, ring_subtract
<1>9. LostMark'
  BY <1>3, <1>7, <1>8 DEF LostMark, NoMark
<1>10. NoStaleMark'
  <2> SUFFICES ASSUME mark' \in Offsets
               PROVE urgent' \in 1..Len(due') /\
                     mark' = ring_increment(consume', urgent' - 1)
    BY DEF NoStaleMark
  <2>1. mark' = mark /\ mark \in 0..(Size - 1) /\ ring_subtract(mark, consume) >= n
    BY <1>3, <1>4 DEF Offsets, NoMark, ring_subtract
  <2>2. urgent \in 1..h /\ mark = ring_increment(consume, urgent - 1)
    BY <2>1 DEF RingInv, NoStaleMark, Offsets
  <2>3. urgent - 1 >= n
    BY <1>3, <2>1, <2>2 DEF ring_subtract, ring_increment
  <2>4. urgent' = urgent - n /\ urgent' \in 1..(h - n)
    BY <1>3, <1>4, <2>2, <2>3
  <2>5. ring_increment(consume, n) # supply
    BY <1>3, <2>2, <2>3 DEF Held, ring_full, ring_subtract, ring_increment
  <2>6. consume' = ring_increment(consume, n)
    BY <2>5 DEF Consumed
  <2>7. ring_increment(consume', urgent' - 1) = ring_increment(consume, urgent - 1)
    BY <1>3, <2>2, <2>3, <2>4, <2>6 DEF ring_increment
  <2>8. QED BY <1>2, <2>1, <2>2, <2>4, <2>7
<1>11. QED BY <1>5, <1>6, <1>9, <1>10 DEF RingInv

(* dosynch: the mark stands on IAC, unless IAC is the last byte before the *)
(* top.                                                                    *)
LEMMA DoSynchKeepsInv ==
  ASSUME RingInv, ~Crowded, NEW iac \in Bytes, NEW dm \in Bytes,
         DoSynch(iac, dm)
  PROVE RingInv'
<1> DEFINE h == Len(due)
           s == <<iac, dm>>
<1>1. /\ TypeOK /\ Matches /\ s \in Seq(Bytes) /\ Len(s) = 2
      /\ h + 2 <= Size /\ h \in Nat /\ Len(s) \in 1..(Size - h)
  BY InvNoStall, HoldsByteByByte, RingConstants
    DEF RingInv, NoStall, DoSynch, TypeOK
<1>2. /\ Supplied(s) /\ urgent' = h + 1
      /\ mark' = ring_decrement(ring_increment(supply, 1), 1)
      /\ UNCHANGED <<ring, consume, again, ret>> /\ last' = "supply"
  BY DEF DoSynch, Supplied
<1>3. /\ buf' \in [Offsets -> Bytes] /\ supply' \in Offsets
      /\ due' \in Seq(Bytes) /\ Len(due') = h + 2 /\ Matches'
  BY <1>1, <1>2, SuppliedAppends
<1>4. /\ consume \in 0..(Size - 1) /\ supply \in 0..(Size - 1)
      /\ Size \in Nat \ {0} /\ h = Held
  BY <1>1, RingConstants DEF TypeOK, Offsets, Matches
<1>5. \/ supply + 1 < Size /\ mark' = supply
      \/ supply = Size - 1 /\ mark' = (-1) - Size
  BY <1>1, <1>2, <1>4 DEF ring_decrement, ring_increment
<1>6. TypeOK'
  <2>1. mark' \in Offsets \cup {NoMark, (-1) - Size}
    BY <1>4, <1>5 DEF Offsets
  <2>2. urgent' \in Nat
    BY <1>1, <1>2
  <2>3. QED BY <1>1, <1>2, <1>3, <2>1, <2>2 DEF TypeOK
<1>7. HoldsAll'
  <2>1. TypeOK' => (HoldsAll' <=> Matches')
    BY HoldsByteByByte, PTL
  <2>2. QED BY <1>3, <1>6, <2>1
<1>8. supply = ring_increment(consume, h)
  BY <1>1, <1>4 DEF Held, ring_full, ring_subtract, ring_increment
<1>9. NoStaleMark'
  <2> SUFFICES ASSUME mark' \in Offsets
               PROVE urgent' \in 1..Len(due') /\
                     mark' = ring_increment(consume', urgent' - 1)
    BY DEF NoStaleMark
  <2>1. mark' = supply
    BY <1>4, <1>5 DEF Offsets
  <2>2. QED BY <1>1, <1>2, <1>3, <1>8, <2>1
<1>10. LostMark'
  <2> SUFFICES ASSUME mark' = (-1) - Size
               PROVE due' # <<>> /\ supply' <= consume'
    BY DEF LostMark
  <2>1. supply = Size - 1
    BY <1>4, <1>5
  <2>2. supply' = 1
    BY <1>1, <1>2, <1>4, <2>1 DEF Supplied, ring_increment
  <2>3. consume >= 1
    BY <1>1, <1>4, <1>8, <2>1 DEF ring_increment
  <2>4. QED BY <1>1, <1>2, <1>3, <1>4, <2>2, <2>3
<1>11. QED BY <1>6, <1>7, <1>9, <1>10 DEF RingInv

(* Every step keeps the invariant when the writers find room.              *)
LEMMA RingStep ==
  ASSUME ~Crowded, RingInv, [Next]_vars
  PROVE RingInv'
<1>1. /\ ring_full_count <= Len(due) /\ ring_full_consecutive <= Len(due)
      /\ Len(due) \in Nat /\ ring_full_count \in Int
      /\ ring_full_consecutive \in Int /\ Size \in Nat
      /\ Len(due) <= Size /\ NoStall
  <2>1. Len(due) \in Nat /\ NoStall
    BY InvNoStall DEF RingInv, TypeOK
  <2>2. Len(due) <= Size
    BY HoldsByteByByte, HeldRange, RingConstants DEF RingInv, Matches
  <2>3. /\ consume \in Int /\ supply \in Int /\ mark \in Int /\ Size \in Nat
    BY RingConstants DEF RingInv, TypeOK, Offsets, NoMark
  <2>4. ring_full_count \in Int /\ ring_full_consecutive \in Int
    BY <2>3 DEF ring_full_count, ring_full_consecutive, ring_subtract
  <2>5. QED BY <2>1, <2>2, <2>3, <2>4, InvNoStall
<1>2. ASSUME NEW s \in Writes
      PROVE s \in Seq(Bytes) /\ Len(s) \in Nat /\ Len(s) >= 1
  BY <1>2, RingConstants DEF Writes
<1>3. ASSUME NEW s \in Writes, SupplyData(s) \/ NetAdd(s) PROVE RingInv'
  <2>1. Len(s) \in 1..ring_empty_count
    BY <1>1, <1>2, <1>3 DEF SupplyData, NetAdd, NoStall
  <2>2. Supplied(s) /\ UNCHANGED <<ring, consume, mark, again, ret, urgent>>
    BY <1>3 DEF SupplyData, NetAdd
  <2>3. QED BY <1>2, <2>1, <2>2, SuppliedKeepsMark
<1>4. ASSUME NEW s \in Writes, ReadInput(s) PROVE RingInv'
  <2>1. Len(s) \in 1..ring_empty_count
    BY <1>1, <1>2, <1>4 DEF ReadInput, NoStall
  <2>2. Supplied(s) /\ UNCHANGED <<ring, consume, mark, again, ret, urgent>>
    BY <1>4 DEF ReadInput
  <2>3. QED BY <1>2, <2>1, <2>2, SuppliedKeepsMark
<1>5. ASSUME NEW iac \in Bytes, NEW dm \in Bytes, DoSynch(iac, dm)
      PROVE RingInv'
  BY <1>5, DoSynchKeepsInv
<1>6. CASE NetFlush
  <2>1. PICK n \in 1..(IF mark = consume THEN 1 ELSE ring_full_consecutive) :
          Consumed(n) /\
          again' = (n = ring_full_consecutive /\ (ring_full_consecutive > 0)')
    BY <1>6 DEF NetFlush
  <2>2. ring_full_consecutive > 0 /\ UNCHANGED <<ring, buf, ret>>
    BY <1>6 DEF NetFlush
  <2>3. n \in 1..Len(due)
    BY <1>1, <2>1, <2>2
  <2>4. again' \in BOOLEAN /\ ret' \in -1..(Size + 1)
    BY <2>1, <2>2 DEF RingInv, TypeOK
  <2>5. QED BY <2>1, <2>2, <2>3, <2>4, ConsumedKeepsInv
<1>7. CASE NetFlushFails
  <2>1. /\ UNCHANGED <<ring, buf, consume, supply, last, ret, due>>
        /\ again' = FALSE
        /\ \/ UNCHANGED <<mark, urgent>>
           \/ mark' = NoMark /\ urgent' = 0
    BY <1>7 DEF NetFlushFails
  <2>2. TypeOK' /\ HoldsAll'
    <3>1. HoldsAll'
      BY <2>1 DEF RingInv, HoldsAll, Contents, Held, ring_full
    <3>2. mark' \in Offsets \cup {NoMark, (-1) - Size} /\ urgent' \in Nat
      BY <2>1 DEF RingInv, TypeOK
    <3>3. QED BY <2>1, <3>1, <3>2 DEF RingInv, TypeOK
  <2>3. NoMark \notin Offsets /\ NoMark # (-1) - Size
    BY RingConstants DEF NoMark, Offsets
  <2>4. NoStaleMark' /\ LostMark'
    BY <2>1, <2>3 DEF RingInv, NoStaleMark, LostMark
  <2>5. QED BY <2>2, <2>4 DEF RingInv
<1>8. CASE TtyFlush
  <2>1. UNCHANGED <<ring, buf, again>>
    BY <1>8 DEF TtyFlush
  <2>2. ASSUME NEW n \in 1..ring_full_count, Consumed(n),
               ret' = IF n = ring_full_count THEN -1
                      ELSE (ring_full_count - n) + 1
        PROVE RingInv'
    <3>1. n \in 1..Len(due) /\ ret' \in -1..(Size + 1) /\ again' \in BOOLEAN
      BY <1>1, <2>1, <2>2 DEF RingInv, TypeOK
    <3>2. QED BY <2>1, <2>2, <3>1, ConsumedKeepsInv
  <2>3. ASSUME UNCHANGED <<consume, supply, last, mark, due, urgent>>,
               ret' \in -1..(Size + 1)
        PROVE RingInv'
    BY <2>1, <2>3 DEF RingInv, TypeOK, HoldsAll, Contents, Held, ring_full,
                     NoStaleMark, LostMark
  <2>4. 0 \in -1..(Size + 1) /\ -1 \in -1..(Size + 1)
        /\ (ring_full_count > 0 => ring_full_count + 1 \in -1..(Size + 1))
    BY <1>1
  <2>5. QED BY <1>8, <2>2, <2>3, <2>4 DEF TtyFlush
<1>9. CASE ConsumeInput
  <2>1. PICK n \in 1..ring_full_consecutive : Consumed(n)
    BY <1>9 DEF ConsumeInput
  <2>2. UNCHANGED <<ring, buf, again, ret>> /\ n \in 1..Len(due)
    BY <1>1, <1>9, <2>1 DEF ConsumeInput
  <2>3. QED BY <2>1, <2>2, ConsumedKeepsInv DEF RingInv, TypeOK
<1>10. CASE UNCHANGED vars
  BY <1>10 DEF vars, RingInv, TypeOK, HoldsAll, Contents, Held, ring_full,
               NoStaleMark, LostMark
<1>11. QED BY <1>3, <1>4, <1>5, <1>6, <1>7, <1>8, <1>9, <1>10 DEF Next

(* A ring that is just initialised holds nothing.                          *)
LEMMA RingInit == Init => RingInv
<1> SUFFICES ASSUME Init PROVE RingInv
  OBVIOUS
<1>1. /\ consume = 0 /\ supply = 0 /\ due = <<>> /\ mark = NoMark
      /\ last = "none" /\ buf = [o \in Offsets |-> 0]
      /\ again = FALSE /\ ret = 0 /\ urgent = 0 /\ ring \in Rings
  BY DEF Init
<1>2. /\ 0 \in Offsets /\ 0 \in Bytes /\ NoMark \notin Offsets
      /\ NoMark # (-1) - Size /\ 0 \in -1..(Size + 1)
  BY RingConstants DEF Offsets, NoMark
<1>3. TypeOK
  BY <1>1, <1>2 DEF TypeOK
<1>4. Matches
  BY <1>1, <1>2 DEF Matches, Held, ring_full, ring_subtract
<1>5. NoStaleMark /\ LostMark
  BY <1>1, <1>2 DEF NoStaleMark, LostMark
<1>6. QED BY <1>3, <1>4, <1>5, HoldsByteByByte DEF RingInv

(* As long as the writers that do not look at NETROOM find room, each ring *)
(* holds exactly the bytes supplied and not consumed, in order, and no     *)
(* mark outlives its byte: for buffers of every size.                      *)
THEOREM RingHoldsAll == ~Crowded /\ Spec => [](HoldsAll /\ NoStaleMark)
<1> SUFFICES ASSUME ~Crowded PROVE Spec => [](HoldsAll /\ NoStaleMark)
  OBVIOUS
<1>1. RingInv /\ [Next]_vars => RingInv'
  BY RingStep
<1>2. RingInv => HoldsAll /\ NoStaleMark
  BY DEF RingInv
<1>3. QED BY <1>1, <1>2, RingInit, PTL DEF Spec

(* And Scheduler, netflush, telrcv and telsnd never stop short of data or  *)
(* of room because of what the query routines answer.                      *)
THEOREM RingNoStall == ~Crowded /\ Spec => []NoStall
<1> SUFFICES ASSUME ~Crowded PROVE Spec => []NoStall
  OBVIOUS
<1>1. RingInv /\ [Next]_vars => RingInv'
  BY RingStep
<1>2. RingInv => NoStall
  BY InvNoStall
<1>3. QED BY <1>1, <1>2, RingInit, PTL DEF Spec
(* Only the ring of the network output is ever marked.                     *)
OnlyNetMarked == ring # "netoring" => mark = NoMark

(* A step keeps it: dosynch marks netoring, and no ring turns into         *)
(* another.                                                                *)
LEMMA OnlyNetMarkedStep ==
  ASSUME OnlyNetMarked, [Next]_vars
  PROVE OnlyNetMarked'
<1>1. ring' = ring
  BY DEF Next, vars, SupplyData, NetAdd, ReadInput, DoSynch, NetFlush,
         NetFlushFails, TtyFlush, ConsumeInput
<1>2. ASSUME ring # "netoring" PROVE mark' = NoMark
  <2>1. mark = NoMark
    BY <1>2 DEF OnlyNetMarked
  <2>2. ASSUME NEW n, Consumed(n) PROVE mark' = NoMark
    BY <2>1, <2>2 DEF Consumed
  <2>3. \A iac, dm \in Bytes : ~DoSynch(iac, dm)
    BY <1>2 DEF DoSynch
  <2>4. ~NetFlush /\ ~NetFlushFails
    BY <1>2 DEF NetFlush, NetFlushFails
  <2>5. CASE \E s \in Writes : SupplyData(s) \/ NetAdd(s) \/ ReadInput(s)
    BY <2>1, <2>5 DEF SupplyData, NetAdd, ReadInput
  <2>6. CASE TtyFlush
    BY <2>1, <2>2, <2>6 DEF TtyFlush
  <2>7. CASE ConsumeInput
    BY <2>2, <2>7 DEF ConsumeInput
  <2>8. CASE UNCHANGED vars
    BY <2>1, <2>8 DEF vars
  <2>9. QED BY <2>3, <2>4, <2>5, <2>6, <2>7, <2>8 DEF Next
<1>3. QED BY <1>1, <1>2 DEF OnlyNetMarked

(* The place of the mark is that of the byte marked last, while it is set. *)
MarkIsUrgent == MarkPlace = IF mark \in Offsets THEN urgent ELSE 0

(* It follows from the invariant.                                          *)
LEMMA PlaceOfMark ==
  ASSUME RingInv
  PROVE MarkIsUrgent
<1>1. CASE mark \in Offsets
  <2>1. urgent \in 1..Len(due) /\ mark = ring_increment(consume, urgent - 1)
    BY <1>1 DEF RingInv, NoStaleMark
  <2>2. /\ consume \in 0..(Size - 1) /\ Size \in Nat \ {0}
        /\ Len(due) \in Nat /\ Len(due) <= Size
    BY RingConstants, HoldsByteByByte, HeldRange DEF RingInv, TypeOK, Offsets, Matches
  <2>3. ring_subtract(mark, consume) = urgent - 1
    BY <2>1, <2>2 DEF ring_subtract, ring_increment
  <2>4. QED BY <1>1, <2>1, <2>2, <2>3 DEF MarkPlace, MarkIsUrgent
<1>2. CASE mark \notin Offsets
  BY <1>2 DEF MarkPlace, MarkIsUrgent
<1>3. QED BY <1>1, <1>2

(* The queue is no longer than the buffer.                                 *)
Fits == Len(due) <= Size

(* It follows from the invariant.                                          *)
LEMMA InvFits ==
  ASSUME RingInv
  PROVE Fits
BY HoldsByteByByte, HeldRange, RingConstants DEF RingInv, Matches, Fits

(* Bytes supplied are put into the queue.                                  *)
LEMMA SuppliedPuts ==
  ASSUME RingInv, RingInv', NEW s \in Seq(Bytes), Supplied(s),
         UNCHANGED <<consume, mark>>
  PROVE Queue!Put
<1>1. Contents = due /\ Contents' = due' /\ MarkPlace' = MarkPlace
  BY DEF RingInv, HoldsAll, MarkPlace
<1>2. /\ due \in Seq(Bytes) /\ due' \in Seq(Bytes) /\ due' = due \o s
  BY DEF Supplied, RingInv, TypeOK
<1>3. Len(due') = Len(due) + Len(s) /\ SubSeq(due', 1, Len(due)) = due
  <2>1. Len(due') = Len(due) + Len(s)
    BY <1>2
  <2> DEFINE front == SubSeq(due', 1, Len(due))
  <2>2. front \in Seq(Bytes) /\ Len(front) = Len(due)
    BY <1>2, <2>1
  <2>3. \A i \in 1..Len(due) : front[i] = due[i]
    BY <1>2, <2>1
  <2>4. QED BY <1>2, <2>1, <2>2, <2>3, SeqEqual
<1>4. Len(due') \in Len(due)..Size
  <2>1. Len(due') <= Size
    <3>1. RingInv' => Fits'
      BY InvFits, PTL
    <3>2. QED BY <3>1 DEF Fits
  <2>2. QED BY <1>2, <1>3, <2>1, RingConstants
<1>5. QED BY <1>1, <1>2, <1>3, <1>4 DEF Queue!Put

(* Bytes consumed are taken from the queue, never beyond the urgent one.   *)
LEMMA ConsumedTakes ==
  ASSUME RingInv, RingInv', NEW n \in 1..Len(due), Consumed(n),
         MarkPlace = 0 \/ n < MarkPlace \/ (MarkPlace = 1 /\ n = 1)
  PROVE Queue!Take
<1>1. Contents = due /\ Contents' = due'
  BY DEF RingInv, HoldsAll
<1>2. due' = SubSeq(due, n + 1, Len(due))
  BY DEF Consumed
<1>3. /\ consume \in 0..(Size - 1) /\ Size \in Nat \ {0} /\ n \in Nat /\ n >= 1
      /\ urgent \in Nat /\ Len(due) \in Nat
      /\ mark \in Offsets \cup {NoMark, (-1) - Size} /\ mark \in Int
      /\ NoMark \notin Offsets /\ (-1) - Size \notin Offsets
  BY RingConstants DEF RingInv, TypeOK, Offsets, NoMark
<1>4. /\ mark' = IF mark # NoMark /\ ring_subtract(mark, consume) < n
                   THEN NoMark ELSE mark
      /\ urgent' = IF urgent > n THEN urgent - n ELSE 0
  BY DEF Consumed
<1>5. /\ MarkPlace = IF mark \in Offsets THEN urgent ELSE 0
      /\ MarkPlace' = IF mark' \in Offsets THEN urgent' ELSE 0
  <2>1. RingInv' => MarkIsUrgent'
    BY PlaceOfMark, PTL
  <2>2. QED BY <2>1, PlaceOfMark DEF MarkIsUrgent
<1>6. MarkPlace' = IF n < MarkPlace THEN MarkPlace - n ELSE 0
  <2>1. CASE mark \in Offsets
    <3>1. MarkPlace = ring_subtract(mark, consume) + 1 /\ MarkPlace = urgent
      BY <1>5, <2>1 DEF MarkPlace
    <3>2. mark # NoMark /\ mark \in 0..(Size - 1)
      BY <1>3, <2>1 DEF Offsets
    <3>3. ring_subtract(mark, consume) \in Int
      BY <1>3, <3>2 DEF ring_subtract
    <3>4. CASE n < MarkPlace
      <4>1. mark' = mark /\ urgent' = urgent - n
        BY <1>3, <1>4, <3>1, <3>2, <3>3, <3>4
      <4>2. QED BY <1>5, <2>1, <3>1, <3>4, <4>1
    <3>5. CASE ~(n < MarkPlace)
      <4>1. mark' = NoMark
        BY <1>3, <1>4, <3>1, <3>2, <3>3, <3>5
      <4>2. QED BY <1>3, <1>5, <3>5, <4>1
    <3>6. QED BY <3>4, <3>5
  <2>2. CASE mark \notin Offsets
    <3>1. MarkPlace = 0 /\ mark' \notin Offsets
      BY <1>3, <1>4, <1>5, <2>2
    <3>2. QED BY <1>3, <1>5, <3>1
  <2>3. QED BY <2>1, <2>2
<1>7. n \in 1..Len(Contents)
  BY <1>1
<1>8. QED BY <1>1, <1>2, <1>6, <1>7 DEF Queue!Take

(* dosynch puts two bytes, the first of them urgent or none.               *)
LEMMA DoSynchPutsUrgent ==
  ASSUME RingInv, RingInv', ~Crowded, NEW iac \in Bytes, NEW dm \in Bytes,
         DoSynch(iac, dm)
  PROVE Queue!PutUrgent
<1>1. Contents = due /\ Contents' = due' /\ due' = due \o <<iac, dm>>
  BY DEF RingInv, HoldsAll, DoSynch, Supplied
<1>2. Len(due) + 2 <= Size
  <2>1. ring_empty_count >= 2 /\ ring_empty_count = Size - Len(due)
    BY InvNoStall DEF DoSynch, NoStall
  <2>2. Len(due) \in Nat /\ Size \in Nat
    BY RingConstants DEF RingInv, TypeOK
  <2>3. QED BY <2>1, <2>2
<1>3. MarkPlace' \in {Len(due) + 1, 0}
  <2>1. RingInv' => MarkIsUrgent'
    BY PlaceOfMark, PTL
  <2>2. urgent' = Len(due) + 1
    BY DEF DoSynch
  <2>3. QED BY <2>1, <2>2 DEF MarkIsUrgent
<1>4. QED BY <1>1, <1>2, <1>3 DEF Queue!PutUrgent

(* Every step of the ring is a step of the queue, or none.                 *)
LEMMA QueueStep ==
  ASSUME ~Crowded, RingInv, RingInv', OnlyNetMarked, [Next]_vars
  PROVE [Queue!Next]_<<Contents, MarkPlace>>
<1>1. /\ ring_full_count <= Len(due) /\ ring_full_consecutive <= Len(due)
      /\ Len(due) \in Nat /\ consume \in 0..(Size - 1) /\ supply \in 0..(Size - 1)
      /\ Size \in Nat \ {0} /\ mark \in Int
      /\ NoMark \notin Offsets /\ (-1) - Size \notin Offsets
      /\ mark \in Offsets \cup {NoMark, (-1) - Size}
  BY InvNoStall, RingConstants DEF RingInv, TypeOK, Offsets, NoMark
<1>2. ring_full_count \in Int /\ ring_full_consecutive \in Int
  BY <1>1 DEF ring_full_count, ring_full_consecutive, ring_subtract
<1>3. ASSUME NEW s \in Writes PROVE s \in Seq(Bytes)
  BY <1>3, RingConstants DEF Writes
<1>4. ASSUME NEW s \in Writes, SupplyData(s) \/ NetAdd(s) \/ ReadInput(s)
      PROVE Queue!Next
  <2>1. Supplied(s) /\ UNCHANGED <<consume, mark>>
    BY <1>4 DEF SupplyData, NetAdd, ReadInput
  <2>2. QED BY <1>3, <2>1, SuppliedPuts DEF Queue!Next
<1>5. ASSUME NEW iac \in Bytes, NEW dm \in Bytes, DoSynch(iac, dm)
      PROVE Queue!Next
  BY <1>5, DoSynchPutsUrgent DEF Queue!Next
<1>6. CASE NetFlush
  <2>1. PICK n \in 1..(IF mark = consume THEN 1 ELSE ring_full_consecutive) :
          Consumed(n)
    BY <1>6 DEF NetFlush
  <2>2. ring_full_consecutive > 0
    BY <1>6 DEF NetFlush
  <2>3. n \in 1..Len(due)
    BY <1>1, <1>2, <2>1, <2>2
  <2>4. MarkPlace = 0 \/ n < MarkPlace \/ (MarkPlace = 1 /\ n = 1)
    <3>1. CASE mark \notin Offsets
      BY <3>1 DEF MarkPlace
    <3>2. CASE mark \in Offsets /\ mark = consume
      <4>1. n = 1
        BY <2>1, <3>2
      <4>2. MarkPlace = 1
        BY <1>1, <3>2 DEF MarkPlace, ring_subtract
      <4>3. QED BY <4>1, <4>2
    <3>3. CASE mark \in Offsets /\ mark # consume
      <4>1. n <= ring_full_consecutive /\ n \in Nat
        BY <1>2, <2>1, <3>3
      <4>2. mark \in 0..(Size - 1) /\ mark # NoMark
        BY <1>1, <3>3 DEF Offsets
      <4>3. ring_full_consecutive <= ring_subtract(mark, consume)
        BY <1>1, <3>3, <4>2 DEF ring_full_consecutive, ring_subtract
      <4>4. MarkPlace = ring_subtract(mark, consume) + 1
        BY <3>3 DEF MarkPlace
      <4>5. ring_subtract(mark, consume) \in Int
        BY <1>1 DEF ring_subtract
      <4>6. QED BY <1>2, <4>1, <4>3, <4>4, <4>5
    <3>4. QED BY <3>1, <3>2, <3>3
  <2>5. QED BY <2>1, <2>3, <2>4, ConsumedTakes DEF Queue!Next
<1>7. CASE NetFlushFails
  <2>1. UNCHANGED <<buf, consume, supply, last>> /\ (UNCHANGED mark \/ mark' = NoMark)
    BY <1>7 DEF NetFlushFails
  <2>2. Contents' = Contents
    BY <2>1 DEF Contents, Held, ring_full
  <2>3. MarkPlace' \in {MarkPlace, 0}
    BY <1>1, <2>1 DEF MarkPlace
  <2>4. QED BY <2>2, <2>3 DEF Queue!Next, Queue!Forget
<1>8. ring # "netoring" => MarkPlace = 0
  BY <1>1 DEF OnlyNetMarked, MarkPlace
<1>9. CASE TtyFlush
  <2>1. MarkPlace = 0
    BY <1>8, <1>9 DEF TtyFlush
  <2>2. ASSUME NEW n \in 1..ring_full_count, Consumed(n) PROVE Queue!Next
    <3>1. n \in 1..Len(due)
      BY <1>1, <1>2, <2>2
    <3>2. QED BY <2>1, <2>2, <3>1, ConsumedTakes DEF Queue!Next
  <2>3. ASSUME UNCHANGED <<buf, consume, supply, last, mark>>
        PROVE UNCHANGED <<Contents, MarkPlace>>
    BY <2>3 DEF Contents, MarkPlace, Held, ring_full
  <2>4. QED BY <1>9, <2>2, <2>3 DEF TtyFlush
<1>10. CASE ConsumeInput
  <2>1. PICK n \in 1..ring_full_consecutive : Consumed(n)
    BY <1>10 DEF ConsumeInput
  <2>2. n \in 1..Len(due) /\ MarkPlace = 0
    BY <1>1, <1>2, <1>8, <1>10, <2>1 DEF ConsumeInput
  <2>3. QED BY <2>1, <2>2, ConsumedTakes DEF Queue!Next
<1>11. CASE UNCHANGED vars
  BY <1>11 DEF vars, Contents, MarkPlace, Held, ring_full
<1>12. QED BY <1>4, <1>5, <1>6, <1>7, <1>9, <1>10, <1>11 DEF Next

(* The ring of ring.c, with its two pointers, its mark and its clocks,     *)
(* implements the queue with one urgent byte that the rest of the client   *)
(* takes it for: for buffers of every size, as long as the writers that do *)
(* not look at NETROOM find room.                                          *)
THEOREM RingIsFifo == ~Crowded /\ Spec => IsFifo
<1> SUFFICES ASSUME ~Crowded PROVE Spec => IsFifo
  OBVIOUS
<1>1. Init => Queue!Init
  <2> SUFFICES ASSUME Init PROVE Contents = <<>> /\ MarkPlace = 0
    BY DEF Queue!Init
  <2>1. Contents = <<>>
    BY RingInit DEF RingInv, HoldsAll, Init
  <2>2. mark \notin Offsets
    BY RingConstants DEF Init, NoMark, Offsets
  <2>3. QED BY <2>1, <2>2 DEF MarkPlace
<1>2. Init => RingInv /\ OnlyNetMarked
  BY RingInit DEF Init, OnlyNetMarked
<1>3. RingInv /\ OnlyNetMarked /\ [Next]_vars => RingInv' /\ OnlyNetMarked'
  BY RingStep, OnlyNetMarkedStep
<1>4. RingInv /\ RingInv' /\ OnlyNetMarked /\ [Next]_vars
        => [Queue!Next]_<<Contents, MarkPlace>>
  BY QueueStep
<1>5. QED BY <1>1, <1>2, <1>3, <1>4, PTL DEF Spec, IsFifo, Queue!Spec
=============================================================================
