------------------------------- MODULE MCTftp -------------------------------
(***************************************************************************)
(* Small instances of Tftp for TLC, and beside them the conversion of      *)
(* netascii transfers: a behaviour is one of Tftp or one of Netascii,      *)
(* chosen at the start, and the variables of the other stay as they are.   *)
(***************************************************************************)
EXTENDS Tftp

VARIABLES file, pos, newline, prevRead, text, eof, filling, out, prevchar

(* Every file of up to five bytes, cut into blocks of three.               *)
Netascii == INSTANCE Netascii WITH SEGSIZE <- 3, MaxLen <- 5, block <- text

asciiVars == <<file, pos, newline, prevRead, text, eof, filling, out, prevchar>>
allVars == <<vars, asciiVars>>

(* Two tftpd serve small files without further faults, one tftpd serves    *)
(* larger ones with a fault, and block numbers wrap at the fourth block.   *)
(* A put that follows a get meets what is left of it.                      *)
Bounds(commands, blocks, servers, failures) ==
  [session |-> commands, size |-> blocks, servers |-> servers,
   faults |-> failures]
Files ==
  {Bounds(<<c>>, n, IF n <= 2 THEN 2 ELSE 1, IF n = 2 THEN 0 ELSE 1) :
     c \in {"get", "put"}, n \in 1..4}
  \cup {Bounds(<<"get", "put">>, 1, 2, 0)}
(* Not part of a run: TransferComplete fails, as a late block of the first *)
(* get may be taken for one of the second.                                 *)
TwoGets == {Bounds(<<"get", "get">>, 1, 2, 1)}
Get == {Bounds(<<"get">>, 1, 1, 0)}

(* The session without commands leaves the floor to Netascii.              *)
NoSession == Bounds(<<>>, 1, 0, 0)
All == Files \cup {NoSession}

(* The variables of Netascii when they are not used: the empty file, done. *)
AsciiIdle ==
  /\ file = <<>> /\ pos = 0 /\ newline = FALSE /\ prevRead = "none" /\ text = <<>>
  /\ eof = TRUE /\ filling = FALSE /\ out = <<>> /\ prevchar = "none"

TransferAlone == scenario # NoSession /\ UNCHANGED asciiVars
AsciiAlone == scenario = NoSession /\ UNCHANGED vars

AllInit == Init /\ IF scenario = NoSession THEN Netascii!Init ELSE AsciiIdle
AllNext == (TransferAlone /\ Next) \/ (AsciiAlone /\ Netascii!Next)
AllSpec ==
  /\ AllInit /\ [][AllNext]_allVars
  /\ WF_allVars((TransferAlone /\ Progress) \/ (AsciiAlone /\ Netascii!Next))

(* The file written is the one that was read, however its pairs were cut   *)
(* into blocks (Netascii).                                                 *)
Converted == Netascii!TypeOK /\ Netascii!Converted

(* Every command of a session comes to its end, and so does a conversion.  *)
CommandsEnd == <>[](Over /\ Netascii!Over)
=============================================================================
