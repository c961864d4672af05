-------------------------------- MODULE MCFtp --------------------------------
(***************************************************************************)
(* ftpd and ftp for TLC, each with all the other side may do to it: a      *)
(* behaviour is one of Ftpd or one of Ftp, chosen at the start, and the    *)
(* variables of the other stay as they began.                              *)
(***************************************************************************)
EXTENDS Ftpd

VARIABLES side, ftp, replies, server, events

Ftp == INSTANCE Ftp WITH Files <- 2, NFds <- 3, MaxEvents <- 1

ftpVars == <<ftp, replies, server, events>>
allVars == <<side, vars, ftpVars>>

FtpdAlone == side = "ftpd" /\ UNCHANGED <<side, ftpVars>>
FtpAlone == side = "ftp" /\ UNCHANGED <<side, vars>>

AllInit ==
  /\ side \in {"ftp", "ftpd"} /\ Init /\ Ftp!Init
  /\ ~ftp.fromatty => ftp.passivemode
  /\ side = "ftpd" => ftp = Ftp!Start(TRUE, TRUE)

AllNext == (FtpdAlone /\ Next) \/ (FtpAlone /\ Ftp!Next)

(* The fairness that Ftpd and Ftp state.                                   *)
AllSpec ==
  /\ AllInit /\ [][AllNext]_allVars
  /\ WF_allVars((FtpdAlone /\ Ends) \/ (FtpAlone /\ Ftp!Client))
  /\ WF_allVars(FtpAlone /\ Ftp!Server)

-----------------------------------------------------------------------------

(* Every reply is read before the user is asked again (Ftp).               *)
NoReplyLeft == Ftp!NoReplyLeft

(* An interrupted command goes on only if the user says so (Ftp).          *)
AskedToGoOn == Ftp!AskedToGoOn

(* The file is converted the same way on both sides, and it is the file    *)
(* that is read or written (Ftp).                                          *)
RightFile == Ftp!SameType /\ Ftp!FileStaysOpen

(* A command of the user comes to its end (Ftp), and a server ends with    *)
(* its client (Ftpd).                                                      *)
SessionsGoOn ==
  (IF side = "ftp" THEN Ftp!Waiting ELSE gone) ~> (IF side = "ftp" THEN Ftp!Served ELSE ftpd.pc = "exited")
=============================================================================
