------------------------------ MODULE MCInetd -------------------------------
(* Small instances of Inetd for TLC.                                       *)
EXTENDS Inetd

Kinds == [s \in Services |->
  IF s = "tftp" THEN "dgram" ELSE IF s = "time" THEN "internal" ELSE "stream"]

E(name, w) == [s |-> name, w |-> w]

(* One file, in which a service is taken out and put back.                 *)
OneFile == {<<{E("tftp", 1), E("shell", 0)}>>, <<{E("tftp", 1), E("time", 0)}>>}
(* One file that does not change.                                          *)
Constant == {<<{E("tftp", 1), E("shell", 0), E("time", 0)}>>}
=============================================================================
