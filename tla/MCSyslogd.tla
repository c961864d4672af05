----------------------------- MODULE MCSyslogd -----------------------------
(* Small instances of Syslogd for TLC.                                     *)
EXTENDS Syslogd

Entry(type, sel) == [type |-> type, sel |-> sel]
Conf(lines, inputs, repeats) ==
  [lines |-> lines, inputs |-> inputs, repeats |-> repeats]

OneFile == Conf(<<Entry("FILE", {"user", "error", "info"})>>,
                {<<"unix", "a">>, <<"unix", "long">>}, 2)
FileAndWall == Conf(<<Entry("FILE", {"error"}), Entry("WALL", {"user"})>>,
                    {<<"unix", "a">>}, 1)
FileAndHost == Conf(<<Entry("FILE", {"error"}), Entry("FORW", {"user"})>>,
                    {<<"unix", "a">>}, 1)
Pipe == Conf(<<Entry("PIPE", {"user", "error"})>>, {<<"unix", "a">>}, 1)
Console == Conf(<<Entry("CONSOLE", {"user", "kern", "mark"})>>,
                {<<"unix", "a">>, <<"klog", "a">>}, 2)
Missing == Conf(NoFile, {<<"klog", "a">>}, 1)
All == {OneFile, FileAndWall, FileAndHost, Pipe, Console, Missing}

Hops == {Conf(<<Entry("FORW", {"user"})>>,
              {<<"inet", "a">>, <<"unix", "b">>}, 2)}
Intervals == <<1, 2>>
=============================================================================
