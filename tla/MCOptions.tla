----------------------------- MODULE MCOptions -----------------------------
(* Options on command lines of the options of README.md, well written or   *)
(* not: clusters, joined and missing arguments, stray words.               *)
EXTENDS Options

Opt(long, short, req, fn) ==
    [longname |-> long, shortname |-> short, required |-> req, fn |-> fn]
MainOpts == {Opt("freq", "f", TRUE, FALSE), Opt("time", "t", TRUE, FALSE),
             Opt("option", "o", TRUE, FALSE),
             Opt("overhead-stats", "s", FALSE, FALSE)}
SensorOpts == {Opt("sysload", "u", FALSE, FALSE), Opt("cpu-temp", "c", FALSE, FALSE),
               Opt("net-dev", "d", TRUE, FALSE), Opt("list", "l", FALSE, TRUE)}

Item(words, main, sensors) ==
    [words |-> words, main |-> main, sensors |-> sensors]
MainItems == {
    Item(<<Short(<<"f">>), Word("2")>>,     <<<<"f", Word("2")>>>>, <<>>),
    Item(<<Short(<<"o", "f">>)>>,           <<<<"o", Word("f")>>>>, <<>>),
    Item(<<LongArg("freq", "3")>>,          <<<<"f", Word("3")>>>>, <<>>),
    Item(<<Short(<<"s", "t", "0">>)>>,
         <<<<"s", NoArg>>, <<"t", Word("0")>>>>, <<>>),
    Item(<<Long("time"), Word("2")>>,       <<<<"t", Word("2")>>>>, <<>>)}
SensorItems == {
    Item(<<Short(<<"u", "c">>)>>,  <<>>, <<<<"u", NoArg>>, <<"c", NoArg>>>>),
    Item(<<Short(<<"d">>), Word("eth0")>>,  <<>>, <<<<"d", Word("eth0")>>>>),
    Item(<<Short(<<"u", "d", "X">>)>>,
         <<>>, <<<<"u", NoArg>>, <<"d", Word("X")>>>>),
    Item(<<LongArg("net-dev", "X")>>,       <<>>, <<<<"d", Word("X")>>>>),
    Item(<<Long("sysload")>>,               <<>>, <<<<"u", NoArg>>>>)}
OddItems == {
    Item(<<Word("w")>>, <<>>, <<>>),                        \* a stray word
    Item(<<Long("dump-opts")>>, <<>>, <<>>),
    Item(<<LongArg("sysload", "1")>>, <<>>, <<>>),          \* takes no argument
    Item(<<Short(<<"l">>)>>, <<>>, <<<<"l", NoArg>>>>),     \* lists and exits
    \* Mixed clusters, an argument with a dash.
    Item(<<Short(<<"u", "s">>)>>, <<<<"s", NoArg>>>>, <<<<"u", NoArg>>>>),
    Item(<<Short(<<"u", "c", "s">>)>>,
         <<<<"s", NoArg>>>>, <<<<"u", NoArg>>, <<"c", NoArg>>>>),
    Item(<<Short(<<"s", "u">>)>>, <<<<"s", NoArg>>>>, <<<<"u", NoArg>>>>),
    Item(<<Short(<<"o">>), DashDash>>, <<<<"o", DashDash>>>>, <<>>)}
AllItems == MainItems \cup SensorItems \cup OddItems

End(words, cmd) == [words |-> words, command |-> cmd]
WithCommand(cmd) == End(<<DashDash>> \o cmd, cmd)
\* A command, nothing, or a last option that lacks its argument or its sense.
AllEndings == {
    WithCommand(<<Word("sh"), Short(<<"s">>), Short(<<"c">>)>>),
    WithCommand(<<Word("sh"), DashDash, Short(<<"u">>)>>),
    End(<<>>, <<>>), End(<<DashDash>>, <<>>),
    End(<<Short(<<"d">>)>>, <<>>), End(<<Short(<<"f">>)>>, <<>>),
    End(<<Long("freq")>>, <<>>)}
=============================================================================
