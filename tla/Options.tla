------------------------------ MODULE Options ------------------------------
(***************************************************************************)
(* The command line: lib/optparse.h, and the two passes made over it.      *)
(* main() reads its own options from argv, looks for "--" in the copy it   *)
(* saved, and gives that copy to moj_init(), which reads the options of    *)
(* the sensors from it.  Each pass meets the options of the other as       *)
(* unknown ones, and moves the words that are no options behind them.      *)
(*                                                                         *)
(* An argument is a record: its kind (the tests of its first characters)   *)
(* and its text, the characters of a cluster of short options, the name    *)
(* and the value of a long one.  Positions count from 1, argv[0] apart.    *)
(***************************************************************************)
EXTENDS Naturals, Sequences, SequencesExt

CONSTANTS
    Items,      \* what a user may write: words, and what they mean by them
    MaxItems,   \* items on a command line
    Endings,    \* what may follow them: words, and the command they give
    opts,       \* the options of mojitos.c
    moj_opts,   \* the options of the sensors
    Memory      \* offset from a cluster at which the strings behind it end

Word(w)       == [kind |-> "word",     text |-> <<w>>]
Short(cs)     == [kind |-> "short",    text |-> cs]
Long(name)    == [kind |-> "long",     text |-> <<name>>]
LongArg(n, v) == [kind |-> "long",     text |-> <<n, v>>]
DashDash      == [kind |-> "dashdash", text |-> <<>>]
NoArg         == [kind |-> "null",     text |-> <<>>]
Argument      == [kind : {"word", "short", "long", "dashdash"}, text : Seq(STRING)]

ASSUME MaxItemsAssumption == MaxItems \in Nat
ASSUME MemoryAssumption == Memory \in Nat
\* The tables: argtype is OPTPARSE_NONE or OPTPARSE_REQUIRED (no table has an
\* optional argument); fn tells the options that list something and exit.  The
\* names of options are not what optparse() returns for want of one.
ASSUME TablesAssumption ==
    opts \cup moj_opts \subseteq [longname : STRING, shortname : STRING \ {"?", "-1"},
                                  required : BOOLEAN, fn : BOOLEAN]

\* The options called by a character, by a name, and the one that is found.
OfShort(table, c)   == {o \in table : o.shortname = c}
OfLong(table, name) == {o \in table : o.longname = name}
Found(known)        == CHOOSE o \in known : TRUE

\* The options that the words of an item mean in a table, with their arguments:
\* those of a cluster, the one of its character k being the last.
ClusterMeans(words, table, means, k) ==
    LET text == words[1].text
        n    == Len(text)
    IN  /\ k \in 1 .. n /\ Len(means) = k
        /\ \A j \in 1 .. k : OfShort(table, text[j]) # {} /\ means[j][1] = text[j]
        /\ \A j \in 1 .. k - 1 :
               ~Found(OfShort(table, text[j])).required /\ means[j][2] = NoArg
        /\ IF Found(OfShort(table, text[k])).required
           THEN \/ k < n /\ means[k][2] = [kind |-> "word", text |-> SubSeq(text, k + 1, n)]
                \/ k = n /\ Len(words) > 1 /\ means[k][2] = words[2]
           ELSE k = n /\ means[k][2] = NoArg
LongMeans(words, table, means) ==
    LET text == words[1].text
        o    == Found(OfLong(table, text[1]))
    IN  /\ OfLong(table, text[1]) # {} /\ Len(means) = 1 /\ means[1][1] = o.shortname
        /\ IF o.required
           THEN \/ Len(text) = 2 /\ means[1][2] = Word(text[2])
                \/ Len(text) = 1 /\ Len(words) > 1 /\ means[1][2] = words[2]
           ELSE Len(text) = 1 /\ means[1][2] = NoArg

\* A word, an option of other tables or one with an argument too many.
MeansNothing(a, table) ==
    \/ a.kind = "word"
    \/ a.kind = "short" /\ OfShort(table, a.text[1]) = {}
    \/ a.kind = "long" /\ (OfLong(table, a.text[1]) # {} =>
           Len(a.text) = 2 /\ ~Found(OfLong(table, a.text[1])).required)
Means(words, table, means) ==
    \/ means = <<>> /\ MeansNothing(words[1], table)
    \/ words[1].kind = "short" /\ \E k \in 1 .. Len(means) :
           ClusterMeans(words, table, means, k)
    \/ words[1].kind = "long" /\ LongMeans(words, table, means)

\* An option that is not known, or lacks its argument.
Lacks(a, table) ==
    \/ a.kind = "short" /\ Len(a.text) = 1 /\
           (OfShort(table, a.text[1]) # {} => Found(OfShort(table, a.text[1])).required)
    \/ a.kind = "long" /\ Len(a.text) = 1 /\
           (OfLong(table, a.text[1]) # {} => Found(OfLong(table, a.text[1])).required)

\* No cluster mixes options of main and options of sensors.
Pure(item) == item.main = <<>> \/ item.sensors = <<>>

ASSUME ItemsAssumption == \A item \in Items :
    /\ item.words \in Seq(Argument) \ {<<>>} /\ item.words[1].kind # "dashdash"
    /\ item.main \in Seq(STRING \X (Argument \cup {NoArg}))
    /\ item.sensors \in Seq(STRING \X (Argument \cup {NoArg}))
    /\ Pure(item) => /\ Means(item.words, opts, item.main)
                     /\ Means(item.words, moj_opts, item.sensors)
ASSUME EndingsAssumption ==
    /\ Endings \subseteq [words : Seq(Argument), command : Seq(Argument)]
    /\ \A e \in Endings :
           \/ e.words = <<DashDash>> \o e.command
           \/ e.words = <<>> /\ e.command = <<>>
           \/ /\ Len(e.words) = 1 /\ e.command = <<>>
              /\ Lacks(e.words[1], opts) /\ Lacks(e.words[1], moj_opts)

VARIABLES
    items, ending,    \* what the user meant
    argv, save,       \* the array main permutes, the copy moj_init permutes
    optind, subopt,   \* the parser of the current pass
    pass,
    settings,         \* what main has read
    application,      \* position of the command in argv, 0 for NULL
    sources           \* add_source() calls: option, argument

argsVars == <<items, ending, argv, save, optind, subopt, pass, settings,
          application, sources>>
meant == <<items, ending>>

Defaults == [frequency |-> Word("1"), total_time |-> Word("1"), delta |-> 0,
             stat_mode |-> "off", output_option |-> NoArg]

Words(its) == FlattenSeq([k \in 1 .. Len(its) |-> its[k].words])

ArgsInit ==
    /\ items \in UNION {[1 .. k -> Items] : k \in 0 .. MaxItems}
    /\ ending \in Endings
    /\ argv = Words(items) \o ending.words
    /\ save = argv
    /\ optind = 1 /\ subopt = 0
    /\ pass = "main" /\ settings = Defaults /\ application = 0 /\ sources = <<>>

-----------------------------------------------------------------------------
(* One call of optparse_long() *)

\* What a call returns, the arguments it uses and the offset it leaves in the
\* cluster.
Return(opt, optarg, used, sub) ==
    [opt |-> opt, optarg |-> optarg, used |-> used, subopt |-> sub]

\* Fault: an unknown option is not passed over.
UnknownOptionStay == Return("?", NoArg, 0, subopt)

\* An unknown option gives up the argument it is in, and leaves the offset as
\* it was: the next cluster is read from that offset on.
UnknownOption == Return("?", NoArg, 1, subopt)

\* Fault: the offset stays when the last option of a cluster has been read.
FlagOptionKeepsOffset(cluster) ==
    IF Len(cluster) > 1 THEN Return(cluster[1], NoArg, 0, subopt + 1)
                        ELSE Return(cluster[1], NoArg, 1, subopt)

\* An option without argument, alone or in a cluster.
FlagOption(cluster) ==
    IF Len(cluster) > 1 THEN Return(cluster[1], NoArg, 0, subopt + 1)
                        ELSE Return(cluster[1], NoArg, 1, 0)

\* An option with its argument, joined to it or the next of argv.
ArgOption(cluster, next) ==
    CASE Len(cluster) > 1 ->
            Return(cluster[1], [kind |-> "word", text |-> Tail(cluster)], 1, 0)
      [] Len(cluster) = 1 /\ next # NoArg -> Return(cluster[1], next, 2, 0)
      [] OTHER -> Return("?", NoArg, 1, 0)

\* optparse() at what the offset leaves of a cluster: nothing when the offset
\* is on its terminator.
ShortOption(cluster, next, table) ==
    LET known == IF cluster = <<>> THEN {} ELSE OfShort(table, cluster[1])
    IN  IF known = {} THEN UnknownOption
        ELSE IF Found(known).required THEN ArgOption(cluster, next)
        ELSE FlagOption(cluster)

\* The second half of optparse_long().
LongOption(text, next, table) ==
    LET known == OfLong(table, text[1])
        o     == Found(known)
    IN  CASE known = {} \/ (Len(text) = 2 /\ ~o.required) -> UnknownOption
          [] known # {} /\ Len(text) = 2 /\ o.required ->
                 Return(o.shortname, Word(text[2]), 1, subopt)
          [] known # {} /\ Len(text) = 1 /\ ~o.required ->
                 Return(o.shortname, NoArg, 1, subopt)
          [] OTHER -> IF next = NoArg THEN UnknownOption
                                      ELSE Return(o.shortname, next, 2, subopt)

\* What an offset past the terminator of a cluster reads: the other arguments
\* and the environment, a name and what comes after it ("0" is read as a number
\* that matters, "?" as any other text), up to the end of these strings.
Behind ==
    LET names == {o.shortname : o \in opts \cup moj_opts}
    IN  {<<>>} \cup (IF subopt < Memory THEN {<<c>> : c \in names} ELSE {})
             \cup (IF subopt + 1 < Memory
                   THEN {<<c, text>> : c \in names, text \in {"0", "?"}} ELSE {})

\* What is left of a cluster, or is behind it when the offset comes from a
\* longer one that held an unknown option.
Rest(cluster) ==
    IF subopt <= Len(cluster)
    THEN {SubSeq(cluster, subopt + 1, Len(cluster))}
    ELSE Behind

\* Fault: "--" is taken for an option that is not known.
ParseDashDash(a, p, table) ==
    LET next == IF p < Len(a) THEN a[p + 1] ELSE NoArg
    IN  IF p > Len(a) THEN {Return("-1", NoArg, 0, subopt)}
        ELSE CASE a[p].kind = "dashdash" -> {UnknownOption}
               [] a[p].kind = "short" ->
                      {ShortOption(c, next, table) : c \in Rest(a[p].text)}
               [] a[p].kind = "long" -> {LongOption(a[p].text, next, table)}

\* The end of the array or "--", else an option, at position p of a.
Parse(a, p, table) ==
    LET next == IF p < Len(a) THEN a[p + 1] ELSE NoArg
    IN  IF p > Len(a) THEN {Return("-1", NoArg, 0, subopt)}
        ELSE CASE a[p].kind = "dashdash" -> {Return("-1", NoArg, 1, subopt)}
               [] a[p].kind = "short" ->
                      {ShortOption(c, next, table) : c \in Rest(a[p].text)}
               [] a[p].kind = "long" -> {LongOption(a[p].text, next, table)}

\* Fault: the last word that is moved is written over.
PermuteLosesWord(a, from, p, used) ==
    IF from = p \/ used = 0 THEN a
    ELSE SubSeq(a, 1, from - 1) \o SubSeq(a, p, p + used - 1)
             \o SubSeq(a, from, p - 2) \o SubSeq(a, p + used - 1, Len(a))

\* optparse_permute(), once for each of the words that were skipped, the last
\* one first: the arguments used come before all of them.
Permute(a, from, p, used) ==
    SubSeq(a, 1, from - 1) \o SubSeq(a, p, p + used - 1)
        \o SubSeq(a, from, p - 1) \o SubSeq(a, p + used, Len(a))

\* The calls optparse_long(&options, table, NULL) can make: they skip the
\* words up to the next option, use it, and move it in front of the words.
NextOption(a) ==
    LET ahead == {p \in optind .. Len(a) : a[p].kind # "word"}
    IN  IF ahead = {} THEN Len(a) + 1 ELSE Min(ahead)

Calls(a, table) ==
    LET p == NextOption(a)
    IN  {[r |-> r, array |-> Permute(a, optind, p, r.used)] : r \in Parse(a, p, table)}

-----------------------------------------------------------------------------
(* The first pass, in main() *)

\* atoi() of an argument tells 0, for "measure without end", from the rest.
Set(s, option) ==
    LET arg == option[2]
    IN  CASE option[1] = "f" -> [s EXCEPT !.frequency = arg]
          [] option[1] = "t" ->
                IF arg = Word("0")
                THEN [s EXCEPT !.total_time = Word("1"), !.delta = 0]
                ELSE [s EXCEPT !.total_time = arg, !.delta = 1]
          [] option[1] = "s" -> [s EXCEPT !.stat_mode = "on"]
          [] option[1] = "o" -> [s EXCEPT !.output_option = arg]
          [] OTHER -> s

MainOption ==
    /\ pass = "main"
    /\ \E call \in Calls(argv, opts) :
           /\ argv' = call.array
           /\ optind' = optind + call.r.used
           /\ subopt' = call.r.subopt
           /\ settings' = Set(settings, <<call.r.opt, call.r.optarg>>)
           /\ pass' = IF call.r.opt = "-1" THEN "command" ELSE "main"
    /\ UNCHANGED <<meant, save, application, sources>>

\* Fault: "--" is looked for in the array that the first pass has permuted.
FindCommandInArgv ==
    /\ pass = "command"
    /\ application' =
           LET k == SelectInSubSeq(argv, 1, Len(argv) - 1, LAMBDA a : a = DashDash)
           IN  IF k = 0 THEN 0 ELSE k + 1
    /\ pass' = "sensors" /\ optind' = 1 /\ subopt' = 0
    /\ UNCHANGED <<meant, argv, save, settings, sources>>

\* The first "--" that something follows; then moj_init() starts a parser.
FindCommand ==
    /\ pass = "command"
    /\ application' =
           LET k == SelectInSubSeq(save, 1, Len(save) - 1, LAMBDA a : a = DashDash)
           IN  IF k = 0 THEN 0 ELSE k + 1
    /\ pass' = "sensors" /\ optind' = 1 /\ subopt' = 0
    /\ UNCHANGED <<meant, argv, save, settings, sources>>

-----------------------------------------------------------------------------
(* The second pass, in moj_init(), and what main() does after it *)

SensorOption ==
    /\ pass = "sensors"
    /\ \E call \in Calls(save, moj_opts) :
           LET found == OfShort(moj_opts, call.r.opt)
           IN  /\ save' = call.array
               /\ optind' = optind + call.r.used
               /\ subopt' = call.r.subopt
               /\ sources' =
                     IF \E o \in found : ~o.fn
                     THEN Append(sources, <<call.r.opt, call.r.optarg>>)
                     ELSE sources
               /\ pass' = CASE call.r.opt = "-1" -> "start"
                            [] \E o \in found : o.fn -> "exit"
                            [] OTHER -> "sensors"
    /\ UNCHANGED <<meant, argv, settings, application>>

\* Without arguments, and for --dump-opts alone, the program prints and exits.
Start ==
    /\ pass = "start"
    /\ pass' = IF argv = <<>> \/ argv = <<Long("dump-opts")>> THEN "exit" ELSE "run"
    /\ UNCHANGED <<meant, argv, save, optind, subopt, settings, application, sources>>

ArgsEnd == pass \in {"run", "exit"} /\ UNCHANGED argsVars

ArgsNext == MainOption \/ FindCommand \/ SensorOption \/ Start \/ ArgsEnd

ArgsSpec == ArgsInit /\ [][ArgsNext]_argsVars /\ WF_argsVars(ArgsNext)

-----------------------------------------------------------------------------
(* Properties *)

\* The parser stays in the array, one past its end at most, and the arrays
\* keep the arguments they were given.
ParserTypeOK ==
    /\ pass \in {"main", "command", "sensors", "start", "run", "exit"}
    /\ optind \in 1 .. Len(argv) + 1 /\ subopt \in Nat
    /\ application \in 0 .. Len(argv)
    /\ \A a \in {argv, save} :
           /\ Len(a) = Len(Words(items)) + Len(ending.words)
           /\ ToSet(a) = ToSet(Words(items)) \cup ToSet(ending.words)

\* No argument of an option starts with a dash, so that no pass takes for an
\* option what the other one takes for an argument.
PlainArguments ==
    \A k \in 1 .. Len(items) : \A j \in 2 .. Len(items[k].words) :
        items[k].words[j].kind = "word"
\* An offset that a mixed cluster leaves behind has the next one misread: -su
\* and -of, and the argument of f is the "--" that follows.
Unmixed == \A k \in 1 .. Len(items) : Pure(items[k])

MeantMain == FlattenSeq([k \in 1 .. Len(items) |-> items[k].main])
MeantSensors == FlattenSeq([k \in 1 .. Len(items) |-> items[k].sensors])

\* Where an option is given, and the argument it has last.
Given(means, c) == {k \in 1 .. Len(means) : means[k][1] = c}
LastArg(means, c, default) ==
    IF Given(means, c) = {} THEN default ELSE means[Max(Given(means, c))][2]

\* The command that is run is what was written after "--", with all of its
\* arguments and nothing else, although the words before "--" were moved.
CommandRight ==
    pass \notin {"main", "command"} /\ PlainArguments /\ Unmixed =>
        IF ending.command = <<>>
        THEN application = 0
        ELSE /\ application # 0
             /\ SubSeq(argv, application, Len(argv)) = ending.command

\* The settings that options give, the last one of each.
SettingsOf(means) ==
    LET time  == LastArg(means, "t", Word("0"))
        ended == time # Word("0")
    IN  [frequency     |-> LastArg(means, "f", Word("1")),
         total_time    |-> IF ended THEN time ELSE Word("1"),
         delta         |-> IF ended THEN 1 ELSE 0,
         stat_mode     |-> IF Given(means, "s") # {} THEN "on" ELSE "off",
         output_option |-> LastArg(means, "o", NoArg)]

\* The options of sensors that main passes over, with their arguments, and
\* the options of the command, change none of its settings: they are the ones
\* written.
SettingsRight ==
    pass # "main" /\ PlainArguments /\ Unmixed => settings = SettingsOf(MeantMain)

\* Whatever main's options and the words between them are, moj_init adds the
\* sensors that were asked for, in their order, each with its argument.
SensorsRight ==
    pass \in {"start", "run"} /\ PlainArguments /\ Unmixed => sources = MeantSensors

\* Both loops over the options end.
Stops == <>(pass \in {"run", "exit"})
=============================================================================
