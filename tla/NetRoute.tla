------------------------------ MODULE NetRoute ------------------------------
(***************************************************************************)
(* init_network() of src/network.c: with -d X the interfaces in use are    *)
(* taken from the first column of /proc/net/route, which is read block by  *)
(* block into one buffer; strchr_refill() looks for a character and reads  *)
(* the next block over the old one when it is not there.                   *)
(*                                                                         *)
(* A cell of the file is a TAB, a NL, a piece of an interface's name or a  *)
(* piece of another column.  Names shorter than the 128 bytes of a device  *)
(* are not cut.                                                            *)
(***************************************************************************)
EXTENDS Naturals, SequencesExt, FiniteSetsExt

CONSTANTS
    Tables,      \* tables to read: sequences of names, one per route
    Letters,     \* pieces of names: no white space
    Interfaces,  \* names that exist under /sys/class/net
    LineLength,  \* cells of a line of the file, all padded alike
    Block,       \* cells of a read: sizeof(buffer) - 1
    MaxDev       \* NB_MAX_DEV

TAB == "TAB"
NL == "NL"
NUL == "NUL"

\* The lines have room for their cells, the header's too.
ASSUME SizesAssumption ==
    /\ LineLength \in Nat /\ LineLength >= 5
    /\ Block \in Nat \ {0} /\ MaxDev \in Nat \ {0}
ASSUME TablesAssumption ==
    /\ Letters \cap {TAB, NL, NUL} = {}
    /\ Interfaces \subseteq Seq(Letters)
    /\ \A t \in Tables :
           t \in Seq(Interfaces)
           /\ \A r \in 1 .. Len(t) : Len(t[r]) + 4 <= LineLength

VARIABLES
    step,
    table,   \* what the kernel shows
    offset,  \* cells of the file read
    buf,     \* buffer[]
    start,   \* start_of_dev
    s,       \* position in the buffer, 0 for NULL
    devs,    \* names kept: devs[] and ndev
    opened   \* devices whose files are open

routeVars == <<step, table, offset, buf, start, s, devs, opened>>

\* A name, a column and the padding that gives all lines one length.
Line(name) ==
    name \o <<TAB, "x", TAB>>
         \o [n \in 1 .. LineLength - Len(name) - 4 |-> "x"] \o <<NL>>

File == FlattenSeq(<<Line(<<"Iface">>)>> \o [r \in 1 .. Len(table) |->
                                                Line(table[r])])

\* strchr(buffer + from, c), 0 when the string ends before.
Strchr(text, from, c) ==
    LET hits == {p \in from .. Len(text) :
                    /\ text[p] = c
                    /\ \A q \in from .. p : text[q] # NUL}
    IN  IF hits = {} THEN 0 ELSE Min(hits)

\* Fault: buf[len - 1] is not set to 0.
RefilledUnterminated ==
    [p \in 1 .. Block + 1 |->
        IF offset + p <= Len(File) THEN File[offset + p] ELSE buf[p]]

\* read(): as much as fits; what a shorter read does not cover stays.
Refilled ==
    [p \in 1 .. Block + 1 |->
        IF p = Block + 1 THEN NUL
        ELSE IF offset + p <= Len(File) THEN File[offset + p]
        ELSE buf[p]]

\* strchr_refill(): what it returns, the buffer, the offset and s.
StrchrRefill(c) ==
    LET found == Strchr(buf, s, c)
    IN  IF found # 0
        THEN [ret |-> 1, buf |-> buf, off |-> offset, s |-> found]
        ELSE IF offset >= Len(File)
        THEN [ret |-> 0, buf |-> buf, off |-> offset, s |-> 0]
        ELSE [ret |-> 1, buf |-> Refilled,
              off |-> Min({offset + Block, Len(File)}),
              s |-> Strchr(Refilled, 1, c)]

RouteInit ==
    /\ step = "header"
    /\ table \in Tables
    /\ offset = 0 /\ buf = [p \in 1 .. Block + 1 |-> NUL]
    /\ start = 1 /\ s = 1 /\ devs = <<>> /\ opened = 0

\* One call of strchr_refill(): "end" follows a return of 0, "found" a
\* character; a block without the character leaves s NULL, of which the
\* caller takes the next position or the length of a name, and dies.
Step(c, found, end) ==
    LET r == StrchrRefill(c)
    IN  /\ buf' = r.buf /\ offset' = r.off
        /\ s' = IF r.ret = 1 /\ r.s # 0 /\ c = NL THEN r.s + 1 ELSE r.s
        /\ step' = IF r.ret = 0 THEN end ELSE IF r.s = 0 THEN "crash" ELSE found

\* The first line is skipped; the next name starts behind it.
SkipHeader ==
    /\ step = "header"
    /\ Step(NL, "firstName", "failed")
    /\ start' = s'
    /\ UNCHANGED <<table, devs, opened>>

\* The text from start_of_dev to s, or to the end of the string when a
\* refill has put s before start_of_dev: the length is then close to 2^64.
Text(text, end) ==
    IF end >= start THEN SubSeq(text, start, end - 1)
    ELSE LET stop == Min({p \in start .. Len(text) : text[p] = NUL})
         IN  SubSeq(text, start, stop - 1)

FirstName ==
    /\ step = "firstName"
    /\ Step(TAB, "line", "failed")
    /\ devs' = IF step' = "line" THEN <<Text(buf', s')>> ELSE devs
    /\ UNCHANGED <<table, start, opened>>

NextLine ==
    /\ step = "line"
    /\ Step(NL, "name", "open")
    /\ start' = s'
    /\ UNCHANGED <<table, devs, opened>>

\* Fault: the text is compared with the name kept last only.
KnownLast(text, whole) ==
    IF whole THEN text = Last(devs) ELSE IsPrefix(text, Last(devs))

\* strncmp() of as many characters as the text has.
Known(text, whole) ==
    \E n \in 1 .. Len(devs) :
        IF whole THEN text = devs[n] ELSE IsPrefix(text, devs[n])

\* Fault: the limit is checked after the name was kept.
NextNameOneMore ==
    /\ step = "name"
    /\ LET r == StrchrRefill(TAB)
           text == Text(r.buf, r.s)
           new == r.ret = 1 /\ r.s # 0 /\ ~Known(text, r.s < start)
       IN  /\ devs' = IF new THEN Append(devs, text) ELSE devs
           /\ buf' = r.buf /\ offset' = r.off /\ s' = r.s
           /\ step' = IF r.ret = 0 \/ (new /\ Len(devs) > MaxDev) THEN "open"
                    ELSE IF r.s = 0 THEN "crash" ELSE "line"
    /\ UNCHANGED <<table, start, opened>>

\* A new name is kept; one too many ends the detection.
NextName ==
    /\ step = "name"
    /\ LET r == StrchrRefill(TAB)
           text == Text(r.buf, r.s)
           new == r.ret = 1 /\ r.s # 0 /\ ~Known(text, r.s < start)
           room == Len(devs) < MaxDev
       IN  /\ devs' = IF new /\ room THEN Append(devs, text) ELSE devs
           /\ buf' = r.buf /\ offset' = r.off /\ s' = r.s
           /\ step' = IF r.ret = 0 \/ (new /\ ~room) THEN "open"
                    ELSE IF r.s = 0 THEN "crash" ELSE "line"
    /\ UNCHANGED <<table, start, opened>>

\* The four files of a device; one that cannot be opened ends the program.
OpenDev ==
    /\ step = "open"
    /\ IF opened = Len(devs) THEN step' = "ready" /\ UNCHANGED opened
       ELSE IF devs[opened + 1] \in Interfaces
       THEN opened' = opened + 1 /\ UNCHANGED step
       ELSE step' = "failed" /\ UNCHANGED opened
    /\ UNCHANGED <<table, offset, buf, start, s, devs>>

RouteEnd == step \in {"ready", "failed", "crash"} /\ UNCHANGED routeVars

RouteNext == SkipHeader \/ FirstName \/ NextLine \/ NextName \/ OpenDev
            \/ RouteEnd

RouteSpec == RouteInit /\ [][RouteNext]_routeVars

-----------------------------------------------------------------------------
(* Properties *)

TypeOK ==
    /\ step \in {"header", "firstName", "line", "name", "open", "ready",
               "failed", "crash"}
    /\ offset \in 0 .. Len(File)
    /\ Len(buf) = Block + 1 /\ buf[Block + 1] = NUL
    /\ start \in 0 .. Block + 1 /\ s \in 0 .. Block + 1
    /\ opened \in 0 .. Len(devs)

InUse == {table[r] : r \in 1 .. Len(table)}

\* The devices fit in the NB_MAX_DEV slots of the state, and none is listed
\* twice, whatever the blocks cut in pieces.
DevicesDistinct ==
    /\ Len(devs) <= MaxDev
    /\ \A a, b \in 1 .. Len(devs) : devs[a] = devs[b] => a = b

OneBlock == Len(File) <= Block

\* No interface has a name that begins that of one listed above it.
NoHidden ==
    \A q, r \in 1 .. Len(table) :
        q < r /\ table[q] # table[r] => ~IsPrefix(table[r], table[q])

\* When the table fits in one block and no name hides another, the interfaces
\* in use are found, up to the documented number of them.
FindsInterfaces ==
    OneBlock /\ NoHidden /\ table # <<>> =>
        /\ step \notin {"failed", "crash"}
        /\ step = "ready" =>
              /\ ToSet(devs) \subseteq InUse
              /\ Len(devs) = Min({MaxDev, Cardinality(InUse)})
=============================================================================
