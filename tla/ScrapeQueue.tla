---------------------------- MODULE ScrapeQueue ----------------------------
(***************************************************************************)
(* What the Prometheus exporter promises to the clients that scrape it: a  *)
(* queue of sample lines to which a sample is added as one indivisible     *)
(* row, and from which a scrape takes everything at once.  No program      *)
(* counter, no mutex, no buffer: PromExporter is shown to implement it.    *)
(***************************************************************************)
EXTENDS Naturals, Sequences

CONSTANTS
    NbSensors,  \* sensor lines of one sample
    Overhead,   \* TRUE iff a sample may carry an overhead line (option -s)
    Conns       \* the HTTP connections, one scrape each

VARIABLES
    queue,      \* lines published and not scraped yet
    next,       \* number of the next sample
    reply,      \* connection -> lines it was handed
    asked       \* connections whose scrape happened

vars == <<queue, next, reply, asked>>

\* The lines of sample t: one per sensor, then possibly the overhead (k = 0).
Row(t, withOverhead) ==
    LET sensorLines == [k \in 1 .. NbSensors |-> [t |-> t, k |-> k]]
    IN  IF withOverhead THEN Append(sensorLines, [t |-> t, k |-> 0])
                        ELSE sensorLines

Init ==
    /\ queue = <<>>
    /\ next = 0
    /\ reply = [c \in Conns |-> <<>>]
    /\ asked = {}

\* A whole sample is published.
Publish ==
    \E o \in {FALSE, Overhead} :
        /\ queue' = queue \o Row(next, o)
        /\ next' = next + 1
        /\ UNCHANGED <<reply, asked>>

\* Connection c takes every published line, once.
Scrape(c) ==
    /\ c \notin asked
    /\ reply' = [reply EXCEPT ![c] = queue]
    /\ queue' = <<>>
    /\ asked' = asked \cup {c}
    /\ UNCHANGED next

Next == Publish \/ \E c \in Conns : Scrape(c)

Spec == Init /\ [][Next]_vars
=============================================================================
