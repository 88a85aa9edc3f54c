---------------------------- MODULE PromExporter ----------------------------
(***************************************************************************)
(* src/prometheus_manager.c with the part of src/mojitos.c that drives it: *)
(* the main thread appends one text line per sensor to a growing buffer    *)
(* under a mutex; libmicrohttpd's internal thread answers each GET with a  *)
(* copy of the buffer and empties it under the same mutex; SIGTERM, SIGINT *)
(* and SIGCHLD call exit() from their handler, which runs the atexit       *)
(* functions on top of whatever the main thread was doing.                 *)
(*                                                                         *)
(* A line is abstracted to its sample number and its column (0 for the     *)
(* overhead); its length is any number of bytes up to MaxLine.             *)
(***************************************************************************)
EXTENDS Naturals, Sequences

CONSTANTS
    NbSensors,     \* nb_sensors
    StatMode,      \* stat_mode: 0 iff -s was given (1 stands for -1)
    NbSamples,     \* total_time * frequency
    InitSize,      \* current_size at start (1024 in the code)
    Margin,        \* room kept behind the last sensor line (128 in the code)
    MaxLine,       \* longest sensor line, in bytes
    MaxOverhead,   \* longest overhead line, in bytes
    Command,       \* TRUE iff "-- <cmd>" was given
    Conns,         \* the HTTP connections, one request each
    NoConn,        \* the value of conn when no connection is being answered
    Signals        \* signals the environment may send

ASSUME CountsAssumption ==
    /\ NbSensors \in Nat /\ NbSamples \in Nat
    /\ InitSize \in Nat /\ Margin \in Nat
    /\ MaxLine \in Nat /\ MaxOverhead \in Nat
    /\ StatMode \in {0, 1} /\ Command \in BOOLEAN
ASSUME ConnsAssumption == NoConn \notin Conns
ASSUME SignalsAssumption == Signals \subseteq {"TERM", "INT", "CHLD"}

VARIABLES
    pc,        \* next statement of the main thread
    i,         \* index of the sensor being written
    temps,     \* loop counter of main
    stat_data, \* of the current sample, 1 standing for any value but 0
    n,         \* value returned by the last sprintf
    mutex,     \* "none", "free", "main", "server" or "destroyed"
    mem,       \* lines stored from the start of prometeus_buffer
    nlines,    \* how many of them lie below delta
    delta,     \* bytes used
    size,      \* current_size
    handlers,  \* atexit functions left to run, next one first
    child,     \* the command: "none", "running" or "exited"
    caught,    \* signals whose handler has started (then blocked for ever)
    spc,       \* what the libmicrohttpd thread does
    conn,      \* connection it is answering
    resp,      \* body of the response under construction
    daemon,    \* "none", "running", or "stopping" once main wants to join it
    cs,        \* state of each connection
    reply,     \* history: lines handed to each connection
    produced,  \* history: lines written, in order
    handed,    \* history: lines copied to a response, in order
    rows,      \* history: samples completed
    base       \* history: nlines when the mutex was last taken by main

locals   == <<i, temps, stat_data, n>>
buffer   == <<mem, nlines, delta, size>>
process  == <<handlers, child, caught>>
server   == <<spc, conn, resp, daemon, cs, reply, handed>>
written  == <<produced, rows, base>>
vars == <<pc, locals, mutex, buffer, process, server, written>>

\* Whether a sample may carry an overhead line.
Overhead == StatMode = 0

Critical == {"line", "add", "grow", "addOverhead", "unlock"}
Exiting  == {"exit", "destroy", "stop", "join", "clean", "flush", "dead"}
Starting == {"labels", "mutex_init", "start"}
MainPC   == Starting \cup {"fork", "sample", "lock", "sleep"}
                     \cup Critical \cup Exiting
ServerCritical == {"copy", "reset", "unlock"}
ServerPC == {"none", "select", "lock", "queue", "ended"} \cup ServerCritical

Lines == [t : Nat, k : Nat]

\* The bytes below delta, as lines.
Buffered == SubSeq(mem, 1, nlines)

\* main() has registered flushexit and is about to call init_manager().
Init ==
    /\ pc = "labels" /\ i = 0 /\ temps = 0 /\ stat_data = 0 /\ n = 0
    /\ mutex = "none"
    /\ mem = <<>> /\ nlines = 0 /\ delta = 0 /\ size = InitSize
    /\ handlers = <<"flushexit">> /\ child = "none" /\ caught = {}
    /\ spc = "none" /\ conn = NoConn /\ resp = <<>> /\ daemon = "none"
    /\ cs = [c \in Conns |-> "none"]
    /\ reply = [c \in Conns |-> <<>>]
    /\ produced = <<>> /\ handed = <<>> /\ rows = 0 /\ base = 0

-----------------------------------------------------------------------------
(* init_manager() and the fork *)

CopyLabels ==
    /\ pc = "labels"
    /\ handlers' = <<"clean_manager">> \o handlers
    /\ pc' = "mutex_init"
    /\ UNCHANGED <<locals, mutex, buffer, child, caught, server, written>>

InitMutex ==
    /\ pc = "mutex_init"
    /\ mutex' = "free"
    /\ handlers' = <<"end_mutex">> \o handlers
    /\ pc' = "start"
    /\ UNCHANGED <<locals, buffer, child, caught, server, written>>

\* MHD_start_daemon: NULL (the port is taken) ends the program.
StartDaemon ==
    /\ pc = "start"
    /\ \/ daemon' = "running" /\ spc' = "select" /\ pc' = "fork"
       \/ UNCHANGED <<daemon, spc>> /\ pc' = "exit"
    /\ UNCHANGED <<locals, mutex, buffer, process,
                   conn, resp, cs, reply, handed, written>>

\* fork() may fail, and the failure goes unnoticed: main goes on alone.
Fork ==
    /\ pc = "fork"
    /\ child' \in IF Command THEN {"running", "none"} ELSE {"none"}
    /\ pc' = "sample"
    /\ UNCHANGED <<locals, mutex, buffer, handlers, caught, server, written>>

-----------------------------------------------------------------------------
(* The sampling loop and use_manager() *)

\* Loop test, moj_get_values() and the overhead measure, which may be 0.
Sample ==
    /\ pc = "sample"
    /\ \/ /\ temps < NbSamples
          /\ stat_data' \in IF Overhead THEN {0, 1} ELSE {0}
          /\ pc' = "lock"
       \/ /\ temps >= NbSamples
          /\ pc' = "exit"
          /\ UNCHANGED stat_data
    /\ UNCHANGED <<i, temps, n, mutex, buffer, process, server, written>>

Lock ==
    /\ pc = "lock"
    /\ mutex = "free"
    /\ mutex' = "main"
    /\ i' = 0
    /\ base' = nlines
    /\ pc' = "line"
    /\ UNCHANGED <<temps, stat_data, n, buffer, process, server, produced, rows>>

\* sprintf at prometeus_buffer + delta: what was stored there is overwritten.
Sprintf(column, maxLength) ==
    /\ mem' = Append(Buffered, [t |-> temps, k |-> column])
    /\ n' \in 1 .. maxLength
    /\ UNCHANGED <<nlines, delta, size>>

\* Fault: delta -= <what sprintf returned>
AdvanceBackwards ==
    /\ delta' = delta - n
    /\ nlines' = nlines + 1
    /\ produced' = Append(produced, mem[nlines + 1])
    /\ UNCHANGED <<mem, size, rows, base>>

\* delta += <what sprintf returned>
Advance ==
    /\ delta' = delta + n
    /\ nlines' = nlines + 1
    /\ produced' = Append(produced, mem[nlines + 1])
    /\ UNCHANGED <<mem, size, rows, base>>

\* Fault: the line carries the label of the sensor before.
WriteLineOfPrevious ==
    /\ pc = "line"
    /\ i < NbSensors
    /\ Sprintf(i, MaxLine)
    /\ pc' = "add"
    /\ UNCHANGED <<i, temps, stat_data, mutex, process, server, written>>

WriteLine ==
    /\ pc = "line"
    /\ i < NbSensors
    /\ Sprintf(i + 1, MaxLine)
    /\ pc' = "add"
    /\ UNCHANGED <<i, temps, stat_data, mutex, process, server, written>>

AddLine ==
    /\ pc = "add"
    /\ Advance
    /\ pc' = "grow"
    /\ UNCHANGED <<locals, mutex, process, server>>

\* Fault: the buffer grows only once it is full.
NewSizeWhenFull == IF delta >= size THEN 2 * size ELSE size

\* realloc keeps the lines already stored.
NewSize == IF delta + Margin >= size THEN 2 * size ELSE size

Grow ==
    /\ pc = "grow"
    /\ size' = NewSize
    /\ i' = i + 1
    /\ pc' = "line"
    /\ UNCHANGED <<temps, stat_data, n, mutex, mem, nlines, delta,
                   process, server, written>>

WriteOverhead ==
    /\ pc = "line"
    /\ i >= NbSensors
    /\ \/ /\ stat_data # 0
          /\ Sprintf(0, MaxOverhead)
          /\ pc' = "addOverhead"
       \/ /\ stat_data = 0
          /\ pc' = "unlock"
          /\ UNCHANGED <<buffer, n>>
    /\ UNCHANGED <<i, temps, stat_data, mutex, process, server, written>>

AddOverhead ==
    /\ pc = "addOverhead"
    /\ Advance
    /\ pc' = "unlock"
    /\ UNCHANGED <<locals, mutex, process, server>>

Unlock ==
    /\ pc = "unlock"
    /\ mutex' = "free"
    /\ rows' = rows + 1
    /\ pc' = "sleep"
    /\ UNCHANGED <<locals, buffer, process, server, produced, base>>

Sleep ==
    /\ pc = "sleep"
    /\ temps' = temps + 1
    /\ pc' = "sample"
    /\ UNCHANGED <<i, stat_data, n, mutex, buffer, process, server, written>>

-----------------------------------------------------------------------------
(* exit(): the atexit functions, last registered first *)

HandlerEntry(h) == CASE h = "end_mutex"     -> "destroy"
                     [] h = "clean_manager" -> "clean"
                     [] h = "flushexit"     -> "flush"

\* libc removes a function from its list before it calls it, so that an
\* exit() nested in a signal handler goes on with the next one.
NextHandler ==
    /\ pc = "exit"
    /\ IF handlers = <<>>
       THEN pc' = "dead" /\ UNCHANGED handlers
       ELSE pc' = HandlerEntry(Head(handlers)) /\ handlers' = Tail(handlers)
    /\ UNCHANGED <<locals, mutex, buffer, child, caught, server, written>>

\* pthread_mutex_destroy leaves a mutex that is held as it is (EBUSY).
DestroyMutex ==
    /\ pc = "destroy"
    /\ mutex' = IF mutex = "free" THEN "destroyed" ELSE mutex
    /\ pc' = "stop"
    /\ UNCHANGED <<locals, buffer, process, server, written>>

\* MHD_stop_daemon(NULL) returns at once.
StopDaemon ==
    /\ pc = "stop"
    /\ IF daemon = "none"
       THEN pc' = "exit" /\ UNCHANGED daemon
       ELSE pc' = "join" /\ daemon' = "stopping"
    /\ UNCHANGED <<locals, mutex, buffer, process,
                   spc, conn, resp, cs, reply, handed, written>>

JoinDaemon ==
    /\ pc = "join"
    /\ spc = "ended"
    /\ pc' = "exit"
    /\ UNCHANGED <<locals, mutex, buffer, process, server, written>>

\* clean_manager() and flushexit() free what no other thread uses.
FreeAndClose ==
    /\ pc \in {"clean", "flush"}
    /\ pc' = "exit"
    /\ UNCHANGED <<locals, mutex, buffer, process, server, written>>

\* flush(): exit(0), called wherever the main thread happens to be.  The
\* handler never returns, so the signal stays blocked.
Signal(s) ==
    /\ pc # "dead"
    /\ s \notin caught
    /\ s = "CHLD" => child = "exited"
    /\ caught' = caught \cup {s}
    /\ pc' = "exit"
    /\ UNCHANGED <<locals, mutex, buffer, handlers, child, server, written>>

ChildExits ==
    /\ pc # "dead"
    /\ child = "running"
    /\ child' = "exited"
    /\ UNCHANGED <<pc, locals, mutex, buffer, handlers, caught, server, written>>

-----------------------------------------------------------------------------
(* The libmicrohttpd thread; it lives no longer than the process *)

Alive == pc # "dead"
mainSide == <<pc, locals, process, written>>

\* A client connects, with a GET or with another method.
Connect(c) ==
    /\ Alive
    /\ cs[c] = "none"
    /\ \E m \in {"GET", "other"} : cs' = [cs EXCEPT ![c] = m]
    /\ UNCHANGED <<mainSide, mutex, buffer,
                   spc, conn, resp, daemon, reply, handed>>

\* First call of internal_server for c: MHD_NO unless GET, else MHD_YES.
FirstCall(c) ==
    /\ Alive
    /\ spc = "select" /\ daemon # "stopping"
    /\ \/ cs[c] = "GET" /\ cs' = [cs EXCEPT ![c] = "seen"]
       \/ cs[c] = "other" /\ cs' = [cs EXCEPT ![c] = "refused"]
    /\ UNCHANGED <<mainSide, mutex, buffer,
                   spc, conn, resp, daemon, reply, handed>>

\* Second call, up to pthread_mutex_lock.
SecondCall(c) ==
    /\ Alive
    /\ spc = "select" /\ daemon # "stopping"
    /\ cs[c] = "seen"
    /\ conn' = c
    /\ spc' = "lock"
    /\ UNCHANGED <<mainSide, mutex, buffer, resp, daemon, cs, reply, handed>>

\* Fault: the lock is not waited for (pthread_mutex_trylock).
ServerTryLock ==
    /\ Alive
    /\ spc = "lock"
    /\ mutex' = IF mutex = "free" THEN "server" ELSE mutex
    /\ spc' = "copy"
    /\ UNCHANGED <<mainSide, buffer, conn, resp, daemon, cs, reply, handed>>

\* Fault: the lock of a destroyed mutex blocks.
ServerLockForEver ==
    /\ Alive
    /\ spc = "lock"
    /\ mutex = "free"
    /\ mutex' = "server"
    /\ spc' = "copy"
    /\ UNCHANGED <<mainSide, buffer, conn, resp, daemon, cs, reply, handed>>

\* Locking a destroyed mutex fails without blocking; the result is ignored.
ServerLock ==
    /\ Alive
    /\ spc = "lock"
    /\ mutex \in {"free", "destroyed"}
    /\ mutex' = IF mutex = "free" THEN "server" ELSE mutex
    /\ spc' = "copy"
    /\ UNCHANGED <<mainSide, buffer, conn, resp, daemon, cs, reply, handed>>

\* MHD_create_response_from_buffer(delta, ..., MHD_RESPMEM_MUST_COPY)
CopyBuffer ==
    /\ Alive
    /\ spc = "copy"
    /\ resp' = Buffered
    /\ spc' = "reset"
    /\ UNCHANGED <<mainSide, mutex, buffer, conn, daemon, cs, reply, handed>>

\* Fault: delta = 0 is missing.
NoReset ==
    /\ Alive
    /\ spc = "reset"
    /\ handed' = handed \o resp
    /\ reply' = [reply EXCEPT ![conn] = resp]
    /\ spc' = "unlock"
    /\ UNCHANGED <<mainSide, mutex, buffer, conn, resp, daemon, cs>>

\* delta = 0
ResetBuffer ==
    /\ Alive
    /\ spc = "reset"
    /\ delta' = 0 /\ nlines' = 0
    /\ handed' = handed \o resp
    /\ reply' = [reply EXCEPT ![conn] = resp]
    /\ spc' = "unlock"
    /\ UNCHANGED <<mainSide, mutex, mem, size, conn, resp, daemon, cs>>

\* Fault: pthread_mutex_unlock is missing.
NoServerUnlock ==
    /\ Alive
    /\ spc = "unlock"
    /\ spc' = "queue"
    /\ UNCHANGED <<mainSide, mutex, buffer, conn, resp, daemon, cs, reply,
                   handed>>

ServerUnlock ==
    /\ Alive
    /\ spc = "unlock"
    /\ mutex' = IF mutex = "server" THEN "free" ELSE mutex
    /\ spc' = "queue"
    /\ UNCHANGED <<mainSide, buffer, conn, resp, daemon, cs, reply, handed>>

\* MHD_queue_response and what follows: the client reads it or has gone.
QueueResponse ==
    /\ Alive
    /\ spc = "queue"
    /\ \E r \in {"answered", "lost"} : cs' = [cs EXCEPT ![conn] = r]
    /\ conn' = NoConn /\ resp' = <<>>
    /\ spc' = "select"
    /\ UNCHANGED <<mainSide, mutex, buffer, daemon, reply, handed>>

EndThread ==
    /\ Alive
    /\ spc = "select" /\ daemon = "stopping"
    /\ spc' = "ended"
    /\ UNCHANGED <<mainSide, mutex, buffer,
                   conn, resp, daemon, cs, reply, handed>>

-----------------------------------------------------------------------------
MainStart == CopyLabels \/ InitMutex \/ StartDaemon \/ Fork
MainLoop == Sample \/ Lock \/ WriteLine \/ AddLine \/ Grow \/ WriteOverhead
                \/ AddOverhead \/ Unlock \/ Sleep
MainExit == NextHandler \/ DestroyMutex \/ StopDaemon \/ JoinDaemon
                \/ FreeAndClose
Main == MainStart \/ MainLoop \/ MainExit

Server == ServerLock \/ CopyBuffer \/ ResetBuffer \/ ServerUnlock
              \/ QueueResponse \/ EndThread
              \/ \E c \in Conns : FirstCall(c) \/ SecondCall(c)

Environment == ChildExits \/ (\E s \in Signals : Signal(s))
                   \/ (\E c \in Conns : Connect(c))

Terminated == pc = "dead" /\ UNCHANGED vars

Next == Main \/ Server \/ Environment \/ Terminated

Spec == Init /\ [][Next]_vars

\* Both threads are scheduled; nothing obliges a client to connect or a
\* signal to be sent, except that the kernel delivers SIGCHLD.
Fairness ==
    /\ WF_vars(Main)
    /\ WF_vars(Server)
    /\ WF_vars("CHLD" \in Signals /\ Signal("CHLD"))

FairSpec == Spec /\ Fairness
-----------------------------------------------------------------------------
(* Properties *)

MainTypeOK ==
    /\ pc \in MainPC
    /\ i \in Nat /\ temps \in Nat /\ n \in Nat /\ stat_data \in {0, 1}
    /\ mutex \in {"none", "free", "main", "server", "destroyed"}
    /\ handlers \in Seq({"end_mutex", "clean_manager", "flushexit"})
    /\ child \in {"none", "running", "exited"}
    /\ caught \subseteq Signals

BufferTypeOK ==
    /\ mem \in Seq(Lines) /\ nlines \in Nat
    /\ delta \in Nat /\ size \in Nat
    /\ produced \in Seq(Lines) /\ handed \in Seq(Lines)
    /\ rows \in Nat /\ base \in Nat

ServerTypeOK ==
    /\ spc \in ServerPC
    /\ conn \in Conns \cup {NoConn}
    /\ resp \in Seq(Lines)
    /\ daemon \in {"none", "running", "stopping"}
    /\ cs \in [Conns -> {"none", "GET", "other", "seen", "refused",
                         "answered", "lost"}]
    /\ reply \in [Conns -> Seq(Lines)]

TypeOK == MainTypeOK /\ BufferTypeOK /\ ServerTypeOK

\* Every line use_manager() has written is either in a response or still in
\* the buffer: none is lost, none is handed out twice, none overtakes another,
\* whatever the interleaving of the two threads and of the signals.
ExactlyOnce == produced = handed \o Buffered

\* No sprintf of use_manager() writes beyond the block: when it has returned
\* n, the n characters and their NUL lie in the current_size + 1 bytes.
InBuffer == pc \in {"add", "addOverhead"} => delta + n <= size

\* What InBuffer needs: a sensor line and an overhead line fit together in
\* the 128 bytes of room, and a sample with an overhead line has a sensor
\* line too, since only the loop over the sensors grows the buffer.
RoomForLines ==
    /\ Margin < InitSize
    /\ Overhead => NbSensors > 0 /\ MaxLine + MaxOverhead <= Margin
    /\ MaxLine <= Margin

\* The server never looks at the buffer while a sample is half written, even
\* when a signal has torn the main thread out of use_manager() for good or
\* the mutex has been destroyed.
NoTornSample == spc \in ServerCritical => mutex # "main" /\ pc \notin Critical

\* The lines a scrape may see: all of them, unless main is inside a sample.
Published == IF mutex = "main" THEN SubSeq(mem, 1, base) ELSE Buffered
Asked == {c \in Conns : \/ cs[c] \in {"answered", "lost"}
                        \/ conn = c /\ spc \in {"unlock", "queue"}}

Queue == INSTANCE ScrapeQueue WITH queue <- Published, next <- rows,
                                   asked <- Asked

\* Seen from the clients a sample is published as one row and a scrape takes
\* every published row at once.
RefinesQueue == Queue!Spec

\* exit() ends the process when no sample was interrupted, or once end_mutex
\* is done with or was cut short by a second signal.
ExitLeads ==
    (pc = "exit" /\ (mutex # "main" \/ \A k \in 1 .. Len(handlers) :
                                            handlers[k] # "end_mutex"))
        ~> (pc = "dead")

\* Unless a signal comes the program stops when the timer is reached: scrapes
\* do not keep main out of the mutex and end_mutex can join the server.
TimerStops == <>(pc = "dead" \/ caught # {})

\* README.md, line 25: "mojitos will start the command with its arguments and
\* will stop either when it finishes or when the timer is reached".
CommandEndStops == (child = "exited") ~> (pc = "dead")
=============================================================================
