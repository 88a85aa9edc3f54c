------------------------- MODULE PromExporterProofs -------------------------
(***************************************************************************)
(* The safety properties of PromExporter, and that it implements           *)
(* ScrapeQueue, for every number of sensors, samples and connections and   *)
(* for every size of the buffer and the lines.                             *)
(***************************************************************************)
EXTENDS PromExporter, TLAPS

\* Who may hold the mutex, given where the two threads are.
MutexInv ==
    /\ pc \in Critical => mutex = "main"
    /\ mutex = "main" => pc \in Critical \cup Exiting
    /\ mutex = "destroyed" => pc \in Exiting
    /\ spc \in ServerCritical => mutex \in {"server", "destroyed"}
    /\ pc \in Starting => spc = "none"

\* The response under construction is what the buffer still holds, and a
\* line that sprintf stored and delta does not count yet is the next one.
BufferInv ==
    /\ nlines <= Len(mem)
    /\ spc = "reset" => resp = Buffered
    /\ pc \in {"add", "addOverhead"} => Len(mem) = nlines + 1
    /\ ExactlyOnce

IInv == TypeOK /\ MutexInv /\ BufferInv

\* What an overhead line can take of the room behind the sensor lines.
OverheadRoom == IF StatMode = 0 THEN MaxOverhead ELSE 0

\* How much of the room is left before each statement of use_manager().
RoomInv ==
    /\ InitSize <= size
    /\ stat_data # 0 => Overhead
    /\ pc = "add" => n <= MaxLine
    /\ pc = "addOverhead" => n <= MaxOverhead /\ Overhead
    /\ pc \notin {"grow"} \cup Exiting => delta + Margin < size + OverheadRoom
    /\ pc = "grow" => delta + Margin < size + OverheadRoom + MaxLine
    /\ pc = "line" /\ i > 0 => delta + Margin < size
    /\ pc = "addOverhead" => delta + Margin < size

-----------------------------------------------------------------------------
(* Facts about the prefix of a sequence *)

LEMMA PrefixType ==
    ASSUME NEW S, NEW s \in Seq(S), NEW m \in Nat, m <= Len(s)
    PROVE  SubSeq(s, 1, m) \in Seq(S) /\ Len(SubSeq(s, 1, m)) = m
  OBVIOUS

LEMMA EmptyPrefix ==
    ASSUME NEW S, NEW s \in Seq(S), NEW h \in Seq(S)
    PROVE  SubSeq(s, 1, 0) = <<>> /\ h \o SubSeq(s, 1, 0) = h
  OBVIOUS

\* What Sprintf stores leaves the counted lines alone.
LEMMA PrefixOfStored ==
    ASSUME NEW S, NEW s \in Seq(S), NEW m \in Nat, m <= Len(s), NEW x \in S
    PROVE  LET t == Append(SubSeq(s, 1, m), x)
           IN  /\ t \in Seq(S) /\ Len(t) = m + 1
               /\ t[m + 1] = x
               /\ SubSeq(t, 1, m) = SubSeq(s, 1, m)
  OBVIOUS

\* What Advance counts is the line behind the counted ones.
LEMMA PrefixAdvance ==
    ASSUME NEW S, NEW s \in Seq(S), NEW m \in Nat, m + 1 <= Len(s),
           NEW h \in Seq(S)
    PROVE  h \o SubSeq(s, 1, m + 1)
               = Append(h \o SubSeq(s, 1, m), s[m + 1])
<1> DEFINE l == h \o SubSeq(s, 1, m + 1)
           r == Append(h \o SubSeq(s, 1, m), s[m + 1])
<1>1. l \in Seq(S) /\ r \in Seq(S)
  OBVIOUS
<1>2. Len(l) = Len(h) + m + 1 /\ Len(r) = Len(h) + m + 1
  OBVIOUS
<1>3. ASSUME NEW j \in 1 .. Len(h) + m + 1 PROVE l[j] = r[j]
  OBVIOUS
<1> QED
  BY <1>1, <1>2, <1>3

-----------------------------------------------------------------------------
(* The inductive invariant *)

LEMMA InitIInv == Init => IInv
<1> SUFFICES ASSUME Init PROVE IInv
  OBVIOUS
<1>1. TypeOK
  <2>1. MainTypeOK
    BY DEF Init, MainTypeOK, MainPC, Starting
  <2>2. BufferTypeOK
    BY CountsAssumption DEF Init, BufferTypeOK
  <2>3. ServerTypeOK
    BY DEF Init, ServerTypeOK, ServerPC
  <2> QED
    BY <2>1, <2>2, <2>3 DEF TypeOK
<1>2. MutexInv
  BY DEF Init, MutexInv, Starting, Critical, Exiting, ServerCritical
<1>3. BufferInv
  <2>1. Buffered = <<>>
    BY DEF Init, Buffered
  <2> QED
    BY <2>1 DEF Init, BufferInv, ExactlyOnce
<1> QED
  BY <1>1, <1>2, <1>3 DEF IInv

\* What is in the buffer has the type of a response.
LEMMA BufferedType ==
    ASSUME TypeOK, BufferInv
    PROVE  Buffered \in Seq(Lines) /\ Len(Buffered) = nlines
  BY PrefixType DEF TypeOK, BufferTypeOK, BufferInv, Buffered

LEMMA SprintfEffect ==
    ASSUME TypeOK, BufferInv, NEW column \in Nat, NEW maxLength \in Nat,
           Sprintf(column, maxLength)
    PROVE  /\ mem' \in Seq(Lines) /\ Len(mem') = nlines' + 1
           /\ n' \in 1 .. maxLength
           /\ Buffered' = Buffered
<1>1. [t |-> temps, k |-> column] \in Lines
  BY DEF TypeOK, MainTypeOK, Lines
<1> QED
  BY <1>1, PrefixOfStored DEF Sprintf, Buffered, TypeOK, BufferTypeOK,
     BufferInv

LEMMA AdvanceEffect ==
    ASSUME TypeOK, BufferInv, Len(mem) = nlines + 1, Advance
    PROVE  /\ delta' \in Nat /\ nlines' \in Nat /\ nlines' <= Len(mem')
           /\ produced' \in Seq(Lines)
           /\ handed \o SubSeq(mem', 1, nlines') = produced'
<1>1. mem[nlines + 1] \in Lines
  BY DEF TypeOK, BufferTypeOK
<1>2. handed \o SubSeq(mem, 1, nlines + 1) = Append(produced, mem[nlines + 1])
  BY PrefixAdvance DEF TypeOK, BufferTypeOK, BufferInv,
     ExactlyOnce, Buffered
<1> QED
  BY <1>1, <1>2 DEF Advance, TypeOK, MainTypeOK, BufferTypeOK,
     BufferInv, Buffered

LEMMA MainTypeStep == IInv /\ [Next]_vars => MainTypeOK'
<1> SUFFICES ASSUME IInv, [Next]_vars PROVE MainTypeOK'
  OBVIOUS
<1> USE DEF IInv, TypeOK, MainTypeOK, MainPC, Starting, Critical, Exiting,
        locals, process, mainSide
<1>1. CASE MainStart
  <2>1. CASE CopyLabels
    BY <2>1 DEF CopyLabels
  <2>3. CASE InitMutex
    BY <2>3 DEF InitMutex
  <2>2. CASE StartDaemon \/ Fork
    BY <2>2 DEF StartDaemon, Fork
  <2> QED
    BY <1>1, <2>1, <2>2, <2>3 DEF MainStart
<1>2. CASE Sample \/ Lock \/ Grow \/ Unlock \/ Sleep
  BY <1>2, CountsAssumption DEF Sample, Lock, Grow, Unlock, Sleep
<1>3. CASE WriteLine \/ WriteOverhead
  BY <1>3, CountsAssumption DEF WriteLine, WriteOverhead, Sprintf
<1>4. CASE AddLine \/ AddOverhead
  BY <1>4 DEF AddLine, AddOverhead
<1>5. CASE NextHandler
  <2>1. CASE handlers = <<>>
    BY <1>5, <2>1 DEF NextHandler
  <2>2. CASE handlers # <<>>
    <3>1. /\ Head(handlers) \in {"end_mutex", "clean_manager", "flushexit"}
          /\ handlers' \in Seq({"end_mutex", "clean_manager", "flushexit"})
      BY <1>5, <2>2 DEF NextHandler
    <3> QED
      BY <1>5, <2>2, <3>1 DEF NextHandler, HandlerEntry
  <2> QED
    BY <2>1, <2>2
<1>6. CASE DestroyMutex \/ StopDaemon \/ JoinDaemon \/ FreeAndClose
  BY <1>6 DEF DestroyMutex, StopDaemon, JoinDaemon, FreeAndClose
<1>7. CASE Server
  BY <1>7 DEF Server, ServerLock, CopyBuffer, ResetBuffer, ServerUnlock,
     QueueResponse, EndThread, FirstCall, SecondCall
<1>8. CASE Environment
  BY <1>8 DEF Environment, ChildExits, Signal, Connect
<1>9. CASE UNCHANGED vars
  BY <1>9 DEF vars
<1> QED
  BY <1>1, <1>2, <1>3, <1>4, <1>5, <1>6, <1>7, <1>8, <1>9
  DEF Next, Main, MainLoop, MainExit, Terminated

LEMMA BufferTypeStep == IInv /\ [Next]_vars => BufferTypeOK'
<1> SUFFICES ASSUME IInv, [Next]_vars PROVE BufferTypeOK'
  OBVIOUS
<1> USE DEF IInv, TypeOK, BufferTypeOK, buffer, server, written
<1>1. CASE MainStart \/ MainExit
  BY <1>1 DEF MainStart, CopyLabels, InitMutex, StartDaemon, Fork,
     MainExit, NextHandler, DestroyMutex, StopDaemon, JoinDaemon, FreeAndClose
<1>2. CASE Sample \/ Lock \/ Grow \/ Unlock \/ Sleep
  BY <1>2 DEF Sample, Lock, Grow, NewSize, Unlock, Sleep
<1>3. CASE WriteLine
  <2>1. Sprintf(i + 1, MaxLine) /\ i + 1 \in Nat
    BY <1>3 DEF WriteLine, MainTypeOK
  <2> QED
    BY <1>3, <2>1, SprintfEffect, CountsAssumption DEF WriteLine, Sprintf
<1>4. CASE WriteOverhead
  <2>1. CASE Sprintf(0, MaxOverhead)
    BY <1>4, <2>1, SprintfEffect, CountsAssumption DEF WriteOverhead, Sprintf
  <2> QED
    BY <1>4, <2>1 DEF WriteOverhead
<1>5. CASE AddLine \/ AddOverhead
  <2>1. Len(mem) = nlines + 1 /\ Advance
    BY <1>5 DEF AddLine, AddOverhead, BufferInv
  <2> QED
    BY <1>5, <2>1, AdvanceEffect DEF AddLine, AddOverhead, Advance
<1>6. CASE ResetBuffer
  BY <1>6 DEF ResetBuffer, ServerTypeOK, mainSide
<1>7. CASE Server /\ ~ResetBuffer
  BY <1>7 DEF Server, ServerLock, CopyBuffer, ServerUnlock,
     QueueResponse, EndThread, FirstCall, SecondCall, mainSide
<1>8. CASE Environment
  BY <1>8 DEF Environment, ChildExits, Signal, Connect, mainSide
<1>9. CASE UNCHANGED vars
  BY <1>9 DEF vars
<1> QED
  BY <1>1, <1>2, <1>3, <1>4, <1>5, <1>6, <1>7, <1>8, <1>9
  DEF Next, Main, MainLoop, Terminated

LEMMA ServerTypeStep == IInv /\ [Next]_vars => ServerTypeOK'
<1> SUFFICES ASSUME IInv, [Next]_vars PROVE ServerTypeOK'
  OBVIOUS
<1> USE DEF IInv, TypeOK, ServerTypeOK, ServerPC, ServerCritical, server
<1>1. CASE MainStart \/ MainExit
  BY <1>1 DEF MainStart, CopyLabels, InitMutex, StartDaemon, Fork,
     MainExit, NextHandler, DestroyMutex, StopDaemon, JoinDaemon, FreeAndClose
<1>2. CASE MainLoop
  BY <1>2 DEF MainLoop, Sample, Lock, WriteLine, AddLine, Grow, WriteOverhead,
     AddOverhead, Unlock, Sleep
<1>3. CASE CopyBuffer
  BY <1>3, BufferedType DEF CopyBuffer
<1>4. CASE ResetBuffer
  BY <1>4 DEF ResetBuffer
<1>5. CASE ServerLock \/ ServerUnlock \/ EndThread
  BY <1>5 DEF ServerLock, ServerUnlock, EndThread
<1>6. CASE QueueResponse
  <2>1. PICK r \in {"answered", "lost"} : cs' = [cs EXCEPT ![conn] = r]
    BY <1>6 DEF QueueResponse
  <2>2. cs' \in [Conns -> {"none", "GET", "other", "seen", "refused",
                          "answered", "lost"}]
    BY <2>1
  <2> QED
    BY <1>6, <2>2 DEF QueueResponse
<1>7. ASSUME NEW c \in Conns, FirstCall(c) \/ SecondCall(c) \/ Connect(c)
      PROVE  ServerTypeOK'
  BY <1>7 DEF FirstCall, SecondCall, Connect
<1>8. CASE ChildExits \/ \E s \in Signals : Signal(s)
  BY <1>8 DEF ChildExits, Signal
<1>9. CASE UNCHANGED vars
  BY <1>9 DEF vars
<1> QED
  BY <1>1, <1>2, <1>3, <1>4, <1>5, <1>6, <1>7, <1>8, <1>9
  DEF Next, Main, Server, Environment, Terminated

LEMMA MutexStep == IInv /\ [Next]_vars => MutexInv'
<1> SUFFICES ASSUME IInv, [Next]_vars PROVE MutexInv'
  OBVIOUS
<1> USE DEF IInv, MutexInv, Critical, Exiting, Starting, ServerCritical,
        server, mainSide
<1>1. CASE MainStart
  BY <1>1 DEF MainStart, CopyLabels, InitMutex, StartDaemon, Fork
<1>2. CASE MainLoop
  BY <1>2 DEF MainLoop, Sample, Lock, WriteLine, AddLine, Grow, WriteOverhead,
     AddOverhead, Unlock, Sleep
<1>3. CASE NextHandler
  BY <1>3 DEF NextHandler, HandlerEntry, TypeOK, MainTypeOK
<1>4. CASE DestroyMutex \/ StopDaemon \/ JoinDaemon \/ FreeAndClose
  BY <1>4 DEF DestroyMutex, StopDaemon, JoinDaemon, FreeAndClose
<1>5. CASE Server
  BY <1>5 DEF Server, ServerLock, CopyBuffer, ResetBuffer, ServerUnlock,
     QueueResponse, EndThread, FirstCall, SecondCall
<1>6. CASE Environment
  BY <1>6 DEF Environment, ChildExits, Signal, Connect
<1>7. CASE UNCHANGED vars
  BY <1>7 DEF vars
<1> QED
  BY <1>1, <1>2, <1>3, <1>4, <1>5, <1>6, <1>7
  DEF Next, Main, MainExit, Terminated

LEMMA BufferStep == IInv /\ [Next]_vars => BufferInv'
<1> SUFFICES ASSUME IInv, [Next]_vars PROVE BufferInv'
  OBVIOUS
<1> USE DEF IInv, BufferInv, ExactlyOnce
<1>1. CASE WriteLine
  <2>1. Sprintf(i + 1, MaxLine) /\ i + 1 \in Nat
    BY <1>1 DEF WriteLine, TypeOK, MainTypeOK
  <2>2. spc # "reset"
    BY <1>1 DEF WriteLine, MutexInv, Critical, ServerCritical
  <2>3. Len(mem') = nlines' + 1 /\ Buffered' = Buffered
    BY <2>1, SprintfEffect, CountsAssumption
  <2> QED
    BY <1>1, <2>1, <2>2, <2>3
    DEF WriteLine, Sprintf, server, written, TypeOK, BufferTypeOK
<1>2. CASE WriteOverhead
  <2>1. CASE Sprintf(0, MaxOverhead)
    <3>1. spc # "reset"
      BY <1>2 DEF WriteOverhead, MutexInv, Critical, ServerCritical
    <3>2. Len(mem') = nlines' + 1 /\ Buffered' = Buffered
      BY <2>1, SprintfEffect, CountsAssumption
    <3> QED
      BY <1>2, <2>1, <3>1, <3>2
      DEF WriteOverhead, Sprintf, server, written, TypeOK, BufferTypeOK
  <2>2. CASE UNCHANGED buffer /\ pc' = "unlock"
    BY <1>2, <2>2 DEF WriteOverhead, buffer, server, written, Buffered
  <2> QED
    BY <1>2, <2>1, <2>2 DEF WriteOverhead
<1>3. CASE AddLine \/ AddOverhead
  <2>1. Len(mem) = nlines + 1 /\ Advance
    BY <1>3 DEF AddLine, AddOverhead
  <2>2. spc # "reset"
    BY <1>3 DEF AddLine, AddOverhead, MutexInv, Critical, ServerCritical
  <2> QED
    BY <1>3, <2>1, <2>2, AdvanceEffect
    DEF AddLine, AddOverhead, Buffered, server
<1>4. CASE CopyBuffer
  BY <1>4 DEF CopyBuffer, Buffered, buffer, mainSide, written
<1>5. CASE ResetBuffer
  <2>1. produced' = handed' /\ nlines' = 0 /\ mem' = mem /\ spc' = "unlock"
    BY <1>5 DEF ResetBuffer, mainSide, written
  <2>2. pc' \notin {"add", "addOverhead"}
    BY <1>5 DEF ResetBuffer, mainSide, MutexInv, Critical, ServerCritical
  <2>3. handed' \o SubSeq(mem, 1, 0) = handed'
    BY <1>5, EmptyPrefix DEF ResetBuffer, TypeOK, BufferTypeOK, ServerTypeOK
  <2> QED
    BY <2>1, <2>2, <2>3 DEF Buffered, TypeOK, BufferTypeOK
<1>6. CASE \/ MainStart \/ Sample \/ Lock \/ Grow \/ Unlock \/ Sleep
           \/ MainExit
  <2>1. CASE MainStart
    BY <2>1 DEF MainStart, CopyLabels, InitMutex, StartDaemon, Fork, buffer,
       server, written, Buffered, MutexInv, Starting
  <2>2. CASE Sample \/ Lock \/ Grow \/ Unlock \/ Sleep
    BY <2>2 DEF Sample, Lock, Grow, Unlock, Sleep, buffer, server, written,
       Buffered
  <2>3. CASE NextHandler
    <3>1. pc' \notin {"add", "addOverhead"}
      BY <2>3 DEF NextHandler, HandlerEntry, TypeOK, MainTypeOK
    <3> QED
      BY <2>3, <3>1 DEF NextHandler, buffer, server, written, Buffered
  <2>4. CASE DestroyMutex \/ StopDaemon \/ JoinDaemon \/ FreeAndClose
    BY <2>4 DEF DestroyMutex, StopDaemon, JoinDaemon, FreeAndClose, buffer,
       server, written, Buffered
  <2> QED
    BY <1>6, <2>1, <2>2, <2>3, <2>4 DEF MainExit
<1>7. CASE Server /\ ~CopyBuffer /\ ~ResetBuffer
  BY <1>7 DEF Server, ServerLock, ServerUnlock, QueueResponse, EndThread,
     FirstCall, SecondCall, buffer, mainSide, written, Buffered
<1>8. CASE Environment
  BY <1>8 DEF Environment, ChildExits, Signal, Connect, buffer, server,
     mainSide, written, Buffered
<1>9. CASE UNCHANGED vars
  BY <1>9 DEF vars, buffer, server, written, Buffered
<1> QED
  BY <1>1, <1>2, <1>3, <1>4, <1>5, <1>6, <1>7, <1>8, <1>9
  DEF Next, Main, MainLoop, Terminated

THEOREM Invariance == Spec => []IInv
<1>1. IInv /\ [Next]_vars => IInv'
  BY MainTypeStep, BufferTypeStep, ServerTypeStep, MutexStep, BufferStep
  DEF IInv, TypeOK
<1> QED
  BY InitIInv, <1>1, PTL DEF Spec

\* Type correctness of the exporter, the main thread and the server.
THEOREM TypeCorrect == Spec => []TypeOK
<1>1. IInv => TypeOK
  BY DEF IInv
<1> QED
  BY Invariance, <1>1, PTL

\* No line is lost, repeated or reordered between use_manager() and the
\* responses of internal_server(), whenever signals arrive.
THEOREM LinesExactlyOnce == Spec => []ExactlyOnce
<1>1. IInv => ExactlyOnce
  BY DEF IInv, BufferInv
<1> QED
  BY Invariance, <1>1, PTL

\* The server never reads the buffer in the middle of a sample.
THEOREM SamplesNotTorn == Spec => []NoTornSample
<1>1. IInv => NoTornSample
  BY DEF IInv, MutexInv, NoTornSample, Critical, Exiting, ServerCritical
<1> QED
  BY Invariance, <1>1, PTL

-----------------------------------------------------------------------------
(* The buffer is large enough *)

LEMMA InitRoom == RoomForLines /\ Init => RoomInv
  BY CountsAssumption DEF Init, RoomInv, RoomForLines, Exiting, OverheadRoom,
     Overhead

LEMMA RoomStep == RoomForLines /\ IInv /\ RoomInv /\ [Next]_vars => RoomInv'
<1> SUFFICES ASSUME RoomForLines, IInv, RoomInv, [Next]_vars
             PROVE  RoomInv'
  OBVIOUS
<1> USE CountsAssumption DEF IInv, TypeOK, MainTypeOK, BufferTypeOK, RoomInv,
        RoomForLines, OverheadRoom, Overhead, Exiting
<1>1. CASE MainStart
  BY <1>1 DEF MainStart, CopyLabels, InitMutex, StartDaemon, Fork, buffer,
     locals
<1>2. CASE Sample \/ Lock \/ Unlock \/ Sleep
  <2>1. CASE Sample
    BY <2>1 DEF Sample, buffer
  <2>2. CASE Lock
    BY <2>2 DEF Lock, buffer
  <2>3. CASE Unlock \/ Sleep
    BY <2>3 DEF Unlock, Sleep, locals, buffer
  <2> QED
    BY <1>2, <2>1, <2>2, <2>3
<1>3. CASE WriteLine
  BY <1>3 DEF WriteLine, Sprintf
<1>4. CASE WriteOverhead
  BY <1>4 DEF WriteOverhead, Sprintf, buffer
<1>5. CASE AddLine
  BY <1>5 DEF AddLine, Advance, locals
<1>6. CASE Grow
  BY <1>6 DEF Grow, NewSize
<1>7. CASE AddOverhead
  BY <1>7 DEF AddOverhead, Advance, locals
<1>8. CASE NextHandler
  <2>1. \/ pc' = "dead"
        \/ handlers # <<>> /\ pc' = HandlerEntry(Head(handlers))
    BY <1>8 DEF NextHandler
  <2>2. handlers # <<>> =>
            Head(handlers) \in {"end_mutex", "clean_manager", "flushexit"}
    OBVIOUS
  <2>3. pc' \in Exiting
    BY <2>1, <2>2 DEF HandlerEntry
  <2> QED
    BY <1>8, <2>3 DEF NextHandler, locals, buffer
<1>9. CASE DestroyMutex \/ StopDaemon \/ JoinDaemon \/ FreeAndClose
  BY <1>9 DEF DestroyMutex, StopDaemon, JoinDaemon, FreeAndClose, locals,
     buffer
<1>10. CASE Server
  <2>1. CASE ResetBuffer
    BY <2>1 DEF ResetBuffer, mainSide, locals
  <2>2. CASE ServerLock \/ CopyBuffer \/ ServerUnlock
    BY <2>2 DEF ServerLock, CopyBuffer, ServerUnlock, mainSide, locals, buffer
  <2>3. CASE QueueResponse \/ EndThread
    BY <2>3 DEF QueueResponse, EndThread, mainSide, locals, buffer
  <2>4. CASE \E c \in Conns : FirstCall(c) \/ SecondCall(c)
    BY <2>4 DEF FirstCall, SecondCall, mainSide, locals, buffer
  <2> QED
    BY <1>10, <2>1, <2>2, <2>3, <2>4 DEF Server
<1>11. CASE Environment
  BY <1>11 DEF Environment, ChildExits, Signal, Connect, mainSide, locals,
     buffer
<1>12. CASE UNCHANGED vars
  BY <1>12 DEF vars, locals, buffer
<1> QED
  BY <1>1, <1>2, <1>3, <1>4, <1>5, <1>6, <1>7, <1>8, <1>9, <1>10, <1>11,
     <1>12
  DEF Next, Main, MainLoop, MainExit, Terminated

\* sprintf() stays inside the block whatever the number of samples between
\* two scrapes, provided a sensor line and an overhead line fit together in
\* the room behind the last sensor line.
THEOREM BufferBound == ASSUME RoomForLines PROVE Spec => []InBuffer
<1>1. Init => RoomInv
  BY InitRoom
<1>2. IInv /\ RoomInv => InBuffer
  BY CountsAssumption
  DEF IInv, TypeOK, MainTypeOK, BufferTypeOK, RoomInv, RoomForLines,
      OverheadRoom, Overhead, Exiting, InBuffer
<1>3. IInv /\ RoomInv /\ [Next]_vars => RoomInv'
  BY RoomStep
<1> QED
  BY <1>1, <1>2, <1>3, Invariance, PTL DEF Spec

-----------------------------------------------------------------------------
(* The refinement of ScrapeQueue *)

\* The k-th line of the sample under way.
Cell(k) == [t |-> temps, k |-> IF k <= NbSensors THEN k ELSE 0]

\* Samples are numbered as they are completed.
CountInv ==
    /\ pc \in Starting \cup {"fork"} => temps = 0 /\ rows = 0
    /\ pc \in {"sample", "lock"} \cup Critical => rows = temps
    /\ pc = "sleep" => rows = temps + 1
    /\ stat_data # 0 => Overhead

\* Inside use_manager() the lines behind those published are the first ones
\* of the sample, as many as the statements behind it have counted.
RowInv ==
    /\ pc \in Critical =>
          /\ base <= nlines
          /\ \A k \in 1 .. nlines - base : mem[base + k] = Cell(k)
    /\ pc = "line" => nlines = base + i /\ i <= NbSensors
    /\ pc = "add" => /\ nlines = base + i /\ i < NbSensors
                     /\ mem[nlines + 1] = Cell(i + 1)
    /\ pc = "grow" => nlines = base + (i + 1) /\ i < NbSensors
    /\ pc = "addOverhead" => /\ nlines = base + NbSensors /\ Overhead
                             /\ mem[nlines + 1] = Cell(NbSensors + 1)
    /\ pc = "unlock" => \/ nlines = base + NbSensors
                        \/ nlines = base + (NbSensors + 1) /\ Overhead

\* The connection being answered has been seen and has no answer yet.
ConnInv ==
    spc \in {"lock", "queue"} \cup ServerCritical =>
        conn \in Conns /\ cs[conn] = "seen"

QInv == CountInv /\ RowInv /\ ConnInv

\* What sprintf stores behind m counted lines leaves every prefix of them.
LEMMA PrefixOfPrefix ==
    ASSUME NEW S, NEW s \in Seq(S), NEW m \in Nat, m <= Len(s), NEW x \in S,
           NEW b \in Nat, b <= m
    PROVE  /\ SubSeq(Append(SubSeq(s, 1, m), x), 1, b) = SubSeq(s, 1, b)
           /\ \A j \in 1 .. m : Append(SubSeq(s, 1, m), x)[j] = s[j]
<1> DEFINE l == SubSeq(Append(SubSeq(s, 1, m), x), 1, b)
           r == SubSeq(s, 1, b)
<1>1. l \in Seq(S) /\ r \in Seq(S) /\ Len(l) = b /\ Len(r) = b
  OBVIOUS
<1>2. ASSUME NEW j \in 1 .. b PROVE l[j] = r[j]
  OBVIOUS
<1>3. l = r
  BY <1>1, <1>2
<1>4. \A j \in 1 .. m : Append(SubSeq(s, 1, m), x)[j] = s[j]
  OBVIOUS
<1> QED
  BY <1>3, <1>4

LEMMA PrefixSplit ==
    ASSUME NEW S, NEW s \in Seq(S), NEW m \in Nat, m <= Len(s),
           NEW b \in Nat, b <= m, NEW r \in Seq(S), Len(r) = m - b,
           \A k \in 1 .. m - b : s[b + k] = r[k]
    PROVE  SubSeq(s, 1, m) = SubSeq(s, 1, b) \o r
<1> DEFINE p == SubSeq(s, 1, m)
           q == SubSeq(s, 1, b) \o r
<1>1. p \in Seq(S) /\ q \in Seq(S) /\ Len(p) = m /\ Len(q) = m
  OBVIOUS
<1>2. ASSUME NEW j \in 1 .. m PROVE p[j] = q[j]
  <2>1. CASE j <= b
    BY <2>1
  <2>2. CASE j > b
    <3>1. j - b \in 1 .. m - b /\ b + (j - b) = j
      BY <2>2
    <3>2. q[j] = r[j - b] /\ p[j] = s[j]
      BY <2>2
    <3> QED
      BY <3>1, <3>2
  <2> QED
    BY <2>1, <2>2
<1> QED
  BY <1>1, <1>2

LEMMA InitQInv == Init => QInv
  BY CountsAssumption DEF Init, QInv, CountInv, RowInv, ConnInv, Starting,
     Critical, ServerCritical

LEMMA CountStep == IInv /\ QInv /\ [Next]_vars => CountInv'
<1> SUFFICES ASSUME IInv, QInv, [Next]_vars PROVE CountInv'
  OBVIOUS
<1> USE DEF IInv, TypeOK, MainTypeOK, QInv, CountInv, Overhead, Starting,
        Critical
<1>1. CASE MainStart
  BY <1>1 DEF MainStart, CopyLabels, InitMutex, StartDaemon, Fork, locals,
     written
<1>2. CASE Sample \/ Lock \/ Grow \/ Unlock \/ Sleep
  BY <1>2 DEF Sample, Lock, Grow, Unlock, Sleep, locals, written,
     BufferTypeOK
<1>3. CASE WriteLine \/ WriteOverhead \/ AddLine \/ AddOverhead
  BY <1>3 DEF WriteLine, WriteOverhead, AddLine, AddOverhead, Advance, locals,
     written
<1>4. CASE MainExit
  <2>1. pc' \in Exiting
    BY <1>4 DEF MainExit, NextHandler, HandlerEntry, DestroyMutex, StopDaemon,
       JoinDaemon, FreeAndClose, Exiting
  <2>2. stat_data' = stat_data
    BY <1>4 DEF MainExit, NextHandler, DestroyMutex, StopDaemon, JoinDaemon,
       FreeAndClose, locals
  <2> QED
    BY <2>1, <2>2 DEF Exiting
<1>5. CASE Server \/ Environment
  BY <1>5 DEF Server, ServerLock, CopyBuffer, ResetBuffer, ServerUnlock,
     QueueResponse, EndThread, FirstCall, SecondCall, Environment, ChildExits,
     Signal, Connect, mainSide, locals, written
<1>6. CASE UNCHANGED vars
  BY <1>6 DEF vars, locals, written
<1> QED
  BY <1>1, <1>2, <1>3, <1>4, <1>5, <1>6 DEF Next, Main, MainLoop, Terminated

LEMMA ConnStep == IInv /\ QInv /\ [Next]_vars => ConnInv'
<1> SUFFICES ASSUME IInv, QInv, [Next]_vars PROVE ConnInv'
  OBVIOUS
<1> USE DEF QInv, ConnInv, ServerCritical, server
<1>1. CASE MainStart
  BY <1>1 DEF MainStart, CopyLabels, InitMutex, StartDaemon, Fork, IInv,
     MutexInv, Starting
<1>2. CASE MainLoop
  BY <1>2 DEF MainLoop, Sample, Lock, WriteLine, AddLine, Grow, WriteOverhead,
     AddOverhead, Unlock, Sleep
<1>3. CASE MainExit
  BY <1>3 DEF MainExit, NextHandler, DestroyMutex, StopDaemon, JoinDaemon,
     FreeAndClose
<1>4. CASE ServerLock \/ CopyBuffer \/ ResetBuffer \/ ServerUnlock \/ EndThread
  BY <1>4 DEF ServerLock, CopyBuffer, ResetBuffer, ServerUnlock, EndThread
<1>5. CASE QueueResponse
  BY <1>5 DEF QueueResponse
<1>6. ASSUME NEW c \in Conns, FirstCall(c) \/ SecondCall(c)
      PROVE  ConnInv'
  BY <1>6 DEF FirstCall, SecondCall
<1>7. ASSUME NEW c \in Conns, Connect(c)
      PROVE  ConnInv'
  BY <1>7 DEF Connect, IInv, TypeOK, ServerTypeOK
<1>8. CASE ChildExits \/ \E s \in Signals : Signal(s)
  BY <1>8 DEF ChildExits, Signal
<1>9. CASE UNCHANGED vars
  BY <1>9 DEF vars
<1> QED
  BY <1>1, <1>2, <1>3, <1>4, <1>5, <1>6, <1>7, <1>8, <1>9
  DEF Next, Main, Server, Environment, Terminated

\* Sprintf leaves the lines of the sample and adds one behind them.
LEMMA SprintfRow ==
    ASSUME IInv, pc = "line", RowInv, NEW column \in Nat,
           NEW maxLength \in Nat, Sprintf(column, maxLength)
    PROVE  /\ \A k \in 1 .. nlines - base : mem'[base + k] = mem[base + k]
           /\ mem'[nlines + 1] = [t |-> temps, k |-> column]
           /\ SubSeq(mem', 1, base) = SubSeq(mem, 1, base)
<1> DEFINE x == [t |-> temps, k |-> column]
<1>1. x \in Lines
  BY DEF IInv, TypeOK, MainTypeOK, Lines
<1>2. /\ mem \in Seq(Lines) /\ nlines \in Nat /\ base \in Nat
      /\ nlines <= Len(mem) /\ base <= nlines
  BY DEF IInv, TypeOK, BufferTypeOK, BufferInv, RowInv, Critical
<1>3. mem' = Append(SubSeq(mem, 1, nlines), x)
  BY DEF Sprintf, Buffered
<1> HIDE DEF x
<1>4. mem'[nlines + 1] = x
  BY <1>1, <1>2, <1>3, PrefixOfStored
<1>5. /\ SubSeq(mem', 1, base) = SubSeq(mem, 1, base)
      /\ \A j \in 1 .. nlines : mem'[j] = mem[j]
  BY <1>1, <1>2, <1>3, PrefixOfPrefix
<1>6. \A k \in 1 .. nlines - base : base + k \in 1 .. nlines
  BY <1>2
<1> QED
  BY <1>4, <1>5, <1>6 DEF x

\* Advance counts the line behind those of the sample.
LEMMA AdvanceRow ==
    ASSUME IInv, Advance, base <= nlines, UNCHANGED temps,
           \A k \in 1 .. nlines - base : mem[base + k] = Cell(k),
           mem[nlines + 1] = Cell(nlines + 1 - base)
    PROVE  /\ nlines' = nlines + 1 /\ base' = base /\ mem' = mem
           /\ base' <= nlines'
           /\ \A k \in 1 .. nlines' - base' : mem'[base' + k] = Cell(k)'
<1>1. /\ nlines' = nlines + 1 /\ base' = base /\ mem' = mem
      /\ nlines \in Nat /\ base \in Nat
  BY DEF Advance, IInv, TypeOK, BufferTypeOK
<1>2. ASSUME NEW k \in 1 .. nlines + 1 - base PROVE mem[base + k] = Cell(k)
  <2>1. CASE k \in 1 .. nlines - base
    BY <2>1
  <2>2. CASE k = nlines + 1 - base
    <3>1. base + k = nlines + 1
      BY <1>1, <2>2
    <3> QED
      BY <2>2, <3>1
  <2> QED
    BY <1>1, <2>1, <2>2
<1> QED
  BY <1>1, <1>2 DEF Cell

LEMMA RowStep == IInv /\ QInv /\ [Next]_vars => RowInv'
<1> SUFFICES ASSUME IInv, QInv, [Next]_vars PROVE RowInv'
  OBVIOUS
<1>0. /\ i \in Nat /\ temps \in Nat /\ nlines \in Nat /\ base \in Nat
      /\ NbSensors \in Nat
  BY CountsAssumption DEF IInv, TypeOK, MainTypeOK, BufferTypeOK
<1>1. CASE MainStart \/ Sample \/ Unlock \/ Sleep
  BY <1>1 DEF MainStart, CopyLabels, InitMutex, StartDaemon, Fork, Sample,
     Unlock, Sleep, RowInv, Critical
<1>2. CASE Lock
  BY <1>0, <1>2 DEF Lock, buffer, RowInv, Critical
<1>3. CASE WriteLine
  <2>1. Sprintf(i + 1, MaxLine) /\ i + 1 \in Nat /\ MaxLine \in Nat
    BY <1>0, <1>3, CountsAssumption DEF WriteLine
  <2>2. /\ \A k \in 1 .. nlines - base : mem'[base + k] = mem[base + k]
        /\ mem'[nlines + 1] = [t |-> temps, k |-> i + 1]
    BY <1>3, <2>1, SprintfRow DEF QInv, WriteLine
  <2>3. /\ pc = "line" /\ pc' = "add" /\ i < NbSensors
        /\ UNCHANGED <<i, temps, base, nlines>>
    BY <1>3, <2>1 DEF WriteLine, Sprintf, written
  <2> QED
    BY <1>0, <2>2, <2>3 DEF QInv, RowInv, Cell, Critical
<1>4. CASE WriteOverhead
  <2>1. pc = "line" /\ i >= NbSensors /\ UNCHANGED <<i, temps, base>>
    BY <1>4 DEF WriteOverhead, written
  <2>2. nlines = base + NbSensors /\ base <= nlines
    BY <1>0, <2>1 DEF QInv, RowInv, Critical
  <2>3. CASE Sprintf(0, MaxOverhead) /\ stat_data # 0 /\ pc' = "addOverhead"
    <3>1. /\ \A k \in 1 .. nlines - base : mem'[base + k] = mem[base + k]
          /\ mem'[nlines + 1] = [t |-> temps, k |-> 0]
      BY <2>1, <2>3, SprintfRow, CountsAssumption DEF QInv
    <3>2. nlines' = nlines /\ Overhead
      BY <2>3 DEF Sprintf, QInv, CountInv
    <3>3. Overhead'
      BY <3>2 DEF Overhead
    <3> QED
      BY <1>0, <2>1, <2>2, <2>3, <3>1, <3>2, <3>3
      DEF QInv, RowInv, Cell, Critical
  <2>4. CASE UNCHANGED buffer /\ pc' = "unlock"
    BY <1>0, <2>1, <2>2, <2>4 DEF QInv, RowInv, Cell, Critical, buffer
  <2> QED
    BY <1>4, <2>3, <2>4 DEF WriteOverhead
<1>5. CASE AddLine
  <2>1. /\ pc = "add" /\ pc' = "grow" /\ Advance /\ UNCHANGED <<i, temps>>
        /\ base <= nlines /\ nlines = base + i /\ i < NbSensors
        /\ \A k \in 1 .. nlines - base : mem[base + k] = Cell(k)
        /\ mem[nlines + 1] = Cell(i + 1)
    BY <1>5 DEF AddLine, locals, QInv, RowInv, Critical
  <2>2. i + 1 = nlines + 1 - base
    BY <1>0, <2>1
  <2>3. /\ nlines' = nlines + 1 /\ base' = base /\ base' <= nlines'
        /\ \A k \in 1 .. nlines' - base' : mem'[base' + k] = Cell(k)'
    BY <2>1, <2>2, AdvanceRow
  <2> QED
    BY <1>0, <2>1, <2>3 DEF RowInv
<1>6. CASE Grow
  BY <1>0, <1>6 DEF Grow, written, QInv, RowInv, Critical, Cell
<1>7. CASE AddOverhead
  <2>1. /\ pc = "addOverhead" /\ pc' = "unlock" /\ Advance
        /\ UNCHANGED <<i, temps>>
        /\ base <= nlines /\ nlines = base + NbSensors /\ Overhead
        /\ \A k \in 1 .. nlines - base : mem[base + k] = Cell(k)
        /\ mem[nlines + 1] = Cell(NbSensors + 1)
    BY <1>7 DEF AddOverhead, locals, QInv, RowInv, Critical
  <2>2. NbSensors + 1 = nlines + 1 - base
    BY <1>0, <2>1
  <2>3. /\ nlines' = nlines + 1 /\ base' = base /\ base' <= nlines'
        /\ \A k \in 1 .. nlines' - base' : mem'[base' + k] = Cell(k)'
    BY <2>1, <2>2, AdvanceRow
  <2>4. Overhead'
    BY <2>1 DEF Overhead
  <2> QED
    BY <1>0, <2>1, <2>3, <2>4 DEF RowInv
<1>8. CASE MainExit \/ \E s \in Signals : Signal(s)
  <2>1. pc' \in Exiting
    BY <1>8 DEF MainExit, NextHandler, HandlerEntry, DestroyMutex, StopDaemon,
       JoinDaemon, FreeAndClose, Signal, Exiting, IInv, TypeOK, MainTypeOK
  <2> QED
    BY <2>1 DEF RowInv, Exiting, Critical
<1>9. CASE ResetBuffer
  <2>1. pc' \notin Critical
    BY <1>9 DEF ResetBuffer, mainSide, IInv, MutexInv, ServerCritical
  <2> QED
    BY <2>1 DEF RowInv, Critical
<1>10. CASE \/ Server /\ ~ResetBuffer
            \/ ChildExits
            \/ \E c \in Conns : Connect(c)
            \/ UNCHANGED vars
  <2>1. UNCHANGED <<pc, i, temps, mem, nlines, base>>
    BY <1>10 DEF Server, ServerLock, CopyBuffer, ServerUnlock, QueueResponse,
       EndThread, FirstCall, SecondCall, ChildExits, Connect, vars, mainSide,
       locals, buffer, written
  <2>2. Overhead' = Overhead
    BY DEF Overhead
  <2> QED
    BY <2>1, <2>2 DEF QInv, RowInv, Cell
<1> QED
  BY <1>1, <1>2, <1>3, <1>4, <1>5, <1>6, <1>7, <1>8, <1>9, <1>10
  DEF Next, Main, MainLoop, Environment, Terminated

\* A row, whole and with or without its overhead line, is what main has
\* written when it comes to pthread_mutex_unlock.
LEMMA RowWritten ==
    ASSUME IInv, QInv, pc = "unlock"
    PROVE  \E o \in {FALSE, Overhead} :
               Buffered = SubSeq(mem, 1, base) \o Queue!Row(rows, o)
<1>0. /\ mem \in Seq(Lines) /\ nlines \in Nat /\ base \in Nat
      /\ nlines <= Len(mem) /\ base <= nlines /\ rows = temps /\ temps \in Nat
      /\ NbSensors \in Nat
      /\ \A k \in 1 .. nlines - base : mem[base + k] = Cell(k)
  BY CountsAssumption DEF IInv, TypeOK, MainTypeOK, BufferTypeOK, BufferInv,
     QInv, CountInv, RowInv, Critical
<1>1. ASSUME NEW o \in BOOLEAN,
             nlines - base = NbSensors + (IF o THEN 1 ELSE 0)
      PROVE  Buffered = SubSeq(mem, 1, base) \o Queue!Row(rows, o)
  <2> DEFINE l == [k \in 1 .. NbSensors |-> [t |-> temps, k |-> k]]
             x == [t |-> temps, k |-> 0]
             r == Queue!Row(rows, o)
  <2>1. r = IF o THEN Append(l, x) ELSE l
    BY <1>0 DEF Queue!Row
  <2>2. l \in Seq(Lines) /\ Len(l) = NbSensors /\ x \in Lines
    BY <1>0 DEF Lines
  <2>3. ASSUME NEW k \in 1 .. NbSensors PROVE l[k] = Cell(k)
    <3>1. k <= NbSensors
      OBVIOUS
    <3> QED
      BY <3>1, Zenon DEF Cell
  <2>4. x = Cell(NbSensors + 1)
    <3>1. ~(NbSensors + 1 <= NbSensors)
      BY <1>0
    <3> QED
      BY <3>1, Zenon DEF Cell
  <2> HIDE DEF l, x, r
  <2>5. /\ r \in Seq(Lines) /\ Len(r) = nlines - base
        /\ \A k \in 1 .. nlines - base : r[k] = Cell(k)
    <3>1. CASE o
      <4>1. /\ r = Append(l, x) /\ nlines - base = NbSensors + 1
        BY <1>1, <2>1, <3>1
      <4> QED
        BY <1>0, <2>2, <2>3, <2>4, <4>1
    <3>2. CASE ~o
      BY <1>0, <1>1, <2>1, <2>2, <2>3, <3>2
    <3> QED
      BY <3>1, <3>2
  <2>6. \A k \in 1 .. nlines - base : mem[base + k] = r[k]
    BY <1>0, <2>5
  <2>7. SubSeq(mem, 1, nlines) = SubSeq(mem, 1, base) \o r
    BY <1>0, <2>5, <2>6, PrefixSplit
  <2> QED
    BY <2>7 DEF r, Buffered
<1>2. CASE nlines = base + NbSensors
  <2>1. nlines - base = NbSensors + (IF FALSE THEN 1 ELSE 0)
    BY <1>0, <1>2
  <2> QED
    BY <1>1, <2>1
<1>3. CASE nlines = base + (NbSensors + 1) /\ Overhead
  <2>1. nlines - base = NbSensors + (IF TRUE THEN 1 ELSE 0)
    BY <1>0, <1>3
  <2>2. Overhead = TRUE
    BY <1>3 DEF Overhead
  <2> QED
    BY <1>1, <2>1, <2>2
<1> QED
  BY <1>2, <1>3 DEF QInv, RowInv

\* What a step does to the variables of the queue.
Stutters == UNCHANGED <<Published, rows, reply, Asked>>

LEMMA QueueInit == Init => Queue!Init
<1> SUFFICES ASSUME Init PROVE Queue!Init
  OBVIOUS
<1>1. Published = <<>>
  BY DEF Init, Published, Buffered
<1>2. Asked = {}
  BY DEF Init, Asked
<1> QED
  BY <1>1, <1>2 DEF Init, Queue!Init

\* The main thread publishes with pthread_mutex_unlock and changes nothing
\* that a client may see before it.
LEMMA MainStutters ==
    ASSUME IInv, QInv, Main \/ (\E s \in Signals : Signal(s)), ~Unlock
    PROVE  Stutters
<1>0. UNCHANGED <<reply, Asked>>
  BY DEF Main, MainStart, CopyLabels, InitMutex, StartDaemon, Fork, MainLoop,
     Sample, Lock, WriteLine, AddLine, Grow, WriteOverhead, AddOverhead,
     Sleep, MainExit, NextHandler, DestroyMutex, StopDaemon, JoinDaemon,
     FreeAndClose, Signal, server, Asked, IInv, MutexInv, Starting
<1>1. CASE MainStart
  BY <1>0, <1>1 DEF MainStart, CopyLabels, InitMutex, StartDaemon, Fork,
     buffer, written, Stutters, Published, Buffered, IInv, MutexInv, Starting,
     Critical, Exiting
<1>2. CASE Sample \/ Grow \/ Sleep
  BY <1>0, <1>2 DEF Sample, Grow, Sleep, buffer, written, Stutters,
     Published, Buffered
<1>3. CASE Lock
  BY <1>0, <1>3 DEF Lock, buffer, Stutters, Published, Buffered
<1>4. ASSUME WriteLine \/ WriteOverhead
      PROVE  Stutters
  <2>1. mutex = "main" /\ mutex' = mutex /\ UNCHANGED <<base, rows>>
    BY <1>4 DEF WriteLine, WriteOverhead, written, IInv, MutexInv, Critical
  <2>2. CASE UNCHANGED buffer
    BY <1>0, <2>1, <2>2 DEF Stutters, Published, buffer
  <2>3. CASE \E column \in Nat, maxLength \in Nat : Sprintf(column, maxLength)
    <3>1. SubSeq(mem', 1, base) = SubSeq(mem, 1, base)
      BY <1>4, <2>3, SprintfRow DEF WriteLine, WriteOverhead, QInv
    <3> QED
      BY <1>0, <2>1, <3>1 DEF Stutters, Published
  <2> QED
    BY <1>4, <2>2, <2>3, CountsAssumption
    DEF WriteLine, WriteOverhead, IInv, TypeOK, MainTypeOK
<1>5. CASE AddLine \/ AddOverhead
  BY <1>0, <1>5 DEF AddLine, AddOverhead, Advance, Stutters, Published, IInv,
     MutexInv, Critical
<1>6. CASE MainExit
  BY <1>0, <1>6 DEF MainExit, NextHandler, DestroyMutex, StopDaemon,
     JoinDaemon, FreeAndClose, buffer, written, Stutters, Published, Buffered
<1>7. CASE \E s \in Signals : Signal(s)
  BY <1>0, <1>7 DEF Signal, buffer, written, Stutters, Published, Buffered
<1> QED
  BY <1>1, <1>2, <1>3, <1>4, <1>5, <1>6, <1>7 DEF Main, MainLoop

\* The server takes the lines where it resets delta; a client and the child
\* change nothing.
LEMMA ServerStutters ==
    ASSUME IInv, QInv, ~ResetBuffer,
           Server \/ ChildExits \/ \E c \in Conns : Connect(c)
    PROVE  Stutters
<1> USE DEF Stutters, Published, Buffered, Asked, buffer, mainSide, written
<1>1. CASE ServerLock
  BY <1>1 DEF ServerLock
<1>2. CASE CopyBuffer
  BY <1>2 DEF CopyBuffer
<1>3. CASE ServerUnlock
  BY <1>3 DEF ServerUnlock
<1>4. CASE QueueResponse
  <2>1. conn \in Conns /\ cs[conn] = "seen" /\ spc = "queue"
    BY <1>4 DEF QueueResponse, QInv, ConnInv
  <2>2. PICK r \in {"answered", "lost"} : cs' = [cs EXCEPT ![conn] = r]
    BY <1>4 DEF QueueResponse
  <2>3. Asked' = Asked
    BY <1>4, <2>1, <2>2
    DEF QueueResponse, IInv, TypeOK, ServerTypeOK
  <2> QED
    BY <1>4, <2>3 DEF QueueResponse
<1>5. CASE EndThread
  BY <1>5 DEF EndThread
<1>6. ASSUME NEW c \in Conns, FirstCall(c) \/ Connect(c)
      PROVE  Stutters
  <2>1. PICK v \in {"GET", "other", "seen", "refused"} :
                cs' = [cs EXCEPT ![c] = v]
    BY <1>6 DEF FirstCall, Connect
  <2>2. cs[c] \notin {"answered", "lost"} /\ UNCHANGED <<conn, spc>>
    BY <1>6 DEF FirstCall, Connect
  <2>3. Asked' = Asked
    BY <2>1, <2>2 DEF IInv, TypeOK, ServerTypeOK
  <2> QED
    BY <1>6, <2>3 DEF FirstCall, Connect
<1>7. ASSUME NEW c \in Conns, SecondCall(c)
      PROVE  Stutters
  BY <1>7 DEF SecondCall
<1>8. CASE ChildExits
  BY <1>8 DEF ChildExits, server
<1> QED
  BY <1>1, <1>2, <1>3, <1>4, <1>5, <1>6, <1>7, <1>8 DEF Server

LEMMA QueueStep == IInv /\ QInv /\ [Next]_vars => [Queue!Next]_(Queue!vars)
<1> SUFFICES ASSUME IInv, QInv, [Next]_vars
             PROVE  Queue!Next \/ Stutters
  BY DEF Queue!vars, Stutters
<1>1. CASE Unlock
  <2>1. PICK o \in {FALSE, Overhead} :
                Buffered = SubSeq(mem, 1, base) \o Queue!Row(rows, o)
    BY <1>1, RowWritten DEF Unlock
  <2>2. Published = SubSeq(mem, 1, base) /\ Published' = Buffered
    BY <1>1 DEF Unlock, Published, Buffered, buffer, IInv, MutexInv, Critical
  <2>3. rows' = rows + 1 /\ UNCHANGED <<reply, Asked>>
    BY <1>1 DEF Unlock, server, Asked
  <2> QED
    BY <2>1, <2>2, <2>3 DEF Queue!Next, Queue!Publish
<1>2. CASE ResetBuffer
  <2>1. conn \in Conns /\ cs[conn] = "seen" /\ spc = "reset"
    BY <1>2 DEF ResetBuffer, QInv, ConnInv, ServerCritical
  <2>2. mutex # "main" /\ mutex' = mutex
    BY <1>2 DEF ResetBuffer, IInv, MutexInv, ServerCritical
  <2>3. Published = resp
    BY <2>1, <2>2 DEF Published, IInv, BufferInv
  <2>4. Published' = <<>>
    BY <1>2, <2>2 DEF ResetBuffer, Published, Buffered, IInv, TypeOK,
       BufferTypeOK
  <2>5. conn \notin Asked /\ Asked' = Asked \cup {conn}
    BY <1>2, <2>1 DEF ResetBuffer, Asked
  <2>6. Queue!Scrape(conn)
    BY <1>2, <2>3, <2>4, <2>5 DEF ResetBuffer, mainSide, written, Queue!Scrape
  <2> QED
    BY <2>1, <2>6 DEF Queue!Next
<1>3. CASE UNCHANGED vars
  BY <1>3 DEF vars, buffer, server, written, Stutters, Published, Buffered,
     Asked
<1> QED
  BY <1>1, <1>2, <1>3, MainStutters, ServerStutters
  DEF Next, Environment, Terminated

\* Every behaviour of the two threads, whatever the scrapes and the signals,
\* is one of the queue of whole rows, for every number of sensors, samples
\* and connections.
THEOREM ImplementsQueue == Spec => RefinesQueue
<1>1. Init => IInv /\ QInv
  BY InitIInv, InitQInv
<1>2. IInv /\ QInv /\ [Next]_vars => QInv'
  BY CountStep, RowStep, ConnStep DEF QInv
<1>3. Spec => [](IInv /\ QInv)
  BY <1>1, <1>2, Invariance, PTL DEF Spec
<1> QED
  BY <1>3, QueueInit, QueueStep, PTL DEF Spec, RefinesQueue, Queue!Spec
=============================================================================
