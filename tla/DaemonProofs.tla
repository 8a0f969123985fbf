---------------------------- MODULE DaemonProofs ----------------------------
(***************************************************************************)
(* Five parts.  The monitor of sync.c keeps the relation its sets are     *)
(* declared with, for any number of handlers; each of its operations is a  *)
(* lemma of its own, used for the calls the daemon makes.                  *)
(*                                                                         *)
(* Inv is an inductive invariant of the daemon, for any number of          *)
(* handlers, any size of their buffers and whatever the environment does,  *)
(* and the safety properties follow from it.  The steps fall into groups:  *)
(* those that change nothing that Inv, apart from the types, speaks of     *)
(* (Still), those that move one handler on without touching the data,      *)
(* those that change the sets, those that change the streams, and those of *)
(* the acquisition thread.                                                 *)
(*                                                                         *)
(* What can end the daemon while nobody has stopped it, and who joins its  *)
(* handlers: two more inductive invariants, which stand on Inv.            *)
(*                                                                         *)
(* Which exits of which loops free samples too early and leave a handler   *)
(* waiting for ever, and that nothing but a stop ends that wait.           *)
(*                                                                         *)
(* And the daemon implements the broadcast of module Broadcast.            *)
(***************************************************************************)
EXTENDS Daemon, SequenceTheorems, TLAPS

(***************************************************************************)
(* The monitor                                                             *)
(***************************************************************************)

\* The initial sets are empty.
LEMMA SyncInitial ==
  SyncInit => SyncTypeOK /\ SetsPartition /\ DeadAreGone
  BY DEF SyncInit, SyncTypeOK, SetsPartition, DeadAreGone

\* The operations keep the types.
LEMMA SyncOpsTyped ==
  ASSUME SyncTypeOK, NEW h \in Handlers,
         \/ IncAvailable(h) \/ DecAvailable(h) \/ SetReady(h)
         \/ SleepOnData(h) \/ DataTimeout(h) \/ TakeDead(h)
         \/ ResetReadyHandlers \/ NotifyReadBarrier \/ NotifyDataAvailable
         \/ SleepOnRead \/ ReadTimeout \/ SleepOnDead
         \/ FinishSync \/ OrphanMutex \/ StopRunning
  PROVE  SyncTypeOK'
  BY DEF SyncTypeOK, IncAvailable, DecAvailable, SetReady, SleepOnData,
         DataTimeout, TakeDead, ResetReadyHandlers, NotifyReadBarrier,
         NotifyDataAvailable, SleepOnRead, ReadTimeout, SleepOnDead,
         FinishSync, OrphanMutex, StopRunning, setVars, condVars, shutVars

\* Entering, reporting ready, leaving and the reset keep the partition.
LEMMA IncKeepsPartition ==
  ASSUME SetsPartition, NEW h, IncAvailable(h)
  PROVE  SetsPartition'
  BY DEF SetsPartition, IncAvailable

\* set_ready moves a pending handler to the done set.
LEMMA ReadyKeepsPartition ==
  ASSUME SetsPartition, NEW h, SetReadyAsserts(h), SetReady(h)
  PROVE  SetsPartition'
  BY DEF SetsPartition, SetReady, SetReadyAsserts

\* dec_available_handlers takes the handler out of all of them at once.
LEMMA DecKeepsPartition ==
  ASSUME SetsPartition, NEW h, DecAvailable(h)
  PROVE  SetsPartition'
  BY DEF SetsPartition, DecAvailable

\* reset_ready_handlers makes everybody alive active and pending.
LEMMA ResetKeepsPartition ==
  ASSUME SetsPartition, ResetReadyHandlers
  PROVE  SetsPartition'
  BY DEF SetsPartition, ResetReadyHandlers

\* The steps that leave the four sets alone.
SetsUnchanged == UNCHANGED <<alive, active, pending, done>>

\* Sleeping, waking, collecting and stopping touch none of the four.
LEMMA OthersKeepSets ==
  ASSUME NEW h,
         \/ SleepOnData(h) \/ DataTimeout(h) \/ TakeDead(h)
         \/ NotifyReadBarrier \/ NotifyDataAvailable
         \/ SleepOnRead \/ ReadTimeout \/ SleepOnDead
         \/ FinishSync \/ OrphanMutex \/ StopRunning
         \/ UNCHANGED syncVars
  PROVE  SetsUnchanged /\ dead' \subseteq dead
  BY DEF SetsUnchanged, SleepOnData, DataTimeout, TakeDead,
         NotifyReadBarrier, NotifyDataAvailable, SleepOnRead, ReadTimeout,
         SleepOnDead, FinishSync, OrphanMutex, StopRunning, setVars, syncVars

-----------------------------------------------------------------------------
\* The types hold in every state of the most general client's behaviours.
THEOREM SyncTypes == SyncSpec => []SyncTypeOK
<1>1. SyncInit => SyncTypeOK
  BY SyncInitial
<1>2. SyncTypeOK /\ [SyncNext]_syncVars => SyncTypeOK'
  <2> SUFFICES ASSUME SyncTypeOK, [SyncNext]_syncVars PROVE SyncTypeOK'
    OBVIOUS
  <2>1. ASSUME NEW h \in Handlers, HandlerCall(h) PROVE SyncTypeOK'
    BY <2>1, SyncOpsTyped DEF HandlerCall
  <2>2. CASE \/ ResetReadyHandlers \/ NotifyReadBarrier \/ NotifyDataAvailable
             \/ SleepOnRead \/ ReadTimeout \/ SleepOnDead
             \/ FinishSync \/ OrphanMutex \/ StopRunning
    BY <2>2 DEF SyncTypeOK, ResetReadyHandlers, NotifyReadBarrier,
         NotifyDataAvailable, SleepOnRead, ReadTimeout, SleepOnDead,
         FinishSync, OrphanMutex, StopRunning, setVars, condVars, shutVars
  <2>3. CASE UNCHANGED syncVars
    BY <2>3 DEF SyncTypeOK, syncVars, setVars, condVars, shutVars
  <2> QED BY <2>1, <2>2, <2>3 DEF SyncNext
<1> QED BY <1>1, <1>2, PTL DEF SyncSpec

\* The comment at sync.c:61-63 is true in every state: done and pending
\* partition active, and active is a part of alive.  It takes the assertion of
\* set_ready, which the most general client respects.
THEOREM PartitionHolds == SyncSpec => []SetsPartition
<1>1. SyncInit => SetsPartition
  BY SyncInitial
<1>2. SetsPartition /\ [SyncNext]_syncVars => SetsPartition'
  <2> SUFFICES ASSUME SetsPartition, [SyncNext]_syncVars PROVE SetsPartition'
    OBVIOUS
  <2>1. ASSUME NEW h \in Handlers, HandlerCall(h) PROVE SetsPartition'
    <3>1. CASE IncAvailable(h) BY <3>1, IncKeepsPartition
    <3>2. CASE SetReadyAsserts(h) /\ SetReady(h) BY <3>2, ReadyKeepsPartition
    <3>3. CASE DecAvailable(h) BY <3>3, DecKeepsPartition
    <3>4. CASE SleepOnData(h) \/ DataTimeout(h) \/ TakeDead(h)
      BY <3>4, OthersKeepSets DEF SetsUnchanged, SetsPartition
    <3> QED BY <2>1, <3>1, <3>2, <3>3, <3>4 DEF HandlerCall
  <2>2. CASE ResetReadyHandlers BY <2>2, ResetKeepsPartition
  <2>3. CASE \/ NotifyReadBarrier \/ NotifyDataAvailable
             \/ SleepOnRead \/ ReadTimeout \/ SleepOnDead
             \/ FinishSync \/ OrphanMutex \/ StopRunning
             \/ UNCHANGED syncVars
    BY <2>3, OthersKeepSets DEF SetsUnchanged, SetsPartition
  <2> QED BY <2>1, <2>2, <2>3 DEF SyncNext
<1> QED BY <1>1, <1>2, PTL DEF SyncSpec

\* A handler in the dead set is in no other set.  With the partition this is
\* inductive: leaving removes the handler from alive, hence from all of them,
\* and only a handler that is neither alive nor dead may register.
THEOREM DeadStayGone == SyncSpec => []DeadAreGone
<1> DEFINE SetsInv == SetsPartition /\ DeadAreGone
<1>1. SyncInit => SetsInv
  BY SyncInitial
<1>2. SetsInv /\ SetsPartition' /\ [SyncNext]_syncVars => DeadAreGone'
  <2> SUFFICES ASSUME SetsInv, [SyncNext]_syncVars PROVE DeadAreGone'
    OBVIOUS
  <2>1. ASSUME NEW h \in Handlers, HandlerCall(h) PROVE DeadAreGone'
    <3>1. CASE h \notin alive \cup dead /\ IncAvailable(h)
      BY <3>1 DEF DeadAreGone, IncAvailable
    <3>2. CASE SetReadyAsserts(h) /\ SetReady(h)
      BY <3>2 DEF DeadAreGone, SetReady, SetReadyAsserts
    <3>3. CASE DecAvailable(h)
      BY <3>3 DEF DeadAreGone, DecAvailable
    <3>4. CASE SleepOnData(h) \/ DataTimeout(h) \/ TakeDead(h)
      BY <3>4, OthersKeepSets DEF SetsUnchanged, DeadAreGone
    <3> QED BY <2>1, <3>1, <3>2, <3>3, <3>4 DEF HandlerCall
  <2>2. CASE ResetReadyHandlers
    BY <2>2 DEF DeadAreGone, ResetReadyHandlers
  <2>3. CASE \/ NotifyReadBarrier \/ NotifyDataAvailable
             \/ SleepOnRead \/ ReadTimeout \/ SleepOnDead
             \/ FinishSync \/ OrphanMutex \/ StopRunning
             \/ UNCHANGED syncVars
    BY <2>3, OthersKeepSets DEF SetsUnchanged, DeadAreGone
  <2> QED BY <2>1, <2>2, <2>3 DEF SyncNext
<1>3. SyncSpec => []SetsPartition
  BY PartitionHolds
<1> QED BY <1>1, <1>2, <1>3, PTL DEF SyncSpec

-----------------------------------------------------------------------------
(***************************************************************************)
(* The inductive invariant of the daemon                                   *)
(***************************************************************************)

USE DEF setVars, condVars, shutVars, syncVars, niVars, handlerVars,
        senderVars, mainVars

\* Everything but the types.
Safe ==
  /\ SetsPartition /\ SetsMatchPlaces /\ CopiersPending
  /\ BarrierHolds /\ HeaderFollows /\ Lag
  /\ GaplessStreams /\ NoLostWakeup

\* The numbers of chunks go round within Chunks and change at every step.
LEMMA TickType ==
  \A c \in Chunks \cup {NoChunk} : Tick(c) \in Chunks /\ Tick(c) # c
  BY ChunkAssumption DEF Tick, Chunks, NoChunk

-----------------------------------------------------------------------------
(***************************************************************************)
(* Types                                                                   *)
(***************************************************************************)

BufferTypeOK ==
  /\ queue \in [Handlers -> Seq(Chunks)]
  /\ \A h \in Handlers : Len(queue[h]) < BufSize

PlacesTypeOK ==
  /\ hpc \in [Handlers -> HandlerPlaces]
  /\ spc \in [Handlers -> SenderPlaces]
  /\ handlerRunning \in [Handlers -> BOOLEAN]
  /\ bufBlocked \subseteq Handlers

SentTypeOK == lastSent \in [Handlers -> Chunks \cup {NoChunk}]

\* The type of handler.c's variables, part by part.
LEMMA HandlerTypeParts ==
  HandlerTypeOK <=> BufferTypeOK /\ PlacesTypeOK /\ SentTypeOK
  BY DEF HandlerTypeOK, BufferTypeOK, PlacesTypeOK, SentTypeOK

\* A handler starts with a descriptor, or without.
Starts(h) == StartHandler(h, "request") \/ StartHandler(h, "unopened")

\* The steps of one handler and its sender.
HandlerMove(h) ==
  \/ HandlerStep(h) \/ RequestStep(h) \/ SenderStep(h) \/ WriteStep(h)
  \/ HandlerTimeout(h) \/ Starts(h)

\* A handler's step keeps the types of places and flags.
LEMMA PlacesTyped ==
  ASSUME PlacesTypeOK, NEW h \in Handlers, HandlerMove(h)
  PROVE  PlacesTypeOK'
<1>1. CASE HandlerStep(h)
  BY <1>1 DEF HandlerStep, SpawnSender, Register, RegisterNotify, Welcome,
     WelcomeAborts, CloseAborts, SpawnAborts, HandlerLoop, HandlerSleep,
     HandlerWakes, HandlerCheck, CopyFull, CopyStart, CopyEnd, CopyFreed,
     Ready, ReadyNotify, Leave, LeaveNotify, UsesFreedSets, Stop, JoinSender,
     Goto, PlacesTypeOK, HandlerPlaces, SenderPlaces
<1>2. CASE RequestStep(h) \/ WriteStep(h) \/ HandlerTimeout(h) \/ Starts(h)
  BY <1>2 DEF RequestStep, RequestAccepted, RequestRefused, WriteStep,
     WriteOk, WriteFails, HandlerTimeout, BufTimeout, Starts, StartHandler,
     Goto, SenderGoto, PlacesTypeOK, HandlerPlaces, SenderPlaces
<1>3. CASE SenderStep(h)
  BY <1>3 DEF SenderStep, SenderLoop, SenderSleep, SenderReturns,
     SenderTake, SenderDone, SenderGoto, PlacesTypeOK, SenderPlaces
<1> QED BY <1>1, <1>2, <1>3 DEF HandlerMove

\* Only these steps change a buffer, or what was sent.
LEMMA StreamChanges ==
  ASSUME NEW h \in Handlers, HandlerMove(h)
  PROVE  \/ UNCHANGED <<queue, lastSent>>
         \/ CopyEnd(h) \/ SenderTake(h) \/ JoinSender(h) \/ Starts(h)
<1>1. CASE HandlerStep(h)
  BY <1>1 DEF HandlerStep, SpawnSender, Register, RegisterNotify, Welcome,
     WelcomeAborts, CloseAborts, SpawnAborts, HandlerLoop, HandlerSleep,
     HandlerWakes, HandlerCheck, CopyFull, CopyStart, CopyFreed, Ready,
     ReadyNotify, Leave, LeaveNotify, UsesFreedSets, Stop
<1>2. CASE RequestStep(h) \/ WriteStep(h) \/ HandlerTimeout(h) \/ Starts(h)
  BY <1>2 DEF RequestStep, RequestAccepted, RequestRefused, WriteStep,
     WriteOk, WriteFails, HandlerTimeout, BufTimeout
<1>3. CASE SenderStep(h)
  BY <1>3 DEF SenderStep, SenderLoop, SenderSleep, SenderReturns, SenderDone
<1> QED BY <1>1, <1>2, <1>3 DEF HandlerMove

\* A new buffer is empty, which its array has room for.
LEMMA EmptyBufferTyped == << >> \in Seq(Chunks) /\ Len(<< >>) < BufSize
  BY BufAssumption

\* A handler that is copying has something to copy.
LEMMA CopiedChunk ==
  ASSUME Inv, NEW h \in Handlers, hpc[h] = "copying"
  PROVE  h \in pending /\ header \in Chunks /\ Len(queue[h]) + 1 < BufSize
<1>1. h \in pending /\ Len(queue[h]) + 1 < BufSize
  BY DEF Inv, CopiersPending, Fits
<1>2. active # {}
  BY <1>1 DEF Inv, SetsPartition
<1> QED
  BY <1>1, <1>2 DEF Inv, HeaderFollows, DaemonTypeOK, AcquisitionTypeOK

\* A handler's step keeps the buffers' types and their bound.
LEMMA StreamsTyped ==
  ASSUME Inv, NEW h \in Handlers, HandlerMove(h)
  PROVE  BufferTypeOK' /\ SentTypeOK'
<1>0. BufferTypeOK /\ SentTypeOK
  BY HandlerTypeParts DEF Inv, DaemonTypeOK
<1>1. CASE UNCHANGED <<queue, lastSent>>
  BY <1>0, <1>1 DEF BufferTypeOK, SentTypeOK
<1>2. CASE CopyEnd(h)
  <2>1. header \in Chunks /\ Len(queue[h]) + 1 < BufSize
    BY <1>2, CopiedChunk DEF CopyEnd, Goto
  <2>2. /\ Append(queue[h], header) \in Seq(Chunks)
        /\ Len(Append(queue[h], header)) = Len(queue[h]) + 1
    BY <1>0, <2>1, AppendProperties DEF BufferTypeOK
  <2> QED BY <1>0, <1>2, <2>1, <2>2 DEF CopyEnd, BufferTypeOK, SentTypeOK
<1>3. CASE SenderTake(h)
  <2>1. queue[h] \in Seq(Chunks) /\ queue[h] # << >>
    BY <1>0, <1>3 DEF SenderTake, BufferTypeOK
  <2>2. /\ Head(queue[h]) \in Chunks
        /\ Tail(queue[h]) \in Seq(Chunks)
        /\ Len(Tail(queue[h])) = Len(queue[h]) - 1
        /\ Len(queue[h]) \in Nat
    BY <2>1, HeadTailProperties, LenProperties
  <2> QED BY <1>0, <1>3, <2>2, BufAssumption
          DEF SenderTake, BufferTypeOK, SentTypeOK
<1>4. CASE JoinSender(h)
  BY <1>0, <1>4, EmptyBufferTyped DEF JoinSender, BufferTypeOK, SentTypeOK
<1>5. CASE Starts(h)
  BY <1>0, <1>5, EmptyBufferTyped DEF Starts, StartHandler, BufferTypeOK,
     SentTypeOK
<1> QED BY <1>1, <1>2, <1>3, <1>4, <1>5, StreamChanges

\* The steps of one handler change neither the acquisition thread's variables
\* nor, except through the operations of the monitor, those of sync.c.
LEMMA HandlerSyncTyped ==
  ASSUME SyncTypeOK, AcquisitionTypeOK, NEW h \in Handlers,
         HandlerStep(h) \/ RequestStep(h) \/ SenderStep(h) \/ WriteStep(h)
           \/ HandlerTimeout(h)
  PROVE  SyncTypeOK' /\ AcquisitionTypeOK'
<1>1. CASE HandlerStep(h)
  <2>1. \/ UNCHANGED syncVars
        \/ IncAvailable(h) \/ DecAvailable(h) \/ SetReady(h)
        \/ NotifyReadBarrier \/ SleepOnData(h)
    BY <1>1 DEF HandlerStep, SpawnSender, Register, RegisterNotify, Welcome,
       WelcomeAborts, CloseAborts, SpawnAborts, HandlerLoop, HandlerSleep,
       HandlerWakes, HandlerCheck, CopyFull, CopyStart, CopyEnd, CopyFreed,
       Ready, ReadyNotify, Leave, LeaveNotify, UsesFreedSets, Stop,
       JoinSender, LeaveDataWait
  <2>2. SyncTypeOK'
    BY <2>1, SyncOpsTyped DEF SyncTypeOK
  <2>3. UNCHANGED niVars /\ crash' \in {crash, "welcome", "close",
                            "pthread_create", "freed_samples", "freed_sets"}
    BY <1>1 DEF HandlerStep, SpawnSender, Register, RegisterNotify, Welcome,
       WelcomeAborts, CloseAborts, SpawnAborts, HandlerLoop, HandlerSleep,
       HandlerWakes, HandlerCheck, CopyFull, CopyStart, CopyEnd, CopyFreed,
       Ready, ReadyNotify, Leave, LeaveNotify, UsesFreedSets, Stop, JoinSender
  <2> QED BY <2>2, <2>3 DEF AcquisitionTypeOK, CrashKinds
<1>2. CASE RequestStep(h) \/ WriteStep(h) \/ SenderStep(h) \/ BufTimeout(h)
  <2>1. UNCHANGED <<syncVars, niVars, crash>>
    BY <1>2 DEF RequestStep, RequestAccepted, RequestRefused, WriteStep,
       WriteOk, WriteFails, BufTimeout, SenderStep, SenderLoop,
       SenderSleep, SenderReturns, SenderTake, SenderDone
  <2> QED BY <2>1 DEF SyncTypeOK, AcquisitionTypeOK
<1>3. CASE DataTimeout(h) /\ UNCHANGED <<niVars, crash, handlerVars>>
  BY <1>3, SyncOpsTyped DEF AcquisitionTypeOK
<1> QED BY <1>1, <1>2, <1>3 DEF HandlerTimeout

\* The acquisition thread's steps keep the types.
LEMMA AcquisitionTyped ==
  ASSUME SyncTypeOK, AcquisitionTypeOK, NiStep \/ NiTimeout
  PROVE  SyncTypeOK' /\ AcquisitionTypeOK'
<1>1. SyncTypeOK'
  BY DEF NiStep, NiTimeout, NiLoop, NiSleep, NiLeaveBarrier,
     NiBarrierAborts, NiCheck, NiRead, NiReadFails, NiPublish, NiReset,
     NiNotify, NiCleanup, SleepOnRead, LeaveReadBarrier, ReadTimeout,
     StopRunning, ResetReadyHandlers, NotifyDataAvailable, SyncTypeOK
<1>2. AcquisitionTypeOK'
  BY TickType DEF NiStep, NiTimeout, NiLoop, NiSleep, NiLeaveBarrier,
     NiBarrierAborts, NiCheck, NiRead, NiReadFails, NiPublish, NiReset,
     NiNotify, NiCleanup, NiGoto, AcquisitionTypeOK, NiPlaces, CrashKinds
<1> QED BY <1>1, <1>2

MainTypeOK ==
  /\ main \in MainPlaces
  /\ collector \in CollectorPlaces
  /\ zombie \subseteq Handlers
  /\ cancelled \in BOOLEAN

\* So do the steps of main and of the collector, and the signal.
LEMMA MainTyped ==
  ASSUME SyncTypeOK, AcquisitionTypeOK, MainTypeOK,
         MainStep \/ CollectorStep \/ Interrupt
  PROVE  SyncTypeOK' /\ AcquisitionTypeOK' /\ MainTypeOK'
<1>1. CASE MainStep
  <2>1. CASE MainFinish
    BY <2>1 DEF MainFinish, MainGoto, FinishSync, SyncTypeOK,
       AcquisitionTypeOK, MainTypeOK, MainPlaces
  <2>2. CASE MainCancel \/ MainCancelAborts \/ MainLaunchAborts
    BY <2>2, ZenonT(60) DEF MainCancel, MainCancelAborts, MainLaunchAborts,
       MainGoto, SyncTypeOK, AcquisitionTypeOK, MainTypeOK, MainPlaces,
       CrashKinds
  <2>3. CASE \/ MainLoop \/ MainPollReturns \/ MainJoinAcquisition
             \/ MainJoinCollector \/ MainExit
    <3>1. main' \in MainPlaces
      BY <2>3 DEF MainLoop, MainPollReturns, MainJoinAcquisition,
         MainJoinCollector, MainExit, MainGoto, MainPlaces
    <3>2. UNCHANGED <<syncVars, niVars, crash, collector, zombie, cancelled>>
      BY <2>3 DEF MainLoop, MainPollReturns, MainJoinAcquisition,
         MainJoinCollector, MainExit
    <3> QED BY <3>1, <3>2 DEF SyncTypeOK, AcquisitionTypeOK, MainTypeOK
  <2> QED BY <1>1, <2>1, <2>2, <2>3 DEF MainStep
<1>2. CASE CollectorStep
  <2>1. CASE CollectorSleep
    BY <2>1 DEF CollectorSleep, SleepOnDead, SyncTypeOK, AcquisitionTypeOK,
       MainTypeOK
  <2>2. ASSUME NEW h \in Handlers, CollectorTakes(h)
        PROVE  SyncTypeOK' /\ AcquisitionTypeOK' /\ MainTypeOK'
    <3>1. SyncTypeOK' /\ AcquisitionTypeOK'
      BY <2>2 DEF CollectorTakes, TakeDead, SyncTypeOK, AcquisitionTypeOK
    <3>2. MainTypeOK'
      BY <2>2 DEF CollectorTakes, MainTypeOK, CollectorPlaces
    <3> QED BY <3>1, <3>2
  <2>3. CASE CollectorCancelledAsleep
    BY <2>3 DEF CollectorCancelledAsleep, OrphanMutex, SyncTypeOK,
       AcquisitionTypeOK, MainTypeOK, CollectorPlaces
  <2>4. CASE \/ CollectorLoop \/ CollectorCancelledJoining
             \/ \E h \in Handlers : CollectorJoins(h)
    <3>1. /\ collector' \in CollectorPlaces
          /\ zombie' \in {zombie, {}} /\ UNCHANGED <<main, cancelled>>
      BY <2>4 DEF CollectorLoop, CollectorJoins, CollectorCancelledJoining,
         CollectorPlaces
    <3>2. UNCHANGED <<syncVars, niVars, crash>>
      BY <2>4 DEF CollectorLoop, CollectorJoins, CollectorCancelledJoining
    <3> QED BY <3>1, <3>2 DEF SyncTypeOK, AcquisitionTypeOK, MainTypeOK
  <2> QED BY <1>2, <2>1, <2>2, <2>3, <2>4 DEF CollectorStep
<1>3. CASE Interrupt
  BY <1>3 DEF Interrupt, StopRunning, SyncTypeOK, AcquisitionTypeOK,
     MainTypeOK
<1> QED BY <1>1, <1>2, <1>3

\* main and the collector touch a handler only by starting or joining it.
LEMMA MainHandlers ==
  ASSUME MainStep \/ CollectorStep \/ Interrupt
  PROVE  \/ UNCHANGED handlerVars
         \/ \E h \in Handlers : CollectorJoins(h)
<1>1. CASE MainStep \/ Interrupt
  BY <1>1 DEF MainStep, MainLoop, MainPollReturns, MainJoinAcquisition,
     MainCancel, MainCancelAborts, MainLaunchAborts, MainJoinCollector,
     MainFinish, MainExit, Interrupt
<1>2. CASE CollectorStep
  BY <1>2 DEF CollectorStep, CollectorLoop, CollectorSleep, CollectorTakes,
     CollectorCancelledAsleep, CollectorCancelledJoining
<1> QED BY <1>1, <1>2

\* What leaves handler.c's variables alone keeps their types.
LEMMA HandlerTypeKept ==
  ASSUME HandlerTypeOK, UNCHANGED handlerVars
  PROVE  HandlerTypeOK'
  BY HandlerTypeParts DEF HandlerTypeOK

\* Every step keeps every type.
LEMMA TypesStep ==
  ASSUME Inv, [Next]_vars
  PROVE  DaemonTypeOK'
<1>0. SyncTypeOK /\ AcquisitionTypeOK /\ HandlerTypeOK /\ MainTypeOK
  BY DEF Inv, DaemonTypeOK, MainTypeOK
<1>1. CASE AcquisitionStep
  BY <1>0, <1>1, AcquisitionTyped, HandlerTypeKept
     DEF AcquisitionStep, DaemonTypeOK, MainTypeOK
<1>2. ASSUME NEW h \in Handlers, ThreadStep(h) PROVE DaemonTypeOK'
  <2>1. HandlerTypeOK'
    BY <1>0, <1>2, HandlerTypeParts, PlacesTyped, StreamsTyped
       DEF ThreadStep, HandlerMove, HandlerTypeOK, BufferTypeOK,
           PlacesTypeOK, SentTypeOK
  <2> QED BY <1>0, <1>2, <2>1, HandlerSyncTyped
          DEF ThreadStep, DaemonTypeOK, MainTypeOK
<1>3. ASSUME NEW h \in Handlers, MainAccept(h) PROVE DaemonTypeOK'
  <2>1. HandlerTypeOK'
    BY <1>0, <1>3, HandlerTypeParts, PlacesTyped, StreamsTyped
       DEF MainAccept, HandlerMove, Starts, HandlerTypeOK, BufferTypeOK,
           PlacesTypeOK, SentTypeOK
  <2> QED BY <1>0, <1>3, <2>1 DEF MainAccept, MainGoto, MainPlaces,
          DaemonTypeOK, MainTypeOK, SyncTypeOK, AcquisitionTypeOK
<1>4. CASE MainStep \/ CollectorStep \/ Interrupt
  <2>1. HandlerTypeOK'
    <3>1. CASE UNCHANGED handlerVars BY <1>0, <3>1, HandlerTypeKept
    <3>2. ASSUME NEW h \in Handlers, CollectorJoins(h) PROVE HandlerTypeOK'
      BY <1>0, <3>2 DEF CollectorJoins, Goto, HandlerTypeOK, HandlerPlaces
    <3> QED BY <1>4, <3>1, <3>2, MainHandlers
  <2> QED BY <1>0, <1>4, <2>1, MainTyped DEF DaemonTypeOK, MainTypeOK
<1>5. CASE UNCHANGED vars
  BY <1>0, <1>5, HandlerTypeKept
     DEF vars, DaemonTypeOK, MainTypeOK, SyncTypeOK, AcquisitionTypeOK
<1> QED BY <1>1, <1>2, <1>3, <1>4, <1>5 DEF Next

-----------------------------------------------------------------------------
(***************************************************************************)
(* Steps that change nothing Safe speaks of but who sleeps                 *)
(***************************************************************************)

Still ==
  /\ UNCHANGED <<alive, active, pending, done, dead, hpc, queue, lastSent,
                 ni, samples, header, zombie>>
  /\ running' => running
  /\ collector' = "join" => collector = "join"

FewerSleep ==
  /\ readBlocked' => readBlocked
  /\ dataBlocked' \subseteq dataBlocked
  /\ bufBlocked' \subseteq bufBlocked
  /\ deadBlocked' => deadBlocked

\* A step that is Still keeps everything but, perhaps, the last conjunct ...
LEMMA StillKeeps ==
  ASSUME Safe, Still, NoLostWakeup'
  PROVE  Safe'
<1>1. SetsPartition' /\ SetsMatchPlaces' /\ BarrierHolds' /\ HeaderFollows'
  BY DEF Safe, Still, SetsPartition, SetsMatchPlaces, BarrierHolds,
     HeaderFollows
<1>2. CopiersPending'
  BY DEF Safe, Still, CopiersPending, Fits
<1>3. GaplessStreams'
  BY DEF Safe, Still, GaplessStreams
<1>4. Lag'
  BY DEF Safe, Still, Lag, LastCopied
<1> QED BY <1>1, <1>2, <1>3, <1>4 DEF Safe

\* ... and that one too, if it puts nobody to sleep.
LEMMA FewerSleepKeeps ==
  ASSUME Safe, Still, FewerSleep
  PROVE  Safe'
<1>1. NoLostWakeup'
  BY DEF Safe, NoLostWakeup, Still, FewerSleep
<1> QED BY <1>1, StillKeeps

\* Whoever goes to sleep has found its condition false.
LEMMA SleepKeeps ==
  ASSUME Safe, NEW h \in Handlers,
         \/ HandlerSleep(h) /\ UNCHANGED mainVars
         \/ SenderSleep(h) /\ UNCHANGED mainVars
         \/ NiSleep /\ UNCHANGED <<handlerVars, mainVars>>
         \/ CollectorSleep
  PROVE  Safe'
<1>1. Still
  BY DEF Still, HandlerSleep, SenderSleep, NiSleep, CollectorSleep,
     SleepOnData, SleepOnRead, SleepOnDead
<1>2. NoLostWakeup'
  <2>1. CASE HandlerSleep(h)
    BY <1>1, <2>1 DEF Still, HandlerSleep, SleepOnData, NoDataFor, Safe,
       NoLostWakeup
  <2>2. CASE SenderSleep(h)
    BY <1>1, <2>2 DEF Still, SenderSleep, Safe, NoLostWakeup
  <2>3. CASE NiSleep /\ UNCHANGED <<handlerVars, mainVars>>
    BY <1>1, <2>3 DEF Still, NiSleep, SleepOnRead, BarrierClosed, Safe,
       NoLostWakeup
  <2>4. CASE CollectorSleep
    BY <1>1, <2>4 DEF Still, CollectorSleep, SleepOnDead, Safe, NoLostWakeup
  <2> QED BY <2>1, <2>2, <2>3, <2>4
<1> QED BY <1>1, <1>2, StillKeeps

\* main's steps and the signal change nothing Safe speaks of.
LEMMA MainKeeps ==
  ASSUME Safe, MainStep \/ Interrupt
  PROVE  Safe'
<1>1. Still /\ FewerSleep
  BY DEF MainStep, MainLoop, MainPollReturns, MainJoinAcquisition, MainCancel,
     MainCancelAborts, MainLaunchAborts, MainJoinCollector, MainFinish,
     MainExit, FinishSync, Interrupt, StopRunning, Still, FewerSleep
<1> QED BY <1>1, FewerSleepKeeps

\* The sender's steps but the one that takes a chunk, the write, the timeouts
\* and the failures leave the handler where it is.
LEMMA QuietThreadKeeps ==
  ASSUME Safe, NEW h \in Handlers, UNCHANGED mainVars,
         \/ SenderLoop(h) \/ SenderReturns(h) \/ SenderDone(h)
         \/ WriteStep(h) \/ HandlerTimeout(h)
         \/ WelcomeAborts(h) \/ CloseAborts(h) \/ SpawnAborts(h)
         \/ CopyFreed(h) \/ UsesFreedSets(h)
  PROVE  Safe'
<1>1. Still /\ FewerSleep
  BY DEF SenderLoop, SenderReturns, SenderDone, WriteStep, WriteOk,
     WriteFails, HandlerTimeout, DataTimeout, BufTimeout, WelcomeAborts,
     CloseAborts, SpawnAborts, CopyFreed, UsesFreedSets, Still, FewerSleep
<1> QED BY <1>1, FewerSleepKeeps

-----------------------------------------------------------------------------
(***************************************************************************)
(* A handler moves on and leaves the data alone                            *)
(***************************************************************************)

PlainMove(h) ==
  \/ RequestAccepted(h) \/ RequestRefused(h) \/ SpawnSender(h)
  \/ RegisterNotify(h) \/ Welcome(h) \/ HandlerLoop(h) \/ HandlerWakes(h)
  \/ HandlerCheck(h) \/ CopyFull(h) \/ CopyStart(h) \/ ReadyNotify(h)
  \/ LeaveNotify(h) \/ Stop(h)

DataKept ==
  UNCHANGED <<running, alive, active, pending, done, dead, queue, lastSent,
              niVars, mainVars>>

\* A handler that moves on without touching the data keeps Safe.
LEMMA PlainMoveKeeps ==
  ASSUME Inv, NEW h \in Handlers, PlainMove(h), UNCHANGED mainVars
  PROVE  Safe'
<1>0. hpc \in [Handlers -> HandlerPlaces] /\ running \in BOOLEAN
  BY DEF Inv, DaemonTypeOK, HandlerTypeOK, SyncTypeOK
<1>1. DataKept
  BY DEF PlainMove, RequestAccepted, RequestRefused, SpawnSender,
     RegisterNotify, Welcome, HandlerLoop, HandlerWakes, HandlerCheck,
     CopyFull, CopyStart, ReadyNotify, LeaveNotify, Stop, DataKept,
     NotifyReadBarrier, LeaveDataWait
<1>2. /\ hpc' = [hpc EXCEPT ![h] = hpc'[h]]
      /\ \/ hpc[h] \in Unregistered /\ hpc'[h] \in Unregistered \cup {"stop"}
         \/ hpc[h] \in Registered \ {"ready"}
              /\ hpc'[h] \in Registered \ {"ready"}
         \/ hpc[h] \in Departed /\ hpc'[h] \in Departed \ {"zombie"}
  BY <1>0 DEF PlainMove, RequestAccepted, RequestRefused, SpawnSender,
     RegisterNotify, Welcome, HandlerLoop, HandlerWakes, HandlerCheck,
     CopyFull, CopyStart, ReadyNotify, LeaveNotify, Stop, Goto,
     Unregistered, Registered, Departed
<1>3. SetsPartition' /\ BarrierHolds' /\ HeaderFollows' /\ GaplessStreams'
  BY <1>1 DEF DataKept, Inv, SetsPartition, BarrierHolds, HeaderFollows,
     GaplessStreams
<1>4. SetsMatchPlaces'
  <2>1. alive \cup dead \cup zombie \subseteq Handlers
    BY DEF Inv, DaemonTypeOK, SyncTypeOK
  <2>2. hpc[h] \in Registered <=> hpc'[h] \in Registered
    BY <1>2 DEF Unregistered, Registered, Departed
  <2>3. hpc[h] \in Departed => hpc'[h] \in Departed
    BY <1>2 DEF Unregistered, Registered, Departed
  <2> QED BY <1>0, <1>1, <1>2, <2>1, <2>2, <2>3
          DEF DataKept, Inv, SetsMatchPlaces
<1>5. Lag'
  <2>1. \A g \in Handlers : LastCopied(g)' = LastCopied(g)
    BY <1>1 DEF DataKept, LastCopied
  <2>2. hpc'[h] \in Unregistered \cup {"zombie"} => hpc[h] \in Unregistered
    BY <1>2 DEF Unregistered, Registered, Departed
  <2>3. hpc'[h] = "ready" <=> hpc[h] = "ready"
    BY <1>2 DEF Unregistered, Registered, Departed
  <2> QED BY <1>0, <1>1, <1>2, <2>1, <2>2, <2>3 DEF DataKept, Inv, Lag
<1>6. CopiersPending'
  <2>1. hpc'[h] \in {"copy", "copying", "ready"} => h \in pending
    BY <1>0, <1>1 DEF DataKept, Inv, CopiersPending, PlainMove,
       RequestAccepted, RequestRefused, SpawnSender, RegisterNotify, Welcome,
       HandlerLoop, HandlerWakes, HandlerCheck, CopyFull, CopyStart,
       ReadyNotify, LeaveNotify, Stop, Goto
  <2>2. hpc'[h] = "check" /\ running => h \in pending
    BY <1>0, <1>1 DEF PlainMove, RequestAccepted, RequestRefused,
       SpawnSender, RegisterNotify, Welcome, HandlerLoop, HandlerWakes,
       HandlerCheck, CopyFull, CopyStart, ReadyNotify, LeaveNotify, Stop,
       Goto, LeaveDataWait, NoDataFor
  <2>3. hpc'[h] = "copying" => Fits(h)
    BY <1>0, <1>1 DEF PlainMove, RequestAccepted, RequestRefused,
       SpawnSender, RegisterNotify, Welcome, HandlerLoop, HandlerWakes,
       HandlerCheck, CopyFull, CopyStart, ReadyNotify, LeaveNotify, Stop, Goto
  <2>4. \A g \in Handlers : Fits(g)' = Fits(g)
    BY <1>1 DEF DataKept, Fits
  <2> QED BY <1>0, <1>1, <1>2, <2>1, <2>2, <2>3, <2>4
          DEF DataKept, Inv, CopiersPending
<1>7. NoLostWakeup'
  <2>1. CASE RegisterNotify(h) \/ ReadyNotify(h) \/ LeaveNotify(h)
    BY <1>0, <1>1, <2>1 DEF RegisterNotify, ReadyNotify, LeaveNotify,
       NotifyReadBarrier, DataKept, Inv, NoLostWakeup
  <2>2. CASE ~(RegisterNotify(h) \/ ReadyNotify(h) \/ LeaveNotify(h))
    <3>1. /\ hpc[h] \notin {"readied", "left"}
          /\ UNCHANGED condVars /\ bufBlocked' \subseteq bufBlocked
      BY <2>2 DEF PlainMove, RequestAccepted, RequestRefused, SpawnSender,
         Welcome, HandlerLoop, HandlerWakes, HandlerCheck, CopyFull,
         CopyStart, Stop, Goto, LeaveDataWait
    <3> QED BY <1>0, <1>1, <1>2, <3>1 DEF DataKept, Inv, NoLostWakeup
  <2> QED BY <2>1, <2>2
<1> QED BY <1>3, <1>4, <1>5, <1>6, <1>7 DEF Safe

-----------------------------------------------------------------------------
(***************************************************************************)
(* A handler enters, reports ready and leaves: the sets change             *)
(***************************************************************************)

\* What the three need of the invariant, and what they leave alone.
LEMMA SetsMoveFrame ==
  ASSUME NEW h \in Handlers, Register(h) \/ Ready(h) \/ Leave(h)
  PROVE  UNCHANGED <<running, queue, lastSent, niVars, readBlocked,
                     dataBlocked, bufBlocked>>
  BY DEF Register, Ready, Leave, IncAvailable, SetReady, DecAvailable

\* The types the proofs about the sets need.
LEMMA HandlersTyped ==
  ASSUME Inv
  PROVE  /\ hpc \in [Handlers -> HandlerPlaces]
         /\ running \in BOOLEAN
         /\ \A s \in {alive, active, pending, done, dead, zombie} :
               s \subseteq Handlers
  BY DEF Inv, DaemonTypeOK, HandlerTypeOK, SyncTypeOK

\* A handler that registers has received nothing and owes nothing.
LEMMA RegisterKeeps ==
  ASSUME Inv, NEW h \in Handlers, Register(h), UNCHANGED mainVars
  PROVE  Safe'
<1>1. UNCHANGED <<running, queue, lastSent, niVars, readBlocked,
                  dataBlocked, bufBlocked, active, pending, done, dead,
                  deadBlocked>>
  BY SetsMoveFrame DEF Register, IncAvailable
<1>2. /\ hpc[h] = "register" /\ hpc' = [hpc EXCEPT ![h] = "registered"]
      /\ alive' = alive \cup {h}
  BY DEF Register, Goto, IncAvailable
<1>3. h \notin alive /\ h \notin active /\ LastCopied(h) = NoChunk
  BY <1>2 DEF Inv, SetsMatchPlaces, SetsPartition, Registered, Lag,
     Unregistered
<1>4. SetsPartition'
  BY IncKeepsPartition DEF Inv, Register
<1>5. SetsMatchPlaces'
  BY <1>1, <1>2, HandlersTyped DEF Inv, SetsMatchPlaces, Registered, Departed
<1>6. CopiersPending'
  BY <1>1, <1>2, HandlersTyped DEF Inv, CopiersPending, Fits
<1>7. BarrierHolds' /\ HeaderFollows' /\ GaplessStreams'
  BY <1>1 DEF Inv, BarrierHolds, HeaderFollows, GaplessStreams
<1>8. Lag'
  <2>1. \A g \in Handlers : LastCopied(g)' = LastCopied(g)
    BY <1>1 DEF LastCopied
  <2> QED BY <1>1, <1>2, <1>3, <2>1, HandlersTyped DEF Inv, Lag, Unregistered
<1>9. NoLostWakeup'
  BY <1>1, <1>2, HandlersTyped DEF Inv, NoLostWakeup
<1> QED BY <1>4, <1>5, <1>6, <1>7, <1>8, <1>9 DEF Safe

\* set_ready: the handler has the current chunk and no longer owes it.
LEMMA ReadyKeeps ==
  ASSUME Inv, NEW h \in Handlers, Ready(h), UNCHANGED mainVars
  PROVE  Safe'
<1>1. UNCHANGED <<running, queue, lastSent, niVars, readBlocked,
                  dataBlocked, bufBlocked, alive, active, dead, deadBlocked>>
  BY SetsMoveFrame DEF Ready, SetReady
<1>2. /\ hpc[h] = "ready" /\ hpc' = [hpc EXCEPT ![h] = "readied"]
      /\ done' = done \cup {h} /\ pending' = pending \ {h}
  BY DEF Ready, Goto, SetReady
<1>3. h \in pending /\ h \in active /\ header = LastCopied(h)
  BY <1>2 DEF Inv, CopiersPending, SetsPartition, Lag
<1>4. SetsPartition'
  BY <1>3, ReadyKeepsPartition DEF Inv, Ready, SetReadyAsserts
<1>5. SetsMatchPlaces'
  BY <1>1, <1>2, HandlersTyped DEF Inv, SetsMatchPlaces, Registered, Departed
<1>6. CopiersPending'
  BY <1>1, <1>2, HandlersTyped DEF Inv, CopiersPending, Fits
<1>7. BarrierHolds' /\ HeaderFollows' /\ GaplessStreams'
  BY <1>1, <1>2 DEF Inv, BarrierHolds, HeaderFollows, GaplessStreams
<1>8. Lag'
  <2>1. \A g \in Handlers : LastCopied(g)' = LastCopied(g)
    BY <1>1 DEF LastCopied
  <2>2. ni # "reset"
    BY <1>3 DEF Inv, BarrierHolds
  <2> QED BY <1>1, <1>2, <1>3, <2>1, <2>2, HandlersTyped
          DEF Inv, Lag, Unregistered
<1>9. NoLostWakeup'
  BY <1>1, <1>2, HandlersTyped DEF Inv, NoLostWakeup
<1> QED BY <1>4, <1>5, <1>6, <1>7, <1>8, <1>9 DEF Safe

\* dec_available_handlers: the handler leaves the sets and the barrier.
LEMMA LeaveKeeps ==
  ASSUME Inv, NEW h \in Handlers, Leave(h), UNCHANGED mainVars
  PROVE  Safe'
<1>1. UNCHANGED <<running, queue, lastSent, niVars, readBlocked,
                  dataBlocked, bufBlocked>>
  BY SetsMoveFrame
<1>2. /\ hpc[h] = "leave" /\ hpc' = [hpc EXCEPT ![h] = "left"]
      /\ alive' = alive \ {h} /\ active' = active \ {h}
      /\ pending' = pending \ {h} /\ done' = done \ {h}
      /\ dead' = dead \cup {h} /\ deadBlocked' = FALSE
  BY DEF Leave, Goto, DecAvailable
<1>3. SetsPartition'
  BY DecKeepsPartition DEF Inv, Leave
<1>4. SetsMatchPlaces'
  BY <1>1, <1>2, HandlersTyped DEF Inv, SetsMatchPlaces, Registered, Departed
<1>5. CopiersPending'
  BY <1>1, <1>2, HandlersTyped DEF Inv, CopiersPending, Fits
<1>6. BarrierHolds' /\ HeaderFollows' /\ GaplessStreams'
  BY <1>1, <1>2 DEF Inv, BarrierHolds, HeaderFollows, GaplessStreams
<1>7. Lag'
  <2>1. \A g \in Handlers : LastCopied(g)' = LastCopied(g)
    BY <1>1 DEF LastCopied
  <2> QED BY <1>1, <1>2, <2>1, HandlersTyped DEF Inv, Lag, Unregistered
<1>8. NoLostWakeup'
  BY <1>1, <1>2, HandlersTyped DEF Inv, NoLostWakeup
<1> QED BY <1>3, <1>4, <1>5, <1>6, <1>7, <1>8 DEF Safe

-----------------------------------------------------------------------------
(***************************************************************************)
(* The streams change                                                      *)
(***************************************************************************)

\* The types the proofs about the streams need.
LEMMA StreamsAreTyped ==
  ASSUME Inv
  PROVE  /\ queue \in [Handlers -> Seq(Chunks)]
         /\ lastSent \in [Handlers -> Chunks \cup {NoChunk}]
         /\ header \in Chunks \cup {NoChunk}
         /\ NoChunk \notin Chunks
  BY DEF Inv, DaemonTypeOK, HandlerTypeOK, AcquisitionTypeOK, Chunks, NoChunk

\* Appending a chunk makes it the last one and leaves the others in place.
LEMMA AppendedStream ==
  ASSUME Inv, NEW h \in Handlers, NEW c \in Chunks,
         queue' = [queue EXCEPT ![h] = Append(@, c)], UNCHANGED lastSent
  PROVE  /\ LastCopied(h)' = c
         /\ \A g \in Handlers : g # h => LastCopied(g)' = LastCopied(g)
         /\ LastCopied(h) = NoChunk \/ c = Tick(LastCopied(h))
              => GaplessStreams'
<1> DEFINE q == queue[h]
<1>1. q \in Seq(Chunks) /\ queue'[h] = Append(q, c)
  BY StreamsAreTyped
<1>2. /\ Len(q) \in Nat /\ Len(Append(q, c)) = Len(q) + 1
      /\ Append(q, c) # << >>
      /\ \A i \in 1 .. Len(q) : Append(q, c)[i] = q[i]
      /\ Append(q, c)[Len(q) + 1] = c
      /\ q = << >> <=> Len(q) = 0
  BY <1>1, AppendProperties, LenProperties, EmptySeq
<1>3. LastCopied(h)' = c
  BY <1>1, <1>2 DEF LastCopied
<1>4. \A g \in Handlers : g # h => queue'[g] = queue[g]
  BY StreamsAreTyped
<1>5. \A g \in Handlers : g # h => LastCopied(g)' = LastCopied(g)
  BY <1>4 DEF LastCopied
<1>6. ASSUME LastCopied(h) = NoChunk \/ c = Tick(LastCopied(h))
      PROVE  GaplessStreams'
  <2>1. q # << >> => LastCopied(h) = q[Len(q)] /\ q[Len(q)] \in Chunks
    BY <1>1, <1>2, LenProperties DEF LastCopied
  <2>2. q # << >> => c = Tick(q[Len(q)])
    BY <1>6, <2>1, StreamsAreTyped
  <2>3. \A i \in 1 .. Len(Append(q, c)) - 1 :
           Append(q, c)[i+1] = Tick(Append(q, c)[i])
    <3> SUFFICES ASSUME NEW i \in 1 .. Len(q)
                 PROVE  Append(q, c)[i+1] = Tick(Append(q, c)[i])
      BY <1>2
    <3>1. CASE i = Len(q)
      BY <1>2, <2>2, <3>1
    <3>2. CASE i < Len(q)
      <4>1. i \in 1 .. Len(q) - 1 /\ i + 1 \in 1 .. Len(q)
        BY <1>2, <3>2
      <4>2. q[i+1] = Tick(q[i])
        BY <4>1 DEF Inv, GaplessStreams
      <4> QED BY <1>2, <4>1, <4>2
    <3> QED BY <1>2, <3>1, <3>2
  <2>4. lastSent[h] # NoChunk => Append(q, c)[1] = Tick(lastSent[h])
    <3>1. CASE q = << >>
      BY <1>2, <1>6, <3>1 DEF LastCopied
    <3>2. CASE q # << >>
      BY <1>2, <3>2 DEF Inv, GaplessStreams
    <3> QED BY <3>1, <3>2
  <2> QED BY <1>1, <1>4, <2>3, <2>4 DEF Inv, GaplessStreams
<1> QED BY <1>3, <1>5, <1>6

\* The chunk a pending handler appends is the next of its stream.
LEMMA CopyEndKeeps ==
  ASSUME Inv, NEW h \in Handlers, CopyEnd(h), UNCHANGED mainVars
  PROVE  Safe'
<1>1. /\ UNCHANGED <<syncVars, niVars, lastSent>>
      /\ hpc[h] = "copying" /\ hpc' = [hpc EXCEPT ![h] = "ready"]
      /\ queue' = [queue EXCEPT ![h] = Append(@, header)]
      /\ bufBlocked' = bufBlocked \ {h}
  BY DEF CopyEnd, Goto
<1>2. h \in pending /\ header \in Chunks
  BY <1>1, CopiedChunk
<1>3. LastCopied(h) = NoChunk \/ header = Tick(LastCopied(h))
  BY <1>1, <1>2 DEF Inv, Lag
<1>4. /\ LastCopied(h)' = header
      /\ \A g \in Handlers : g # h => LastCopied(g)' = LastCopied(g)
      /\ GaplessStreams'
  BY <1>1, <1>2, <1>3, AppendedStream
<1>5. SetsPartition' /\ BarrierHolds' /\ HeaderFollows'
  BY <1>1 DEF Inv, SetsPartition, BarrierHolds, HeaderFollows
<1>6. SetsMatchPlaces'
  BY <1>1, HandlersTyped DEF Inv, SetsMatchPlaces, Registered, Departed
<1>7. CopiersPending'
  <2>1. \A g \in Handlers : g # h => Fits(g)' = Fits(g)
    BY <1>1, StreamsAreTyped DEF Fits
  <2> QED BY <1>1, <1>2, <2>1, HandlersTyped DEF Inv, CopiersPending
<1>8. Lag'
  BY <1>1, <1>2, <1>4, HandlersTyped
     DEF Inv, Lag, Unregistered, SetsPartition
<1>9. NoLostWakeup'
  BY <1>1, StreamsAreTyped, HandlersTyped DEF Inv, NoLostWakeup
<1> QED BY <1>4, <1>5, <1>6, <1>7, <1>8, <1>9 DEF Safe

\* The ends of a sequence and of its tail.
LEMMA TailEnds ==
  ASSUME NEW S, NEW s \in Seq(S), s # << >>
  PROVE  /\ Len(s) \in Nat \ {0} /\ Head(s) = s[1]
         /\ Len(Tail(s)) = Len(s) - 1
         /\ \A i \in 1 .. Len(s) - 1 : Tail(s)[i] = s[i+1]
         /\ Tail(s) = << >> => Len(s) = 1
         /\ Tail(s) # << >> => /\ Len(s) >= 2
                              /\ Tail(s)[Len(s) - 1] = s[Len(s)]
                              /\ Tail(s)[1] = s[2]
<1>1. Len(s) \in Nat \ {0}
  BY EmptySeq
<1>2. /\ Tail(s) \in Seq(S) /\ Len(Tail(s)) = Len(s) - 1
      /\ \A i \in 1 .. Len(Tail(s)) : Tail(s)[i] = s[i+1]
  BY HeadTailProperties
<1>3. Head(s) = s[1]
  OBVIOUS
<1>4. Tail(s) = << >> => Len(s) = 1
  <2>1. Tail(s) = << >> => Len(Tail(s)) = 0
    BY EmptySeq
  <2> QED BY <1>1, <1>2, <2>1
<1>5. ASSUME Tail(s) # << >>
      PROVE  Len(s) >= 2 /\ Tail(s)[Len(s) - 1] = s[Len(s)] /\ Tail(s)[1] = s[2]
  <2>1. Len(Tail(s)) \in Nat \ {0}
    BY <1>2, <1>5, EmptySeq
  <2>2. Len(s) - 1 \in 1 .. Len(Tail(s)) /\ 1 \in 1 .. Len(Tail(s))
    BY <1>1, <1>2, <2>1
  <2>3. /\ Tail(s)[Len(s) - 1] = s[(Len(s) - 1) + 1]
        /\ Tail(s)[1] = s[1 + 1]
    BY <1>2, <2>2
  <2>4. (Len(s) - 1) + 1 = Len(s) /\ 1 + 1 = 2 /\ Len(s) >= 2
    BY <1>1, <1>2, <2>1
  <2> QED BY <2>3, <2>4
<1> QED BY <1>1, <1>2, <1>3, <1>4, <1>5

\* Taking the first chunk leaves the chunk that was copied last what it was.
LEMMA TakenStream ==
  ASSUME Inv, NEW h \in Handlers, SenderTake(h)
  PROVE  \A g \in Handlers : LastCopied(g)' = LastCopied(g)
<1> DEFINE q == queue[h]
<1>1. /\ q # << >>
      /\ lastSent' = [lastSent EXCEPT ![h] = Head(q)]
      /\ queue' = [queue EXCEPT ![h] = Tail(q)]
  BY DEF SenderTake
<1>2. q \in Seq(Chunks)
  BY <1>1, StreamsAreTyped
<1>3. queue'[h] = Tail(q) /\ lastSent'[h] = q[1]
  BY <1>1, <1>2, TailEnds, StreamsAreTyped
<1>4. \A g \in Handlers : g # h => /\ queue'[g] = queue[g]
                                   /\ lastSent'[g] = lastSent[g]
  BY <1>1, StreamsAreTyped
<1>5. LastCopied(h) = q[Len(q)]
  BY <1>1 DEF LastCopied
<1>6. CASE Tail(q) = << >>
  BY <1>1, <1>2, <1>3, <1>5, <1>6, TailEnds DEF LastCopied
<1>7. CASE Tail(q) # << >>
  BY <1>1, <1>2, <1>3, <1>5, <1>7, TailEnds, SMTT(30) DEF LastCopied
<1>8. \A g \in Handlers : g # h => LastCopied(g)' = LastCopied(g)
  BY <1>4 DEF LastCopied
<1> QED BY <1>6, <1>7, <1>8

\* Taking the first chunk makes it the one that was sent last.
LEMMA SenderTakeKeeps ==
  ASSUME Inv, NEW h \in Handlers, SenderTake(h), UNCHANGED mainVars
  PROVE  Safe'
<1> DEFINE q == queue[h]
<1>1. /\ UNCHANGED <<syncVars, niVars, hpc, bufBlocked>>
      /\ q # << >> /\ hpc[h] # "copying" /\ h \notin bufBlocked
      /\ lastSent' = [lastSent EXCEPT ![h] = Head(q)]
      /\ queue' = [queue EXCEPT ![h] = Tail(q)]
  BY DEF SenderTake, BufferLocked
<1>2. q \in Seq(Chunks)
  BY <1>1, StreamsAreTyped
<1>3. queue'[h] = Tail(q) /\ lastSent'[h] = q[1]
  BY <1>1, <1>2, TailEnds, StreamsAreTyped
<1>4. \A g \in Handlers : g # h => /\ queue'[g] = queue[g]
                                   /\ lastSent'[g] = lastSent[g]
  BY <1>1, StreamsAreTyped
<1>5. \A g \in Handlers : LastCopied(g)' = LastCopied(g)
  BY TakenStream
<1>6. SetsPartition' /\ SetsMatchPlaces' /\ BarrierHolds' /\ HeaderFollows'
  BY <1>1 DEF Inv, SetsPartition, SetsMatchPlaces, BarrierHolds, HeaderFollows
<1>7. CopiersPending'
  BY <1>1, <1>4 DEF Inv, CopiersPending, Fits
<1>8. Lag'
  BY <1>1, <1>5 DEF Inv, Lag
<1>9. GaplessStreams'
  <2>1. \A i \in 1 .. Len(q) - 1 : q[i+1] = Tick(q[i])
    BY DEF Inv, GaplessStreams
  <2>2. ASSUME NEW i \in 1 .. Len(Tail(q)) - 1
        PROVE  Tail(q)[i+1] = Tick(Tail(q)[i])
    <3>1. i \in 1 .. Len(q) - 1 /\ i + 1 \in 1 .. Len(q) - 1
      BY <1>1, <1>2, TailEnds
    <3>2. Tail(q)[i] = q[i+1] /\ Tail(q)[i+1] = q[(i+1)+1]
      BY <1>1, <1>2, <3>1, TailEnds
    <3> QED BY <2>1, <3>1, <3>2
  <2>3. Tail(q) # << >> => Tail(q)[1] = Tick(q[1])
    <3>1. Tail(q) # << >> => Tail(q)[1] = q[1 + 1] /\ 1 \in 1 .. Len(q) - 1
      BY <1>1, <1>2, TailEnds
    <3> QED BY <2>1, <3>1
  <2>4. /\ \A i \in 1 .. Len(queue'[h]) - 1 :
                queue'[h][i+1] = Tick(queue'[h][i])
        /\ queue'[h] # << >> => queue'[h][1] = Tick(lastSent'[h])
    BY <1>3, <2>2, <2>3
  <2>5. ASSUME NEW g \in Handlers, g # h
        PROVE  /\ \A i \in 1 .. Len(queue'[g]) - 1 :
                     queue'[g][i+1] = Tick(queue'[g][i])
               /\ queue'[g] # << >> /\ lastSent'[g] # NoChunk
                    => queue'[g][1] = Tick(lastSent'[g])
    BY <1>4, <2>5 DEF Inv, GaplessStreams
  <2> QED BY <2>4, <2>5 DEF GaplessStreams
<1>10. NoLostWakeup'
  BY <1>1, <1>4, HandlersTyped DEF Inv, NoLostWakeup, DaemonTypeOK,
     HandlerTypeOK
<1> QED BY <1>5, <1>6, <1>7, <1>8, <1>9, <1>10 DEF Safe

\* An emptied buffer and nothing sent are a stream without a gap.
LEMMA EmptiedStream ==
  ASSUME Inv, NEW h \in Handlers,
         queue' = [queue EXCEPT ![h] = << >>],
         \/ lastSent' = [lastSent EXCEPT ![h] = NoChunk]
         \/ UNCHANGED lastSent
  PROVE  /\ GaplessStreams'
         /\ \A g \in Handlers : g # h => LastCopied(g)' = LastCopied(g)
         /\ LastCopied(h)' = lastSent'[h]
<1>1. queue'[h] = << >> /\ Len(<< >>) = 0
  BY StreamsAreTyped, EmptySeq
<1>2. \A g \in Handlers : g # h => queue'[g] = queue[g] /\ lastSent'[g] = lastSent[g]
  BY StreamsAreTyped
<1>3. GaplessStreams'
  BY <1>1, <1>2 DEF Inv, GaplessStreams
<1> QED BY <1>1, <1>2, <1>3 DEF LastCopied

\* The buffer that is freed ends its stream.
LEMMA JoinSenderKeeps ==
  ASSUME Inv, NEW h \in Handlers, JoinSender(h), UNCHANGED mainVars
  PROVE  Safe'
<1>1. /\ UNCHANGED <<syncVars, niVars, bufBlocked>>
      /\ hpc[h] = "join" /\ hpc' = [hpc EXCEPT ![h] = "zombie"]
      /\ queue' = [queue EXCEPT ![h] = << >>]
      /\ lastSent' = [lastSent EXCEPT ![h] = NoChunk]
  BY DEF JoinSender, Goto
<1>2. h \notin alive /\ h \notin pending /\ h \notin done
  BY <1>1 DEF Inv, SetsMatchPlaces, SetsPartition, Registered
<1>3. /\ GaplessStreams'
      /\ LastCopied(h)' = NoChunk
      /\ \A g \in Handlers : g # h => LastCopied(g)' = LastCopied(g)
  BY <1>1, EmptiedStream, StreamsAreTyped
<1>4. SetsPartition' /\ BarrierHolds' /\ HeaderFollows'
  BY <1>1 DEF Inv, SetsPartition, BarrierHolds, HeaderFollows
<1>5. SetsMatchPlaces'
  BY <1>1, HandlersTyped DEF Inv, SetsMatchPlaces, Registered, Departed
<1>6. CopiersPending'
  <2>1. \A g \in Handlers : g # h => Fits(g)' = Fits(g)
    BY <1>1, StreamsAreTyped DEF Fits
  <2> QED BY <1>1, <2>1, HandlersTyped DEF Inv, CopiersPending
<1>7. Lag'
  BY <1>1, <1>2, <1>3, HandlersTyped DEF Inv, Lag, Unregistered
<1>8. NoLostWakeup'
  BY <1>1, StreamsAreTyped, HandlersTyped DEF Inv, NoLostWakeup
<1> QED BY <1>3, <1>4, <1>5, <1>6, <1>7, <1>8 DEF Safe

\* A new handler starts with an empty stream and in no set.
LEMMA AcceptKeeps ==
  ASSUME Inv, NEW h \in Handlers, MainAccept(h)
  PROVE  Safe'
<1>1. /\ UNCHANGED <<syncVars, niVars, bufBlocked, lastSent, collector, zombie>>
      /\ hpc[h] = "off" /\ hpc' = [hpc EXCEPT ![h] = hpc'[h]]
      /\ hpc'[h] \in {"request", "unopened"}
      /\ queue' = [queue EXCEPT ![h] = << >>]
  BY HandlersTyped DEF MainAccept, StartHandler, Goto
<1>2. /\ h \notin alive /\ h \notin pending /\ h \notin done
      /\ LastCopied(h) = NoChunk
  BY <1>1 DEF Inv, SetsMatchPlaces, SetsPartition, Registered, Lag,
     Unregistered
<1>3. lastSent[h] = NoChunk
  <2>1. queue[h] # << >> => queue[h][Len(queue[h])] \in Chunks
    BY StreamsAreTyped, EmptySeq, LenProperties
  <2> QED BY <1>2, <2>1, StreamsAreTyped DEF LastCopied
<1>4. /\ GaplessStreams'
      /\ LastCopied(h)' = NoChunk
      /\ \A g \in Handlers : g # h => LastCopied(g)' = LastCopied(g)
  BY <1>1, <1>3, EmptiedStream
<1>5. SetsPartition' /\ BarrierHolds' /\ HeaderFollows'
  BY <1>1 DEF Inv, SetsPartition, BarrierHolds, HeaderFollows
<1>6. SetsMatchPlaces'
  BY <1>1, HandlersTyped DEF Inv, SetsMatchPlaces, Registered, Departed
<1>7. CopiersPending'
  <2>1. \A g \in Handlers : g # h => Fits(g)' = Fits(g)
    BY <1>1, StreamsAreTyped DEF Fits
  <2> QED BY <1>1, <2>1, HandlersTyped DEF Inv, CopiersPending
<1>8. Lag'
  BY <1>1, <1>2, <1>4, HandlersTyped DEF Inv, Lag, Unregistered
<1>9. NoLostWakeup'
  BY <1>1, StreamsAreTyped, HandlersTyped DEF Inv, NoLostWakeup
<1> QED BY <1>4, <1>5, <1>6, <1>7, <1>8, <1>9 DEF Safe

-----------------------------------------------------------------------------
(***************************************************************************)
(* The collector takes and joins a handler                                 *)
(***************************************************************************)

\* A joined identifier is in no set, so that it may be used again.
LEMMA CollectorJoinsKeeps ==
  ASSUME Inv, NEW h \in Handlers, CollectorJoins(h)
  PROVE  Safe'
<1>1. /\ UNCHANGED <<syncVars, niVars, queue, lastSent, bufBlocked>>
      /\ hpc[h] = "zombie" /\ hpc' = [hpc EXCEPT ![h] = "off"]
      /\ collector = "join" /\ collector' = "loop" /\ h \in zombie
  BY DEF CollectorJoins, Goto
<1>2. h \notin alive /\ h \notin pending /\ h \notin done /\ h \notin dead
  BY <1>1 DEF Inv, SetsMatchPlaces, SetsPartition, Registered
<1>3. LastCopied(h) = NoChunk
  BY <1>1 DEF Inv, Lag
<1>4. SetsPartition' /\ BarrierHolds' /\ HeaderFollows' /\ GaplessStreams'
  BY <1>1 DEF Inv, SetsPartition, BarrierHolds, HeaderFollows, GaplessStreams
<1>5. SetsMatchPlaces'
  BY <1>1, <1>2, HandlersTyped DEF Inv, SetsMatchPlaces, Registered, Departed
<1>6. CopiersPending'
  BY <1>1, HandlersTyped DEF Inv, CopiersPending, Fits
<1>7. Lag'
  <2>1. \A g \in Handlers : LastCopied(g)' = LastCopied(g)
    BY <1>1 DEF LastCopied
  <2> QED BY <1>1, <1>2, <1>3, <2>1, HandlersTyped DEF Inv, Lag, Unregistered
<1>8. NoLostWakeup'
  BY <1>1, HandlersTyped DEF Inv, NoLostWakeup
<1> QED BY <1>4, <1>5, <1>6, <1>7, <1>8 DEF Safe

\* The collector takes a departed handler.
LEMMA CollectorTakesKeeps ==
  ASSUME Inv, NEW h \in Handlers, CollectorTakes(h)
  PROVE  Safe'
<1>1. /\ UNCHANGED <<running, alive, active, pending, done, condVars, niVars,
                     hpc, queue, lastSent, bufBlocked>>
      /\ h \in dead /\ dead' = dead \ {h} /\ zombie' = {h}
  BY DEF CollectorTakes, TakeDead
<1>2. SetsPartition' /\ BarrierHolds' /\ HeaderFollows' /\ GaplessStreams'
  BY <1>1 DEF Inv, SetsPartition, BarrierHolds, HeaderFollows, GaplessStreams
<1>3. SetsMatchPlaces'
  BY <1>1 DEF Inv, SetsMatchPlaces
<1>4. CopiersPending' /\ Lag' /\ NoLostWakeup'
  BY <1>1 DEF Inv, CopiersPending, Fits, Lag, LastCopied, NoLostWakeup
<1> QED BY <1>2, <1>3, <1>4 DEF Safe

\* All steps of the collector.
LEMMA CollectorKeeps ==
  ASSUME Inv, CollectorStep
  PROVE  Safe'
<1>1. CASE CollectorLoop \/ CollectorCancelledAsleep \/ CollectorCancelledJoining
  <2>1. Still /\ FewerSleep
    BY <1>1 DEF CollectorLoop, CollectorCancelledAsleep,
       CollectorCancelledJoining, OrphanMutex, Still, FewerSleep
  <2> QED BY <2>1, FewerSleepKeeps DEF Inv, Safe
<1>2. CASE CollectorSleep
  <2>1. Still
    BY <1>2 DEF CollectorSleep, SleepOnDead, Still
  <2>2. NoLostWakeup'
    BY <1>2, <2>1 DEF CollectorSleep, SleepOnDead, Still, Inv, NoLostWakeup
  <2> QED BY <2>1, <2>2, StillKeeps DEF Inv, Safe
<1> QED BY <1>1, <1>2, CollectorTakesKeeps, CollectorJoinsKeeps
        DEF CollectorStep

-----------------------------------------------------------------------------
(***************************************************************************)
(* The acquisition thread's turn                                           *)
(***************************************************************************)

\* Between the loop, the barrier, the read and the clean-up only ni changes;
\* the step out of the barrier has found nobody pending.
LEMMA NiMoveKeeps ==
  ASSUME Inv, UNCHANGED <<handlerVars, mainVars>>,
         \/ NiLoop \/ NiLeaveBarrier \/ NiCheck \/ NiReadFails
         \/ NiNotify \/ NiCleanup
  PROVE  Safe'
<1>1. /\ UNCHANGED <<setVars, samples, header>>
      /\ running' => running
      /\ ni \in {"loop", "barrier", "check", "read", "notify", "cleanup"}
      /\ ni' \in {"loop", "barrier", "check", "read", "cleanup", "exit"}
      /\ ni' \in {"check", "read"} => pending = {}
      /\ readBlocked' = readBlocked /\ deadBlocked' = deadBlocked
      /\ dataBlocked' = IF ni = "notify" THEN {} ELSE dataBlocked
  BY DEF NiLoop, NiLeaveBarrier, NiCheck, NiReadFails, NiNotify, NiCleanup,
     NiGoto, LeaveReadBarrier, BarrierAsserts, StopRunning,
     NotifyDataAvailable, Inv, BarrierHolds
<1>2. SetsPartition' /\ SetsMatchPlaces' /\ GaplessStreams'
  BY <1>1 DEF Inv, SetsPartition, SetsMatchPlaces, GaplessStreams
<1>3. CopiersPending'
  BY <1>1 DEF Inv, CopiersPending, Fits
<1>4. BarrierHolds' /\ HeaderFollows'
  BY <1>1 DEF Inv, BarrierHolds, HeaderFollows
<1>5. Lag'
  BY <1>1 DEF Inv, Lag, LastCopied
<1>6. NoLostWakeup'
  BY <1>1 DEF Inv, NoLostWakeup
<1> QED BY <1>2, <1>3, <1>4, <1>5, <1>6 DEF Safe

\* read_ni overwrites samples that nobody has yet to copy.
LEMMA NiReadKeeps ==
  ASSUME Inv, NiRead, UNCHANGED <<handlerVars, mainVars>>
  PROVE  Safe'
<1>1. /\ UNCHANGED <<syncVars, header>>
      /\ ni = "read" /\ ni' = "publish" /\ samples' = Tick(header)
  BY DEF NiRead, NiGoto
<1>2. SetsPartition' /\ SetsMatchPlaces' /\ GaplessStreams'
  BY <1>1 DEF Inv, SetsPartition, SetsMatchPlaces, GaplessStreams
<1>3. CopiersPending' /\ BarrierHolds' /\ HeaderFollows'
  BY <1>1 DEF Inv, CopiersPending, Fits, BarrierHolds, HeaderFollows
<1>4. Lag' /\ NoLostWakeup'
  BY <1>1 DEF Inv, Lag, LastCopied, NoLostWakeup
<1> QED BY <1>2, <1>3, <1>4 DEF Safe

\* Everybody who gets data has the chunk that was announced last, and falls
\* one behind.
LEMMA NiPublishKeeps ==
  ASSUME Inv, NiPublish, UNCHANGED <<handlerVars, mainVars>>
  PROVE  Safe'
<1>1. /\ UNCHANGED <<syncVars, samples>>
      /\ ni = "publish" /\ ni' = "reset" /\ header' = samples
  BY DEF NiPublish, NiGoto
<1>2. pending = {} /\ samples = Tick(header)
  BY <1>1 DEF Inv, BarrierHolds, HeaderFollows
<1>3. header' = Tick(header) /\ header' # NoChunk
  BY <1>1, <1>2, StreamsAreTyped, TickType
<1>4. SetsPartition' /\ SetsMatchPlaces' /\ GaplessStreams'
  BY <1>1 DEF Inv, SetsPartition, SetsMatchPlaces, GaplessStreams
<1>5. CopiersPending' /\ BarrierHolds' /\ HeaderFollows'
  BY <1>1, <1>2, <1>3 DEF Inv, CopiersPending, Fits, BarrierHolds,
     HeaderFollows
<1>6. Lag'
  BY <1>1, <1>2, <1>3 DEF Inv, Lag, LastCopied
<1>7. NoLostWakeup'
  BY <1>1 DEF Inv, NoLostWakeup
<1> QED BY <1>4, <1>5, <1>6, <1>7 DEF Safe

\* The reset makes every handler owe exactly the chunk after its last.
LEMMA NiResetKeeps ==
  ASSUME Inv, NiReset, UNCHANGED <<handlerVars, mainVars>>
  PROVE  Safe'
<1>1. /\ UNCHANGED <<running, alive, dead, dataBlocked, deadBlocked, samples,
                     header>>
      /\ ni = "reset" /\ ni' = "notify"
      /\ active' = active \cup alive /\ pending' = pending \cup active'
      /\ done' = {} /\ readBlocked' = FALSE
  BY DEF NiReset, NiGoto, ResetReadyHandlers
<1>2. pending = {} /\ done = active /\ active \subseteq alive
  BY <1>1 DEF Inv, BarrierHolds, SetsPartition
<1>3. active' = alive /\ pending' = alive
  BY <1>1, <1>2
<1>4. \A h \in Handlers : hpc[h] # "ready"
  BY <1>2 DEF Inv, CopiersPending
<1>5. SetsPartition'
  BY ResetKeepsPartition DEF Inv, NiReset
<1>6. SetsMatchPlaces' /\ GaplessStreams' /\ BarrierHolds' /\ HeaderFollows'
  BY <1>1 DEF Inv, SetsMatchPlaces, GaplessStreams, BarrierHolds,
     HeaderFollows
<1>7. CopiersPending'
  BY <1>1, <1>2 DEF Inv, CopiersPending, Fits
<1>8. Lag'
  <2>1. \A h \in alive : \/ LastCopied(h) = NoChunk
                         \/ header = Tick(LastCopied(h))
    BY <1>1, <1>2, HandlersTyped DEF Inv, Lag
  <2> QED BY <1>1, <1>3, <1>4, <2>1 DEF Inv, Lag, LastCopied
<1>9. NoLostWakeup'
  BY <1>1, <1>3 DEF Inv, NoLostWakeup
<1> QED BY <1>5, <1>6, <1>7, <1>8, <1>9 DEF Safe

\* All steps of the acquisition thread.
LEMMA AcquisitionKeeps ==
  ASSUME Inv, AcquisitionStep
  PROVE  Safe'
<1>1. CASE NiTimeout \/ NiBarrierAborts
  <2>1. Still /\ FewerSleep
    BY <1>1 DEF AcquisitionStep, NiTimeout, ReadTimeout, NiBarrierAborts,
       LeaveReadBarrier, Still, FewerSleep
  <2> QED BY <2>1, FewerSleepKeeps DEF Inv, Safe
<1>2. CASE NiSleep
  <2>1. Still
    BY <1>2 DEF AcquisitionStep, NiSleep, SleepOnRead, Still
  <2>2. NoLostWakeup'
    BY <1>2, <2>1 DEF NiSleep, SleepOnRead, BarrierClosed, AcquisitionStep,
       Still, Inv, NoLostWakeup
  <2> QED BY <2>1, <2>2, StillKeeps DEF Inv, Safe
<1> QED BY <1>1, <1>2, NiMoveKeeps, NiReadKeeps, NiPublishKeeps, NiResetKeeps
        DEF AcquisitionStep, NiStep

-----------------------------------------------------------------------------
(***************************************************************************)
(* The theorems                                                            *)
(***************************************************************************)

\* One thread's step, by the group it is in.
LEMMA ThreadKeeps ==
  ASSUME Inv, NEW h \in Handlers, ThreadStep(h)
  PROVE  Safe'
<1>0. UNCHANGED mainVars /\ Safe
  BY DEF ThreadStep, Inv, Safe
<1>1. CASE PlainMove(h)
  BY <1>0, <1>1, PlainMoveKeeps
<1>2. CASE Register(h) \/ Ready(h) \/ Leave(h)
  BY <1>0, <1>2, RegisterKeeps, ReadyKeeps, LeaveKeeps
<1>3. CASE CopyEnd(h) \/ SenderTake(h) \/ JoinSender(h)
  BY <1>0, <1>3, CopyEndKeeps, SenderTakeKeeps, JoinSenderKeeps
<1>4. CASE HandlerSleep(h) \/ SenderSleep(h)
  BY <1>0, <1>4, SleepKeeps
<1>5. CASE \/ SenderLoop(h) \/ SenderReturns(h) \/ SenderDone(h)
           \/ WriteStep(h) \/ HandlerTimeout(h)
           \/ WelcomeAborts(h) \/ CloseAborts(h) \/ SpawnAborts(h)
         \/ CopyFreed(h) \/ UsesFreedSets(h)
  BY <1>0, <1>5, QuietThreadKeeps
<1> QED BY <1>1, <1>2, <1>3, <1>4, <1>5
        DEF ThreadStep, HandlerStep, RequestStep, SenderStep, PlainMove

\* The invariant holds at the start ...
LEMMA InvInitial == Init => Inv
<1> SUFFICES ASSUME Init PROVE Inv
  OBVIOUS
<1>1. DaemonTypeOK
  BY EmptyBufferTyped, SyncInitial DEF Init, SyncInit, AcquisitionInit,
     HandlerInit, DaemonTypeOK, AcquisitionTypeOK, HandlerTypeOK,
     MainPlaces, CollectorPlaces, NiPlaces, CrashKinds, HandlerPlaces,
     SenderPlaces
<1>2. SetsPartition /\ SetsMatchPlaces /\ CopiersPending /\ BarrierHolds
        /\ HeaderFollows /\ NoLostWakeup
  BY DEF Init, SyncInit, AcquisitionInit, HandlerInit, SetsPartition,
     SetsMatchPlaces, CopiersPending, BarrierHolds, HeaderFollows,
     NoLostWakeup, Registered
<1>3. Lag /\ GaplessStreams
  BY EmptySeq DEF Init, SyncInit, AcquisitionInit, HandlerInit, Lag,
     GaplessStreams, LastCopied
<1> QED BY <1>1, <1>2, <1>3 DEF Inv

\* ... and every step keeps it.
LEMMA InvStep == Inv /\ [Next]_vars => Inv'
<1> SUFFICES ASSUME Inv, [Next]_vars PROVE Inv'
  OBVIOUS
<1>0. Safe
  BY DEF Inv, Safe
<1>1. DaemonTypeOK'
  BY TypesStep
<1>2. Safe'
  <2>1. CASE AcquisitionStep
    BY <2>1, AcquisitionKeeps
  <2>2. ASSUME NEW h \in Handlers, ThreadStep(h) \/ MainAccept(h)
        PROVE  Safe'
    BY <2>2, ThreadKeeps, AcceptKeeps
  <2>3. CASE MainStep \/ CollectorStep \/ Interrupt
    BY <1>0, <2>3, MainKeeps, CollectorKeeps
  <2>4. CASE UNCHANGED vars
    <3>1. Still /\ FewerSleep
      BY <2>4 DEF vars, Still, FewerSleep
    <3> QED BY <1>0, <3>1, FewerSleepKeeps
  <2> QED BY <2>1, <2>2, <2>3, <2>4 DEF Next
<1> QED BY <1>1, <1>2 DEF Inv, Safe

\* The invariant holds in every state of every behaviour of the daemon.
THEOREM InvHolds == Spec => []Inv
  BY InvInitial, InvStep, PTL DEF Spec

\* Type correctness, with the bound of the handlers' buffers.
THEOREM TypesHold == Spec => []DaemonTypeOK
<1>1. Inv => DaemonTypeOK
  BY DEF Inv
<1> QED BY <1>1, InvHolds, PTL

\* What sync.c:61-63 says of the sets is true in the daemon.
THEOREM DaemonPartition == Spec => []SetsPartition
<1>1. Inv => SetsPartition
  BY DEF Inv
<1> QED BY <1>1, InvHolds, PTL

\* No chunk is overwritten under a handler that copies it.
THEOREM NoOverwrite == Spec => []BufferStable
<1>1. Inv => BufferStable
  BY DEF Inv, BufferStable, CopiersPending, BarrierHolds, HeaderFollows,
     NiWrites
<1> QED BY <1>1, InvHolds, PTL

\* What a client is sent is a run of consecutive chunks.
THEOREM NoGaps == Spec => []GaplessStreams
<1>1. Inv => GaplessStreams
  BY DEF Inv
<1> QED BY <1>1, InvHolds, PTL

\* The assertions of set_ready and dec_available_handlers never fail.
THEOREM SyncAssertionsHold == Spec => []SyncCallsLegal
<1>1. Inv => SyncCallsLegal
  BY DEF Inv, SyncCallsLegal, CopiersPending, SetsPartition,
     SetsMatchPlaces, Registered, SetReadyAsserts, DecAsserts
<1> QED BY <1>1, InvHolds, PTL

\* Nobody sleeps through the condition it waits for.
THEOREM WakeupsArrive == Spec => []NoLostWakeup
<1>1. Inv => NoLostWakeup
  BY DEF Inv
<1> QED BY <1>1, InvHolds, PTL

\* A thread identifier is joined once.
THEOREM JoinsAreUnique == Spec => []JoinedOnce
<1>1. Inv => JoinedOnce
  <2> SUFFICES ASSUME Inv PROVE JoinedOnce
    OBVIOUS
  <2>1. \A h \in dead \cup (IF collector = "join" THEN zombie ELSE {}) :
           hpc[h] \in Departed
    BY DEF Inv, SetsMatchPlaces
  <2>2. ASSUME NEW h \in Handlers, hpc[h] \in Unregistered
        PROVE  h \notin alive \cup active \cup pending \cup done \cup dead
    BY <2>2 DEF Inv, SetsMatchPlaces, SetsPartition, Unregistered,
       Registered, Departed
  <2>3. collector = "join" => zombie \cap dead = {}
    BY DEF Inv, SetsMatchPlaces
  <2> QED BY <2>1, <2>2, <2>3 DEF JoinedOnce, Departed, Unregistered
<1> QED BY <1>1, InvHolds, PTL

-----------------------------------------------------------------------------
(***************************************************************************)
(* What ends the daemon, and who joins its handlers                        *)
(***************************************************************************)

\* main behind the loop in which it accepts connections
Ending == {"join_ni", "cancel", "join_collector", "finish", "finished", "exit"}

\* Whatever an assertion or an access needs in order to fail comes after the
\* stop: the acquisition thread leaves its loop, main leaves its own, and the
\* sets are freed.
StopInv ==
  /\ FailsFromOutside
  /\ ni \in {"cleanup", "exit"} \/ main \in Ending \/ freed => ~running

LEMMA StopInitial == Init => StopInv
  BY DEF Init, SyncInit, AcquisitionInit, HandlerInit, StopInv, Ending,
     FailsFromOutside

\* The daemon is stopped once: nothing sets `running' again.
LEMMA AcquisitionKeepsStop ==
  ASSUME Inv, StopInv, AcquisitionStep
  PROVE  StopInv'
<1>0. SetsPartition /\ running \in BOOLEAN
  BY DEF Inv, DaemonTypeOK, SyncTypeOK
<1>1. CASE NiBarrierAborts
  <2>1. ~running
    BY <1>0, <1>1 DEF NiBarrierAborts, LeaveReadBarrier, BarrierClosed,
       BarrierAsserts, SetsPartition
  <2> QED BY <1>1, <2>1 DEF NiBarrierAborts, LeaveReadBarrier, StopInv,
             FailsFromOutside, AcquisitionStep
<1>2. CASE NiReadFails
  BY <1>2 DEF NiReadFails, StopRunning, StopInv, FailsFromOutside
<1>3. CASE NiLoop \/ NiCheck \/ NiCleanup
  BY <1>3 DEF NiLoop, NiCheck, NiCleanup, NiGoto, StopInv,
     FailsFromOutside, AcquisitionStep
<1>4. CASE NiSleep \/ NiLeaveBarrier \/ NiRead \/ NiPublish \/ NiReset
             \/ NiNotify \/ NiTimeout
  BY <1>4 DEF NiSleep, NiLeaveBarrier, NiRead, NiPublish, NiReset, NiNotify,
     NiTimeout, NiGoto, SleepOnRead, LeaveReadBarrier, ResetReadyHandlers,
     NotifyDataAvailable, ReadTimeout, StopInv, FailsFromOutside,
     AcquisitionStep
<1> QED BY <1>1, <1>2, <1>3, <1>4 DEF AcquisitionStep, NiStep

\* A handler's step leaves main, the flag and the acquisition thread alone.
LEMMA ThreadKeepsStop ==
  ASSUME StopInv, NEW h \in Handlers, ThreadStep(h)
  PROVE  StopInv'
<1>1. CASE \/ CopyFreed(h) \/ UsesFreedSets(h)
           \/ WelcomeAborts(h) \/ CloseAborts(h) \/ SpawnAborts(h)
  BY <1>1 DEF CopyFreed, UsesFreedSets, WelcomeAborts, CloseAborts,
     SpawnAborts, BuffersFreed, StopInv, FailsFromOutside, ThreadStep
<1>2. UNCHANGED <<main, ni, freed, running>>
        /\ (UNCHANGED crash
             \/ CopyFreed(h) \/ UsesFreedSets(h)
             \/ WelcomeAborts(h) \/ CloseAborts(h) \/ SpawnAborts(h))
  <2>1. CASE HandlerStep(h)
    BY <2>1 DEF HandlerStep, SpawnSender, Register, RegisterNotify, Welcome,
       WelcomeAborts, CloseAborts, SpawnAborts, HandlerLoop, HandlerSleep,
       HandlerWakes, HandlerCheck, CopyFull, CopyStart, CopyEnd, CopyFreed,
       Ready, ReadyNotify, Leave, LeaveNotify, UsesFreedSets, Stop,
       JoinSender, IncAvailable, NotifyReadBarrier, SleepOnData,
       LeaveDataWait, SetReady, DecAvailable, ThreadStep
  <2>2. CASE RequestStep(h) \/ WriteStep(h) \/ HandlerTimeout(h)
    BY <2>2 DEF RequestStep, RequestAccepted, RequestRefused, WriteStep,
       WriteOk, WriteFails, HandlerTimeout, BufTimeout, DataTimeout, ThreadStep
  <2>3. CASE SenderStep(h)
    BY <2>3 DEF SenderStep, SenderLoop, SenderSleep, SenderReturns, SenderTake,
       SenderDone, ThreadStep
  <2> QED BY <2>1, <2>2, <2>3 DEF ThreadStep
<1> QED BY <1>1, <1>2 DEF StopInv, FailsFromOutside

LEMMA MainKeepsStop ==
  ASSUME StopInv, \/ MainStep \/ CollectorStep \/ Interrupt
                  \/ \E h \in Handlers : MainAccept(h)
  PROVE  StopInv'
<1>1. CASE MainStep
  BY <1>1 DEF MainStep, MainLoop, MainPollReturns, MainJoinAcquisition,
     MainCancel, MainCancelAborts, MainLaunchAborts, MainJoinCollector,
     MainFinish, MainExit, MainGoto, FinishSync, StopInv, FailsFromOutside,
     Ending
<1>2. CASE CollectorStep
  <2>1. UNCHANGED <<main, ni, freed, running, crash>>
    BY <1>2 DEF CollectorStep, CollectorLoop, CollectorSleep, CollectorTakes,
       CollectorJoins, CollectorCancelledAsleep, CollectorCancelledJoining,
       SleepOnDead, TakeDead, OrphanMutex
  <2> QED BY <2>1 DEF StopInv, FailsFromOutside
<1>3. CASE Interrupt
  BY <1>3 DEF Interrupt, StopRunning, StopInv, FailsFromOutside
<1>4. CASE \E h \in Handlers : MainAccept(h)
  BY <1>4 DEF MainAccept, MainGoto, Starts, StartHandler, StopInv,
     FailsFromOutside, Ending
<1> QED BY <1>1, <1>2, <1>3, <1>4

LEMMA StopHolds == Spec => []StopInv
<1>1. Inv /\ StopInv /\ [Next]_vars => StopInv'
  <2> SUFFICES ASSUME Inv, StopInv, [Next]_vars PROVE StopInv'
    OBVIOUS
  <2>1. CASE UNCHANGED vars
    BY <2>1 DEF vars, StopInv, FailsFromOutside
  <2> QED BY <2>1, AcquisitionKeepsStop, ThreadKeepsStop, MainKeepsStop
          DEF Next
<1> QED BY <1>1, StopInitial, InvHolds, PTL DEF Spec

\* While nobody has stopped the daemon the barrier's assertions hold, nobody
\* cancels the collector, and neither samples nor sets are used that have been
\* freed, for any number of handlers and whatever the environment does.
THEOREM NothingFailsFromWithin == Spec => []FailsFromOutside
<1>1. StopInv => FailsFromOutside
  BY DEF StopInv
<1> QED BY <1>1, StopHolds, PTL

-----------------------------------------------------------------------------
\* A sender is started behind the refusal and before the registration, so a
\* handler that has one goes through dec_available_handlers; the collector has
\* at most one handler in its hand.
CollectInv ==
  /\ ServedAreCollected
  /\ \A h \in Handlers : hpc[h] \in {"off", "unopened", "request", "spawn",
                                       "zombie"}
                           => spc[h] = "off"
  /\ collector \in {"loop", "wait"} => zombie = {}
  /\ \A g, h \in zombie : g = h

LEMMA CollectInitial == Init => CollectInv
  BY DEF Init, SyncInit, HandlerInit, CollectInv, ServedAreCollected

LEMMA ThreadKeepsCollected ==
  ASSUME Inv, CollectInv, NEW h \in Handlers, ThreadStep(h)
  PROVE  CollectInv'
<1>0. /\ hpc \in [Handlers -> HandlerPlaces] /\ spc \in [Handlers -> SenderPlaces]
      /\ UNCHANGED <<collector, zombie>>
  BY DEF Inv, DaemonTypeOK, HandlerTypeOK, ThreadStep
<1>1. CASE HandlerStep(h)
  <2>1. CASE Leave(h)
    BY <1>0, <2>1 DEF Leave, DecAvailable, Goto, CollectInv, ServedAreCollected
  <2>2. CASE SpawnSender(h) \/ JoinSender(h)
    BY <1>0, <2>2 DEF SpawnSender, JoinSender, Goto, CollectInv,
       ServedAreCollected
  <2>3. CASE \/ Register(h) \/ RegisterNotify(h) \/ Welcome(h)
             \/ HandlerLoop(h) \/ HandlerWakes(h) \/ HandlerCheck(h)
             \/ CopyFull(h) \/ CopyStart(h) \/ CopyEnd(h) \/ Ready(h)
             \/ ReadyNotify(h) \/ LeaveNotify(h) \/ Stop(h)
    BY <1>0, <2>3 DEF Register, RegisterNotify, Welcome, HandlerLoop,
       HandlerWakes, HandlerCheck, CopyFull, CopyStart, CopyEnd, Ready,
       ReadyNotify, LeaveNotify, Stop, Goto, IncAvailable, NotifyReadBarrier,
       LeaveDataWait, SetReady, CollectInv, ServedAreCollected
  <2>4. CASE \/ WelcomeAborts(h) \/ CloseAborts(h) \/ SpawnAborts(h)
             \/ HandlerSleep(h) \/ CopyFreed(h) \/ UsesFreedSets(h)
    BY <1>0, <2>4 DEF WelcomeAborts, CloseAborts, SpawnAborts, HandlerSleep,
       CopyFreed, UsesFreedSets, SleepOnData, CollectInv, ServedAreCollected
  <2> QED BY <1>1, <2>1, <2>2, <2>3, <2>4 DEF HandlerStep
<1>2. CASE RequestStep(h)
  BY <1>0, <1>2 DEF RequestStep, RequestAccepted, RequestRefused, Goto,
     CollectInv, ServedAreCollected
<1>3. CASE WriteStep(h) \/ SenderStep(h)
  BY <1>0, <1>3 DEF WriteStep, WriteOk, WriteFails, SenderStep, SenderLoop,
     SenderSleep, SenderReturns, SenderTake, SenderDone, SenderGoto,
     CollectInv, ServedAreCollected
<1>4. CASE HandlerTimeout(h)
  BY <1>0, <1>4 DEF HandlerTimeout, BufTimeout, DataTimeout, CollectInv,
     ServedAreCollected
<1> QED BY <1>1, <1>2, <1>3, <1>4 DEF ThreadStep

LEMMA CollectorKeepsCollected ==
  ASSUME Inv, CollectInv, CollectorStep
  PROVE  CollectInv'
<1>0. /\ hpc \in [Handlers -> HandlerPlaces] /\ spc \in [Handlers -> SenderPlaces]
      /\ collector \in CollectorPlaces
  BY DEF Inv, DaemonTypeOK, HandlerTypeOK
<1>1. ASSUME NEW h \in Handlers, CollectorTakes(h) PROVE CollectInv'
  <2>1. zombie = {} /\ zombie' = {h} /\ dead' = dead \ {h}
    BY <1>1 DEF CollectorTakes, TakeDead, CollectInv
  <2>2. collector' = "join" /\ UNCHANGED <<hpc, spc>>
    BY <1>1 DEF CollectorTakes
  <2> QED BY <2>1, <2>2 DEF CollectInv, ServedAreCollected
<1>2. ASSUME NEW h \in Handlers, CollectorJoins(h) PROVE CollectInv'
  <2>1. zombie = {h} /\ zombie' = {}
    BY <1>2 DEF CollectorJoins, CollectInv
  <2>2. /\ hpc[h] = "zombie" /\ hpc' = [hpc EXCEPT ![h] = "off"]
        /\ UNCHANGED <<spc, dead>>
    BY <1>2 DEF CollectorJoins, Goto
  <2> QED BY <1>0, <2>1, <2>2 DEF CollectInv, ServedAreCollected
<1>3. CASE CollectorLoop \/ CollectorSleep \/ CollectorCancelledAsleep
             \/ CollectorCancelledJoining
  <2>1. /\ UNCHANGED <<hpc, spc, dead, zombie>>
        /\ collector' \in {"loop", "wait"} => collector \in {"loop", "wait"}
    BY <1>3 DEF CollectorLoop, CollectorSleep, CollectorCancelledAsleep,
       CollectorCancelledJoining, SleepOnDead, OrphanMutex
  <2> QED BY <2>1 DEF CollectInv, ServedAreCollected
<1> QED BY <1>1, <1>2, <1>3 DEF CollectorStep

\* The acquisition thread, main (but where it accepts) and the signal leave the
\* handlers, their senders and the collector where they are.
LEMMA OthersLeaveHandlers ==
  ASSUME AcquisitionStep \/ MainStep \/ Interrupt \/ UNCHANGED vars
  PROVE  UNCHANGED <<handlerVars, dead, collector, zombie>>
<1>1. CASE AcquisitionStep
  BY <1>1 DEF AcquisitionStep, NiStep, NiLoop, NiSleep, NiLeaveBarrier,
     NiBarrierAborts, NiCheck, NiRead, NiReadFails, NiPublish, NiReset,
     NiNotify, NiCleanup, NiTimeout, SleepOnRead, LeaveReadBarrier,
     StopRunning, ResetReadyHandlers, NotifyDataAvailable, ReadTimeout
<1>2. CASE MainStep \/ Interrupt \/ UNCHANGED vars
  BY <1>2, SMT DEF MainStep, MainLoop, MainPollReturns, MainJoinAcquisition,
     MainCancel, MainCancelAborts, MainLaunchAborts, MainJoinCollector,
     MainFinish, MainExit, FinishSync, Interrupt, StopRunning, vars
<1> QED BY <1>1, <1>2

LEMMA CollectHolds == Spec => []CollectInv
<1>1. Inv /\ CollectInv /\ [Next]_vars => CollectInv'
  <2> SUFFICES ASSUME Inv, CollectInv, [Next]_vars PROVE CollectInv'
    OBVIOUS
  <2>1. CASE AcquisitionStep \/ MainStep \/ Interrupt \/ UNCHANGED vars
    BY <2>1, OthersLeaveHandlers DEF CollectInv, ServedAreCollected
  <2>2. ASSUME NEW h \in Handlers, MainAccept(h) PROVE CollectInv'
    <3>1. hpc \in [Handlers -> HandlerPlaces]
      BY DEF Inv, DaemonTypeOK, HandlerTypeOK
    <3>2. /\ hpc' = [hpc EXCEPT ![h] = hpc'[h]]
        /\ hpc'[h] \in {"request", "unopened"} /\ hpc[h] = "off"
          /\ UNCHANGED <<spc, dead, collector, zombie>>
      BY <2>2, <3>1 DEF MainAccept, StartHandler, Goto
    <3> QED BY <3>1, <3>2 DEF CollectInv, ServedAreCollected
  <2> QED BY <2>1, <2>2, ThreadKeepsCollected, CollectorKeepsCollected
          DEF Next
<1> QED BY <1>1, CollectInitial, InvHolds, PTL DEF Spec

\* A handler that has started a sender is in the dead set, or in the
\* collector's hand, from the moment it has left until it is joined.
THEOREM ServedAreJoined == Spec => []ServedAreCollected
<1>1. CollectInv => ServedAreCollected
  BY DEF CollectInv
<1> QED BY <1>1, CollectHolds, PTL

-----------------------------------------------------------------------------
(***************************************************************************)
(* What DataIsThereToCopy and DeadAreJoined fail for: one exit of a loop   *)
(* each.  Without that exit the samples are there, and a handler waits for *)
(* a sender that has ended; with it, what goes wrong stays wrong.          *)
(***************************************************************************)

\* The acquisition thread does not leave at its loop test (daemon.c:213), only
\* behind the barrier (daemon.c:216) or a read that fails.
BehindBarrier == ni = "loop" => ni' # "cleanup"

\* Nobody has samples to copy any more when they are freed.
FreedBehind ==
  /\ ni \in {"cleanup", "exit"} => pending = {}
  /\ crash # "freed_samples"

\* After the barrier nobody is pending, and only a reset makes anybody so.
LEMMA FreedBehindStep ==
  ASSUME Inv, FreedBehind, [Next]_vars, [BehindBarrier]_vars
  PROVE  FreedBehind'
<1>0. BehindBarrier
  BY DEF BehindBarrier, vars, niVars
<1>1. CASE AcquisitionStep
  <2>1. CASE NiLoop \/ NiCheck \/ NiReadFails \/ NiCleanup
    BY <1>0, <1>1, <2>1 DEF AcquisitionStep, NiLoop, NiCheck, NiReadFails,
       NiCleanup, NiGoto, StopRunning, BehindBarrier, FreedBehind, Inv,
       BarrierHolds
  <2>2. CASE \/ NiSleep \/ NiLeaveBarrier \/ NiBarrierAborts \/ NiRead
             \/ NiPublish \/ NiReset \/ NiNotify \/ NiTimeout
    <3>1. ni' \in {"cleanup", "exit"}
            => ni \in {"cleanup", "exit"} /\ pending' = pending
      BY <2>2 DEF NiSleep, NiLeaveBarrier, NiBarrierAborts, NiRead, NiPublish,
         NiReset, NiNotify, NiTimeout, NiGoto, SleepOnRead, LeaveReadBarrier,
         NotifyDataAvailable, ReadTimeout
    <3>2. crash' \in {crash, "wait_read_barrier"}
      BY <2>2 DEF NiSleep, NiLeaveBarrier, NiBarrierAborts, NiRead, NiPublish,
         NiReset, NiNotify, NiTimeout
    <3> QED BY <3>1, <3>2 DEF FreedBehind
  <2> QED BY <1>1, <2>1, <2>2 DEF AcquisitionStep, NiStep
<1>2. ASSUME NEW h \in Handlers, ThreadStep(h) PROVE FreedBehind'
  <2>1. ~CopyFreed(h)
    BY DEF CopyFreed, BuffersFreed, FreedBehind, Inv, CopiersPending
  <2>2. ni' = ni
    BY <1>2 DEF ThreadStep, HandlerStep, RequestStep, SenderStep, WriteStep,
       HandlerTimeout, SpawnSender, Register, RegisterNotify, Welcome,
       WelcomeAborts, CloseAborts, SpawnAborts, HandlerLoop, HandlerSleep,
       HandlerWakes, HandlerCheck, CopyFull, CopyStart, CopyEnd, CopyFreed,
       Ready, ReadyNotify, Leave, LeaveNotify, UsesFreedSets, Stop,
       JoinSender, RequestAccepted, RequestRefused, SenderLoop, SenderSleep,
       SenderReturns, SenderTake, SenderDone, WriteOk, WriteFails, BufTimeout
  <2>3. pending' \subseteq pending
    BY <1>2 DEF ThreadStep, HandlerStep, RequestStep, SenderStep, WriteStep,
       HandlerTimeout, SpawnSender, Register, RegisterNotify, Welcome,
       WelcomeAborts, CloseAborts, SpawnAborts, HandlerLoop, HandlerSleep,
       HandlerWakes, HandlerCheck, CopyFull, CopyStart, CopyEnd, CopyFreed,
       Ready, ReadyNotify, Leave, LeaveNotify, UsesFreedSets, Stop,
       JoinSender, RequestAccepted, RequestRefused, SenderLoop, SenderSleep,
       SenderReturns, SenderTake, SenderDone, WriteOk, WriteFails, BufTimeout,
       IncAvailable, NotifyReadBarrier, SleepOnData, LeaveDataWait, SetReady,
       DecAvailable, DataTimeout
  <2>4. crash' \in {crash, "welcome", "close", "pthread_create",
                     "freed_sets"}
    BY <1>2, <2>1 DEF ThreadStep, HandlerStep, RequestStep, SenderStep,
       WriteStep, HandlerTimeout, SpawnSender, Register, RegisterNotify,
       Welcome, WelcomeAborts, CloseAborts, SpawnAborts, HandlerLoop,
       HandlerSleep, HandlerWakes, HandlerCheck, CopyFull, CopyStart, CopyEnd,
       Ready, ReadyNotify, Leave, LeaveNotify, UsesFreedSets, Stop,
       JoinSender, RequestAccepted, RequestRefused, SenderLoop, SenderSleep,
       SenderReturns, SenderTake, SenderDone, WriteOk, WriteFails, BufTimeout
  <2> QED BY <2>2, <2>3, <2>4 DEF FreedBehind
<1>3. CASE \/ MainStep \/ CollectorStep \/ Interrupt \/ UNCHANGED vars
           \/ \E h \in Handlers : MainAccept(h)
  <2>1. UNCHANGED <<ni, pending>> /\ crash' \in {crash, "pthread_cancel",
                                                  "pthread_create"}
    BY <1>3 DEF MainStep, MainLoop, MainPollReturns, MainJoinAcquisition,
       MainCancel, MainCancelAborts, MainLaunchAborts, MainJoinCollector,
       MainFinish, MainExit, FinishSync, CollectorStep, CollectorLoop,
       CollectorSleep, SleepOnDead, CollectorTakes, TakeDead, CollectorJoins,
       CollectorCancelledAsleep, OrphanMutex, CollectorCancelledJoining,
       Interrupt, StopRunning, MainAccept, vars
  <2> QED BY <2>1 DEF FreedBehind
<1> QED BY <1>1, <1>2, <1>3 DEF Next

\* If the acquisition thread always passed the barrier before it frees the
\* samples, or failed to read them, they would be there for every pending
\* handler, and no copy would read freed memory: the loop test is all that
\* DataIsThereToCopy fails for.  (When the daemon is stopped the barrier may
\* still abort it: see FailsFromOutside.)
THEOREM BarrierKeepsData ==
  Spec /\ [][BehindBarrier]_vars
    => [](DataIsThereToCopy /\ crash # "freed_samples")
<1>1. Init => FreedBehind
  BY DEF Init, SyncInit, AcquisitionInit, FreedBehind
<1>2. Inv /\ FreedBehind /\ [Next]_vars /\ [BehindBarrier]_vars
        => FreedBehind'
  BY FreedBehindStep
<1>3. FreedBehind => DataIsThereToCopy /\ crash # "freed_samples"
  BY DEF FreedBehind, DataIsThereToCopy, BuffersFreed
<1> QED BY <1>1, <1>2, <1>3, InvHolds, PTL DEF Spec

-----------------------------------------------------------------------------
\* No handler leaves its loop because its buffer is full (handler.c:389).
NobodyIsFull == \A h \in Handlers : ~CopyFull(h)

Started == {"unopened", "request", "spawn", "register"} \cup Registered
             \cup {"left", "stop"}

\* While the daemon runs only the sender of a handler lowers their flag before
\* the handler does, as its last act; so a handler that leaves has no sender
\* any more, or never had one.
FlagInv ==
  \A h \in Handlers :
    /\ hpc[h] \in Started /\ ~handlerRunning[h] => spc[h] = "exit"
    /\ running /\ hpc[h] \in {"leave", "left", "stop", "join"}
         => spc[h] \in {"off", "exit"}

\* A thread's step moves no other connection's threads.
LEMMA OnlyItsOwn ==
  ASSUME NEW h \in Handlers, HandlerMove(h), HandlerTypeOK
  PROVE  \A g \in Handlers : g # h =>
           /\ hpc'[g] = hpc[g] /\ spc'[g] = spc[g]
           /\ handlerRunning'[g] = handlerRunning[g] /\ queue'[g] = queue[g]
<1>0. /\ hpc \in [Handlers -> HandlerPlaces] /\ spc \in [Handlers -> SenderPlaces]
      /\ handlerRunning \in [Handlers -> BOOLEAN]
      /\ queue = [g \in Handlers |-> queue[g]]
  BY DEF HandlerTypeOK
<1>1. CASE HandlerStep(h)
  BY <1>0, <1>1 DEF HandlerStep, SpawnSender, Register, RegisterNotify,
     Welcome, WelcomeAborts, CloseAborts, SpawnAborts, HandlerLoop,
     HandlerSleep, HandlerWakes, HandlerCheck, CopyFull, CopyStart, CopyEnd,
     CopyFreed, Ready, ReadyNotify, Leave, LeaveNotify, UsesFreedSets, Stop,
     JoinSender, Goto
<1>2. CASE RequestStep(h) \/ WriteStep(h) \/ HandlerTimeout(h) \/ Starts(h)
  BY <1>0, <1>2 DEF RequestStep, RequestAccepted, RequestRefused, WriteStep,
     WriteOk, WriteFails, HandlerTimeout, BufTimeout, Starts, StartHandler,
     Goto, SenderGoto
<1>3. CASE SenderStep(h)
  BY <1>0, <1>3 DEF SenderStep, SenderLoop, SenderSleep, SenderReturns,
     SenderTake, SenderDone, SenderGoto
<1> QED BY <1>1, <1>2, <1>3 DEF HandlerMove

\* Nor does it stop the daemon.
LEMMA ThreadLeavesFlag ==
  ASSUME NEW h \in Handlers, ThreadStep(h)
  PROVE  running' = running
  BY DEF ThreadStep, HandlerStep, RequestStep, SenderStep, WriteStep,
     HandlerTimeout, SpawnSender, Register, RegisterNotify, Welcome,
     WelcomeAborts, CloseAborts, SpawnAborts, HandlerLoop, HandlerSleep,
     HandlerWakes, HandlerCheck, CopyFull, CopyStart, CopyEnd, CopyFreed,
     Ready, ReadyNotify, Leave, LeaveNotify, UsesFreedSets, Stop, JoinSender,
     RequestAccepted, RequestRefused, SenderLoop, SenderSleep, SenderReturns,
     SenderTake, SenderDone, WriteOk, WriteFails, BufTimeout, IncAvailable,
     NotifyReadBarrier, SleepOnData, LeaveDataWait, SetReady, DecAvailable,
     DataTimeout

\* Nobody sets `running' again.
LEMMA StopIsFinal ==
  ASSUME AcquisitionStep \/ MainStep \/ Interrupt \/ UNCHANGED vars
  PROVE  running' = running \/ ~running'
<1>1. CASE AcquisitionStep
  BY <1>1 DEF AcquisitionStep, NiStep, NiLoop, NiSleep, NiLeaveBarrier,
     NiBarrierAborts, NiCheck, NiRead, NiReadFails, NiPublish, NiReset,
     NiNotify, NiCleanup, NiTimeout, SleepOnRead, LeaveReadBarrier,
     StopRunning, ResetReadyHandlers, NotifyDataAvailable, ReadTimeout
<1>2. CASE MainStep \/ Interrupt \/ UNCHANGED vars
  BY <1>2 DEF MainStep, MainLoop, MainPollReturns, MainJoinAcquisition,
     MainCancel, MainCancelAborts, MainLaunchAborts, MainJoinCollector,
     MainFinish, MainExit, FinishSync, Interrupt, StopRunning, vars
<1> QED BY <1>1, <1>2

\* A step of one thread, as far as the flag goes.
LEMMA FlagStep ==
  ASSUME Inv, CollectInv, FlagInv, NEW h \in Handlers, ThreadStep(h),
         [NobodyIsFull]_vars
  PROVE  FlagInv'
<1>0. /\ hpc \in [Handlers -> HandlerPlaces] /\ spc \in [Handlers -> SenderPlaces]
      /\ handlerRunning \in [Handlers -> BOOLEAN]
  BY DEF Inv, DaemonTypeOK, HandlerTypeOK
<1>1. \A g \in Handlers : g # h =>
        /\ hpc'[g] = hpc[g] /\ spc'[g] = spc[g]
        /\ handlerRunning'[g] = handlerRunning[g]
  BY OnlyItsOwn DEF HandlerMove, ThreadStep, Inv, DaemonTypeOK
<1>2. running' = running
  BY ThreadLeavesFlag
<1>3. ~CopyFull(h)
  BY <1>0 DEF NobodyIsFull, CopyFull, Goto, vars
<1>4. /\ hpc'[h] \in Started /\ ~handlerRunning'[h] => spc'[h] = "exit"
      /\ running' /\ hpc'[h] \in {"leave", "left", "stop", "join"}
           => spc'[h] \in {"off", "exit"}
  <2>1. CASE RequestStep(h) \/ SpawnSender(h)
    BY <1>0, <2>1 DEF RequestStep, RequestAccepted, RequestRefused,
       SpawnSender, Goto, FlagInv, CollectInv, Started, Registered
  <2>2. CASE HandlerLoop(h) \/ HandlerCheck(h)
    BY <1>0, <2>2 DEF HandlerLoop, HandlerCheck, Goto, FlagInv, Started,
       Registered
  <2>3. CASE Stop(h) \/ JoinSender(h)
    BY <1>0, <2>3 DEF Stop, JoinSender, Goto, FlagInv, Started, Registered
  <2>4. CASE \/ Register(h) \/ RegisterNotify(h) \/ Welcome(h)
             \/ HandlerWakes(h) \/ CopyStart(h) \/ CopyEnd(h) \/ Ready(h)
             \/ ReadyNotify(h) \/ Leave(h) \/ LeaveNotify(h)
    <3>1. /\ hpc[h] \in Started
          /\ hpc'[h] \in {"left", "stop"} => hpc[h] \in {"leave", "left"}
          /\ hpc'[h] \notin {"leave", "join"}
          /\ UNCHANGED <<spc, handlerRunning>>
      <4>1. CASE \/ Register(h) \/ RegisterNotify(h) \/ Welcome(h)
                 \/ HandlerWakes(h) \/ CopyStart(h) \/ CopyEnd(h)
        BY <1>0, <4>1 DEF Register, RegisterNotify, Welcome, HandlerWakes,
           CopyStart, CopyEnd, Goto, Started, Registered
      <4>2. CASE Ready(h) \/ ReadyNotify(h) \/ Leave(h) \/ LeaveNotify(h)
        BY <1>0, <4>2 DEF Ready, ReadyNotify, Leave, LeaveNotify, Goto,
           Started, Registered
      <4> QED BY <2>4, <4>1, <4>2
    <3> QED BY <1>2, <3>1 DEF FlagInv
  <2>5. CASE SenderStep(h)
    BY <1>0, <2>5 DEF SenderStep, SenderLoop, SenderSleep, SenderReturns,
       SenderTake, SenderDone, SenderGoto, FlagInv
  <2>6. CASE WriteStep(h)
    BY <1>0, <2>6 DEF WriteStep, WriteOk, WriteFails, SenderGoto, FlagInv
  <2>7. CASE \/ WelcomeAborts(h) \/ CloseAborts(h) \/ SpawnAborts(h)
             \/ HandlerSleep(h) \/ CopyFreed(h) \/ UsesFreedSets(h)
             \/ HandlerTimeout(h)
    <3>1. UNCHANGED <<hpc, spc, handlerRunning>>
      BY <2>7 DEF WelcomeAborts, CloseAborts, SpawnAborts, HandlerSleep,
         CopyFreed, UsesFreedSets, HandlerTimeout, BufTimeout
    <3> QED BY <1>2, <3>1 DEF FlagInv
  <2> QED BY <1>3, <2>1, <2>2, <2>3, <2>4, <2>5, <2>6, <2>7
          DEF ThreadStep, HandlerStep
<1> QED BY <1>1, <1>2, <1>4 DEF FlagInv

\* The steps of all.
LEMMA FlagKept ==
  ASSUME Inv, CollectInv, FlagInv, [Next]_vars, [NobodyIsFull]_vars
  PROVE  FlagInv'
<1>0. /\ hpc \in [Handlers -> HandlerPlaces] /\ running \in BOOLEAN
      /\ handlerRunning \in [Handlers -> BOOLEAN]
  BY DEF Inv, DaemonTypeOK, HandlerTypeOK, SyncTypeOK
<1>1. CASE AcquisitionStep \/ MainStep \/ Interrupt \/ UNCHANGED vars
  <2>1. UNCHANGED <<hpc, spc, handlerRunning>>
    BY <1>1, OthersLeaveHandlers
  <2>2. running' => running
    BY <1>0, <1>1, StopIsFinal
  <2> QED BY <2>1, <2>2 DEF FlagInv
<1>2. ASSUME NEW h \in Handlers, MainAccept(h) PROVE FlagInv'
  BY <1>0, <1>2 DEF MainAccept, Starts, StartHandler, Goto, FlagInv
<1>3. CASE CollectorStep
  <2>1. ASSUME NEW h \in Handlers, CollectorJoins(h) PROVE FlagInv'
    BY <1>0, <2>1 DEF CollectorJoins, Goto, FlagInv, Started, Registered
  <2>2. CASE UNCHANGED handlerVars
    <3>1. running' = running
      BY <1>3 DEF CollectorStep, CollectorLoop, CollectorSleep, SleepOnDead,
         CollectorTakes, TakeDead, CollectorJoins, CollectorCancelledAsleep,
         OrphanMutex, CollectorCancelledJoining
    <3> QED BY <2>2, <3>1 DEF FlagInv
  <2> QED BY <1>3, <2>1, <2>2, MainHandlers
<1> QED BY <1>1, <1>2, <1>3, FlagStep DEF Next

\* While the daemon runs a handler joins a sender that has ended, or none,
\* unless some handler has left through a full buffer: without an ENOBUFS no
\* handler waits for a sender that sleeps on its empty buffer, as in the
\* behaviour that refutes DeadAreJoined.
JoinsAreShort ==
  \A h \in Handlers : running /\ hpc[h] = "join" => spc[h] \in {"off", "exit"}

THEOREM RoomKeepsJoinsShort ==
  Spec /\ [][NobodyIsFull]_vars => []JoinsAreShort
<1>1. Init => FlagInv
  BY DEF Init, HandlerInit, FlagInv, Started, Registered
<1>2. Inv /\ CollectInv /\ FlagInv /\ [Next]_vars /\ [NobodyIsFull]_vars
        => FlagInv'
  BY FlagKept
<1>3. FlagInv => JoinsAreShort
  BY DEF FlagInv, JoinsAreShort
<1> QED BY <1>1, <1>2, <1>3, InvHolds, CollectHolds, PTL DEF Spec

-----------------------------------------------------------------------------
\* The sender sleeps, or tests whether it should, on its empty buffer; its
\* handler waits for it, and the collector for the handler.
Hung(h) ==
  /\ running /\ hpc[h] = "join" /\ spc[h] = "take" /\ queue[h] = << >>
  /\ collector = "join" /\ h \in zombie

\* The collector is cancelled behind the stop.
CancelInv == cancelled => ~running

LEMMA CancelKept ==
  ASSUME StopInv, CancelInv, [Next]_vars
  PROVE  CancelInv'
<1>1. CASE AcquisitionStep \/ MainStep \/ Interrupt \/ UNCHANGED vars
  <2>1. running' = running \/ ~running'
    BY <1>1, StopIsFinal
  <2>2. cancelled' = cancelled \/ main = "cancel"
    BY <1>1 DEF AcquisitionStep, MainStep, MainLoop, MainPollReturns,
       MainJoinAcquisition, MainCancel, MainCancelAborts, MainLaunchAborts,
       MainJoinCollector, MainFinish, MainExit, MainGoto, Interrupt, vars
  <2> QED BY <2>1, <2>2 DEF CancelInv, StopInv, Ending
<1>2. CASE CollectorStep \/ \E h \in Handlers : ThreadStep(h) \/ MainAccept(h)
  <2>1. UNCHANGED <<running, cancelled>>
    <3>1. ASSUME NEW h \in Handlers, ThreadStep(h)
          PROVE  UNCHANGED <<running, cancelled>>
      BY <3>1, ThreadLeavesFlag DEF ThreadStep
    <3>2. CASE CollectorStep
      BY <3>2 DEF CollectorStep, CollectorLoop, CollectorSleep, SleepOnDead,
         CollectorTakes, TakeDead, CollectorJoins, CollectorCancelledAsleep,
         OrphanMutex, CollectorCancelledJoining
    <3> QED BY <1>2, <3>1, <3>2 DEF MainAccept
  <2> QED BY <2>1 DEF CancelInv
<1> QED BY <1>1, <1>2 DEF Next

\* No thread's step changes what is hung.
LEMMA HungStays ==
  ASSUME Inv, CollectInv, CancelInv, [Next]_vars,
         NEW h \in Handlers, Hung(h), running'
  PROVE  Hung(h)'
<1>0. HandlerTypeOK /\ hpc \in [Handlers -> HandlerPlaces]
  BY DEF Inv, DaemonTypeOK, HandlerTypeOK
<1>1. CASE AcquisitionStep \/ MainStep \/ Interrupt \/ UNCHANGED vars
  BY <1>1, OthersLeaveHandlers DEF Hung
<1>2. ASSUME NEW g \in Handlers, ThreadStep(g) PROVE Hung(h)'
  <2>1. CASE g # h
    BY <1>0, <1>2, <2>1, OnlyItsOwn DEF HandlerMove, ThreadStep, Hung
  <2>2. CASE g = h
    <3>1. UNCHANGED <<hpc, spc, queue>>
      <4>1. CASE HandlerStep(h)
        BY <4>1 DEF Hung, HandlerStep, SpawnSender, Register, RegisterNotify,
           Welcome, WelcomeAborts, CloseAborts, SpawnAborts, HandlerLoop,
           HandlerSleep, HandlerWakes, HandlerCheck, CopyFull, CopyStart,
           CopyEnd, CopyFreed, Ready, ReadyNotify, Leave, LeaveNotify,
           UsesFreedSets, Stop, JoinSender, Goto
      <4>2. CASE RequestStep(h) \/ WriteStep(h) \/ HandlerTimeout(h)
        BY <4>2 DEF Hung, RequestStep, RequestAccepted, RequestRefused,
           WriteStep, WriteOk, WriteFails, HandlerTimeout, BufTimeout, Goto,
           SenderGoto
      <4>3. CASE SenderStep(h)
        BY <4>3 DEF Hung, SenderStep, SenderLoop, SenderSleep, SenderReturns,
           SenderTake, SenderDone, SenderGoto
      <4> QED BY <1>2, <2>2, <4>1, <4>2, <4>3 DEF ThreadStep
    <3> QED BY <1>2, <3>1 DEF ThreadStep, Hung
  <2> QED BY <2>1, <2>2
<1>3. ASSUME NEW g \in Handlers, MainAccept(g) PROVE Hung(h)'
  <2>1. g # h
    BY <1>3 DEF MainAccept, Starts, StartHandler, Goto, Hung
  <2> QED BY <1>0, <1>3, <2>1, OnlyItsOwn
          DEF HandlerMove, Starts, MainAccept, Hung
<1>4. CASE CollectorStep
  <2>1. ~ \E g \in Handlers : CollectorJoins(g)
    BY DEF CollectorJoins, Goto, CollectInv, Hung
  <2>2. ~ CollectorCancelledJoining
    BY DEF CollectorCancelledJoining, CancelInv, Hung
  <2> QED BY <1>4, <2>1, <2>2 DEF CollectorStep, CollectorLoop,
          CollectorSleep, CollectorTakes, CollectorCancelledAsleep, Hung
<1> QED BY <1>1, <1>2, <1>3, <1>4 DEF Next

\* A daemon in which a handler waits for such a sender never joins a handler
\* again until it is stopped: whatever clients, timeouts and wake-ups come, the
\* three threads stay where they are (handler.c:227, handler.c:434,
\* daemon.c:261).
HungForEver == [][\A h \in Handlers : Hung(h) => Hung(h)' \/ ~running']_vars

THEOREM NothingFreesTheHung == Spec => HungForEver
<1> DEFINE Stays == \A h \in Handlers : Hung(h) => Hung(h)' \/ ~running'
<1>1. Inv /\ CollectInv /\ CancelInv /\ [Next]_vars => [Stays]_vars
  BY HungStays
<1>2. Init => CancelInv
  BY DEF Init, CancelInv
<1>3. StopInv /\ CancelInv /\ [Next]_vars => CancelInv'
  BY CancelKept
<1> QED BY <1>1, <1>2, <1>3, InvHolds, StopHolds, CollectHolds, PTL
        DEF Spec, HungForEver

-----------------------------------------------------------------------------
(***************************************************************************)
(* The daemon implements the broadcast of module Broadcast, for any number *)
(* of handlers and any size of their buffers: under the mapping Channel of *)
(* Daemon its first state is one of the broadcast's, and each of its steps *)
(* is a step of the broadcast or leaves it as it is.                       *)
(***************************************************************************)

Owing == {h \in pending : hpc[h] # "ready"}
Got   == [h \in Handlers |-> IF h \in alive THEN LastCopied(h) ELSE NoChunk]

\* Nothing the broadcast is made of changes.
ChannelStill ==
  /\ UNCHANGED <<header, alive, pending>>
  /\ ni' = "reset" <=> ni = "reset"
  /\ \A g \in pending : hpc'[g] = "ready" <=> hpc[g] = "ready"
  /\ \A g \in alive : LastCopied(g)' = LastCopied(g)

\* Such a step leaves the broadcast as it is.
LEMMA StillStutters ==
  ASSUME Inv, ChannelStill
  PROVE  UNCHANGED Channel!vars
<1>1. Owing' = Owing
  BY DEF ChannelStill, Owing
<1>2. Got' = Got
  BY HandlersTyped DEF ChannelStill, Got
<1> QED BY <1>1, <1>2 DEF ChannelStill, Channel!vars, Owing, Got

\* At the start nobody has subscribed and nothing has been produced.
LEMMA InitMaps == Init => Channel!Init
  BY DEF Init, SyncInit, AcquisitionInit, HandlerInit, Channel!Init,
     NoChunk, Channel!NoChunk

\* Publishing the record produces a chunk: by BarrierHolds nobody owes the
\* last one a look.
LEMMA PublishProduces ==
  ASSUME Inv, NiPublish, UNCHANGED <<handlerVars, mainVars>>
  PROVE  Channel!Produce
<1>1. /\ UNCHANGED <<syncVars, samples>>
      /\ ni = "publish" /\ ni' = "reset" /\ header' = samples
  BY DEF NiPublish, NiGoto
<1>2. Owing = {} /\ Owing' = {}
  BY <1>1 DEF Owing, Inv, BarrierHolds
<1>3. header' = Tick(header)
  BY <1>1 DEF Inv, HeaderFollows
<1>4. Got' = Got
  BY <1>1 DEF Got, LastCopied
<1> QED
  BY <1>1, <1>2, <1>3, <1>4
     DEF Channel!Produce, Channel!Tick, Tick, Owing, Got

\* The reset announces it: everybody who is alive owes it a look.
LEMMA ResetAnnounces ==
  ASSUME Inv, NiReset, UNCHANGED <<handlerVars, mainVars>>
  PROVE  Channel!Announce
<1>1. /\ UNCHANGED <<alive, header>>
      /\ ni = "reset" /\ ni' = "notify"
      /\ active' = active \cup alive /\ pending' = pending \cup active'
  BY DEF NiReset, NiGoto, ResetReadyHandlers
<1>2. pending = {} /\ active \subseteq alive
  BY <1>1 DEF Inv, BarrierHolds, SetsPartition
<1>3. pending' = alive
  BY <1>1, <1>2
<1>4. \A h \in alive : hpc[h] # "ready"
  BY <1>2, HandlersTyped DEF Inv, CopiersPending
<1>5. Owing' = alive
  BY <1>3, <1>4 DEF Owing
<1>6. Got' = Got
  BY <1>1 DEF Got, LastCopied
<1> QED BY <1>1, <1>5, <1>6 DEF Channel!Announce, Owing, Got

\* A handler that registers subscribes, with nothing received.
LEMMA RegisterSubscribes ==
  ASSUME Inv, NEW h \in Handlers, Register(h), UNCHANGED mainVars
  PROVE  Channel!Subscribe(h)
<1>1. /\ UNCHANGED <<niVars, pending, queue, lastSent>>
      /\ hpc[h] = "register" /\ hpc' = [hpc EXCEPT ![h] = "registered"]
      /\ alive' = alive \cup {h}
  BY DEF Register, IncAvailable, Goto
<1>2. h \notin alive /\ h \notin pending /\ LastCopied(h) = NoChunk
  BY <1>1 DEF Inv, SetsMatchPlaces, SetsPartition, Registered, Lag,
     Unregistered
<1>3. Owing' = Owing
  BY <1>1, <1>2, HandlersTyped DEF Owing
<1>4. Got' = Got
  BY <1>1, <1>2 DEF Got, LastCopied
<1> QED BY <1>1, <1>2, <1>3, <1>4 DEF Channel!Subscribe, Owing, Got

\* The end of the copy receives the chunk.
LEMMA CopyReceives ==
  ASSUME Inv, NEW h \in Handlers, CopyEnd(h), UNCHANGED mainVars
  PROVE  Channel!Receive(h)
<1>1. /\ UNCHANGED <<syncVars, niVars, lastSent>>
      /\ hpc[h] = "copying" /\ hpc' = [hpc EXCEPT ![h] = "ready"]
      /\ queue' = [queue EXCEPT ![h] = Append(@, header)]
  BY DEF CopyEnd, Goto
<1>2. h \in pending /\ h \in alive
  BY <1>1 DEF Inv, CopiersPending, SetsPartition
<1>3. /\ LastCopied(h)' = header
      /\ \A g \in Handlers : g # h => LastCopied(g)' = LastCopied(g)
  BY <1>1, CopiedChunk, AppendedStream
<1>4. h \in Owing /\ Owing' = Owing \ {h}
  BY <1>1, <1>2, HandlersTyped DEF Owing, Inv, SetsPartition
<1>5. Got' = [Got EXCEPT ![h] = header]
  BY <1>1, <1>2, <1>3 DEF Got
<1> QED BY <1>1, <1>4, <1>5 DEF Channel!Receive, Owing, Got

\* A handler that leaves unsubscribes.
LEMMA LeaveUnsubscribes ==
  ASSUME Inv, NEW h \in Handlers, Leave(h), UNCHANGED mainVars
  PROVE  Channel!Unsubscribe(h)
<1>1. /\ UNCHANGED <<niVars, queue, lastSent>>
      /\ hpc[h] = "leave" /\ hpc' = [hpc EXCEPT ![h] = "left"]
      /\ alive' = alive \ {h} /\ pending' = pending \ {h}
  BY DEF Leave, DecAvailable, Goto
<1>2. h \in alive
  BY <1>1 DEF Inv, SetsMatchPlaces, Registered
<1>3. Owing' = Owing \ {h}
  BY <1>1, HandlersTyped DEF Owing, Inv, SetsPartition
<1>4. Got' = [Got EXCEPT ![h] = NoChunk]
  BY <1>1 DEF Got, LastCopied
<1> QED
  BY <1>1, <1>2, <1>3, <1>4
     DEF Channel!Unsubscribe, Owing, Got, NoChunk, Channel!NoChunk

-----------------------------------------------------------------------------
\* The other steps of a handler and its sender are none of the broadcast's.
LEMMA ThreadMaps ==
  ASSUME Inv, NEW h \in Handlers, ThreadStep(h)
  PROVE  Channel!Next \/ UNCHANGED Channel!vars
<1>0. UNCHANGED mainVars /\ hpc \in [Handlers -> HandlerPlaces]
  BY HandlersTyped DEF ThreadStep
<1>1. CASE Register(h) \/ CopyEnd(h) \/ Leave(h)
  BY <1>0, <1>1, RegisterSubscribes, CopyReceives, LeaveUnsubscribes
     DEF Channel!Next
<1>2. CASE Ready(h)
  <2>1. /\ UNCHANGED <<niVars, alive, queue, lastSent>>
        /\ hpc[h] = "ready" /\ hpc' = [hpc EXCEPT ![h] = "readied"]
        /\ pending' = pending \ {h}
    BY <1>2 DEF Ready, SetReady, Goto
  <2>2. Owing' = Owing
    BY <1>0, <2>1, HandlersTyped DEF Owing, Inv, SetsPartition
  <2>3. Got' = Got
    BY <2>1 DEF Got, LastCopied
  <2> QED BY <2>1, <2>2, <2>3 DEF Channel!vars, Owing, Got
<1>3. CASE SenderTake(h)
  <2>1. ChannelStill
    BY <1>3, TakenStream, HandlersTyped DEF SenderTake, ChannelStill
  <2> QED BY <2>1, StillStutters
<1>4. CASE JoinSender(h)
  <2>1. /\ UNCHANGED <<syncVars, niVars>>
        /\ hpc[h] = "join" /\ hpc' = [hpc EXCEPT ![h] = "zombie"]
        /\ queue' = [queue EXCEPT ![h] = << >>]
        /\ lastSent' = [lastSent EXCEPT ![h] = NoChunk]
    BY <1>4 DEF JoinSender, Goto
  <2>2. h \notin alive /\ h \notin pending
    BY <2>1 DEF Inv, SetsMatchPlaces, SetsPartition, Registered
  <2>3. \A g \in Handlers : g # h => LastCopied(g)' = LastCopied(g)
    BY <2>1, EmptiedStream
  <2>4. ChannelStill
    BY <1>0, <2>1, <2>2, <2>3, HandlersTyped DEF ChannelStill
  <2> QED BY <2>4, StillStutters
<1>5. CASE PlainMove(h)
  <2>1. /\ UNCHANGED <<header, alive, pending, ni, queue, lastSent>>
        /\ \A g \in Handlers : hpc'[g] = "ready" <=> hpc[g] = "ready"
    BY <1>0, <1>5 DEF PlainMove, RequestAccepted, RequestRefused, SpawnSender,
       RegisterNotify, Welcome, HandlerLoop, HandlerWakes, HandlerCheck,
       CopyFull, CopyStart, ReadyNotify, LeaveNotify, Stop, Goto,
       NotifyReadBarrier, LeaveDataWait, HandlerPlaces
  <2>2. ChannelStill
    BY <2>1, HandlersTyped DEF ChannelStill, LastCopied, Inv, SetsPartition
  <2> QED BY <2>2, StillStutters
<1>6. CASE \/ HandlerSleep(h) \/ SenderSleep(h) \/ SenderLoop(h)
           \/ SenderReturns(h) \/ SenderDone(h) \/ WriteStep(h)
           \/ HandlerTimeout(h) \/ WelcomeAborts(h) \/ CloseAborts(h)
           \/ SpawnAborts(h) \/ CopyFreed(h) \/ UsesFreedSets(h)
  <2>1. UNCHANGED <<header, alive, pending, ni, hpc, queue, lastSent>>
    BY <1>6 DEF HandlerSleep, SleepOnData, SenderSleep, SenderLoop,
       SenderReturns, SenderDone, WriteStep, WriteOk, WriteFails,
       HandlerTimeout, DataTimeout, BufTimeout, WelcomeAborts, CloseAborts,
       SpawnAborts, CopyFreed, UsesFreedSets
  <2>2. ChannelStill
    BY <2>1 DEF ChannelStill, LastCopied
  <2> QED BY <2>2, StillStutters
<1> QED BY <1>1, <1>2, <1>3, <1>4, <1>5, <1>6
        DEF ThreadStep, HandlerStep, RequestStep, SenderStep, PlainMove

\* Nor are those of the acquisition thread but two.
LEMMA AcquisitionMaps ==
  ASSUME Inv, AcquisitionStep
  PROVE  Channel!Next \/ UNCHANGED Channel!vars
<1>1. CASE NiPublish \/ NiReset
  BY <1>1, PublishProduces, ResetAnnounces DEF AcquisitionStep, Channel!Next
<1>2. CASE \/ NiLoop \/ NiSleep \/ NiLeaveBarrier \/ NiBarrierAborts
           \/ NiCheck \/ NiRead \/ NiReadFails \/ NiNotify \/ NiCleanup
           \/ NiTimeout
  <2>1. /\ UNCHANGED <<header, alive, pending, hpc, queue, lastSent>>
        /\ ni' = "reset" <=> ni = "reset"
    BY <1>2 DEF AcquisitionStep, NiLoop, NiSleep, NiLeaveBarrier,
       NiBarrierAborts, NiCheck, NiRead, NiReadFails, NiNotify, NiCleanup,
       NiTimeout, NiGoto, SleepOnRead, LeaveReadBarrier, ReadTimeout,
       StopRunning, NotifyDataAvailable
  <2>2. ChannelStill
    BY <2>1 DEF ChannelStill, LastCopied
  <2> QED BY <2>2, StillStutters
<1> QED BY <1>1, <1>2 DEF AcquisitionStep, NiStep

\* main and the collector only meet handlers that are not subscribed.
LEMMA MainMaps ==
  ASSUME Inv, \/ MainStep \/ CollectorStep \/ Interrupt
              \/ \E h \in Handlers : MainAccept(h)
  PROVE  UNCHANGED Channel!vars
<1>1. UNCHANGED <<header, alive, pending, ni>>
  BY DEF MainStep, MainLoop, MainPollReturns, MainJoinAcquisition, MainCancel,
     MainCancelAborts, MainLaunchAborts, MainJoinCollector, MainFinish,
     MainExit, FinishSync, CollectorStep, CollectorLoop, CollectorSleep,
     SleepOnDead, CollectorTakes, TakeDead, CollectorJoins,
     CollectorCancelledAsleep, OrphanMutex, CollectorCancelledJoining,
     Interrupt, StopRunning, MainAccept
<1>2. ASSUME NEW h \in Handlers, MainAccept(h)
      PROVE  ChannelStill
  <2>1. /\ hpc[h] = "off" /\ hpc' = [hpc EXCEPT ![h] = hpc'[h]]
        /\ hpc'[h] \in {"request", "unopened"}
        /\ queue' = [queue EXCEPT ![h] = << >>] /\ UNCHANGED lastSent
    BY <1>2, HandlersTyped DEF MainAccept, StartHandler, Goto
  <2>2. h \notin alive /\ h \notin pending
    BY <2>1 DEF Inv, SetsMatchPlaces, SetsPartition, Registered
  <2>3. \A g \in Handlers : g # h => LastCopied(g)' = LastCopied(g)
    BY <2>1, EmptiedStream
  <2> QED BY <1>1, <2>1, <2>2, <2>3, HandlersTyped DEF ChannelStill
<1>3. ASSUME NEW h \in Handlers, CollectorJoins(h)
      PROVE  ChannelStill
  BY <1>1, <1>3, HandlersTyped
     DEF CollectorJoins, Goto, ChannelStill, LastCopied
<1>4. CASE UNCHANGED handlerVars
  BY <1>1, <1>4, StillStutters DEF ChannelStill, LastCopied
<1> QED BY <1>2, <1>3, <1>4, StillStutters, MainHandlers

\* The daemon is a broadcast: whatever its threads, buffers and wake-ups do,
\* what the handlers receive is what the subscribers of Broadcast receive.
THEOREM DaemonIsABroadcast == Spec => ImplementsBroadcast
<1>1. Inv /\ [Next]_vars => [Channel!Next]_Channel!vars
  <2> SUFFICES ASSUME Inv, [Next]_vars
               PROVE  Channel!Next \/ UNCHANGED Channel!vars
    OBVIOUS
  <2>1. CASE AcquisitionStep
    BY <2>1, AcquisitionMaps
  <2>2. ASSUME NEW h \in Handlers, ThreadStep(h) \/ MainAccept(h)
        PROVE  Channel!Next \/ UNCHANGED Channel!vars
    BY <2>2, ThreadMaps, MainMaps
  <2>3. CASE MainStep \/ CollectorStep \/ Interrupt
    BY <2>3, MainMaps
  <2>4. CASE UNCHANGED vars
    <3>1. ChannelStill
      BY <2>4 DEF vars, ChannelStill, LastCopied
    <3> QED BY <3>1, StillStutters
  <2> QED BY <2>1, <2>2, <2>3, <2>4 DEF Next
<1> QED
  BY <1>1, InitMaps, InvHolds, PTL DEF Spec, ImplementsBroadcast, Channel!Spec
=============================================================================
