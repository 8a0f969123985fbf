---------------------------- MODULE Acquisition ----------------------------
(***************************************************************************)
(* ni_thread_main of daemon/daemon.c: the thread that reads one chunk of   *)
(* samples per turn from the measuring device into its two buffers,        *)
(* publishes it in the shared input_data_t record and announces it to the  *)
(* handlers.  The buffers themselves are never locked: only the barrier of *)
(* sync.c keeps this thread from overwriting them while a handler copies.  *)
(*                                                                         *)
(* A chunk is a number.  The numbers go round, 1 .. MaxChunk, so that the  *)
(* daemon can run for ever in a finite model; 0 is "nothing read yet".     *)
(***************************************************************************)
EXTENDS Sync, Naturals

CONSTANTS
  MaxChunk,   \* chunk numbers in use before they start again at 1
  Faults      \* what the environment may do: see FaultKinds

FaultKinds == {"interrupt",   \* SIGINT is delivered
               "device",      \* the measuring device fails
               "client",      \* clients hang up or ask for a wrong channel
               "resources"}   \* descriptors or threads run out

ASSUME ChunkAssumption == MaxChunk \in Nat \ {0, 1}
ASSUME FaultAssumption == Faults \subseteq FaultKinds

NoChunk == 0
Chunks  == 1 .. MaxChunk
Tick(c) == IF c = MaxChunk THEN 1 ELSE c + 1

VARIABLES
  ni,        \* where ni_thread_main is
  samples,   \* the chunk in analog_data and digital_data
  header,    \* the chunk the shared input_data_t describes
  crash      \* the failed assertion or bad access that ended the process

niVars == <<ni, samples, header>>

NiPlaces == {"loop", "barrier", "check", "read", "publish", "reset",
             "notify", "cleanup", "exit"}

CrashKinds == {"none", "wait_read_barrier", "welcome", "close",
               "pthread_create", "pthread_cancel", "freed_samples",
               "freed_sets"}

AcquisitionInit ==
  /\ ni = "loop"
  /\ samples = NoChunk
  /\ header = NoChunk
  /\ crash = "none"

NiGoto(from, to) == ni = from /\ ni' = to

\* The sample buffers are being written, or have been freed.
NiWrites == ni \in {"read", "publish"}
BuffersFreed == ni = "exit"

-----------------------------------------------------------------------------
\* while(running)
NiLoop ==
  /\ NiGoto("loop", IF running THEN "barrier" ELSE "cleanup")
  /\ UNCHANGED <<syncVars, samples, header, crash>>

\* wait_read_barrier sleeps, returns, or fails the assertions behind its loop
NiSleep ==
  /\ ni = "barrier"
  /\ SleepOnRead
  /\ UNCHANGED <<niVars, crash>>

NiLeaveBarrier ==
  /\ NiGoto("barrier", "check")
  /\ LeaveReadBarrier
  /\ BarrierAsserts
  /\ UNCHANGED <<samples, header, crash>>

NiBarrierAborts ==
  /\ ni = "barrier"
  /\ LeaveReadBarrier
  /\ ~BarrierAsserts
  /\ crash' = "wait_read_barrier"
  /\ UNCHANGED niVars

\* if(!running) break
NiCheck ==
  /\ NiGoto("check", IF running THEN "read" ELSE "cleanup")
  /\ UNCHANGED <<syncVars, samples, header, crash>>

\* read_ni fills the buffers ...
NiRead ==
  /\ NiGoto("read", "publish")
  /\ samples' = Tick(header)
  /\ UNCHANGED <<syncVars, header, crash>>

\* ... or fails and stops the daemon
NiReadFails ==
  /\ "device" \in Faults
  /\ NiGoto("read", "cleanup")
  /\ StopRunning
  /\ UNCHANGED <<samples, header, crash>>

\* the record is filled in under its own lock
NiPublish ==
  /\ NiGoto("publish", "reset")
  /\ header' = samples
  /\ UNCHANGED <<syncVars, samples, crash>>

NiReset ==
  /\ NiGoto("reset", "notify")
  /\ ResetReadyHandlers
  /\ UNCHANGED <<samples, header, crash>>

NiNotify ==
  /\ NiGoto("notify", "loop")
  /\ NotifyDataAvailable
  /\ UNCHANGED <<samples, header, crash>>

\* finish_ni, and the buffers are freed
NiCleanup ==
  /\ NiGoto("cleanup", "exit")
  /\ UNCHANGED <<syncVars, samples, header, crash>>

NiStep ==
  \/ NiLoop \/ NiSleep \/ NiLeaveBarrier \/ NiBarrierAborts \/ NiCheck
  \/ NiRead \/ NiReadFails \/ NiPublish \/ NiReset \/ NiNotify \/ NiCleanup

NiTimeout == ReadTimeout /\ UNCHANGED <<niVars, crash>>

-----------------------------------------------------------------------------
AcquisitionTypeOK ==
  /\ ni \in NiPlaces
  /\ samples \in Chunks \cup {NoChunk}
  /\ header \in Chunks \cup {NoChunk}
  /\ crash \in CrashKinds
=============================================================================
