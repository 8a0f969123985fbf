-------------------------------- MODULE Sync --------------------------------
(***************************************************************************)
(* daemon/sync.c: the monitor through which the acquisition thread, the    *)
(* handler threads and the thread that collects dead handlers meet.        *)
(*                                                                         *)
(* One mutex protects five sets of handler threads.  Every function of the *)
(* file is one critical section, or two when it ends by calling            *)
(* notify_read_barrier, which locks the mutex again; each critical section *)
(* is one action here.  A thread in pthread_cond_(timed)wait is recorded   *)
(* in readBlocked, dataBlocked or deadBlocked: it does nothing until a     *)
(* broadcast or its timeout takes it out, and then tests its condition     *)
(* again.                                                                  *)
(*                                                                         *)
(* The operations only have the effect of the code; what the code asserts  *)
(* before it is stated apart (SetReadyAsserts ...), so that a caller that  *)
(* breaks an assertion is a reachable state and not a disabled action.     *)
(***************************************************************************)

CONSTANT Handlers           \* thread identifiers (pthread_t) of the handlers

VARIABLES
  running,      \* extern volatile bool running, daemon.h:27
  alive,        \* __alive_handler_set: all handlers that are alive
  active,       \* __active_handler_set: all handlers that get data
  pending,      \* __pending_handler_set: active, have yet to copy the data
  done,         \* __done_handler_set: have copied the current data
  dead,         \* __dead_handler_set: dead, to be joined
  readBlocked,  \* the acquisition thread sleeps on __cond_read
  dataBlocked,  \* the handlers that sleep on __cond_data
  deadBlocked,  \* the collecting thread sleeps on __cond_dead_handler
  orphaned,     \* __mutex is held by a thread that no longer exists
  freed         \* finish_sync has freed the five sets

setVars   == <<alive, active, pending, done, dead>>
condVars  == <<readBlocked, dataBlocked, deadBlocked>>
shutVars  == <<orphaned, freed>>
syncVars  == <<running, setVars, condVars, shutVars>>

\* init_sync
SyncInit ==
  /\ running = TRUE
  /\ alive = {} /\ active = {} /\ pending = {} /\ done = {} /\ dead = {}
  /\ readBlocked = FALSE /\ dataBlocked = {} /\ deadBlocked = FALSE
  /\ orphaned = FALSE /\ freed = FALSE

\* pthread_mutex_lock(&__mutex) can return, and the sets may be used.
LockSets == ~orphaned /\ ~freed

-----------------------------------------------------------------------------
\* inc_available_handlers, up to its notification
IncAvailable(h) ==
  /\ LockSets
  /\ alive' = alive \cup {h}
  /\ UNCHANGED <<running, active, pending, done, dead, condVars, shutVars>>

\* dec_available_handlers, up to its notification
DecAsserts(h) == h \in alive

\* Mutant: the handler stays in the done set.
DecForgetsDone(h) ==
  /\ LockSets
  /\ alive' = alive \ {h}
  /\ pending' = pending \ {h}
  /\ active' = active \ {h}
  /\ dead' = dead \cup {h}
  /\ deadBlocked' = FALSE
  /\ UNCHANGED <<running, done, readBlocked, dataBlocked, shutVars>>

DecAvailable(h) ==
  /\ LockSets
  /\ alive' = alive \ {h}
  /\ pending' = pending \ {h}
  /\ done' = done \ {h}
  /\ active' = active \ {h}
  /\ dead' = dead \cup {h}
  /\ deadBlocked' = FALSE
  /\ UNCHANGED <<running, readBlocked, dataBlocked, shutVars>>

\* set_ready, up to its notification
SetReadyAsserts(h) == h \in active /\ h \in pending

SetReady(h) ==
  /\ LockSets
  /\ done' = done \cup {h}
  /\ pending' = pending \ {h}
  /\ UNCHANGED <<running, alive, active, dead, condVars, shutVars>>

\* Mutant: the done set is not cleared.
ResetKeepsDone ==
  /\ LockSets
  /\ active' = active \cup alive
  /\ pending' = pending \cup active'
  /\ readBlocked' = FALSE
  /\ UNCHANGED <<running, alive, done, dead, dataBlocked, deadBlocked,
                 shutVars>>

\* Mutant: what was active before is pending, the new handlers are not.
ResetSkipsNew ==
  /\ LockSets
  /\ active' = active \cup alive
  /\ pending' = pending \cup active
  /\ done' = {}
  /\ readBlocked' = FALSE
  /\ UNCHANGED <<running, alive, dead, dataBlocked, deadBlocked, shutVars>>

\* reset_ready_handlers
ResetReadyHandlers ==
  /\ LockSets
  /\ active' = active \cup alive
  /\ pending' = pending \cup active'
  /\ done' = {}
  /\ readBlocked' = FALSE
  /\ UNCHANGED <<running, alive, dead, dataBlocked, deadBlocked, shutVars>>

\* notify_read_barrier and notify_data_available
NotifyReadBarrier ==
  /\ ~orphaned
  /\ readBlocked' = FALSE
  /\ UNCHANGED <<running, setVars, dataBlocked, deadBlocked, shutVars>>

NotifyDataAvailable ==
  /\ ~orphaned
  /\ dataBlocked' = {}
  /\ UNCHANGED <<running, setVars, readBlocked, deadBlocked, shutVars>>

-----------------------------------------------------------------------------
\* wait_read_barrier: the loop test, the sleep, and the assertions behind it
BarrierClosed  == running /\ done # active
BarrierAsserts == pending = {} /\ done = active

SleepOnRead ==
  /\ LockSets /\ ~readBlocked
  /\ BarrierClosed
  /\ readBlocked' = TRUE
  /\ UNCHANGED <<running, setVars, dataBlocked, deadBlocked, shutVars>>

\* Mutant: a timeout ends the wait as a broadcast does, without another test.
LeaveReadBarrierUntested ==
  /\ LockSets /\ ~readBlocked
  /\ UNCHANGED syncVars

LeaveReadBarrier ==
  /\ LockSets /\ ~readBlocked
  /\ ~BarrierClosed
  /\ UNCHANGED syncVars

\* Mutant: the wait ends for every handler that gets data.
NoDataForInactive(h) == running /\ h \notin active

\* wait_data_available; `running' is tested first, so the sets are not looked
\* at (and may have been freed) once it is false.
NoDataFor(h) == running /\ h \notin pending

SleepOnData(h) ==
  /\ LockSets /\ h \notin dataBlocked
  /\ NoDataFor(h)
  /\ dataBlocked' = dataBlocked \cup {h}
  /\ UNCHANGED <<running, setVars, readBlocked, deadBlocked, shutVars>>

\* Mutant: a broadcast or a timeout ends the wait without another test.
LeaveDataWaitUntested(h) ==
  /\ ~orphaned /\ h \notin dataBlocked
  /\ UNCHANGED syncVars

LeaveDataWait(h) ==
  /\ ~orphaned /\ h \notin dataBlocked
  /\ ~NoDataFor(h)
  /\ UNCHANGED syncVars

\* wait_dead_handler: pthread_cond_wait, without a timeout and without a look
\* at `running'.  pblSetGet(set, 0) is whichever element hashes first.
SleepOnDead ==
  /\ LockSets /\ ~deadBlocked
  /\ dead = {}
  /\ deadBlocked' = TRUE
  /\ UNCHANGED <<running, setVars, readBlocked, dataBlocked, shutVars>>

\* Mutant: the handler stays in the dead set.
TakeDeadKeeps(h) ==
  /\ LockSets /\ ~deadBlocked
  /\ h \in dead
  /\ UNCHANGED syncVars

TakeDead(h) ==
  /\ LockSets /\ ~deadBlocked
  /\ h \in dead
  /\ dead' = dead \ {h}
  /\ UNCHANGED <<running, alive, active, pending, done, condVars, shutVars>>

\* pthread_cond_timedwait returns ETIMEDOUT after WAIT_TIMEOUT
ReadTimeout ==
  /\ readBlocked /\ ~orphaned
  /\ readBlocked' = FALSE
  /\ UNCHANGED <<running, setVars, dataBlocked, deadBlocked, shutVars>>

DataTimeout(h) ==
  /\ h \in dataBlocked /\ ~orphaned
  /\ dataBlocked' = dataBlocked \ {h}
  /\ UNCHANGED <<running, setVars, readBlocked, deadBlocked, shutVars>>

-----------------------------------------------------------------------------
\* finish_sync
FinishSync ==
  /\ freed' = TRUE
  /\ UNCHANGED <<running, setVars, condVars, orphaned>>

\* A thread cancelled inside pthread_cond_wait has the mutex again, and no
\* cleanup handler releases it.
OrphanMutex ==
  /\ deadBlocked
  /\ orphaned' = TRUE
  /\ deadBlocked' = FALSE
  /\ UNCHANGED <<running, setVars, readBlocked, dataBlocked, freed>>

\* running = false, by the signal handler or by the acquisition thread
StopRunning ==
  /\ running' = FALSE
  /\ UNCHANGED <<setVars, condVars, shutVars>>

-----------------------------------------------------------------------------
(***************************************************************************)
(* The monitor used by any threads that respect its assertions: handlers   *)
(* register once, report ready when they are pending, leave once, in any   *)
(* order; the acquisition thread may reset at any moment, even with the    *)
(* barrier closed.                                                         *)
(***************************************************************************)
HandlerCall(h) ==
  \/ h \notin alive \cup dead /\ IncAvailable(h)
  \/ SetReadyAsserts(h) /\ SetReady(h)
  \/ DecAsserts(h) /\ DecAvailable(h)
  \/ SleepOnData(h) \/ DataTimeout(h) \/ TakeDead(h)

SyncNext ==
  \/ \E h \in Handlers : HandlerCall(h)
  \/ ResetReadyHandlers \/ NotifyReadBarrier \/ NotifyDataAvailable
  \/ SleepOnRead \/ ReadTimeout \/ SleepOnDead
  \/ FinishSync \/ OrphanMutex \/ StopRunning

SyncSpec == SyncInit /\ [][SyncNext]_syncVars

-----------------------------------------------------------------------------
\* Every variable has its type.
SyncTypeOK ==
  /\ running \in BOOLEAN /\ orphaned \in BOOLEAN /\ freed \in BOOLEAN
  /\ readBlocked \in BOOLEAN /\ deadBlocked \in BOOLEAN
  /\ \A s \in {alive, active, pending, done, dead, dataBlocked} :
        s \subseteq Handlers

\* The comment at sync.c:61-63: the handlers that have copied the current data
\* and those that have yet to copy it are exactly the active ones, none is
\* both, and only handlers that are alive get data.
SetsPartition ==
  /\ done \cup pending = active
  /\ done \cap pending = {}
  /\ active \subseteq alive

\* A handler is handed to the collecting thread only once it is in no other
\* set, so a joined thread's identifier is left behind nowhere.
DeadAreGone == dead \cap (alive \cup active \cup pending \cup done) = {}
=============================================================================
