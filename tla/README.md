# pm-lab-tools: a verification development

pm-lab-tools measures power in a lab. A daemon on the machine with the
measuring card reads one chunk of samples per turn and sends it to every client
that is connected over TCP; a client library and a command line client receive
and print the samples. This directory holds TLA+ specifications of the daemon,
the library and the client, written from their C source, the TLC configurations
that check them on small instances, and TLAPS proofs of the most important
safety properties for instances of every size.

Paths like `sync.c:202` mean `src/daemon/sync.c`, line 202.

## 1. The system

### Components

| component | state | operations | modelled by |
|---|---|---|---|
| synchronisation monitor, `daemon/sync.c` | five sets of threads (alive, active, pending, done, dead), one mutex, three condition variables | `inc_/dec_available_handlers`, `set_ready`, `reset_ready_handlers`, `wait_*`, `notify_*`, `have_alive_threads`, `init_/finish_sync`; `abs_wait_timeout` | `Sync`; `Timing` |
| acquisition thread, `daemon/daemon.c` | two sample buffers without a lock, the shared `input_data_t` record, the timestamp | `ni_thread_main`, `read_ni`, `read_dummy` | `Acquisition`; `Timing` |
| handler and sender threads, `daemon/handler.c` | per connection: a bounded buffer, the flag `handler_running`, the descriptor they share | `handler_thread_main`, `handler_sender_main`, `copy_to_buffer`, `write_buf_element`, `write_dataset` | `Handler` (against the monitor), `Server` (against the connection), `DataPath` (what is sent) |
| the array in that buffer | `start`, `count`, `max_elems`, the blocks its elements own | `copy_to_buffer`, `write_buf_element`, `free_buffer` | `SendBuffer` |
| main and the collecting thread, `daemon/daemon.c` | `running`, the server socket | accept loop, SIGINT, joining, shutdown | `Daemon`; accept and descriptors in `Server` |
| client library, `client/libpmlab.c` | a connection handle | `pm_connect`, `pm_read`, `pm_close` | `Client`, `DataPath` |
| command line client, `client/pmlabclient.c` | the parsed options, one data set | `parse_channels`, read loop, output | `DataPath`, `Client` |
| full read and write, `common/utils.c` | none | `full_read`, `full_write` | `FullIO` |
| shared declarations, `common/conf.h`, `common/common.h` | none | names of channels, constants | in `DataPath`, `Timing` |
| wire format, scripts, test data | none | generated code, plotting, a table | not modelled |

### How the parts interact

```
 device --read_ni--> acquisition thread --(samples, record)--> handler h --(buffer h)--> sender h --TCP--> client
                        |        ^                              |   ^
             reset, notify_data  |             set_ready, dec --+   |  wait_data_available
                        v        +--- wait_read_barrier             |
                     +---------------------- sync.c ----------------+
                                  | dead set
 main: accept, SIGINT     collector: wait_dead_handler, pthread_join
```

The acquisition thread waits until every active handler has copied the last
chunk (`wait_read_barrier`), reads the next one into the *same* buffers,
publishes it in the record, makes everybody who is alive active and pending
(`reset_ready_handlers`) and broadcasts. A handler waits until it is pending,
copies the chunk into a buffer of its own and reports ready. A full buffer, a
failed write or the end of the daemon makes it leave. The collector joins the
handlers that left.

On a connection everything is a segment of known length, written by one
`full_write` and read by one `full_read`:

```
 pm_connect                              handler, then its sender
   number of channels, channels  ----->    read and checked
                                 <-----    welcome message, sampling rate
 pm_read, again and again        <-----    magic, length, data set; and so on
   0 at the end of the stream    <-----    close
```

### What is hard here

- Three kinds of threads meet in five sets, and the samples they exchange have
  no lock: only the order of calls protects them.
- The sets change in one critical section and the waiters are woken in a second
  one (`set_ready` ends by calling `notify_read_barrier`, which locks again).
- Every wait has a timeout, except the collector's; a wake-up that was lost
  shows only as a second of delay, or not at all.
- Handlers come and go at any moment of a turn; clients stop reading or vanish.
- `running` is a volatile flag tested outside the mutex, by every thread, at
  several places per turn; SIGINT can fall between any two of them.
- The handler and its sender share a descriptor *number*; the handler closes it
  first and waits for the sender afterwards, and main's `accept` hands out the
  lowest free number.
- Either end, or the network, can end a connection behind any segment; the daemon
  learns of it by a write that fails, often one data set too late.
- Timestamps add up truncated quotients, the test device keeps a schedule of
  its own, and timeouts are computed with signed and unsigned integers mixed.
- Shutdown joins, cancels and frees in an order of its own; a thread cancelled
  in `pthread_cond_wait` takes the mutex with it.

### What makes each component correct

- *Monitor*: `done` and `pending` partition `active`, `active` is part of
  `alive`; a dead handler is in no other set; the assertions of its functions
  hold wherever they are called.
- *Acquisition and handlers*: nothing is overwritten under a reader; every
  client gets consecutive chunks from the first one announced after it
  registered until it is disconnected; nobody sleeps on a condition that holds;
  a slow client delays nobody.
- *Send buffer*: a queue; no place outside the array is written; every block of
  samples has one owner and is freed once; the client is disconnected only when
  the buffer is really full.
- *Connections*: a descriptor is its handler's until the handler closes it;
  nobody else writes into the stream; the descriptor of a client that is gone is
  released; a hang-up reaches the client behind the data.
- *Library and client*: every read finds the segment that is due; `pm_read`
  returns consecutive data sets and an end only behind the last (failures that
  the header promises to report and the code asserts away are in section 4);
  column `j` is the `j`-th channel asked for, and rows are evenly spaced in time.
- *Full read and write*: segments are transferred as wholes or not at all.
- *main and collector*: each handler is joined once; after a stop the process
  ends.

The list `hazards` in `PROJECT.json` names the places in the code where this
could go wrong and the properties that would tell.

## 2. The modules

```
  BoundedFifo <--INSTANCE-- SendBuffer <-- MCSendBuffer, SendBufferProofs

  Sync <-- Acquisition <-- Handler <-- Daemon <-- MCDaemon
                                        |  ^
                                        |  +-- DaemonProofs
                                        |
                                        +--INSTANCE--> Broadcast <-- BroadcastProofs
                                                           ^
             Sockets <-- Server  -----------INSTANCE-------+
                ^          ^
                +- Client  |
                     ^     |
                     Session --INSTANCE--> Feed <-- FeedProofs
                        ^                               ^
                        +-- MCSession                   |
                        +-- SessionProofs --INSTANCE----+

  Segments <--INSTANCE-- FullIO <-- MCFullIO, FullIOProofs
  Timing <-- TimingProofs
  DataPath <-- MCDataPath, DataPathProofs
```

Two layers of the daemon meet in `Broadcast`: `Daemon`, which has the threads
and the monitor, is proved to implement it, and `Server`, which has the
connections, is built on it. So the connections are checked against everything
the monitor may do without carrying its sets along. In the same way `Server` and
`Client` move whole segments because `FullIO` shows that this is what
`full_write` and `full_read` do.

### Sync

One variable per set. Each critical section of `sync.c` is an action, so a
function that unlocks and then calls `notify_read_barrier` is two actions, and
other threads may run between them. A thread in a condition wait is recorded in
`readBlocked`, `dataBlocked` (a set of handlers) or `deadBlocked`; a broadcast
or a timeout takes it out, and it then tests its condition again
(`SleepOnRead`/`LeaveReadBarrier` are the two outcomes of that test).
Assertions are not guards: what the code asserts is a predicate of its own
(`SetReadyAsserts`, `DecAsserts`, `BarrierAsserts`), so a caller that breaks one
is a reachable state. `orphaned` says that a cancelled thread died with the
mutex, `freed` that `finish_sync` has run.

At its end the module has a most general client, `SyncSpec`: any number of
handlers call anything their assertions allow, in any order, and resets come at
any moment. The first part of `DaemonProofs` is about it; TLC checks the same
predicates in the runs of `Daemon`.

### Acquisition

`ni` is the place in `ni_thread_main`; each of its places is a test, a call or
the read. A chunk is a number that goes round `1 .. MaxChunk`; `samples` is the
chunk in the buffers, `header` the one the record describes. The read is two
places, `read` and `publish`: from entering `read` to leaving `publish` the
buffers and the record are being written (`NiWrites`).

`crash` records the failed assertion or the bad access that ends the process;
every such action is next to the one it replaces (`NiBarrierAborts`,
`WelcomeAborts`, `CloseAborts`, `SpawnAborts`, `CopyFreed`, `UsesFreedSets`,
`MainLaunchAborts`, `MainCancelAborts`).

### Handler

`hpc[h]` and `spc[h]` are the places of handler `h` and its sender. The copy is
begun (`CopyStart`) and ended (`CopyEnd`), with the buffer locked in between, so
that an acquisition thread that writes meanwhile would be seen. The handler's
buffer is the sequence `queue[h]` of at most `BufSize - 1` chunks; `lastSent[h]`
is the chunk the sender took last. A client is the environment: it sends its
request or not, reads or not, and with `"client"` in `Faults` it refuses, hangs
up, or asks for a wrong channel. With `"resources"` in `Faults` the daemon may
have no descriptor or thread left: `accept` returns -1 (`MainAccept` starts a
handler all the same, at the place `unopened`, whose `close` then fails), and
`pthread_create` fails, in main or in a handler.

### Daemon

main, the collector and the signal, and the composition. A handler identifier
is a `pthread_t`: it is given to a new thread after the old one was joined, so
the model runs for ever with few identifiers, and an identifier that was left in
a set would come back to haunt its next owner. `Handlers` bounds the connections
that exist at one time.

`Up` says the process exists. After a crash or main's exit nothing changes any
more; that state is allowed to stutter (the process is gone), and deadlock is
checked everywhere else.

### Broadcast

What the acquisition thread, the monitor and the handlers promise together: a
slot, subscribers, and who owes the slot a look. `Daemon` implements it under
the mapping in its `Channel` instance: the slot is the record, fresh between
publication and reset; the subscribers are the alive handlers; the owing ones
are the pending handlers that have not finished their copy. Neither buffers nor
threads nor locks appear in it.

### SendBuffer and BoundedFifo

`SendBuffer` is the array with `start` and `count`, including the slots that
still hold an element that was taken or moved, and the blocks of memory the
elements own. `BoundedFifo` is what the two users of the buffer rely on.
`Handler` uses the queue this refinement justifies.

### Sockets, Server, Client, Session

`Sockets` is the part of the system underneath: for each connection a `link`
(queued, open, ended in order, or failed) and the segments under way in both
directions, the daemon's `table` of descriptors, and `held`, the connection on
which a sender sleeps in `write`. A connection ends when nothing refers to it
any more, neither the table nor a sleeping write; with a reset if part of a
request was not read. These rules are POSIX's and TCP's; every operation is
there because the daemon or the client depends on it, and `PROJECT.json` marks
them as external.

`Server` has `hpc`, `spc` and `queue` again, this time with `hfd`, the
descriptor in `info->fd`. Each `full_write` of a message is a step, and each
looks the number up in the table (`Target`), as the system call does. `accept`
that finds no free number returns -1; its handler is called `NoConn`. When SIGINT
comes main may be behind the test of `running`: it accepts at most once more
(`Accepts`), and then closes the listening socket (`StopAccepting`). Before the
first chunk either kind of list may pass the handler's test or not (`Unset`);
`DataPath` says why.

`Client` is `pm_connect`, the loop of main around `pm_read`, and `pm_close`: `at`
is the segment it writes or reads next, or how it ended (`Ended`), the failed
assertions included. A segment that is not the one expected is either noticed
(the two texts are compared) or not, and then the reader has lost its place
(`garbled`).

`Session` is the two together with the faults: the network may fail and lose
what is under way, the client may leave or die at any point, SIGINT may end the
daemon. `Feed` is what the library promises its caller, without a daemon, a
thread or a segment in it: data sets come in order and without gap, and the end
is reported behind the last one. What is in flight in `Feed` are the complete
data sets of the stream (`DataSets`); a client is cut off (`HangUp`, `Cut`) when
its link has ended. `ReadsInOrder` says the same of `Session` itself, in terms of
what `pm_read` returns. `NumbersRest` is a condition the code does not keep:
that a number a handler has closed leads nowhere until its sender has ended. It
is the premise of the theorems about several clients (section 5).

### FullIO and Segments

The two loops of `utils.c`, called for one segment after the other. A byte is
`<<segment, offset>>`, so that a byte lost, repeated or out of order is
noticed. `Segments` has neither bytes nor system calls.

### Timing

`abs_wait_timeout`, the schedule of `read_dummy`, the timestamp of a chunk and
the time the client computes from it for each row. `device` says which of the two
devices the daemon was built for, the measuring card or the built-in one; it
never changes. Unsigned arithmetic is modulo `Width`. `RowTime` is exact where
the client has a `double`.

### DataPath

The way of the samples: the words of the command line, the handler's check of
the request, `write_dataset`, `pm_read` and the printing. A sample is
`<<channel, index, chunk>>`, and arrays count from 0. The handler reads the
number of channels (`RequestTooLong`, `RequestRead`) and then compares channel
after channel (`ChannelPasses`, `ChannelFails`, `CheckEnds`); `checked` is its
loop counter. The number it compares with is read anew for each channel, without
the record's lock, and `Acquire` may come in between. Before the first chunk it
is what was on main's stack, one of `Leftover`; `early` counts the channels that
were compared then. Memory that holds no sample of the chunk is `Nothing`: a
wrong channel that has passed makes `write_dataset` read it.

The client's list of channels is a sequence that may become longer than the
array (section 4). `wanted` is what the words stand for, `chosen` what the array
holds: they differ when the store behind the array (`ParseBehind`) was
overwritten before the list is sent; the client may also end by it.

### Proof modules

`DaemonProofs`, `BroadcastProofs`, `SendBufferProofs`, `FullIOProofs`,
`TimingProofs`, `DataPathProofs`, `SessionProofs` and `FeedProofs`, see section 5.

## 3. The runs

| run | instance | what it shows |
|---|---|---|
| `send_buffer` | array of 4, 5 blocks | the array is a queue of 3; each block has one owner |
| `broadcast` | 3 subscribers, 3 chunks | the abstract broadcast delivers in order without gap |
| `daemon_fanout` | 2 handlers, 2 chunks, array of 3, no faults | the sets partitioned, samples stable, streams gapless, the monitor called as it asserts, no wake-up lost; refines `Broadcast` |
| `daemon_shutdown` | 1 handler, 2 chunks, array of 3, all faults | types, the inductive invariant, handlers that served are collected and joined once, none of the daemon's own threads ends it unless it was stopped; the acquisition goes on with no timeout's help, and a stop ends the process |
| `segments` | segments of 3, 0 and 2 bytes, 2 bytes in the kernel | what is read is what was written; nobody loops for ever; refines `Segments` |
| `timing` | both devices, a second of 10, timeout 1.5 s, 3 samples per second, reads of 1 to 3 samples from the card | timeouts exact, schedule and timestamps together, less than a nanosecond lost per chunk, rows evenly spaced but for that |
| `data_path` | up to 10 words of 4 kinds, 5 other lists, chunks of 1 or 2 samples | columns and rows are the samples asked for; what is printed was measured, but for channels compared before the first chunk; no list longer than the array is served |
| `one_client` | 1 client, 2 segments under way, a buffer of 2, 3 chunk numbers, all requests, all faults | the client never loses its place in the stream (`InStep`); the library keeps its promise (refines `Feed`; what `pm_read` returns is a run of chunks); a client that is gone is noticed, an idle one dropped; a hang-up reaches the client |
| `descriptors` | 2 clients, 1 descriptor, clients may leave | descriptors are owned; only a stale sender mixes streams |

Three further runs (`freed_data`, `dead_joined`, `welcome_first`) each find the
one property they check violated; they are the findings of section 4.

### Bounds

- `MaxChunk` is the number of chunk numbers before they start again. Two suffice
  to tell a repeated chunk from the next; a handler that skips one chunk shows
  as a repetition with two and as a gap with three, so either is seen. The
  barrier keeps all handlers within one chunk of each other, so that the
  numbers cannot be confused by wrapping.
- `BufSize = 3` gives buffers of two chunks: empty, one, full. `send_buffer` has
  one place more so that a move to the front has both live and stale places.
- Two handlers are enough for one to be pending while the other is done, to
  register while the other copies, and to leave while the other waits; with
  their senders, main, the collector and the acquisition thread seven threads
  interleave. The number of handlers is not bounded in the proofs.
- The blocks of `send_buffer` are one more than can be alive at once (three in
  the buffer, one held), so that freed blocks are reused in any order.
- `segments`: one segment longer than what the kernel takes at once, one that
  fits, one without content; with three bytes there are two cuts.
- `Timing`: what matters is that a second is no multiple of the distance of two
  samples (10 and 3), that half a second is a whole number, and that the clock
  passes at least two timeouts and three reads. `Width` is a few seconds; the
  proofs cover every width.
- `data_path`: one channel each by its two kinds of name, `all`, and a word that
  is none; ten words reach behind the array. Chunks of different lengths follow
  each other, so that samples of the last one may be left in a buffer. Of the
  values that may be left in memory, 0 refuses every channel and 9 accepts one
  the device does not have; lists of other callers have such a channel alone and
  behind a good one.
- `Window` is in segments. With 1 every message may block, with 2 a data set is
  under way in parts. One descriptor for two clients makes its reuse, and the
  failure of `accept`, certain to happen; with two, senders could also be
  given each other's number, which the proof covers. In `descriptors` all
  chunks have one number, since no property of it tells them apart.
- `one_client` has three chunk numbers: a chunk that is repeated, and one or two
  that are left out, show in the number that follows. (The theorems about the
  same properties have any number of them.)
- Liveness is checked with one handler; two make the run too long. Signals and
  failing devices are in the runs with one handler; for the safety properties
  the proofs cover any number of handlers under all faults.

Symmetry is used only in runs without liveness properties. `send_buffer` has
deadlock checking off: when the buffer has been freed there is nothing left to
do. The runs of `Session`, `FullIO` and `DataPath` have it off because a
conversation ends (that nobody waits for ever is what their liveness properties
say), that of `Timing` because the clock stops at its bound.

### Fairness

`Spec` assumes weak fairness of every thread of the daemon that waits for no one
outside: the acquisition thread, each handler (its steps on the channel request
excluded), main and the collector. The scheduler runs all threads, and
the mutexes are held for a few operations only. main's `ppoll` has a timeout, so
it is fair to return; accepting is not fair. The write of the welcome message
and the sampling rate goes into an empty socket buffer and is taken not to
block. No fairness is given to senders (they may block in a write for as long
as the client does not read), to clients, or to the expiry of timed waits.
`AcquisitionProgress` holds under this alone: wake-ups come from broadcasts, not
from the timeouts that would hide their loss.

`Responsive` says that timed waits end, senders run and clients answer or hang
up. It is the premise of `ShutdownCompletes`, which is checked under `Spec`: a
handler that waits for its request, or a sender that is blocked, is not told
about the end of the daemon. `ResponsiveSpec` is `Spec` with it, for the run
`dead_joined`: even then a handler waits for ever.

`ServedSpec` of `Session` assumes weak fairness of main, of the acquisition
thread's deliveries, and of each handler and each sender; a sender that sleeps
in a write has no step to take, so this does not say that the client reads.
`GoneClientReleased` and `IdleClientDropped` hold under it whatever clients do.
`HangupReachesClient` speaks of a client that goes on calling `pm_read`, and has
the fairness of its program, `ClientsRun`, as its premise. `FairSpec` of
`FullIO` says that system calls that can transfer something do so after finitely
many interruptions.

### Mutants

For every property of a passing run `PROJECT.json` names a mutant, a changed
form of one definition, written in the module just before the definition it
replaces (its comment begins with "Mutant"). With it TLC finds the property
violated, so none of the properties holds by the shape of the model. They are
the slips one could make in this code: a reset that keeps the done set or
forgets new handlers, a departure that forgets one set, a missing notification,
a wait without a second test of its condition, the last place of the array, a
move of one element too few, a thread joined without being cancelled.

## 4. Findings

Each of the three is the shortest behaviour TLC reports for a claim of the
source.

1. `freed_data`. When `running` is false at the loop test of the acquisition
   thread it skips the barrier and frees the samples (daemon.c:248) that a
   pending handler may be copying. `BarrierKeepsData` proves that this exit of
   the loop is the only cause: behind the barrier, or a read that fails, nobody
   is pending any more.
2. `dead_joined`. A handler whose buffer is full leaves, and waits for its
   sender. `copy_to_buffer` has sent its last broadcast when it returns ENOBUFS.
   If the sender drains the buffer before the handler clears `handler_running`,
   it then waits for new elements in a loop that looks at `running` only
   (handler.c:227). The two wait for each other until the daemon is stopped, and
   the collector waits for the handler, so that no further handler is joined.
   `RoomKeepsJoinsShort` proves that it takes an ENOBUFS to come to this, and
   `NothingFreesTheHung` that nothing but a stop ends it.
3. `welcome_first`. A handler closes its descriptor before it joins its sender
   (handler.c:430, 434). The sender, in the middle of a data set, writes the
   rest to the same number, which may be the next client's by then. That client
   finds it in place of the welcome message and fails its assertion
   (libpmlab.c:111). `OnlyStaleWritersMix` says that streams are spoilt in this
   way only, and `RestingNumbersSuffice` that it is all that stands between the
   code and the order in which several clients receive their data: it is enough
   that nobody is given the number before the sender has ended. The assertion
   itself holds under the same condition (`WelcomeComesFirst`).

### Other observations

The models contain the following behaviour as well. It follows from one line
each, so that no run is spent on finding it; the properties named say how far its
effects go.

- `wait_read_barrier` leaves its loop when the barrier is open *or* `running` is
  false, and then asserts that it is open (sync.c:202-203): a stop while a
  handler has yet to copy aborts the daemon (`NiBarrierAborts`).
  `FailsFromOutside`: only then.
- `pthread_cancel` on a collector that has returned by itself may answer ESRCH,
  which daemon.c:397 asserts away (`MainCancelAborts`; it depends on the C
  library). Only after a stop, too.
- main frees the sets (daemon.c:402) while a handler may be on its way out
  (`UsesFreedSets`). Only after a stop, too.
- A client that hangs up before the welcome message is written makes
  `full_write` return -1, and the assertion at handler.c:395 ends the daemon for
  all clients (`WelcomeAborts`), whether it was stopped or not.
- A handler that refuses a request never registered, so it does not enter the
  dead set (handler.c:425) and nobody joins it: each refused client leaks a
  thread, although sync.c:58 says the set holds all dead handlers.
  `ServedAreCollected`: those that registered are not lost.
- `timestamp` is advanced by the length of the chunk before it is published with
  it (daemon.c:228-234), so that it is the time of the sample behind the chunk;
  libpmlab.h:63 says it is that of the first sample. `RowsEvenlySpaced`: the
  rows are late by a chunk, and keep their distance as long as chunks have one
  length; when the card delivers more or fewer samples than before, the rows
  jump by the difference. `TruncationBounded` compares with the end of the
  chunk, too.
- Until the first chunk, a second after the start, requests are compared with
  whatever main's stack held (daemon.c:357, handler.c:369): a good list may be
  refused, and a channel the device does not have may pass, after which
  `write_dataset` reads behind the samples (handler.c:100) for as long as the
  client stays. `PrintedIsMeasured`: the columns compared later are sound.
- `parse_channels` goes on while the list has *at most* eight entries, and
  stores a ninth (pmlabclient.c:50). `PrintedIsMeasured`: the daemon serves no
  such list, whatever has become of its last channel.
- When no descriptor is left `accept` returns -1, and a handler is started on it
  (daemon.c:345). Its request fails, so does its `close`, and handler.c:431 ends
  the daemon (`CloseAborts` of `Handler` and of `Server`). When no thread is left,
  to which the threads of refused clients contribute, daemon.c:285 or
  handler.c:388 ends it (`MainLaunchAborts`, `SpawnAborts`). Neither needs a
  stop.
- A connection that fails before the number of channels is written, or while
  `pm_read` reads, fails an assertion of the library (libpmlab.c:102, 155), where
  libpmlab.h:40 and 69 promise NULL or a negative value; the branch of the client
  that handles one (pmlabclient.c:177) cannot be reached. `ImplementsFeed`: no
  wrong data set is returned and no end reported meanwhile.

## 5. The proofs

All proofs are checked by tlapm with the SMT, Zenon and LS4 backends.

**DaemonProofs, the monitor**: for any set of handlers, the most general client keeps the types
(`SyncTypes`), the partition (`PartitionHolds`) and `DeadAreGone`
(`DeadStayGone`). The partition is inductive given the assertion of `set_ready`:
without it, a handler that is not pending would enter `done` without being
active. `DeadAreGone` needs the partition: leaving removes the handler from
`alive`, and everything else is part of that.

**DaemonProofs, the daemon**: `Spec => []Inv` (`InvHolds`) for any set of handlers, any
`MaxChunk` and `BufSize` of at least two, and all faults. `Inv` is defined at the
end of `Daemon` and is checked by TLC in `daemon_shutdown`. Its conjuncts, and
what each is needed for:

| conjunct | says | needed because |
|---|---|---|
| `DaemonTypeOK` | types, and the bound of each buffer | a buffer that grows in `CopyEnd` stays below its size only because of `CopiersPending` |
| `SetsPartition` | sync.c:61-63 | an open barrier (`done = active`) means nobody is pending |
| `SetsMatchPlaces` | the sets a handler may be in follow from its place | the assertions of `dec_available_handlers`; registering and joining act on an identifier in no set |
| `CopiersPending` | a handler is pending from the test behind its wait until `set_ready` | a copy never overlaps a write |
| `BarrierHolds` | from barrier to reset nobody is pending | `read_ni` overwrites the samples there |
| `HeaderFollows` | the record is one chunk behind the samples exactly while it is being published | the chunk copied is the one announced |
| `Lag` | done handlers have the record's chunk, pending ones the one before | the next chunk appended is the successor of the last |
| `GaplessStreams` | each buffer is a run that continues what was sent | follows from `Lag` at the step that appends |
| `NoLostWakeup` | a sleeper whose condition holds has a broadcast coming | is inductive with the partition and `SetsMatchPlaces` |

The steps fall into groups, one lemma each: those that change nothing `Inv`
speaks of, those that only move one handler on, those that change the sets
(`RegisterKeeps`, `ReadyKeeps`, `LeaveKeeps`), those that change a stream
(`CopyEndKeeps`, `SenderTakeKeeps`, `JoinSenderKeeps`), and those of the
acquisition thread (`NiReadKeeps`, `NiResetKeeps`, `NiMoveKeeps`). From `Inv`
follow `TypesHold`, `DaemonPartition`, `NoOverwrite`, `NoGaps`,
`SyncAssertionsHold`, `WakeupsArrive` and `JoinsAreUnique`.

**DaemonProofs, failures**: two more invariants of the daemon's specification, each inductive
with `Inv`. `FailsFromOutside` (`NothingFailsFromWithin`) needs `StopInv`: the
acquisition thread leaves its loop, main leaves its own, and the sets are freed,
only when `running` is false, and nothing sets it again; the partition rules out
a failed barrier assertion while the daemon runs. What clients, descriptors and
threads that have run out do to a daemon is left out of the claim, not of the
model. `ServedAreCollected`
(`ServedAreJoined`) says that a handler with a sender is in the dead set, or with
the collector, once it has left; `CollectInv` adds that a handler without a sender
is one that refused or has not started, and that the collector has at most one
handler at a time.

**DaemonProofs, what two of the findings rest on**: a counterexample shows one
behaviour; these theorems say what all of them have in common. Each takes the
suspected cause away by a premise on the steps, which the other steps of the
daemon meet, and proves that nothing goes wrong without it.

- `Spec /\ [][BehindBarrier]_vars => [](DataIsThereToCopy /\ ...)`
  (`BarrierKeepsData`): the premise is that the acquisition thread does not
  leave at its loop test. `FreedBehind` says that nobody is pending once the
  samples are about to be freed; `BarrierHolds` of `Inv` gives it at the two
  other exits.
- `Spec /\ [][NobodyIsFull]_vars => []JoinsAreShort` (`RoomKeepsJoinsShort`):
  the premise is that no `copy_to_buffer` answers ENOBUFS. A handler of a running
  daemon then leaves only because its sender has lowered the flag, which is the
  last thing a sender does (`FlagInv`).
- `Spec => HungForEver` (`NothingFreesTheHung`): the state in which sender,
  handler and collector wait for each other (`Hung`) is left only when `running`
  is cleared. There is no premise. It needs that a thread in `join` is in no set
  somebody else acts on (`Inv`, `CollectInv`) and that the collector is cancelled
  behind the stop only (`CancelInv`).

**DaemonProofs, the broadcast**: `Spec => ImplementsBroadcast` (`DaemonIsABroadcast`), the
refinement that `daemon_fanout` checks for two handlers. Five steps are steps of
the broadcast: `NiPublish` produces (nobody owes the last chunk a look, by
`BarrierHolds`), `NiReset` announces, `Register` subscribes (with nothing
received, by `Lag`), `CopyEnd` receives, `Leave` unsubscribes. Every other step
leaves the mapped state as it is: either it changes none of its parts
(`ChannelStill`), or it changes them where it does not show, as `set_ready`,
which takes a handler that has finished its copy out of the pending set, and the
steps that begin and end the life of a handler that is not registered.

**BroadcastProofs**: the broadcast itself keeps `NeverBehind`
(`SubscribersKeepUp`) and `InOrder` (`DeliveryInOrder`) for any number of
subscribers; the invariant adds that nobody owes a look at a chunk that was not
announced. With the refinement this is the daemon's promise to its clients'
buffers; `NoGaps` carries it on to what their senders write.

**SendBufferProofs**: `Spec => []TypeOK` (`ElementsInside`), `Spec => []OneOwner`
(`BlocksHaveOneOwner`) and `Spec => ImplementsFifo` (`ArrayIsAQueue`) for an
array of any length from two and any set of blocks. `OneOwner` counts: as many
blocks are allocated as the live elements and the sender have. That the count
survives a step is due to what `BufInv` adds: the live elements are distinct,
the sender holds at most one block and that one is not in the array any more,
and the array is thrown away only when handler and sender have ended. The move
to the front (`MoveKeepsElements`) leaves the same elements at other places, so
that both ways to append share one lemma (`CopyAtKeeps`), and copying behind the
move is the same `Put` of the queue as copying without it.

**FullIOProofs**: `Spec => []Intact` (`SegmentsArriveIntact`) and
`Spec => ImplementsSegments` (`CallsTransferSegments`), for any list of segment
sizes, zeros included, and any room in the kernel. The place of a byte in the
kernel could be computed from the sizes of all segments before it, by a sum
nothing can be proved about here; the invariant relates neighbours instead.
`Joined(m, o, n, k)` says that offset `o` of segment `m` and offset `k` of
segment `n` are the same place in the stream, with nothing but empty segments
between them.

| conjunct of `IOInv` | says | needed because |
|---|---|---|
| `Counted` | what is left and what is done add up to the segment | the loops end at its end |
| `InStream(pipe)` | each byte in the kernel joins the one before, and as long as a segment lasts they are numbered one by one | a read takes several bytes at once |
| `ReaderNext` | the first byte is the one the reader wants next | what was read so far goes on without a gap |
| `WriterLast` | the last byte is the one written last; without any, the two ends are at the same place | the next write joins it |
| `PartRead`, `Intact` | what was read of this segment, and of the ones before | the segment is complete when its last byte is |
| `Written` | nothing is read ahead of the writer, also after a failure | the reader's return is a delivery of something sent |

`AppendKeepsStream` and `DropKeepsStream` are the two things that happen to the
bytes in the kernel; they know nothing of the loops. The end of the stream comes
behind everything that was written because of `WriterLast`: an empty kernel of a
connection that has not failed means that the two ends have met.

**TimingProofs**: `DeadlineExact` (`TimeoutsExact`), `TruncationBounded`
(`TruncationStaysBounded`), `ScheduleMatches` (`ScheduleHolds`) and
`RowsEvenlySpaced` (`RowsStayEven`), for every length of a second, width of the
integers, timeout and sampling rate. The first
rests on `TimeoutSum`: behind a carry the sum of the nanoseconds lies below the
nanoseconds of the timeout, so that the assertion of sync.c:167 holds only
because these are at most half a second. The second and the fourth rest on what
one division loses (`ChunkTruncates`), less than a nanosecond; the second adds it
up, chunk by chunk. The third, and the fourth where it is exact, need that a
chunk of the built-in device is exactly a second long (`Second * Rate \div Rate`).

**DataPathProofs**: `Spec => []ColumnsAreChannels` (`OutputIsWhatWasAsked`) and
`Spec => []PrintedIsMeasured` (`PrintedWasMeasured`), for any device, any lists
of channels, anything left in memory and any lengths of a chunk the library's
buffer has room for. Three pieces of
code compute an offset, each with its own loops: `read_ni` groups the samples by
channel, `pm_read` groups them by the place in the list, and the client walks
over them row by row. `OffsetParts` recovers channel and index from an offset,
`OffsetBelow` says that the samples of a channel end before those of the next one
begin. `PathInv` has what each stage knows:

| conjunct of `PathInv` | says | needed because |
|---|---|---|
| `PathTypeOK` | types; `chosen` and `wanted` are equal as long as they fit in the array | the list that is served is the one asked for |
| `Acquired` | from the first chunk on the record is the device's | a comparison means something |
| `Tested` | the early channels come first, and those compared behind them are the device's | carries the comparison, one channel at a time, to the printing |
| `Admitted` | a list that is too long gets no further than to the count; behind the test all channels have passed | `pm_read` stays inside its buffer |
| `OnTheWay`, `InBuffer`, `Printed` | where the samples of a channel are | each copy takes them from where the last has put them |

The first holds column by column: a channel the device does not have spoils no
column but its own.

**SessionProofs**: `Spec => []OwnDescriptor` (`DescriptorsOwned`) and
`Spec => OnlyStaleWritersMix` (`SpoiltByStaleSendersOnly`) for any number of
connections and descriptors, any buffer and window, and all faults. Neither is
inductive alone; `SessionInv` is, with these conjuncts:

| conjunct | says | needed because |
|---|---|---|
| `SessionTypeOK` | types of what the others speak of | a write goes to a connection |
| `OwnDescriptor` | from accept to close `table[hfd[c]] = c` | a close frees the handler's own number, so nobody else loses his |
| `SendersServe` | a sender's handler is between accept and join | a write happens while the handler owns the number, or in `join` |
| `SleepersOwn` | a sender sleeps on its own connection until its handler closes | a write that wakes up goes where it went to sleep |
| `NumberKept` | a handler in `join` still has a number | its sender looks it up |

The clients and the network change only the streams, and shorten them; a step of
the daemon lengthens at most one, by a segment whose author `WrittenGoes` names.

**SessionProofs, the promise**: daemon, connections and library implement `Feed`,
for any number of connections, descriptors and chunk numbers, any buffer and
window, any requests, and all faults, as long as no thread of another connection
writes into a stream (`NoStranger`):
`Spec /\ [][NoStranger]_vars => ImplementsFeed` (`UnspoiltStreamsAreFeeds`).
Without a premise it is not true, as finding 3 shows. By
`SpoiltByStaleSendersOnly` the premise can only fail in a write of a sender whose
handler has closed; two theorems discharge it:

- `RestingNumbersSuffice`: `Spec /\ []NumbersRest => ImplementsFeed`. Senders
  then sleep on their own connections only (`HeldOwn`), and a number that was
  closed leads nowhere. The premise restrains `accept` only: clients come, read
  side by side and go under it.
- `OneClientIsFed`: with one connection there is no other thread, and nothing is
  assumed.

`FeedInv`, with `SessionInv`, is the inductive invariant. It gives every segment
of a connection's stream a place: 1 is the welcome message, 2 the rate, and then
three to a data set (`KindAt`). A client expects the segment at `Phase(at[c])`.

| conjunct of `FeedInv` | says | needed because |
|---|---|---|
| `FeedTypeOK` | types of what `SessionInv` leaves open | |
| `NextIsDue` | a subscriber has the current chunk or the one before it, as in `BroadcastProofs` | the next chunk copied is the successor of the last |
| `TableOwn` | a number that leads to a connection is its handler's | nobody's close ends another connection |
| `LinksReferred` | a link is open as long as a descriptor or a sleeping write refers to it | the end comes behind a sender's last write |
| `ThreadsIdle` | before the request is accepted there is no sender, no subscription and an empty buffer; a chunk is being written only at the places of `write_dataset` | the handler greets before its sender writes |
| `ClientPlace` | where a client can be, given its link; it has nothing to read when it has not connected or has gone | the stages of `Feed` follow from `at` |
| `StreamKinds` | the segments under way are those from the client's place on, in order | the client never loses its place (`NothingGarbled`) |
| `WriterPlace` | handler and sender stand at the place behind the last segment under way | the next segment continues them |
| `NumbersGoUp` | from the client through the stream, the sender and its buffer to the broadcast the chunk numbers go up one by one (`Chain`) | a data set put into the stream is the successor of the newest |

`WriterPlace` and `NumbersGoUp` speak only of connections to which the sender's
writes still go (`Reaches`): behind a hang-up or a failure a sender may write
what it likes. `DataSetsAre` computes the data sets of a stream from the number of
segments, and `AppendPlaced`, `TailBody`, `TailOther` and `PrefixPlaced` are what
writing, reading and losing segments do to them. Of the steps, `body` written is
`Put`, `body` read is `Get`, `rate` read is `Join`, an end of the link is
`HangUp` or `Cut`, and the ends of a client are `End` and `Leave`
(`PromisePuts` and its neighbours); every other step leaves the mapped state as
it is.

**SessionProofs, segment by segment**: `Feed` speaks of whole data sets. What the
library asserts is about single segments: `InStep` says that each call of
`full_read` finds the segment its caller expects, and `WelcomeIsFirst` that
the assertion of libpmlab.c:111 holds. Both follow from `StreamKinds` where
`FeedInv` holds (`NothingGarbled`), so they have the same two forms:
`ReadersKeepStep` and `WelcomeComesFirst` under `[]NumbersRest`,
`OneClientKeepsStep` and `OneClientIsWelcome` without a premise.

**FeedProofs**: what the promise is worth. For any number of clients and chunks,
`Feed` returns a run of data sets to each (`ReadsAreARun`) and reports the end only
behind what was left of the stream (`EndComesLast`). The invariant is that what
is in flight is a run that goes on where the caller is (`Runs`). `SessionProofs`
instantiates the module under the mapping of `Promise` and draws `ReadsInOrder`
from it: `CallersReadInOrder` under `[]NumbersRest`, `OneClientReadsInOrder`
without a premise. This is the property checking_lab_client.sh samples.

Assumptions on the constants: `ChunkAssumption` (at least two chunk numbers),
`FaultAssumption`, `BufAssumption` (an array of at least two places, where the
code has 8; with one place no chunk would ever fit). Nothing is assumed
about `Handlers`. `WaitAssumption` (the timeout's nanoseconds are at most half a
second; the code has exactly half), `WidthAssumption` (integers are even in
number and hold two seconds), `RateAssumption`, `SecondAssumption`;
`ConnAssumption`, `FdAssumption` (`NoConn` and `NoFd` are no connection and no
descriptor), `WindowAssumption`, `RoomAssumption`. For the send buffer
`SizeAssumption` (as `BufAssumption`) and `GarbageAssumption` (what was never
written is no block); for the calls `SizesAssumption` (sizes are numbers) and
`WindowAssumption` (the kernel has room for a byte); for the way of the samples
`CountsAssumption` (numbers of channels, places and what memory holds are
numbers), `ArrayAssumption` (the daemon's limit does not exceed the client's
array: both are 8, handler.c:43 and pmlabclient.c:107),
`ListsAssumption` (channels are numbers from 0) and `LensAssumption`: chunks are
short enough for `MaxChannels` of them to fit in the client's buffer, as a chunk
of the daemon is (daemon.c:54, pmlabclient.c:33).

**Only model-checked.** Liveness (`AcquisitionProgress`, `ShutdownCompletes`,
`ConversationEnds`, `GoneClientReleased`, `IdleClientDropped`,
`HangupReachesClient`) is out of the prover's reach, as is anything about
ENABLED. Every safety property that a passing run checks is stated by a theorem;
of them only `ImplementsFeed`, `ReadsInOrder` and `InStep` need a premise, and
only when there is more than one client. Of the three properties that the code
does not keep, `DataIsThereToCopy` and `WelcomeIsFirst` are proved without the
step that breaks them; `DeadAreJoined` is a liveness property, and what is proved
around it are the two theorems above.

## 6. Abstractions

- In `Daemon` and `Session` a chunk is a number. Timestamps are in `Timing`,
  samples and channels in `DataPath`, each by itself: neither has a choice that
  depends on the other, nor on the threads.
- In `Daemon` writing to the client is one step that succeeds or fails and the
  request is read in one step; `Server` has them segment by segment.
- A segment is atomic in `Sockets`; `FullIO` is why. A segment that is cut off by
  the end of the stream counts as not written: `full_read` returns 0 for it just
  as for an end between two segments.
- A `write` that sleeps keeps its connection although the descriptor is closed
  meanwhile, as on Linux.
- A connection that fails before it was accepted is not accepted any more; Linux
  would hand out a connection whose first read fails, which `RequestFails`
  covers from `open`.
- A failing name lookup is a connection that is refused.
- The clock is never set back; `clock_nanosleep` is not ended early by a signal
  (SIGINT would end the daemon anyway).
- The variants of the code under `__MACH__` are not modelled.
- The encoding by protobuf-c is the identity on the list of channels and their
  samples.
- After the ninth channel has been stored behind the array the client goes on
  with a list of nine, whose last channel is what was stored or was overwritten,
  or it ends; what else it may overwrite is not followed.
- Reading behind the samples (`Nothing`) returns something; it may also end the
  daemon, as `FailsFromOutside` says in its comment.
- An error of `ppoll` other than an interruption (daemon.c:343) does not happen.
- Condition variables have no spurious wake-ups of their own; timeouts, which
  may happen at any moment, have the same effect for all but the collector, and
  for it a spurious wake-up only repeats the test of the same condition.
- Reads of the volatile flags are atomic.
- Allocation does not fail (the code asserts that it does not).
- The reading of the record and of the samples in `copy_to_buffer` is one
  interval with the buffer locked; the record's own lock is not modelled, since
  `BufferStable` shows that the record is never written during the interval.

## 7. Plan

Done: `Sync`, `Acquisition`, `Handler`, `Daemon`, `Broadcast`, `SendBuffer`,
`BoundedFifo`, then `FullIO`, `Segments`, `Timing`, `DataPath`, and `Sockets`,
`Server`, `Client`, `Session`, `Feed`, with their runs and the proof modules
above; in this order because the barrier and the sets are what everything else
rests on.

Left: the set-up of the listening socket, below, is the only control of the
daemon without a model.

### Not modelled

- The set-up of the listening socket (daemon.c:297-332): it happens once, before
  anything is served; a `bind` that fails ends the process.
- `init_ni` and `finish_ni`, calls of the card's driver: a card that cannot be
  set up shows as a read that fails, which is modelled.
- The bytes of the protobuf messages: the code is generated, the schema is
  `protos/measured-data.proto`.
- Text output, logging, `print_sets`, usage messages.
- The table of test samples, the plotting and analysis scripts, the slides and
  the build scripts: they have no state of the system.

## 8. Running the checks

```
tlc -config MCFanout.cfg MCDaemon.tla      # about a minute and a half
tlc -config MCShutdown.cfg MCDaemon.tla
tlapm DaemonProofs.tla
tlapm BroadcastProofs.tla
tlapm SendBufferProofs.tla
tlapm FullIOProofs.tla
tlc -config MCOwners.cfg MCSession.tla     # about a minute
tlc -config MCOneClient.cfg MCSession.tla  # about a minute and a half
tlapm TimingProofs.tla
tlapm DataPathProofs.tla
tlapm SessionProofs.tla                    # about three minutes
tlapm FeedProofs.tla
```

The other configurations are run with the module `PROJECT.json` names for them.
