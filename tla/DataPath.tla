------------------------------ MODULE DataPath ------------------------------
(***************************************************************************)
(* The way of the samples from the measuring device to the columns of the  *)
(* client's output: parse_channels of client/pmlabclient.c, the handler's  *)
(* check of the request and write_dataset of daemon/handler.c, pm_read of  *)
(* client/libpmlab.c, and the client's printing.                           *)
(*                                                                         *)
(* A sample is <<channel, index, chunk>>, so one that ends up in another   *)
(* column, row or chunk is noticed.  Arrays are indexed from 0 as in C.    *)
(* One request is followed, while the device publishes chunks: the handler *)
(* compares channel after channel with a record that it reads without its  *)
(* lock, and that nobody has set before the first chunk.  The threads are  *)
(* the subject of Daemon.                                                  *)
(***************************************************************************)
EXTENDS Integers, Sequences

CONSTANTS
  ArraySize,       \* the length of chosen_channels and of all_channels
  MaxChannels,     \* MAX_CHANNELS of handler.c
  DeviceChannels,  \* num_channels of ni_thread_main
  BufferSizes,     \* BUFFER_SIZES of pmlabclient.c
  Leftover,        \* what memory may hold that was not set, or overwritten
  Lens,            \* samples per channel of a chunk
  Words,           \* arguments given to the command line client
  Lists,           \* channel lists given to pm_connect by other programs
  MaxArgs,         \* bound: arguments on the command line
  MaxChunks        \* bound: chunks read

\* Channels and lengths are unsigned in the code.  A list that passes the
\* handler's test fits into the client's buffer with any chunk: the device
\* delivers at most 30000 samples per channel (daemon.c:54) and the buffer has
\* room for 50000 of each of eight channels (pmlabclient.c:33).
ASSUME CountsAssumption ==
  /\ ArraySize \in Nat /\ MaxChannels \in Nat /\ DeviceChannels \in Nat
  /\ BufferSizes \in Nat
  /\ Leftover \subseteq Nat
\* The limit of the daemon does not exceed the array of the client; both are
\* 8, written down twice (handler.c:43, pmlabclient.c:107).
ASSUME ArrayAssumption == MaxChannels <= ArraySize
ASSUME ListsAssumption == Lists \subseteq Seq(Nat)
ASSUME LensAssumption ==
  \A len \in Lens : len \in Nat /\ MaxChannels * len <= BufferSizes

VARIABLES
  stage,        \* how far the request has come
  args,         \* arguments parsed: parse_channels' i
  wanted,       \* (not in the code) the channels the arguments stand for
  chosen,       \* chosen_channels up to active_channels, as they are sent
  checked,      \* the handler's i: channels that have passed its test
  early,        \* (not in the code) those that passed before the first chunk
  numChannels,  \* data_info->num_channels
  chunk,        \* data_info: number and points_per_channel
  message,      \* the DataSet on its way
  buffer,       \* analog_data of the client
  rows          \* what the client has printed of the last data set

\* What the daemon's record does not depend on, and the reverse
record  == <<numChannels, chunk>>
request == <<args, wanted, chosen>>
test    == <<checked, early>>
output  == <<message, buffer, rows>>

vars == <<stage, record, request, test, output>>

Device == 0 .. DeviceChannels - 1
Nothing == <<-1, -1, -1>>        \* memory that holds no sample of the chunk

\* The names of the command line; pm2 ... are names of AI1 ... (conf.h).
ChannelOf ==
  [ai0 |-> 0, ai1 |-> 1, ai2 |-> 2, ai3 |-> 3, ai4 |-> 4, ai5 |-> 5,
   ai6 |-> 6, ai7 |-> 7,
   pm2 |-> 1, pm3 |-> 2, pm4 |-> 3, pm5 |-> 4, pm6 |-> 5, pm7 |-> 6]

\* all_channels of pmlabclient.c
AllChannels == [i \in 1 .. ArraySize |-> i - 1]

Init ==
  /\ \/ stage = "parse" /\ wanted = << >>
     \/ stage = "request" /\ wanted \in Lists
  /\ chosen = wanted
  /\ args = 0
  /\ checked = 0 /\ early = 0
  /\ \/ /\ chunk = [no |-> 0, len |-> 0]
        /\ numChannels \in Leftover
     \/ /\ chunk \in [no : {1}, len : Lens]
        /\ numChannels = DeviceChannels
  /\ message = << >>
  /\ buffer = [x \in 0 .. BufferSizes - 1 |-> Nothing]
  /\ rows = << >>

\* The device is read and the record filled in.
Acquire(len) ==
  /\ chunk.no < MaxChunks
  /\ stage \in {"parse", "request", "checking", "accepted", "printed"}
  /\ chunk' = [no |-> chunk.no + 1, len |-> len]
  /\ numChannels' = DeviceChannels
  /\ UNCHANGED <<stage, request, test, output>>

\* The samples of the chunk, grouped by channel (DAQmx_Val_GroupByChannel)
AnalogData(x) ==
  IF x \in 0 .. DeviceChannels * chunk.len - 1
    THEN <<x \div chunk.len, x % chunk.len, chunk.no>>
    ELSE Nothing

-----------------------------------------------------------------------------
\* The loop of parse_channels goes on: i < argc && active <= max_channels
Parsing ==
  stage = "parse" /\ args < MaxArgs /\ Len(chosen) <= ArraySize

\* A known name is stored at chosen_channels[active_channels++] ...
ParseName(w) ==
  /\ Parsing /\ w \in DOMAIN ChannelOf /\ Len(chosen) < ArraySize
  /\ chosen' = Append(chosen, ChannelOf[w])
  /\ wanted' = Append(wanted, ChannelOf[w])
  /\ args' = args + 1
  /\ UNCHANGED <<stage, record, test, output>>

\* ... also when the array is full, which is undefined: what is behind the
\* array keeps the channel, or is put to another use before the list is sent,
\* or the client ends by it ...
ParseBehind(w) ==
  /\ Parsing /\ w \in DOMAIN ChannelOf /\ Len(chosen) = ArraySize
  /\ \E c \in {ChannelOf[w]} \cup Leftover : chosen' = Append(chosen, c)
  /\ wanted' = Append(wanted, ChannelOf[w])
  /\ args' = args + 1
  /\ stage' \in {"parse", "crashed"}
  /\ UNCHANGED <<record, test, output>>

\* ... `all' replaces what was named before and ends the loop ...
ParseAll ==
  /\ Parsing
  /\ chosen' = AllChannels
  /\ wanted' = AllChannels
  /\ stage' = "request"
  /\ args' = args + 1
  /\ UNCHANGED <<record, test, output>>

\* ... and anything else is ignored.
ParseOther(w) ==
  /\ Parsing /\ w \notin DOMAIN ChannelOf \cup {"all"}
  /\ args' = args + 1
  /\ UNCHANGED <<stage, wanted, chosen, record, test, output>>

\* The arguments are used up (there is at least one: pmlabclient.c:120), or the
\* loop stops for the length of the list.
ParseEnds ==
  /\ stage = "parse" /\ args > 0
  /\ stage' = "request"
  /\ UNCHANGED <<request, record, test, output>>

-----------------------------------------------------------------------------
\* The handler has read the number of channels, and it is too large ...
RequestTooLong ==
  /\ stage = "request" /\ Len(chosen) > MaxChannels
  /\ stage' = "refused"
  /\ UNCHANGED <<request, record, test, output>>

\* ... or it reads the channels, too, and begins to test them.
RequestRead ==
  /\ stage = "request" /\ Len(chosen) <= MaxChannels
  /\ stage' = "checking"
  /\ UNCHANGED <<request, record, test, output>>

\* Mutant: the channel behind the last one of the device passes.
NextChannelFitsOffByOne == chosen[checked + 1] <= numChannels

\* The next channel against the record as it is now, without its lock
NextChannelFits == chosen[checked + 1] < numChannels

ChannelPasses ==
  /\ stage = "checking" /\ checked < Len(chosen) /\ NextChannelFits
  /\ checked' = checked + 1
  /\ early' = IF chunk.no = 0 THEN early + 1 ELSE early
  /\ UNCHANGED <<stage, request, record, output>>

ChannelFails ==
  /\ stage = "checking" /\ checked < Len(chosen) /\ ~NextChannelFits
  /\ stage' = "refused"
  /\ UNCHANGED <<request, record, test, output>>

\* The loop is done: the sender gets the list.
CheckEnds ==
  /\ stage = "checking" /\ checked = Len(chosen)
  /\ stage' = "accepted"
  /\ UNCHANGED <<request, record, test, output>>

\* Mutant: the channels are sent in the order in which they were measured.
EncodedByPosition(j) ==
  [k \in 1 .. chunk.len |-> AnalogData((j - 1) * chunk.len + k - 1)]

\* The data points of the j-th channel of the list
Encoded(j) ==
  [k \in 1 .. chunk.len |-> AnalogData(chosen[j] * chunk.len + k - 1)]

\* write_dataset, of the chunk the sender has a copy of
WriteDataset ==
  /\ stage \in {"accepted", "printed"} /\ chunk.no > 0
  /\ message' = [j \in 1 .. Len(chosen) |-> Encoded(j)]
  /\ stage' = "sent"
  /\ UNCHANGED <<request, record, test, buffer, rows>>

\* pm_read puts the channels behind each other; for more than the buffer
\* holds an assertion ends the client, and it goes no further.
SamplesRead == IF message = << >> THEN 0 ELSE Len(message[1])

PmReadFits == Len(message) * SamplesRead <= BufferSizes

PmRead ==
  /\ stage = "sent" /\ PmReadFits
  /\ buffer' = [x \in DOMAIN buffer |->
                  IF x < Len(message) * SamplesRead
                    THEN message[(x \div SamplesRead) + 1][(x % SamplesRead) + 1]
                    ELSE buffer[x]]
  /\ stage' = "read"
  /\ UNCHANGED <<request, record, test, message, rows>>

\* The client prints row by row: analog_data[i+j*sample_count].
Output ==
  /\ stage = "read"
  /\ rows' = [i \in 1 .. SamplesRead |->
               [j \in 1 .. Len(chosen) |->
                  buffer[(i - 1) + (j - 1) * SamplesRead]]]
  /\ stage' = "printed"
  /\ UNCHANGED <<request, record, test, message, buffer>>

Next ==
  \/ \E len \in Lens : Acquire(len)
  \/ \E w \in Words : \/ ParseName(w) \/ ParseBehind(w) \/ ParseOther(w)
                      \/ w = "all" /\ ParseAll
  \/ ParseEnds \/ RequestTooLong \/ RequestRead
  \/ ChannelPasses \/ ChannelFails \/ CheckEnds
  \/ WriteDataset \/ PmRead \/ Output

Spec == Init /\ [][Next]_vars

-----------------------------------------------------------------------------
\* Column j of the output is the channel named by the j-th name of the command
\* line, row i its i-th sample, and all of the same chunk: four places compute
\* an offset into the samples (handler.c:100, libpmlab.c:189 and 198,
\* pmlabclient.c:189) and have to agree, also when the next chunk is shorter
\* and when a column beside it holds a channel the device does not have.
\* And what is sent fits into the client's buffer (libpmlab.c:186).
ColumnsAreChannels ==
  /\ stage = "printed" =>
       \E n \in 1 .. chunk.no :
         \A i \in 1 .. Len(rows), j \in 1 .. Len(wanted) :
           wanted[j] \in Device => rows[i][j] = <<wanted[j], i - 1, n>>
  /\ stage = "sent" => PmReadFits

\* What a client prints was measured: a value that is none of the device's
\* stands only in a column whose channel the handler has compared before the
\* first chunk (handler.c:369, with a record nobody has set), although the
\* record may change between two comparisons and between them and the sending.
\* And a list that the command line has stored behind its array of eight
\* (pmlabclient.c:50), where its last channel may have become another one, is
\* never served.
PrintedIsMeasured ==
  stage = "printed" =>
    /\ Len(wanted) <= ArraySize
    /\ \A i \in 1 .. Len(rows), j \in 1 .. Len(wanted) :
         rows[i][j] = Nothing => j <= early
=============================================================================
