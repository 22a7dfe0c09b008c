# UCP in TLA+

UCP transfers a file over UDP. The client reads the file in packets and sends
each one as a datagram; the server writes the packets to a file, answers each
of them over a TCP connection with a control packet (ACK, NACK or FIN), and
asks for the ones it misses. This directory holds a model of that protocol,
the TLC configurations that check it on small instances, and TLAPS proofs about
all of its parts: the sequencer, the linked list, the threads of the client, the
transfer as a whole and the files. Paths are those of the repository,
`src/src/ucp_client.c` for instance is the client.

## The system

| component | state | operations | interacts with |
|---|---|---|---|
| client thread (`ucp_client.c`, `block_thread`) | windows of packets in flight and pending, position in the file, `done` | send metadata, accept, send a packet, tick, act on a control packet | sends datagrams; owns the TCP server; called back by it (`on_ack_received`) |
| client main | thread contexts, partition handles | parse arguments, partition, create ten threads, join, statistics | shares both windows, `done` and the descriptors of the process with all threads, without a lock |
| server main (`ucp_server.c`) | socket, connection, two threads | receive metadata, open file, connect back, join, exit | starts and joins the threads |
| receiving thread | the file | receive, save, push a report | pushes to `seq_queue` under a mutex |
| sequencing thread | the sequencer | pop a report, answer it, add it, ask for what is missing, FIN | pops from `seq_queue`; writes to the TCP connection |
| sequencer (`sequencer.c`) | list of ranges, `maxSeqNo`, `expectedLastSeqNo` | add, check, complete (which also merges), iterate missing | called by the sequencing thread only |
| packet codec (`ucp_packet.c`) | none | encode and decode of three kinds of packet | called by client and server |
| TCP sockets (`tcp_socket.c`) | descriptor set, `max_sd`, endpoints | start, accept, tick, receive, connect, send, close | the client's tick reads once and calls `on_rx` with the bytes |
| UDP sockets (`udp_socket.c`) | none | thin wrappers | |
| file I/O (`file_io.c`) | a handle per part | partition, next packet, save, open with a size, merge | used by both sides |
| linked list (`linked_list.c`) | circular list with an anchor, `num_members` | append, insert, unlink, first, next, ... | windows, queue, sequencer |

What is hard here, and what makes each part correct:

* **Client windows.** Answers come late, twice, coalesced with others into one
  read, or cut in two. A packet must have one place in the windows, stay there
  until the server has saved it, and not come back afterwards.
* **Two server threads and the queue.** Save, report, answer and requests for
  missing packets are separate steps and a packet may arrive again between
  any two of them. What is acknowledged must have been saved.
* **Sequencer.** Numbers arrive in any order and more than once; ranges are
  extended at both ends, merged, inserted and, in one case, not inserted at
  all. It must not record a number that did not arrive and must not call
  itself complete early.
* **Byte stream.** A control packet is six bytes in a stream, a read is handed
  to a decoder that looks at the first six bytes of it.
* **Threads, ports and descriptors.** Ten threads set up sockets in one table of
  descriptors, `socket()` and `accept` reuse the numbers others have closed, and
  a tick scans a range of numbers. A thread's descriptors must stay its own and
  in that range. The windows have no lock, so only one thread may get to use them;
  and on one host the second thread and the server want the same port.
* **Offsets.** Segments are written in any order, several times and partly, at
  32-bit offsets, into a file that may be shorter than announced. Each byte must
  come to its place.
* **Termination.** The client ends when nothing is left or a FIN comes, the
  server when the sequencer is complete.

`PROJECT.json` lists the hazards line by line with the properties that watch
them.

## Modules

| module | models | used by |
|---|---|---|
| `Sequencer` | the functions of `sequencer.c` as operators on a `sequencer_t` | `SequencingLoop`, `UcpServer` |
| `SequencingLoop` | `sequencing_thread`'s loop around the sequencer, with any numbers in any order | |
| `SequencerSet` | abstract: the sequencer as a set of recorded numbers | refined by `SequencingLoop` |
| `ListLemmas` | lemmas about sequences, minima and functions defined by recursion | `SequencerLemmas`, `LinkedListProofs`, `ClientThreadsProofs` |
| `SequencerLemmas` | lemmas about the operators of `Sequencer` | `SequencerProofs`, `TransferLemmas` |
| `SequencerProofs` | theorems and proofs about `SequencingLoop` | |
| `LinkedList` | `linked_list.c`, pointer by pointer | |
| `LinkedListProofs` | theorems and proofs about `LinkedList` | |
| `ClientThreads` | the client process, main and all its threads, descriptors and ports, and the server up to its connection | |
| `ClientThreadsProofs` | theorems and proofs about `ClientThreads` | |
| `UcpDatagram` | data and metadata packets and their bytes | `FileParts` |
| `FileParts` | `file_io.c`: a part read in segments and written at offsets | |
| `FilePartsProofs` | lemmas about numbers and their bytes, theorems and proofs about `FileParts` | |
| `UcpPacket` | flags, encoding and decoding of control packets | `UcpChannels` |
| `UcpChannels` | UDP and the TCP connection | `UcpClient`, `UcpServer` |
| `UcpClient` | one thread of `ucp_client.c` | `UcpTransfer` |
| `UcpServer` | main and both threads of `ucp_server.c` | `UcpTransfer` |
| `UcpTransfer` | the composition, its properties and fairness | |
| `TransferLemmas` | lemmas about windows, and about reads of the byte stream | `UcpTransferProofs` |
| `UcpTransferProofs` | theorems and proofs about `UcpTransfer` | |
| `ReliableTransfer` | abstract: what a transfer promises | refined by `UcpTransfer` |

A definition called `Variant` in its comment is a faulty form of the definition
that follows it. The specification does not use it; the `mutants` of
`PROJECT.json` put it in the place of the correct one to show that a property
notices.

### How state and actions correspond to the code

*Sequencer.* `seq` is the linked list, as a sequence of ranges. The loop of
`sequencer_add` stops at the first element one of three tests holds for:
`Claims` is the set of such elements, `Min` of it the first one, and
`ApplyClaim` the branch taken. `Inc` and `Dec` are 32-bit `+ 1` and `- 1`, with
`UINT32_MAX` a constant so that TLC can use a small one. `sequencer_complete`
merges and then tests: `sequencer_merge` and `sequencer_complete` are its effect
and its result. The loop that merges is `MergePass`, with `MergeLoop` the list built
after each of its turns; the specification uses `MergeTouching`, which absorbs one
successor. The invariant `OnePassMerges` says that the two agree on every list that
occurs in `SequencingLoop`, and the theorem `ServerMergesInOnePass` that they do in
every transfer.

*Sequencing loop.* `Turn` is one turn of `while (!sequencer_complete(...))`: the
body's `sequencer_add` followed by the next evaluation of the condition. Turns
that find the queue empty only merge again, which changes nothing. `added` is a
history variable.

*Linked list.* `next`, `prev` and `obj` are the fields of all cells and of the
anchor, `heap` the cells malloc has handed out; a freed cell reads as NULL. The four
functions that insert write the same four pointers between two neighbours, which is
`Link`; on an empty list both neighbours are the anchor, and the branches for it
write the same values. The loop of `LinkedListUnlinkAll` is one step per turn with
its variable `cursor`. `Elements` is the sequence of cells a walk along `next` from the
anchor meets, and `ElementsBackwards` the one along `prev`. The other modules use
sequences in place of these lists; that each function acts as its name says on
`Elements` is `ActsOnSequence`.
The list itself is not protected: the server's queue is used under a mutex, the
sequencer by one thread, the windows by the client threads.

*Channels.* `udp` is the set of sequence numbers of the data datagrams under
way; a set because UDP does not keep the order, and because a second copy of the
same packet is indistinguishable from a duplicated delivery. Loss happens when a
datagram is sent. `stream` holds the control packets that have not been read
completely and `skew` how many bytes of the first were read before. A read of
`k` bytes (`BytesRead`, `Consume`) passes its first six bytes, or fewer, to the
decoder, and drops the others, as `tcp_server_receive` and `ucp_packet_decode`
do. The packets of the stream are kept as records and turned into bytes where
they are read, by the encoder and decoder of `ucp_packet.c`.

*Client.* `cpc` is the position in `block_thread`: before the metadata, in
`tcp_server_accept`, before `get_next_packet`, before `tcp_server_tick`, or behind
the loop. `SendPending`, `SendFromFile`, `Resend` and `NothingLeft` are the four
outcomes of `get_next_packet`, each with the encoding, the send and the append to
the window in flight. `Receive`, `Disconnected` and `SelectTimesOut` are the
outcomes of the tick. `rspPkt` is the stack slot of `rsp_pkt`: when the decoder
does not write it, `on_ack_received` acts either on what its previous call left
there or on something that is no control packet.

*Server.* `mpc`, `rpc` and `qpc` are the positions of main and the two threads.
Receiving and saving a packet is one step, pushing the report under the mutex
another; popping a report, answering and recording it, each single request for a
missing packet, the FIN and `pthread_cancel` are steps of their own, so that
everything else can happen in between. After a failed save the report is in the queue
before the thread has printed its error and returned (`Leave`), and the sequencing
thread may be faster: it may take that report, complete, send the FIN and cancel a
thread that has yet to return. A cancelled thread ends where it receives or prints
(`Cancelled`), and `Exit` waits for both. `failed` is a history variable. The file has two sets of functions `send_ctrl_packet`,
`send_ack`, `send_nack` and `send_fin` and does not compile as it stands; the ones
over TCP, which the calls fit, are modelled.

*Client threads.* `mpc` and `idx` are main's position and loop index, `pc` the
position of each thread in `block_thread`. `fdt` is the table of descriptors,
with the thread and the kind of each; the kernel's rule that the least free
number is handed out is `NewFd`. `sock` is `sock_fd` in the thread context, `tcp` the
`tcp_server_t` of each thread with `sd`, `max_sd` and the members of its `fd_set`.
`socket` and `bind` are separate steps, since the descriptor outlives a failed
bind; a thread that cannot bind ends there. Where the code leaves what happens undefined, the step is `Crash` or the
harmless alternative: a handle that is NULL after a failed split (`NoHandles`),
`dst_ip` and `dst_filename` that were never set (`StrayPointer`, or a datagram that
goes anywhere), and the TCP server that was freed after a failed bind and is used
(`UseFreed`, or `accept` failing for ever). A failed listen leaves the structure as it
is, with nothing watched, and `accept` fails for ever (`ServerAfter`). The server is one process that binds its only port,
receives the metadata and connects back; with `oneHost` the two processes share UDP
ports, where `CLIENT_BASE_PORT + 1` is `SERVER_BASE_PORT`.

*How it fits the transfer.* What happens in the state "transfer" of a thread is
`UcpTransfer`, and `UcpTransfer` has one client thread that owns the windows,
`done` and `packet_count`. `WindowsHaveOneUser` is what justifies that: it is
proved for any number of threads.

*Packets and files.* `UcpDatagram` keeps the fields of data and metadata packets and
turns their numbers into bytes and back, `Byte` being the number of values of
a byte. `FileParts` reads a part in segments and writes datagrams that have been
sent in any order and any number of times, which is what `UcpTransfer` allows; the
set `saved` of packets there is here the bytes of `file`. Every byte of the part is
different and none is the filler, so a byte in the wrong place shows. A write may
stop anywhere on a full disk, after which the server receives nothing more; the
file may have been created shorter than announced, which nobody checks; and
`fopen` may have returned NULL, which the first packet saved uses.

## Runs

| run | module, cfg | question |
|---|---|---|
| `sequencing` | `SequencingLoop` | Is the list of ranges right for numbers in any order, repeated, and flagged as last at any time? |
| `transfer` | `UcpTransfer`, `Transfer.cfg` | Do client and server implement `ReliableTransfer` over a network that loses, repeats and reorders, when reads return whole packets, and what does the server know when saving may fail? |
| `transfer_segmented` | `TransferSegmented.cfg` | What survives of that when a read returns any number of bytes? |
| `transfer_live` | `TransferLive.cfg` | Does the transfer of two packets end? |
| `linked_list` | `LinkedList` | Do the pointers behave as a sequence under any mixture of calls? |
| `client_threads` | `ClientThreads` | However threads start, fail and end: who uses the windows, who owns which descriptor, what does a tick see, when can main return, and do metadata that arrived lead to a transfer? |
| `file_parts` | `FileParts` | Does every byte come to its place? |
| `sequencer_forgets` | `SequencerForgets.cfg` | finding: a number added is not in the sequencer |
| `false_success` | `FalseSuccess.cfg` | finding: success is printed for an incomplete file |
| `false_fin` | `FalseFin.cfg` | finding: the client acts on a FIN nobody sent |
| `client_hangs` | `ClientThreads`, `ClientHangs.cfg` | finding: main never returns |
| `packet_starves` | `TransferStarves.cfg` | finding: one of three packets may never reach the file, and the client goes on for ever |

What they show:

* `sequencing`: the ranges stay sorted, disjoint and merged; nothing is recorded
  that was not added; what is not recorded lies below all ranges; completion is
  reported exactly when the recorded set is `0 .. last`; while no last number is
  known the numbers asked for are exactly the gaps, and once one is known, which may
  lower `maxSeqNo`, all gaps below it are still asked for and nothing but gaps. No
  bound of a range is left over from a `+ 1` or `- 1` that wrapped around (`TypeOK`).
  The list implements `SequencerSet`.
* `transfer`: packets have one place in the windows; whatever is acknowledged or
  asked for has been sent; a packet is released only after it was saved, and the
  client ends with everything saved or after the server's FIN. A released packet
  does not come back, although the server asks for a saved one that its sequencer
  has forgotten. All this holds when saving may fail, too. Then at most one recorded
  number is not in the file, since the receiving thread stops at the first failure;
  and the FIN is sent *only* after such a failure, when the receiving thread has left
  its loop, so that `pthread_cancel` meets at most a thread that has its error to print
  (`FinishNeedsFailure`). `is_last` is computed and popped
  but not passed on, and the flag that is passed compares a control flag with a data
  flag that happens to have the value of NACK, so a transfer without failures never
  makes the server finish, and the number whose save failed is taken for the last one.
* `transfer_segmented`: with misread control packets a packet is still released
  only after it was saved, and a client that ends without a FIN has delivered
  everything.
* `transfer_live`: with two packets the client leaves its loop, although records
  behind the first of a read are discarded. With two packets the sequencer forgets
  nothing; what three make of it is shown by `packet_starves`.
* `linked_list`: both chains are each other's inverse, a walk meets every cell in
  use once and no freed one, each function does to the sequence of cells what its
  name says, and `LinkedListUnlinkAll` leaves an empty list.
  `LinkedListInit` does not set `num_members`: the count is right relative to its
  indeterminate first value (`CountFollows`). Only the sequencer asks for a length,
  and it clears its structure first.
* `client_threads`: only the first thread is ever served. No descriptor is closed
  or reused under a thread that is going to use it. A tick sees every watched
  connection. That the connection's number lies above the listening one,
  where the scan begins, rests on nothing having been closed before: the mutant that
  closes a socket whose bind failed, a repair one might well make, loses the
  connection. main returns only when every thread but the first has failed to bind its
  socket (`ReturnNeedsFailedBinds`). And metadata that were received always lead to a
  transfer unless bind or listen failed for the TCP server, and `accept` with it for
  ever, or the process died: the port is listened on before the metadata are sent.
* `file_parts`: the file is never longer than the part, no byte is in a wrong place, nothing saved is changed by a
  repeated or broken-off write, and when all packets have been saved the file is the
  part, up to 2^32 bytes; a part of exactly 2^32 is announced as empty and comes out
  right all the same, since writing extends the file. For larger parts a byte lands
  at the remainder of its place (`BytesInPlace`), over the beginning of the part. END
  is only on the last packet and START only on the first, but a last packet that is
  full, or the only one, has no END. Offsets wrap around in this run, sequence numbers
  do not: its parts have up to eight packets. For them `FlagsMarkTheEnds` rests on the
  theorem `FlagsAreAtTheEnds`.
* `client_hangs`: two threads, two hosts, nothing lost, every transfer ends: main
  still waits, in `pthread_join`, for the second thread, which waits in `accept` for
  a server that does not exist. So only the first of ten parts is transferred, and
  the report is never printed. With the ten threads of the code that needs no choice
  of a case: `ClientNeverReturns` is a theorem.
* `packet_starves`: packet 1 of three is lost once, 2 arrives first, and the sequencer
  forgets 0. Every copy of 0 is then answered by ACK 0, NACK 0 and NACK 1. If the reads
  fall so that each begins with NACK 0, the client drops what is behind it, has 0
  pending again, and `get_next_packet` prefers that to packet 1 in flight: 1 is never
  sent again and never reaches the file, although every packet sent again and again
  would. The network is as fair as in `transfer_live`.
  The client never ends either: it would end with a FIN, which needs a failed save, or
  with nothing left, which needs everything saved (`ExhaustedIsComplete`). So what
  `transfer_live` shows of two packets does not hold of three.

### Bounds

* `sequencing`: six packets and `UINT32_MAX = 6`. Three ranges with two gaps need
  five numbers, the sixth gives an arrival in front of, between and behind them,
  and the largest number is next to the wrap-around.
* `linked_list`: four cells and two objects: first, last and two inner cells, freed
  cells reused, equal objects in one list.
* Transfers: two or three packets. Three are needed for the sequencer to forget a
  number and for a window in which the oldest, a middle and the newest packet
  differ; segmented reads are checked with two packets and three records in the
  stream. `packet_starves` has room for the three answers to one copy of a packet, and
  reads that can take them all; nothing is repeated by its network. With room for two
the reads cannot be aligned so, which says nothing of the code, whose buffers are large. `UINT32_MAX` is 2147483647, the largest integer TLC has.
* `StreamCap` is what the socket buffers hold, in control packets: with two, a
  read returns several records and the server blocks in `send`; both happen.
* `QueueCap` bounds the unbounded `seq_queue`. With one entry the receiving
  thread is one report ahead of the sequencing thread, which has one more in hand.
* `ReadMax` stands for the 1024 bytes of a read. In `transfer` it is larger than
  the stream, so a read ends with a packet; in `transfer_segmented` it is 10, which
  like 1024 leaves 4 when divided by 6.
* `client_threads`: three threads: the first, the second, whose port the server of
  the same host wants, and the third, which collides with nobody and so behaves
  as on two hosts; hence `OneHost = {TRUE}` is enough. `client_hangs` has two
  threads and no failures, since it asks for the best case.
* `file_parts`: segments of three bytes and `Byte = 2`, so that 4 bytes hold numbers
  below 16 in place of 2^32. The sizes are none, below one segment, multiples of it
  and one more, and 15, 16, 17 and 23 around and beyond the last offset. The length
  of a segment has two bytes, here a number up to 3, which a full segment reaches.
* Deadlock is not checked: after the transfer, or when the metadata is lost, the
  program waits for ever.

### Fairness

`LiveSpec` assumes that each thread keeps running (weak fairness of the client
and of main and each server thread, a cancelled one being ended included); that a packet sent again and again is not
always lost (strong fairness of a send that reaches the server, per packet) and
is then picked up by `recvfrom` (strong fairness of `ReceiveData`, per packet);
and that `select` does not report a timeout for ever while bytes are on their way
(strong fairness of `Receive`). The first is the scheduler, the second what any
protocol over UDP must assume, the last TCP's delivery: the timeout of 1.1
seconds is finite and the select is repeated. Nothing is assumed of the
metadata datagram, which is sent once, nor of how many records a read returns.

`LiveSpec` of `ClientThreads` assumes that main, each thread's set-up and the server
keep running (weak fairness), which is the scheduler's part; neither that a transfer
ends nor that the server exits. `TransfersEnd` adds that each transfer ends, which
is more than the code guarantees: it makes the counterexample of `client_hangs`
stronger.

## Proofs

`SequencerProofs` proves for every `UINT32_MAX` and every `NumPackets` up to it:

* `SequencerTypes`: `Spec => []TypeOK`
* `RangesStaySorted`: `Spec => []SortedGaps`
* `NothingInvented`: `Spec => []CoveredIsAdded`
* `LostNumbersAreBelow`: `Spec => []LostIsBelow`
* `NothingLostAfterZero`: once number 0 is recorded, `AddedIsCovered` holds. What
  `sequencer_forgets` shows can happen only before.
* `CompletionIsSound`: `Spec => []NoPrematureFinish`
* `MissingNumbersAreTheGaps`: `Spec => []MissingIsEveryGap`
* `OnePassIsEnough`: `Spec => []OnePassMerges`
* `SequencerImplementsSet`: `Spec => Set!SetSpec`, the refinement.

The only assumptions are the two on the constants: `UINT32_MAX` is a positive
natural number and `NumPackets` at most that.

The inductive invariant `SequencerInv` is the conjunction of `FieldTypes` (what the
functions keep by themselves: 32-bit fields), `SortedGaps`, `CoveredIsAdded`, `LostIsBelow`, `FirstIsRecorded` (the list is empty
only when nothing has been added) and `FinishedIsWhole` (when the loop has ended
the list is the single range from 0 to the expected last number). None of the
first four is inductive without the others: whether an insertion keeps the list
sorted depends on the type of the bounds, which of the tests applies depends on
the order of the ranges, and the refinement needs to know that an unclaimed
number lies below all of them. The argument goes operation by operation. For each
of `ExtendLast`, `ExtendFirst`, `InsertAfter` and `MergeTouching` a lemma states
that it keeps the list sorted and what set of numbers the result covers;
`AddToListProperties` puts them together for `sequencer_add`; `TurnEffect` states
the effect of a turn on the covered set, from which the invariants and the
refinement follow. `SequencerTypes` and
`MissingNumbersAreTheGaps` need two more invariants, `MaxIsAdded` and `MaxIsLargest`:
`maxSeqNo` and the expected last number were added, the first is not below the second,
and it is the largest number added while none was flagged as last. With them the
strict types follow: both ends of a range that is in order are covered, what is
covered was added, and what was added is the number of a packet, so that no `+ 1` or
`- 1` that wrapped around is left in the structure. Note that between `sequencer_add` and the merge the ranges need
not be apart by a missing number: `AddToListProperties` uses the weaker
order in which at most one pair touches.

`OnePassIsEnough` is about a loop over a list of any length. `MergeLoop` is a recursive
function, and `SameRecursion` of `ListLemmas` says that a function which satisfies its
equation at every turn is the one that `MergeLoop` is. So it is enough to write down
what the list is after each turn: where nothing touches, the elements visited so far
(`NothingMerges`); where the pair at `p` touches, the same with that pair merged from
turn `p + 1` on (`OnePairMerges`). `PassMergesTouching` puts the two together, and
`ServerMergesInOnePass` applies it to the composed system.

`LinkedListProofs` proves for any set of cells and objects:

* `PointersAreLive`: `Spec => []TypeOK`
* `BothChainsAgree`: `Spec => []ChainsAreInverse`
* `CountIsRight`: `Spec => []CountFollows`
* `UnlinkAllIsComplete`: `Spec => UnlinkAllEmpties`
* `WalkIsComplete`: `Spec => []WalkMeetsEveryCell`
* `ListsAreSequences`: `Spec => ActsOnSequence`

It assumes that the anchor, NULL and the cells are different. The inductive
invariant `IInv` of the first four adds to `TypeOK`, `ChainsAreInverse` and
`CountFollows` that the heap is finite and that the loop of `LinkedListUnlinkAll` stands
on the first cell. The local facts do not exclude a cell that is its own neighbour,
unreachable from the anchor; a loop standing on the first cell cannot meet one, which is
why its next cell is still in use. One lemma for `Insert` and one for `Unlink` carry
all functions.

The last two say that there are no such cells. They rest on one more invariant,
`HasListing`: some sequence lists every cell of the heap once, starts behind the anchor,
ends in front of it, and goes from each cell to the next along `next` (`IsListing`). It
is a fact about the whole list and needs no history variable: writing a cell's pointers
between two neighbours inserts it into the listing at their place (`ListingInsert`),
unlinking a cell removes it (`ListingRemove`). The walk is defined by a recursive
function (`Chain`), and a listing followed by the anchor satisfies its equation, so the
walk is the listing (`WalkOfListing`), and backwards it is the listing reversed
(`ListingBackwards`). With a listing before a step and the one the step makes of it
(`InsertLists`, `UnlinkLists`), what happens to the walk is what happens to the listing.

`ClientThreadsProofs` proves for any number of threads:

* `ClientThreadsTypes`: `Spec => []TypeOK`
* `OneUserOfWindows`: `Spec => []WindowsHaveOneUser`
* `HandlesStayOwn`: `Spec => []HandlesAreOwn`
* `TickSeesEveryChild`: `Spec => []WatchedIsScanned`
* `ReturnNeedsFailures`: `Spec => []ReturnNeedsFailedBinds`
* `ClientNeverReturns`: `Spec => [](mpc # "returned")`, if there are more than two threads
  and no other program takes the client's ports

It assumes only what `ThreadsAssumption` says of the constants, that there is a
thread and the switches are Boolean. None of the four invariants after the first
is inductive. The
inductive invariant `IInv` adds `FirstIsServed` (metadata to the server's port come
from the first thread, so the server connects to no other), `MainOrder` (where
threads can be while main is in each loop; main releases the parts only after all
have ended), `PartsInPlace` (the descriptor of a part has its number),
`ListenerIsWatched` (a server that was started and not freed watches its listening
socket), `NoGaps` (until the first thread transfers, the numbers in use have no
gap) and `OthersEndUnbound` (a thread other than the first has no TCP server when it
ends). `ListenerIsWatched` and `NoGaps` carry the argument for `WatchedIsScanned`: the listening socket
is open and all numbers below it are in use, so `accept` returns one above.
`HandlesAreOwn` rests on each entry of the table naming its thread and kind: what
one thread closes is then nobody else's. Each part of the invariant has a lemma with
a step per action; `NewFdIsLeast`, `OpenKeepsTable` and `CloseKeepsTable` are the
facts about the table. `EndsAtBind` says that no thread but the first ends anywhere
else than at a failed bind. On one host the server may hold the port of the second
thread and of no other, so if no other program holds ports the third thread never
ends; main waits for it, whatever is fair. `NUM_THREADS` is 10 in the code.

`UcpTransferProofs` proves about client and server together, for any number of
packets, any buffer sizes, and with saves that fail or do not:

* `TransferTypes`: `Spec => []TypeOK`
* `OnePlaceInWindows`: `Spec => []WindowsHoldOnce`
* `AnswersNameSentPackets`: `Spec => []AnswersAreForSent`
* `OneFailureRecorded`: `Spec => []RecordedIsSavedButOne`
* `FinishFollowsFailure`: `Spec => []FinishNeedsFailure`
* `ServerMergesInOnePass`: `Spec => [](MergePass(sequencer.seq) =
  MergeTouching(sequencer.seq))`
* `DroppedForGood`: `Spec => DroppedStaysDropped`
* `AcknowledgedIsSaved`: `Spec => []AckedIsSaved`, and `ExhaustedDeliversAll`:
  `Spec => []ExhaustedIsComplete`, both if the part has at most 65536 packets or
  `WholeReads` holds
* `FinComesFromServer`: `Spec => []FinIsFromServer`, if `WholeReads` holds
* `TransferIsReliable`: `Spec => ImplementsReliableTransfer`, if `WholeReads` holds

The first seven need only what the modules assume of the constants. `NumPackets <=
UINT32_MAX` is among that: the size of a part is a `uint32_t`, and each packet has at
least one byte of it. `WholeReads` says that reads return whole packets and that all
the connection holds fits into one read; `Transfer.cfg` is an instance. The code does
not guarantee it, and `false_fin` shows that without it the refinement and
`FinIsFromServer` fail. For the acknowledgements the other condition is enough:
65536 packets are a part of 600 million bytes, and then nothing is asked of the reads.

The inductive invariant `TransferInv` consists of `TypeOK`, `ClientInv` and
`ServerInv`. `ClientInv` is `WindowsHoldOnce` and the fact that a client out of its
loop is done or has nothing left. `ServerInv` says that threads are where main lets
them be (`WellPlaced`), that the list of ranges is sorted with at most one touching
pair, and merged whenever a report is about to be added (`RangesOK`), that no number
on the server was not sent to it (`OnlySent`), that each ACK reported, queued or in
the stream is for a saved packet (`AcksAreSaved`), and what the first failed save
changes (`FailsOnce`): until the receiving thread has left its loop after it, no NACK
is under way, everything recorded is in the file and no number counts as the last one;
from then on everything reported is in the
file but for one and the same number. The failure is seen in two ways: by `failed`, and
by where the thread is, about to push the report or out of its loop (`HasLeft`).
`RecordedIsSavedButOne` alone is not
inductive, since the number of the failure may still be in the queue; nor is
`FinishNeedsFailure`, which rests on the expected last number being unknown. What the
server does with the list comes from the lemmas of `SequencerLemmas`.

`AckedIsSaved` needs, beyond `TransferInv`, that the stack slot of `rsp_pkt` holds no
ACK of a packet that is not saved (`AckInv`), because a short read makes the client
act on it again. What a read makes of the stream is `AckAsSent`: it goes through the
six places a read can begin within a packet. If the numbers have two bytes, the
two upper bytes of each are zero, and wherever six bytes across two packets look like
an ACK with a number of the part, they contradict a zero byte or the type byte of
the second packet, or are the first packet itself. With more packets the statement
itself is in danger: an ACK of 65793 and one of 0, read from the fourth byte of the
first one on, make an ACK of 65792. With `WholeReads` the first six bytes are always the first packet,
and the FIN is read only after it was sent (`FinAtEnd`).

`FilePartsProofs` proves for any number of values of a byte, any segment size that
fits in two bytes, and parts of any size:

* `FilePartsTypes`: `Spec => []TypeOK`
* `BytesComeToTheirPlace`: `Spec => []BytesInPlace`
* `CompletePartIsWhole`: `Spec => []AllSavedIsWhole`
* `FlagsAreAtTheEnds`: `Spec => []FlagsMarkTheEnds`
* `SavedBytesStay`: `Spec => SavedStays`

It assumes what `DatagramAssumption` and `FileAssumption` say of the constants. The
inductive invariant `FilesInv` says where each datagram comes from (`SentIsRead`: it
carries the bytes of the part from some offset on, encoded), that every byte read has
been sent (`ReadIsSent`), that the file is a sequence of bytes not longer than the part
(`FileShape`), each one a filler or a byte that belongs there (`FileBytes`), and that
what was saved is in it (`SavedIsInFile`). None of the properties is inductive: that
a write does not spoil what another one wrote rests on both carrying the same bytes
for the same place. Its first part has the arithmetic: decoding four or two bytes
inverts encoding them, and cutting to 32 bits commutes with addition, which is why a
part larger than 2^32 bytes lands at remainders.

Every invariant and every action property that a run checks is stated by one of these
theorems. Only model-checked is liveness, which the provers do not handle:
`MetadataStartsTransfer` and `ClientCloses`. So are the five findings, each of them a counterexample.

## Not modelled

* The command line, and `report_statistics`, which adds up times and sizes after
  everything is over.
* Functions nobody calls: `tcp_server_stop`, `tcp_server_send`, `tcp_client_receive`,
  `file_io_get_next_packet_with_offset` and its variant with a size, and
  `file_io_merge_file`.
* What `split` puts into the parts: it is an external program; it makes a part for
  each thread or fails. The destination's name and the index of the part in the
  metadata, since one server process opens one file.
* Lists as pointers where they are used, that is, in the modules other than
  `LinkedList`; `LinkedListFind`, which is not called; a malloc that fails.
* Failures of `socket()`, `pthread_create` and of the server's own sockets other
  than its port; a read that fails.

## Plan

Done: the sequencer, the linked list, the transfer, the client's threads with ports
and descriptors, and the files, with proofs about each. Left: a run that shows the ACK
of a packet nobody acknowledged in a part of more than 65793 packets; it needs a model
in which a byte has fewer values.
