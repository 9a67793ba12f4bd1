# Verification of iocp-study

The repository holds four Windows network servers built on I/O completion ports, each a step of a study:
`StudyServer` (the author's own design, the most complete), `ChatServer` and `iocpsolution` (tutorial servers) and
`SBServer` (a rewrite in progress). This directory models them in TLA+: of **StudyServer** the packet dispatcher and
pool, the 1-Send path, the receive path, the table of sessions and the composition of them; of **ChatServer** the
client slots with their send queues, and the way of a packet through the users' buffers to the packet thread; of
**SBServer** the two index pools with the acceptor and the I/O threads. TLC checks the modules on small instances;
TLAPS proves their safety properties and both refinements for every instance. Paths below are relative to
`src/StudyProjects/StudyServer/` unless they start with `src/`.

## The system

| Component | State it keeps | Operations |
| :-- | :-- | :-- |
| `NetworkDispatcher` | `mPacketQueue`, `mWorkQueue`, `mMutex`, `mService`, `mIsRunning`, one thread | `Initialize`, `PushPacket`, `_DispatchThread`, destructor |
| `MemoryPool<Packet>` | `pool_` under `mutex_` | `Acquire`, `Release` (the deleter of every `UniquePtr`) |
| `NetworkContext` | `mBuffer`, `mReadPos`, `mWritePos` | `AlignBuffer`, `Write` (2), `Read`, `Reset`, `GetWriteBuffer`, `GetReadBuffer` |
| `NetworkClient` | `mSocket`, `mIsConnected`, `mSessionID`, `mSending`, `mSendQueue`, a receive and a send context | `Init`, `Reset`, `Close`, `Receive`, `GetPacket`, `EnqueuePacket`, `Send` |
| `ListenClient` | the listening socket, one context for accepts | `Init`, `Listen`, `PostAccept`, `Accept` |
| `NetworkManager` | `mClientList`, `mClientPool`, `mListenClientList`, the I/O threads | `WorkerThread`, `_HandleAccept`, `_HandleReceive`, `_HandleSend`, `AddClient`, `RemoveClient`, `PushSendPacket`, `AddListener`, `Initialize`, `Shutdown` |
| `Service` | a handler table | `ProcessPacket`, `Echo` |
| `Server`, `main` | the manager | `Initialize`, `Run`, `Shutdown` |
| `ConfigLoader`, `JSON` | the configuration | `Load` |

ChatServer (`src/StudyProjects/ChatServer/`):

| Component | State it keeps | Operations |
| :-- | :-- | :-- |
| `NetworkClient` (a slot) | `mIsConnect`, `mLatestClosedTimeSec`, `mSocket`, `mSendQueue` under `mSendLock` | `PostAccept`, `AcceptCompletion`, `OnConnect`, `BindRecv`, `SendMsg`, `SendCompleted`, `Close` |
| `IOCPServer` | the fixed `mClientList`, the I/O threads, the acceptor thread | `WorkerThread`, `AcceptorThread`, `CloseSocket`, `SendMsg`, `DestroyThread` |
| `PacketManager` | `mIncomingPacketUserIndex` and `mSystemPacketQueue` under `mLock`, one thread | `ReceivePacket`, `EnqueueSystemPacket`, `ProcessPacket` and the handlers |
| `UserManager`, `User` | a packet buffer per slot with a read and a write position, without a lock | `SetPacketData`, `GetPacket`, `Clear` |

SBServer (`src/SBServer/ServerLib/`):

| Component | State it keeps | Operations |
| :-- | :-- | :-- |
| `IOCPHandler` | `mClients` and `mNetworkContexts` with a pool of indices each, `mPacketQueue`, an acceptor and the I/O threads | `Initialize`, `AllocClient`, `AllocNetworkContext`, `InitClient`, `ReleaseClient`, `PushPacket`, `IOThread`, `_AcceptThread` |
| `ClientSocket`, `HostSocket` | a socket, the session ID, the time and number of receives | `Init`, `Receive`, `Close`, `Accept` |
| `Buffer`, `NetworkContext` | a vector with two positions | `Clear`, `Write`, `Read`, `Peek` |
| `EchoServer::Server` | the handler | `Run` polls `PopPacket` |

How StudyServer's parts interact:

1. The main thread creates the dispatcher (which starts its thread), then the completion port and the I/O threads
   (`processors * mThreadPerCore` of them), then the listener with its first `AcceptEx`.
2. Every I/O thread runs `WorkerThread`: it takes any completion from the port. An accept makes or reuses a client,
   gives it a session ID, posts its first `WSARecv` and then the next `AcceptEx`. A receive is turned into a `Packet`
   from the pool and pushed to the dispatcher. A send continues or clears `mSending`. A failed completion, or one of
   0 bytes, removes the client.
3. The dispatch thread swaps the two queues under the mutex and calls `Service::ProcessPacket` outside it. `Echo`
   copies its answer into a second object of the same pool and calls back into `PushSendPacket`, which queues the
   object on the client its session ID names and, when `mSending` was clear, calls `Send`.

In ChatServer the acceptor thread polls the slots and posts an `AcceptEx` for each that is not connected and was
closed more than `REUSE_SESSION_WAIT_TIMESEC` seconds ago. Workers take completions and call into the slot; what is
received goes to the user's buffer and the user's index to the packet thread, which takes one packet for each index and
answers through `SendMsg`. A connect reaches the packet thread by a queue of its own and clears the buffer.

In SBServer one acceptor thread takes a client and a context index from the pools for each connection and posts the
first receive. An I/O thread is meant to turn a receive into a packet and to post the next one, but looks for the
context's type behind the context and drops every completion.

What is hard: `mClientList`, `mClientPool`, contexts, session IDs and connection flags are shared by all I/O threads
and the dispatch thread with no lock (only `mMutex`, the pool's mutex, the atomic `mSending` and the concurrent
containers order anything); completions of one connection are handled by different threads; TCP segments at will;
clients and session IDs are used again while packets, answers and completions of earlier uses are on their way;
ChatServer's buffers are filled by one thread and emptied and cleared by another. `PROJECT.json` lists every hazard at
its line.

What makes each part correct:

- dispatcher and pool: a packet object has one owner; what is pushed is processed once; a packet is not forgotten;
- send path: one `WSASend` at a time per connection, bytes reach the wire in order, whole and once, queued packets go out;
- receive path: the positions stay in the buffer; what is dispatched are the peer's packets, no byte twice;
- session table: what is sent to a session ID reaches the connection that has it; the connection that is closed is
  the one that failed; the server goes on accepting;
- all of these together: an answer goes out on the connection its request came on;
- ChatServer's slot: one use at a time, the message freed is the one that was sent, no call, close or queued message of
  a connection reaches the next one, the slot comes back;
- ChatServer's users: writes stay in the buffer; packets are handled whole, in order and once; none stays behind;
- SBServer's pools: a client and a context are in one use at a time, and no index is lost or given back twice.

## The modules

| Module | Models | Correspondence |
| :-- | :-- | :-- |
| `HandOff` | what dispatcher and pool promise | abstract: `Take`, `Drop`, `Give`, `Deliver` for requests, `Reply`, `Discard`, `Post`, `Depart` for answers, on sets of owned objects |
| `Dispatcher` | `NetworkDispatcher`, `MemoryPool`, the way of an answer's object, start-up order | one action per critical section and per unprotected access; `main` and `pc` are the program counters of the main and the dispatch thread |
| `DispatchOrder` | the same steps with history | `stamp` numbers arrivals, `log` records processing, `batch` the size at the last swap |
| `ContextBuffer` | `NetworkContext` | operators on `[data, read, write]`; both callers instantiate it |
| `SendChannel` | what the send path promises | abstract: a FIFO of packets that leave in pieces |
| `SendPath` | `PushSendPacket`, `Send`, `_HandleSend`, removal, `WSASend` | every access to state two threads share is an action; `pc` per thread |
| `ReceivePath` | `_HandleReceive`, `GetPacket`, `Receive`, `WSARecv` | one action per handler run, since one receive is outstanding at a time |
| `SessionTable` | accepting, `AddClient`, `RemoveClient`, reuse | every step that touches shared state is an action; `pc` per worker |
| `Answers` | `SessionTable` composed with `_HandleReceive`, the dispatch thread, `Send` and `_HandleSend` | extends `SessionTable`: its actions with the rest unchanged, or with `ResetSend` where the code calls `Reset`; `dpc` is the dispatch thread |
| `ChatSlot` | a slot of ChatServer: acceptor, workers, `SendMsg`, `Close` | `apc` and `pc` are the program counters of the acceptor and the workers, `io` holds the overlapped calls |
| `ChatPackets` | ChatServer's `User` buffers, `PacketManager`'s two queues and its thread | `hpc` is the handler of a user's receive, `tpc` the packet thread; each access to a shared position is an action |
| `SocketPools` | SBServer's `IOCPHandler`: pools, acceptor, I/O threads | `apc` is the acceptor, `io` holds the receives in every state; an I/O thread is one action, since it changes nothing it shares |
| `MC*` | instances for TLC | |
| `*_proofs` | | theorems and proofs about the module of that name |

Notes on faithfulness:

- `Dispatcher`: `mIsRunning` is a plain `bool` written by the main thread and read by the dispatch thread. It is read
  in an action of its own, so the thread may read the `false` of the constructor and end, as the code allows.
  `ProcessPacket`, the steps of the answer it may make and `pop` are actions of their own. `ProcessPacket` ends at an
  unknown ID or goes on to `Echo` and `mSendFunction`, which takes the answer's object from the pool
  (`NetworkManager.cpp:151`); `PushSendPacket` gives it back when there is no connected client, or leaves it in the
  client's `mSendQueue` until `Send` pops it, there or later on a worker (`SendNext`). The send queues of all clients
  are one set, `unsent`: which client and when is the matter of `SendPath` and `Answers`, and each access to a queue is
  one step. `Obj` bounds what the pool may allocate; the code has no bound.
- `SendPath` follows one connection from `AddClient` to the end of its first `RemoveClient`. Its `mSessionID` is
  `Sid` until `Reset`; afterwards a second removal finds another client, which this module leaves to `Answers`.
  `mSendQueue` is a plain `std::queue` used by two threads; `mSending` orders its accesses except after a removal, where
  the module keeps each access atomic and makes no claim (`OneSend` and `IdleMeansDrained` stop at `socket = "closed"`).
- `ReceivePath`: a byte is its position in the peer's stream, so every loss, repetition or misplacement is visible.
  The header is one byte whose announced size is fixed for the first byte of each packet and arbitrary for the others
  (the peer chooses its payload). `DataSize` may be negative and is compared as in C++: with `size_t` in `GetPacket`,
  with `int` in `Read`. Between the two the body is copied unchecked (`NetworkClient.cpp:96`); `overrun` records a copy
  that goes past the buffer. What such a copy does is undefined, but the connection receives nothing after it, whether
  the program dies or `Read` refuses. A packet object is always to be had from the pool.
- `SessionTable`: a worker that takes a successful receive or send does not appear (`Answers` has it).
  A client the pool gives out is young or old by a free choice: the clock is not modelled. Sockets and
  clients are made in a fixed order, since which one a new one is does not matter. Successful sends come and go by
  `ToggleSend`, for any connected client in the list.
- `Answers`: a receive brings one packet and a send takes one whole; the two path modules have the bytes, and the
  dispatcher is a queue. `Reset`, `Init` and `SetSocket` on an accept are three steps (`ClearClient`, `InitClient`,
  `SetSocket`): in between the client is connected, has session ID 0 and still the socket it had. A `WSASend` on a
  socket that is not tied to the port yet gives no completion. A second `WSARecv` on a socket that has one is not
  counted. `own` is history: it is given when the packet's session ID is its connection's, read while no accept has
  the client between `Init` and `SetSocket` (`InPreparation`), and goes out when the client is reset while the answer
  is on its way.
- `ChatSlot` follows one slot, since a slot is reached only by its own index and completion key. The clock is
  the three values the acceptor tells apart. `Close` is six steps because other workers, the acceptor and the packet
  thread read what it writes. The packet thread may answer at any time once something has been received. A send
  completes whole or fails. `BindIOCompletionPort` compares with a value that is never returned, so it never fails.
- `ChatPackets`: a user has one receive posted at a time, so the worker that handles it is named by the user; that
  the handler of an old connection is done before the slot is armed again is `ChatSlot`'s matter. A byte is its place in
  the stream, `Start` says where packets begin, the header is one byte and is read once. `+=` on a shared position is a
  read and a write: the value written may come from before the other thread's assignment. The handlers' answers are
  left to `ChatSlot`.
- `SocketPools`: the index the acceptor takes is used as a place, while the client at a place knows the index one
  higher; both are kept apart. The look-up past the end of `mClients` is undefined and ends the model.
  `NetworkContext` has virtual functions and its base `OVERLAPPED` has none, so that the base lies behind the pointer
  to the virtual table. `WSARecv` is given the base's address, and `IOThread` takes it back with `reinterpret_cast`,
  which moves nothing. `OverlappedOf` and `GetContextType` are these two conversions, over the words of the contexts in
  memory (those of the 64-bit build; in the 32-bit one `OVERLAPPED` has a word more, and the type is read at the same
  place, the next context's virtual table pointer). `IOThread` has the branches that can be reached: a failed completion
  and one whose type is not that of a receive. What follows the test (lines 243 to 253, with `PushPacket` and the
  releases) is left out because `ReceivesUnseen` holds; were it violated, the model would be short of steps there.
  Nothing is received, so the buffers are left out too.
- `CreateIoCompletionPort` returns `NULL` when it fails and is compared with `INVALID_HANDLE_VALUE` in StudyServer
  too (`NetworkManager.cpp:88`, `:435`), so that these branches are never taken and the modules leave them out.
- The kernel and the peer are environment: they complete, fail, segment and close at any time.
- A null check that cannot fail (a context, a dispatcher, a list entry) is left out.

## Runs

| Run | Result | What it shows |
| :-- | :-- | :-- |
| `dispatcher` | pass | ownership of requests and answers, start-up safety, refinement of `HandOff`, progress under traffic |
| `dispatch_order` | pass | exactly-once processing, order within each queue, the half left behind |
| `dispatcher_leftover` | violation | a packet stays in `mWorkQueue` for ever |
| `send_path` | pass | 1-Send, refinement of `SendChannel`, every send comes to its end |
| `send_next` | violation | a packet queued behind a send is not sent after it |
| `receive_path` | pass | positions in the buffer and no byte twice always; framing, and the copy inside the buffer, while completions are packets |
| `receive_align` | violation | `AlignBuffer` does not keep the unread bytes |
| `session_table` | pass | accepts never overlap; IDs lead to their clients; whom a removal closes |
| `answers` | pass | where answers and the next receives go through removal and reuse; an accept is always posted again while nothing fails |
| `chat_slot` | pass | a slot through arming, connection, concurrent closes and reuse, with its send queue |
| `chat_packets` | pass | a user's buffer between two threads: writes inside it, packets whole and in order, none left behind |
| `socket_pools` | pass | no index lost or given twice, no receive recognised, and how the server's life ends |

The violations are disagreements between a document or comment and the code; `findings` in `PROJECT.json` quotes both.
In short: the dispatch loop counts up while the queue shrinks, so a batch leaves half of itself behind until the next
packet comes; a completed send does not look at the queue; and `AlignBuffer` forgets `mReadPos`.

### What the properties say

- `OneOwner`: an allocated object is in the pool, in one worker's hand, in one place of one queue, the answer that is
  being pushed, or in a client's send queue; never in two of these, and never in none.
- `ServedUnderTraffic` (Dispatcher): if workers push again and again and the thread did not exit at start-up, every
  queued packet is processed. It rests on `HalfLeft`: each batch at least halves a leftover packet's distance.
- `QueuesInOrder`: each queue is sorted by arrival. Order *across* the queues is lost: the leftover is overtaken by
  the next batch. No document promises it.
- `OneSend`: of the threads in `Send` or `_HandleSend`, the kernel's `WSASend` and its completion, at most one exists.
- `ChannelSpec`: the path implements `SendChannel`; the refinement computes the abstract queue from `mSendQueue` and
  the bytes of the context the kernel has not sent.
- `SendingEnds`: once `mSending` is set it is cleared again, through any number of partial completions handled by
  different workers, unless the connection is gone or a `WSASend` has failed. That a packet queued meanwhile then goes
  out is not promised: `send_next` shows that it does not.
- `EachByteOnce`: dispatched packets are runs of consecutive bytes, and no byte comes twice - on every segmentation,
  even when framing is lost. `FramedWhileUndisturbed` and `ServedWhileUndisturbed` say that framing and service are
  right while each completion carries one whole packet, and that `GetPacket`'s copy is in bounds then; the run reaches
  a copy out of bounds otherwise. A cut packet stops the connection: no new `WSARecv` is posted.
- `RegisteredUnderItsID`: a connected client with a nonzero ID is in the list at that ID, through every interleaving of
  removals and reuse. `OneAccept` is why: only one worker at a time makes the list longer.
- `ClosesTheFailed`: a removal closes a connection whose receive has ended, unless an accept failed before (then
  session 0 is removed in the listener's place), or a failure was taken twice for one connection, or before the
  connection had its session ID. Each exception is a hazard of the code at its own line, and the run reaches each.
- `OwnAnswers`: an answer goes out on the connection its packet came on, although it finds the way by a session ID and
  a client that may be in its next use. It does not hold for an answer that waits in the dispatcher, its thread or
  `mSendQueue` when the client is reset, nor for a packet stamped with an ID that was not its connection's: the code has
  nothing against either, and the run reaches both. Nor does it hold for a packet taken from a client between `Init`
  and `SetSocket`, which is possible when two removals have pooled a client that is still in use: its ID 0 is not its
  connection's. That takes a third socket, which the run does not have (`AnswersGoHome` allows for it). What it shows
  is that no other way exists: what is in `mSendContext` or with the kernel never reaches another peer.
- `ReceivesOnItsOwn`: a handler that has pushed its packet posts the next receive on the same connection, unless that
  connection's failure was taken meanwhile.
- `AcceptRearmed`: while nothing about accepting fails, an `AcceptEx` is outstanding again and again, with answers and
  removals going on.
- `FrontUnderWay` (ChatSlot): one `WSASend` of a slot is under way, of the queue's front, until a send fails. It holds
  through every close and reuse, though `SendCompleted` frees the front without looking at what completed. After a
  failed send the queue never gets back to size 1: the slot cannot send again, in later connections either.
- `InOneUse`, `ClosesItsOwn`, `SentWherePushed`: no call, close or queued message of one connection touches the next -
  as long as nothing of the old one is left in the port or in a worker's hands when the wait ends. That wait is the
  code's only protection:
  `late` marks the other behaviours, and without `~late` each of the three is violated. An answer to an old request
  that the packet thread pushes only after the reuse is not covered: it goes to the new connection, on which it was
  pushed.
- `ConnectedListens`, `SlotComesBack`: no connected slot goes without a receive and no slot is lost, except by the failures
  whose result the code does not look at (`bindFailed`, `armFailed`) and the null client of a failed `AcceptEx`
  (`crashed`). A failure taken between `AcceptEx` and `mIsConnect = 1` closes nothing.
- `WritesInBuffer` (ChatPackets): `SetPacketData` writes inside the buffer and the write position stays in it, with a
  `Clear` between any two of its steps and any update of a position lost.
- `HandledInOrder`: the packet thread handles the peers' packets, whole, in order, none twice, with no lock and any
  segmentation, while a user is undisturbed: no data came before its own connection's `Clear`, and no wrap with
  packets unread. Both do occur; the model goes on after them and only this promise ends.
- `EveryPacketHasItsIndex`, `PacketsAreTaken`: each index takes one packet, so with one packet to a receive every packet in
  the buffer has an index on its way, and none stays. With two packets in one receive the second stays.
- `IndicesConserved` (SocketPools): an index is in its pool once, in the acceptor's hands, or spent on the one
  connection that got a receive with it, through every failure of `InitClient` and `Receive`. A socket that `InitClient`
  has closed goes on to `Receive`, whose failure gives the indices back: once, since `InitClient` never reports one.
- `ReceivesUnseen`: no completed receive is taken for one by `IOThread`: what it reads as the type is the virtual table
  pointer of the next context. So an end is not noticed either, and no I/O thread ever gives an index back.
- `LastConnection`: the server accepts one connection less than it has clients, in its whole life, whatever was given
  back; with the next it looks up an element past the end.

### Bounds

- `dispatcher`: two workers, four objects, one pooled at the start, so that the pool grows, a batch may hold four
  packets, and a leftover of two meets new packets. `dispatch_order` has up to five arrivals.
- `send_path`: two workers (completions and a removal in parallel), three packets of 1 to 3 bytes, a buffer of 3 and a
  queue of 2: a send may complete in three pieces while two packets wait.
- `receive_path`: five packets of 1 to 3 bytes in a buffer of 4: completions with several packets, with parts of two,
  a buffer that fills up, a second `Read` that skips bytes, a copy past the buffer; every announcement by payload bytes.
- `session_table`: two workers, three sockets: an innocent session 0, a second connection that fails twice, and
  a third that reuses a client.
- `answers`: two workers, two sockets and two clients, two requests: a reuse of the client with an answer at every
  place of its way, and one answer behind another.
- `chat_slot`: two workers, so that two closes run side by side and a late one meets the next connection; two sockets
  (a use and a reuse) and two messages (one waits behind the other).
- `chat_packets`: one user with two connections, a buffer of 3 and receives of up to 2 bytes, packets of 1, 1 and
  2 bytes: receives with one packet, two, or a part, and wraps with and without unread bytes. One user is enough for
  the buffers, which are not shared between users; the proof has any number.
- `socket_pools`: four clients and contexts and five connections, so that the last index is wanted. An index that is
  given back waits behind all that were never taken, and the run ends before it is taken again, as the server's life does.

`CHECK_DEADLOCK FALSE` is set where the system may really stop: the dispatch thread may end at start-up, peers and
service may fall silent, connections end, sockets run out, or the model ends at a look-up past the end.

### Fairness

Weak fairness of each thread's next step (a thread that can go on does, under a preemptive scheduler), of the kernel
completing what was posted, and of a worker taking a completion (an idle worker waits in
`GetQueuedCompletionStatus`). In `ChatSlot` the clock goes on as well, and taking a failed completion is strongly fair:
the port hands out completions in order, so others cannot overtake it for ever. In `Answers` the workers' steps of
accepting, removing and handling are fair, in `ChatPackets` the packet thread, which never sleeps, and the handlers. None
for peers sending or closing, for the service answering (`send_path`), or for `GetPacket` and `SendNext` in
`Dispatcher`, which depend on clients.

## Proofs

The theorems hold for arbitrary sets of threads and objects and arbitrary bounds. They rest on the assumptions of the
modules, which TLC evaluates for the instances: `PoolAssumption` (the initial pool is a set of objects, the null pointer
is none), `ArrivalAssumption` and `ChatSlotAssumption` (bounds are numbers), `SendAssumption` (a packet fits an empty
buffer), `ReceiveAssumption` (the peer's packets follow each other and each fits the buffer), `SessionAssumption` (`None`
is no client or socket, there is a socket), `PoolsAssumption` (there are at least as many contexts as
clients), `ChatPacketsAssumption` (a receive is smaller than the buffer, the buffer than 2^32) and `AnswersAssumption`
(the bound on requests is a number).

`DispatchOrder_proofs`, on `Dispatcher`:
- `TypeCorrect`: `TypeOK` is made inductive by what is true of `pc` at the loop: "process" and "pop" are entered only
  with a nonempty queue.
- `ServiceAlwaysPresent`: the invariant ties the main thread's place to the queues: before `serve` there is no packet
  anywhere, so the dispatch thread cannot be in its loop while `mService` is unset. That is the argument for a start
  order that looks wrong.
- `Ownership`: `OneOwner` with `TypeOK` is inductive. Lemmas `RangeAppend`, `RangeTail`, `NoRepeatAppend` say how
  a queue's elements change. That an answer is made only while its request is queued is part of `TypeOK`.
- `ImplementsHandOff`: each step maps to a step of `HandOff` or a stutter; the swap is a stutter because the
  union of the queues stays. An answer's `Acquire` is `Reply`, its pop by `Send` is `Depart`.

`DispatchOrder_proofs`, on `DispatchOrder` (`OrderImplementsDispatcher` carries the theorems of `Dispatcher` over):
- `HalfIsLeft`: `LoopInv` relates `i`, the length of the queue and `batch` (`i + Len = batch`, `i <= Len + 1`);
  lemma `Halving` turns its end into `batch \div 2`.
- `QueuesStayInOrder`, `ProcessedExactlyOnce`: `OrderInv`, both with the bounds of the stamps; they rest on
  `Ownership`, since an object that is pushed must not be queued already.

`SendPath_proofs`:
- `TypeCorrect`: a `WSASend` is given bytes inside the buffer, and a packet that is written to an empty context fits,
  after `AlignBuffer` if need be (`WriteWhenEmpty`).
- `OneSendAtATime`, `IdleIsDrained`: `OneUser` says that of the working threads, the kernel's calls and the completions
  there is at most one while `mSending` is set and none while it is clear.
- `ImplementsChannel`: `Carries` says that the context holds the end of one packet (`Holds`), that a `WSASend` was given
  just that, and a completion is of bytes within it. `AckedIs` and `QueueBegins` turn it into what `Current` and
  `Off` of the refinement mapping are; `NextRefines` has one step for each action.

`ReceivePath_proofs`:
- `TypeCorrect`; lemmas `Delivered` and `Handled` say what a completion and its handler leave of the buffer.
- `NoByteTwice`: `LastBytes` (the buffer up to the write position holds the last bytes delivered, in order) and `Behind`
  (what was dispatched comes before the read position). This is why forgetting `mReadPos` in `AlignBuffer` loses bytes
  but never repeats them: the position only jumps forward.
- `FramingHolds`: `Framed` says that the context is empty whenever a completion brings the next whole packet; the header
  announces just the bytes that are there, so that the copy stays in the buffer.

`SessionTable_proofs`:
- `TypeCorrect`, `AcceptsNeverOverlap`, `FoundUnderItsID`: one inductive invariant `SessionInv`. Its parts are the types
  (`Objects`, `Table`, `Links`, `Threads`, `Held`), `OneStep` (of the accept that is posted, its completion and
  the workers at its steps there is one; `OneAccept` says it by counting) and `ListedNext`: a worker about to list a
  client has given it the next free index. Without `OneStep` two workers could give the same index; lemma
  `OtherStep` carries the parts through the steps that have nothing to do with accepting.
- `FailedAreClosed`: `Orderly`, for as long as no accept has failed and no failure crossed another. A socket that still
  receives is that of its client, which is in `mClientList` at its ID or about to be and which nobody removes (`LiveOnes`);
  a client being removed is removed by one worker, for the socket it has, and is not in the pool (`Removed`); the pool has
  no client twice (`Pooled`); what is accepted and the client made ready for it have no past (`FreshSockets`,
  `Preparing`). So the ID that `FindClient` looks up is the client's own, and each removal ends with one more in the pool.
  A client is live while its socket is tied to the port and its failure has not been taken (`Live`). That a
  removed socket has no receive left to end, and that a send only fails with the receive of its socket (`Silent`), is kept
  apart: it is what `ToggleSend` needs, and `Answers`, whose sends are its own, does without it. The lemmas on steps allow for the steps of
  `Answers`' handlers among the worker's (`HandleSteps`), so that they hold in both modules.

`Answers_proofs`: one inductive invariant, `AnswersInv`, with `SessionInv` and `Orderly` of `SessionTable`.
- The steps of the table keep those by `SessionTable_proofs`; a step of `Answers` alone (`Leaves`) touches neither the table
  nor a socket's client, and lemma `LeavesKeeps` is the table's part for all of them.
- `AnswersTyped`: `Queues` and `Dispatching`. `Send` finds a packet in the queue it has looked into because only the
  dispatch thread takes from a queue, and a reset keeps it.
- `AnswersGoHome`: `Ties` says that a socket belongs to one client, is tied to no other and is never tied again. `OnTheirWay`
  then says of every answer that is still its connection's, wherever it is: it is on the way of the client that its
  connection's socket is tied to, and that client has this socket or none (`Kept`; `Found` adds, for what is still with
  the dispatcher, that its session ID leads to that client). A reset takes `own` away from all that is on
  the client's way (`ResetKeeps`). `Kept` also says that the client is not in preparation, and a client gets a socket
  only while it is (`Undisturbed`), so that whatever is left when it gets another socket is not an answer of this
  kind. No assumption on failures is needed: it holds after a failed accept and after crossed failures.
- `ReceivesHome`: `Handlers` (a handler works for the client its socket is tied to) with `LiveOnes`: a socket that is tied and
  not removed is the one its client has.

`ChatSlot_proofs`:
- `FrontIsUnderWay`: `FrontUnderWay` is inductive with a few types. Calls that are ended keep their tag
  (`EndedSends`), a step that leaves the queue and the places at "sent" alone keeps it (`CallsEnd`, `SendsStay`), and
  `SendIO` is only reached when nothing is under way (`SendIOStep`, used for `SendMsg` and `SendCompleted`).
- `TypeCorrect`: `Types` with `SendInv`, which it needs: `SendCompleted` takes the tail of a queue that is not empty only
  because the front is under way. `FreeTag` (by the pigeonhole principle) says that `BindRecv`'s `CHOOSE` finds a tag.
- `OneUse`, `ClosesOwn`, `SentToItsOwn`, `Listening`: one invariant, `UseInv`. `Life` says which of seven states the slot
  is in (`ReadyAgain`, `Arming`, `Waiting`, `HandedOver`, `Stopped`, `Connected`, `Closed`) and what the acceptor, the workers
  and the port may be at in each. `Own` follows: a socket is only made when the port is empty and the workers are
  idle, so that every call and every completion is of the last socket. `PushedOnIt` says that what waits behind a send
  that is under way was queued on the same socket, `SentRight` is `SentWherePushed`. All this is for a slot whose
  wait never ended with work left (`~late`), as the four properties say; the step that ends the wait is where that
  is used (`LifeArm`). Stamping the time before the socket is given up is what keeps `Closed` whole (`LifeWrite`).

`ChatPackets_proofs`:
- `BufferIsSafe`: `WriteInv` adds to the types that a chunk that is received is no larger than `MaxChunk` and that there is
  room behind the position `SetPacketData` copies to (`RoomLeft`): the handler has tested that position, and the only
  thing the packet thread ever writes there is 0.
- `PacketsInOrder`, `IndicesSuffice`: `FlowInv`. Two facts hold of every user: a connect is queued once and cleared once
  (`Clears`, by counting the system queue), and what a worker handles are the last bytes received (`Received`). The rest
  (`Flow`) is claimed of a user for as long as it is undisturbed, which is when the two threads, without any lock, keep
  out of each other's way (`Calm`): no receive is handled with a `Clear` to come, a wrap finds the buffer
  read up and the packet thread away, and the position the handler adds to is the one it copied to.
  `Lies` then says that from `ReadPos` to `WritePos` the buffer holds the stream from the beginning of a packet `a` on, up
  to the bytes the handler has not counted yet (`Pending`). The positions are not read in the middle of a wrap or a
  `Clear` (`Turning`). `Taken` says that what was handled are whole packets before `a` in increasing order, and
  ties the packet thread's copies `at`, `len` and `top` to the buffer; this is `HandledInOrder`.
  `Whole`, as long as no receive has cut or joined packets, counts: the bytes not taken are the packets `a` to `b - 1`, and
  `b - a` is at most the indices queued, the one about to be and the one the packet thread has. After the thread has read
  `WritePos`, what comes later must have its index besides the one in hand, hence the second clause, with `top`.
  That this implies `EveryPacketHasItsIndex` is an injection of the unread packets into the numbers `a` to `b - 1`.
  Each thread's steps have lemmas of their own; those of one thread leave the other's part alone, and those for
  other users leave everything of this user alone (`Mine`).

`SocketPools_proofs`:
- `TypeCorrect`, `LastIsLast`, `NoReceiveIsSeen`: the pool's front holds the indices never taken, in order, with what
  was given back behind them; a connection is therefore given the index of its own number until the last one, which
  ends the run. Hence the contexts that have a receive are never the last, and the word behind each is the virtual
  table pointer of another.
- `IndicesAlwaysConserved`: `IndicesConserved` is inductive with the types; only the acceptor moves an index.

Every invariant and both refinements that the passing runs check are stated by a theorem. Only model-checked are the six
liveness properties (`ServedUnderTraffic`, `SendingEnds`, `ServedWhileUndisturbed`, `AcceptRearmed`, `SlotComesBack`,
`PacketsAreTaken`): they need `ENABLED` under fairness, which the proof system does not reason about. The findings
are counterexamples of TLC.

## Not modelled

- The vendored libraries (nlohmann JSON and spdlog, twice). They are nearly all of the repository's lines, so the share
  of lines that the modules map is small whatever is modelled of the four servers.
- `ConfigLoader` and `JSON` (one read of a file) and logging.
- `Shutdown` of StudyServer: it joins workers that wait without a timeout; `Server::Run` never returns, so it runs only
  after a failed start. `DestroyThread` of ChatServer, which joins in the same way.
- Memory effects of data races on a context that is being reset: each access is atomic in the modules.
- ChatServer's login answers and its table of users (`AddUser` is never called), `OnClose` (never called).
- SBServer's handling of received data, timers, sending, configuration and destructor: no receive is recognised, so that
  no packet gets as far as the handler or sending, and the destructor only runs at the end of the process.
  `Initialize` does not return while the acceptor runs, so a second host never is.
- `iocpsolution`: an earlier state of ChatServer's network part, which `ChatSlot` has. It differs in that the
  completion of an accept falls through into the handling of a receive.

## Plan

1. *(done)* `HandOff`, `Dispatcher`, `DispatchOrder` with proofs.
2. *(done)* `ContextBuffer`, `SendPath` with `SendChannel`, `ReceivePath`, `SessionTable`.
3. *(done)* `ChatSlot` and `ChatPackets`, with proofs of all their safety properties.
4. *(done)* `SocketPools`, with proofs of all its properties.
5. *(done)* `Answers`, the composition of table, handlers, dispatcher and send path.
6. *(done)* Proofs: `SendPath` with the refinement of `SendChannel`, `ReceivePath`, `SessionTable`.
7. *(done)* Proofs of `Answers`, on top of those of `SessionTable`.
8. Next, the safety that the liveness properties rest on, stated without `ENABLED`: that a packet of `DispatchOrder` never
   moves back in its queue and comes closer to the front with each batch it is left in, and that the accept of
   `Answers` is posted or in some worker's hands while nothing about accepting has failed.
