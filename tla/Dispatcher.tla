----------------------------- MODULE Dispatcher -----------------------------
(***************************************************************************)
(* NetworkDispatcher and MemoryPool of StudyServer.                        *)
(*                                                                         *)
(* I/O workers take a Packet object from the pool, fill it and push it on  *)
(* mPacketQueue; one dispatch thread swaps mPacketQueue with mWorkQueue    *)
(* and processes from the latter.  The main thread starts the dispatch     *)
(* thread before it sets mService and mIsRunning.                          *)
(*                                                                         *)
(* The service answers on the dispatch thread: its mSendFunction takes a   *)
(* second object from the same pool, which stays in the mSendQueue of a    *)
(* client until NetworkClient::Send has copied it into the send context.   *)
(* The queues of all clients are one set, unsent: which client an answer   *)
(* is for is the matter of SendPath and Answers.                           *)
(*                                                                         *)
(* A critical section under mMutex or under the pool's mutex_ is one       *)
(* action.  Every unprotected read or write of shared state (mIsRunning,   *)
(* mService) is an action of its own.                                      *)
(***************************************************************************)
EXTENDS Naturals, Sequences, FiniteSets, Functions

CONSTANTS Worker,    \* the I/O threads that run NetworkManager::WorkerThread
          Obj,       \* bound: the Packet objects the pool may ever allocate
                     \* (without one left, a worker receives no packet and
                     \* the service is given an ID it does not answer)
          NoPacket,  \* a null MemoryPool<Packet>::UniquePtr
          InitPool   \* the objects of MemoryPool's constructor

ASSUME PoolAssumption == InitPool \subseteq Obj /\ NoPacket \notin Obj

VARIABLES main,          \* where the main thread is in Server::Initialize
          mIsRunning, mService,
          pool,          \* MemoryPool::pool_
          created,       \* the objects allocated so far
          held,          \* the UniquePtr a worker owns in _HandleReceive
          pooledPacket,  \* the UniquePtr of mSendFunction and PushSendPacket
          unsent,        \* the objects in the mSendQueue of any client
          mPacketQueue, mWorkQueue,
          pc, i          \* the dispatch thread and its loop variable

startVars == <<main, mIsRunning, mService>>
poolVars == <<pool, created>>
answerVars == <<pooledPacket, unsent>>
handVars == <<held, answerVars>>
queueVars == <<mPacketQueue, mWorkQueue>>
vars == <<startVars, poolVars, handVars, queueVars, pc, i>>

MainSteps == {"create", "service", "running", "io", "serve", "stop", "unset",
              "join", "end"}
ServiceSteps == {"process", "reply", "send"}
ThreadSteps == ServiceSteps \cup {"absent", "test", "lock", "loop", "pop", "done"}

Queued == Range(mPacketQueue) \cup Range(mWorkQueue)
InHands == {held[w] : w \in Worker} \ {NoPacket}
Answer == {pooledPacket} \ {NoPacket}

Init ==
  /\ main = "create" /\ mIsRunning = FALSE /\ mService = FALSE
  /\ pool = InitPool /\ created = InitPool
  /\ held = [w \in Worker |-> NoPacket]
  /\ pooledPacket = NoPacket /\ unsent = {}
  /\ mPacketQueue = <<>> /\ mWorkQueue = <<>>
  /\ pc = "absent" /\ i = 0

-----------------------------------------------------------------------------
(* The main thread: Server::Initialize, and ~NetworkDispatcher.  Server::Run *)
(* never returns, so the destructor runs only when start-up has failed.      *)

StartThread ==
  /\ main = "create"
  /\ main' = "service" /\ pc' = "test"
  /\ UNCHANGED <<mIsRunning, mService, poolVars, handVars, queueVars, i>>

SetService ==
  /\ main = "service"
  /\ main' = "running" /\ mService' = TRUE
  /\ UNCHANGED <<mIsRunning, poolVars, handVars, queueVars, pc, i>>

SetRunning ==
  /\ main = "running"
  /\ main' = "io" /\ mIsRunning' = TRUE
  /\ UNCHANGED <<mService, poolVars, handVars, queueVars, pc, i>>

(* Mutant of InitializeNetwork: start-up may still fail when workers run.   *)
InitializeLate ==
  /\ main \in {"io", "serve"}
  /\ main' \in {"serve", "stop"}
  /\ UNCHANGED <<mIsRunning, mService, poolVars, handVars, queueVars, pc, i>>

(* NetworkManager::Initialize starts the workers and listens, or fails     *)
(* before a connection can be accepted.                                    *)
InitializeNetwork ==
  /\ main = "io"
  /\ main' \in {"serve", "stop"}
  /\ UNCHANGED <<mIsRunning, mService, poolVars, handVars, queueVars, pc, i>>

StopRunning ==
  /\ main = "stop"
  /\ main' = "unset" /\ mIsRunning' = FALSE
  /\ UNCHANGED <<mService, poolVars, handVars, queueVars, pc, i>>

UnsetService ==
  /\ main = "unset"
  /\ main' = "join" /\ mService' = FALSE
  /\ UNCHANGED <<mIsRunning, poolVars, handVars, queueVars, pc, i>>

Join ==
  /\ main = "join" /\ pc = "done"
  /\ main' = "end"
  /\ UNCHANGED <<mIsRunning, mService, poolVars, handVars, queueVars, pc, i>>

-----------------------------------------------------------------------------
(* An I/O worker in NetworkManager::_HandleReceive. *)

(* MemoryPool::Acquire: any object of the pool, or a new one when it is     *)
(* empty.                                                                  *)
Acquire(o) ==
  /\ \/ o \in pool /\ created' = created
     \/ pool = {} /\ o \in Obj \ created /\ created' = created \cup {o}
  /\ pool' = pool \ {o}

(* MemoryPool::Release, the deleter of every UniquePtr. *)
Release(o) == pool' = pool \cup {o} /\ created' = created

(* NetworkClient::GetPacket, with MemoryPool::Acquire inside it. *)
GetPacket(w, o) ==
  /\ main = "serve" /\ held[w] = NoPacket
  /\ Acquire(o)
  /\ held' = [held EXCEPT ![w] = o]
  /\ UNCHANGED <<startVars, answerVars, queueVars, pc, i>>

(* mReceiveContext->Read fails: GetPacket returns null and the deleter of   *)
(* the packet it had acquired gives the object back.                        *)
ReadError(w) ==
  /\ held[w] # NoPacket
  /\ Release(held[w])
  /\ held' = [held EXCEPT ![w] = NoPacket]
  /\ UNCHANGED <<startVars, answerVars, queueVars, pc, i>>

(* Mutant of PushPacket: the null check before it is dropped. *)
PushUnchecked(w) ==
  /\ main = "serve"
  /\ mPacketQueue' = Append(mPacketQueue, held[w])
  /\ held' = [held EXCEPT ![w] = NoPacket]
  /\ UNCHANGED <<startVars, poolVars, answerVars, mWorkQueue, pc, i>>

PushPacket(w) ==
  /\ held[w] # NoPacket
  /\ mPacketQueue' = Append(mPacketQueue, held[w])
  /\ held' = [held EXCEPT ![w] = NoPacket]
  /\ UNCHANGED <<startVars, poolVars, answerVars, mWorkQueue, pc, i>>

(* _HandleSend finds bytes left and calls Send, but another worker's Reset  *)
(* has emptied the send context in between: Send takes the next packet, and *)
(* mSendQueue.pop() gives its object back.                                 *)
SendNext(w, o) ==
  /\ main = "serve" /\ held[w] = NoPacket
  /\ o \in unsent /\ unsent' = unsent \ {o}
  /\ Release(o)
  /\ UNCHANGED <<startVars, held, pooledPacket, queueVars, pc, i>>

-----------------------------------------------------------------------------
(* The dispatch thread, _DispatchThread. *)

TestRunning ==
  /\ pc = "test"
  /\ pc' = IF mIsRunning THEN "lock" ELSE "done"
  /\ UNCHANGED <<startVars, poolVars, handVars, queueVars, i>>

FindEmpty ==
  /\ pc = "lock" /\ mPacketQueue = <<>>
  /\ pc' = "test"
  /\ UNCHANGED <<startVars, poolVars, handVars, queueVars, i>>

(* Mutant of SwapQueues: a move in place of the swap loses the leftover.    *)
MoveQueue ==
  /\ pc = "lock" /\ mPacketQueue # <<>>
  /\ mWorkQueue' = mPacketQueue /\ mPacketQueue' = <<>>
  /\ pc' = "loop" /\ i' = 0
  /\ UNCHANGED <<startVars, poolVars, handVars>>

SwapQueues ==
  /\ pc = "lock" /\ mPacketQueue # <<>>
  /\ mWorkQueue' = mPacketQueue /\ mPacketQueue' = mWorkQueue
  /\ pc' = "loop" /\ i' = 0
  /\ UNCHANGED <<startVars, poolVars, handVars>>

(* Mutant of TestLoop: the loop stops one packet early. *)
TestLoopShort ==
  /\ pc = "loop"
  /\ pc' = IF i + 1 < Len(mWorkQueue) THEN "process" ELSE "test"
  /\ UNCHANGED <<startVars, poolVars, handVars, queueVars, i>>

TestLoop ==
  /\ pc = "loop"
  /\ pc' = IF i < Len(mWorkQueue) THEN "process" ELSE "test"
  /\ UNCHANGED <<startVars, poolVars, handVars, queueVars, i>>

(* Service::ProcessPacket: an unknown PacketID ends it; Echo calls          *)
(* mSendFunction, which acquires the object of the answer.                 *)
ProcessPacket ==
  /\ pc = "process"
  /\ \/ pc' = "pop" /\ UNCHANGED <<poolVars, pooledPacket>>
     \/ \E o \in Obj : Acquire(o) /\ pooledPacket' = o /\ pc' = "reply"
  /\ UNCHANGED <<startVars, held, unsent, queueVars, i>>

(* PushSendPacket finds no connected client with the answer's session ID:   *)
(* the pointer it was given dies with its parameter.                       *)
RejectAnswer ==
  /\ pc = "reply"
  /\ Release(pooledPacket)
  /\ pooledPacket' = NoPacket /\ pc' = "pop"
  /\ UNCHANGED <<startVars, held, unsent, queueVars, i>>

(* Mutant of EnqueuePacket: the answer is copied into the queue by address  *)
(* and dies with the parameter all the same.                               *)
EnqueueBorrowed ==
  /\ pc = "reply"
  /\ unsent' = unsent \cup {pooledPacket}
  /\ Release(pooledPacket)
  /\ pooledPacket' = NoPacket /\ pc' = "send"
  /\ UNCHANGED <<startVars, held, queueVars, i>>

EnqueuePacket ==
  /\ pc = "reply"
  /\ unsent' = unsent \cup {pooledPacket}
  /\ pooledPacket' = NoPacket /\ pc' = "send"
  /\ UNCHANGED <<startVars, poolVars, held, queueVars, i>>

(* A send of the client is under way, or the exchange of mSending succeeds  *)
(* and Send takes the front of its queue, or fails before it pops.         *)
SendAnswer ==
  /\ pc = "send" /\ pc' = "pop"
  /\ \/ UNCHANGED <<poolVars, unsent>>
     \/ \E o \in unsent : unsent' = unsent \ {o} /\ Release(o)
  /\ UNCHANGED <<startVars, held, pooledPacket, queueVars, i>>

(* mWorkQueue.pop() destroys the UniquePtr, whose deleter is Release. *)
PopPacket ==
  /\ pc = "pop"
  /\ mWorkQueue' = Tail(mWorkQueue)
  /\ Release(Head(mWorkQueue))
  /\ pc' = "loop" /\ i' = i + 1
  /\ UNCHANGED <<startVars, handVars, mPacketQueue>>

-----------------------------------------------------------------------------

Main == \/ StartThread \/ SetService \/ SetRunning \/ InitializeNetwork
        \/ StopRunning \/ UnsetService \/ Join

Work(w) == \/ \E o \in Obj : GetPacket(w, o) \/ SendNext(w, o)
           \/ ReadError(w)
           \/ PushPacket(w)

Dispatch == \/ TestRunning \/ FindEmpty \/ SwapQueues
            \/ TestLoop \/ ProcessPacket \/ RejectAnswer
            \/ EnqueuePacket \/ SendAnswer \/ PopPacket

Next == Main \/ Dispatch \/ \E w \in Worker : Work(w)

Spec == Init /\ [][Next]_vars

(* The scheduler runs every ready thread: the main thread and the dispatch *)
(* thread go on, and a worker finishes the handler it is in.  Nothing makes*)
(* a client send or a reset fall between two steps of a worker, so neither *)
(* GetPacket nor SendNext has fairness.                                    *)
Fairness ==
  /\ WF_vars(Main) /\ WF_vars(Dispatch)
  /\ \A w \in Worker : WF_vars(ReadError(w) \/ PushPacket(w))

FairSpec == Spec /\ Fairness

-----------------------------------------------------------------------------
(* Properties *)

(* Every variable has its type: in particular no null UniquePtr is ever in *)
(* a queue, so *(mWorkQueue.front()) is an object, the loop pops only from *)
(* a queue that has a front, and the service answers with an object only   *)
(* while its request is still there.                                       *)
TypeOK ==
  /\ main \in MainSteps /\ mIsRunning \in BOOLEAN /\ mService \in BOOLEAN
  /\ pool \subseteq Obj /\ created \subseteq Obj /\ unsent \subseteq Obj
  /\ held \in [Worker -> Obj \cup {NoPacket}]
  /\ pooledPacket \in Obj \cup {NoPacket}
  /\ pooledPacket # NoPacket <=> pc = "reply"
  /\ mPacketQueue \in Seq(Obj) /\ mWorkQueue \in Seq(Obj)
  /\ pc \in ThreadSteps /\ i \in Nat
  /\ main = "create" => pc = "absent"
  /\ pc \in ServiceSteps \cup {"pop"} => mWorkQueue # <<>>

NoRepeat(q) == \A a, b \in 1..Len(q) : q[a] = q[b] => a = b

(* A Packet object that was allocated has exactly one owner: the pool, one *)
(* worker, one place of one queue, the answer being pushed, or the send    *)
(* queue of a client.  So an object is never refilled by a worker while    *)
(* the service may still read it or Send has still to copy it, an answer   *)
(* is never written into the request it answers, and none is lost.         *)
OneOwner ==
  /\ NoRepeat(mPacketQueue) /\ NoRepeat(mWorkQueue)
  /\ Range(mPacketQueue) \cap Range(mWorkQueue) = {}
  /\ pool \cap Queued = {}
  /\ InHands \cap (pool \cup Queued) = {}
  /\ \A v, w \in Worker : held[v] = held[w] /\ held[v] # NoPacket => v = w
  /\ Answer \cap (pool \cup Queued \cup InHands) = {}
  /\ unsent \cap (pool \cup Queued \cup InHands \cup Answer) = {}
  /\ created = pool \cup Queued \cup InHands \cup Answer \cup unsent

(* The dispatch thread never calls ProcessPacket through a null mService,  *)
(* and the service outlives the call, although the thread is started       *)
(* before mService is set and joined after it is reset.                    *)
ServicePresent == pc \in ServiceSteps => mService

(* The dispatcher, the service's answers and the pool implement the        *)
(* hand-off the workers rely on.                                           *)
Abstract == INSTANCE HandOff
              WITH free <- pool, born <- created, inHand <- held,
                   pending <- Queued, answer <- pooledPacket,
                   outgoing <- unsent
HandOffSpec == Abstract!AbsSpec

(* As long as clients keep sending and the thread survived its start, no    *)
(* packet starves: each batch moves a leftover packet closer to the front.  *)
ServedUnderTraffic ==
  (/\ <>[](pc # "done")
   /\ []<><<\E w \in Worker : PushPacket(w)>>_vars)
  => \A o \in Obj : (o \in Queued) ~> (o \notin Queued)

(* What README.md says of mWorkQueue: it "temporarily holds the packets for *)
(* processing", so a packet swapped into it leaves it.                      *)
HeldTemporarily ==
  \A o \in Obj : (o \in Range(mWorkQueue)) ~> (o \notin Range(mWorkQueue))

=============================================================================
