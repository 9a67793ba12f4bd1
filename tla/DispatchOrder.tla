---------------------------- MODULE DispatchOrder ----------------------------
(***************************************************************************)
(* Dispatcher with history variables: the order in which packets arrive    *)
(* and in which the service sees them.  The steps are those of Dispatcher. *)
(***************************************************************************)
EXTENDS Dispatcher

CONSTANT MaxArrivals   \* bound: packets pushed in a behaviour

ASSUME ArrivalAssumption == MaxArrivals \in Nat

VARIABLES arrivals,    \* number of packets pushed so far
          stamp,       \* arrival number of the packet an object carries
          log,         \* arrival numbers in the order they were processed
          batch        \* length of mWorkQueue at the last swap

history == <<arrivals, stamp, log, batch>>
ovars == <<vars, history>>

OrderInit ==
  /\ Init
  /\ arrivals = 0 /\ log = <<>> /\ batch = 0
  /\ stamp = [o \in Obj |-> 0]

PushStamped(w) ==
  /\ arrivals < MaxArrivals
  /\ PushPacket(w)
  /\ arrivals' = arrivals + 1
  /\ stamp' = [stamp EXCEPT ![held[w]] = arrivals + 1]
  /\ UNCHANGED <<log, batch>>

(* Mutant of SwapStamped: the loop variable survives from batch to batch.   *)
SwapKeepI ==
  /\ pc = "lock" /\ mPacketQueue # <<>>
  /\ mWorkQueue' = mPacketQueue /\ mPacketQueue' = mWorkQueue
  /\ pc' = "loop" /\ i' = i
  /\ UNCHANGED <<startVars, poolVars, handVars>>
  /\ batch' = Len(mPacketQueue)
  /\ UNCHANGED <<arrivals, stamp, log>>

(* Mutant of SwapStamped: the leftover goes behind the new packets.         *)
SwapAppend ==
  /\ pc = "lock" /\ mPacketQueue # <<>>
  /\ mWorkQueue' = mPacketQueue \o mWorkQueue /\ mPacketQueue' = <<>>
  /\ pc' = "loop" /\ i' = 0
  /\ UNCHANGED <<startVars, poolVars, handVars>>
  /\ batch' = Len(mPacketQueue) + Len(mWorkQueue)
  /\ UNCHANGED <<arrivals, stamp, log>>

SwapStamped ==
  /\ SwapQueues
  /\ batch' = Len(mPacketQueue)
  /\ UNCHANGED <<arrivals, stamp, log>>

ProcessStamped ==
  /\ ProcessPacket
  /\ log' = Append(log, stamp[Head(mWorkQueue)])
  /\ UNCHANGED <<arrivals, stamp, batch>>

AnswerStep == RejectAnswer \/ EnqueuePacket \/ SendAnswer

(* Mutant of OtherDispatch: the packet is processed again and not popped.   *)
PopTwice ==
  \/ /\ TestRunning \/ FindEmpty \/ TestLoop \/ AnswerStep \/ PopPacket
     /\ UNCHANGED history
  \/ /\ pc = "pop" /\ pc' = "process"
     /\ Len(log) < MaxArrivals
     /\ UNCHANGED <<startVars, poolVars, handVars, queueVars, i, history>>

OtherDispatch ==
  /\ TestRunning \/ FindEmpty \/ TestLoop \/ AnswerStep \/ PopPacket
  /\ UNCHANGED history

OtherStep ==
  /\ \/ Main
     \/ \E w \in Worker :
          ReadError(w) \/ \E o \in Obj : GetPacket(w, o) \/ SendNext(w, o)
  /\ UNCHANGED history

OrderNext ==
  \/ \E w \in Worker : PushStamped(w)
  \/ SwapStamped
  \/ ProcessStamped
  \/ OtherDispatch
  \/ OtherStep

OrderSpec == OrderInit /\ [][OrderNext]_ovars

-----------------------------------------------------------------------------
(* Properties *)

(* The objects whose packet the service has not been given yet. *)
Given == IF pc \in {"reply", "send", "pop"} THEN {Head(mWorkQueue)} ELSE {}
Waiting == Queued \ Given

(* Every packet that was pushed waits in one queue or was processed once,   *)
(* however the swaps fall between the pushes.                              *)
ExactlyOnce ==
  /\ NoRepeat(log)
  /\ {stamp[o] : o \in Waiting} \cap Range(log) = {}
  /\ {stamp[o] : o \in Waiting} \cup Range(log) = 1..arrivals
  /\ \A o, p \in Queued : stamp[o] = stamp[p] => o = p

(* Packets that share a queue keep their order of arrival: the swap of a    *)
(* leftover back under new arrivals never mixes them.  (Between the two     *)
(* queues order is lost: a leftover is overtaken by the next batch.)       *)
SortedByArrival(q) ==
  \A a, b \in 1..Len(q) : a < b => stamp[q[a]] < stamp[q[b]]

QueuesInOrder == SortedByArrival(mPacketQueue) /\ SortedByArrival(mWorkQueue)

(* The loop tests i against a queue that shrinks, so a batch of n leaves    *)
(* n \div 2 packets behind: every leftover packet at least halves its       *)
(* distance from the front, and a lone packet is never left.               *)
HalfLeft ==
  pc \in {"test", "lock"} => Len(mWorkQueue) = batch \div 2
=============================================================================
