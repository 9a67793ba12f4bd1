------------------------------- MODULE HandOff -------------------------------
(***************************************************************************)
(* What NetworkDispatcher and MemoryPool promise to the I/O workers and to *)
(* the service, with the two queues and the dispatch thread left out: a    *)
(* Packet object has one owner at any time.  A request moves from the pool *)
(* to a worker, to the dispatcher, and back to the pool when the service   *)
(* has seen it; an answer moves from the pool to the service, while a      *)
(* request is pending, to the clients' send queues, and back when it is    *)
(* sent.  Nothing is said of order.                                        *)
(***************************************************************************)
EXTENDS FiniteSets

CONSTANTS Worker,    \* the I/O threads
          Obj,       \* the Packet objects that can ever be allocated
          NoPacket,  \* a null UniquePtr
          InitPool   \* the objects MemoryPool's constructor allocates

VARIABLES free,      \* objects in the pool
          born,      \* objects allocated so far
          inHand,    \* the object each worker owns, or NoPacket
          pending,   \* requests owned by the dispatcher
          answer,    \* the answer the service is handing on, or NoPacket
          outgoing   \* answers that wait to be sent

absVars == <<free, born, inHand, pending, answer, outgoing>>

Hand == {inHand[w] : w \in Worker} \ {NoPacket}

Owned == Hand \cup pending \cup outgoing \cup ({answer} \ {NoPacket})

AbsInit ==
  /\ free = InitPool
  /\ born = InitPool
  /\ inHand = [w \in Worker |-> NoPacket]
  /\ pending = {} /\ answer = NoPacket /\ outgoing = {}

(* An object nobody owns leaves the pool, or is new. *)
Obtain(o) ==
  /\ o \notin Owned
  /\ \/ o \in free /\ born' = born
     \/ free = {} /\ o \in Obj \ born /\ born' = born \cup {o}
  /\ free' = free \ {o}

GiveBack(o) == o \notin free /\ free' = free \cup {o} /\ born' = born

(* A worker takes an object for what it received. *)
Take(w, o) ==
  /\ inHand[w] = NoPacket
  /\ Obtain(o)
  /\ inHand' = [inHand EXCEPT ![w] = o]
  /\ UNCHANGED <<pending, answer, outgoing>>

(* A worker gives up on its object. *)
Drop(w) ==
  /\ inHand[w] # NoPacket
  /\ GiveBack(inHand[w])
  /\ inHand' = [inHand EXCEPT ![w] = NoPacket]
  /\ UNCHANGED <<pending, answer, outgoing>>

(* A worker hands its object to the dispatcher. *)
Give(w) ==
  /\ inHand[w] # NoPacket
  /\ inHand[w] \notin free \cup pending
  /\ pending' = pending \cup {inHand[w]}
  /\ inHand' = [inHand EXCEPT ![w] = NoPacket]
  /\ UNCHANGED <<free, born, answer, outgoing>>

(* The service takes an object for the answer to a pending request. *)
Reply(o) ==
  /\ pending # {} /\ answer = NoPacket
  /\ Obtain(o)
  /\ answer' = o
  /\ UNCHANGED <<inHand, pending, outgoing>>

(* There is nobody to send the answer to. *)
Discard ==
  /\ answer # NoPacket
  /\ GiveBack(answer)
  /\ answer' = NoPacket
  /\ UNCHANGED <<inHand, pending, outgoing>>

(* The answer waits to be sent. *)
Post ==
  /\ answer # NoPacket
  /\ answer \notin free \cup outgoing
  /\ outgoing' = outgoing \cup {answer} /\ answer' = NoPacket
  /\ UNCHANGED <<free, born, inHand, pending>>

(* A waiting answer is copied out to be sent. *)
Depart(o) ==
  /\ o \in outgoing
  /\ GiveBack(o)
  /\ outgoing' = outgoing \ {o}
  /\ UNCHANGED <<inHand, pending, answer>>

(* The service is done with o and with the answer to it. *)
Deliver(o) ==
  /\ o \in pending /\ answer = NoPacket
  /\ GiveBack(o)
  /\ pending' = pending \ {o}
  /\ UNCHANGED <<inHand, answer, outgoing>>

AbsNext ==
  \/ \E w \in Worker : Drop(w) \/ Give(w) \/ \E o \in Obj : Take(w, o)
  \/ Discard \/ Post
  \/ \E o \in Obj : Reply(o) \/ Depart(o) \/ Deliver(o)

AbsSpec == AbsInit /\ [][AbsNext]_absVars
=============================================================================
