------------------------- MODULE DispatchOrder_proofs -------------------------
(***************************************************************************)
(* Proofs about Dispatcher, for any set of workers, any set of Packet      *)
(* objects (finite or not) and any initial pool, and about DispatchOrder.  *)
(* The steps of DispatchOrder are steps of Dispatcher, so the theorems of  *)
(* Dispatcher hold of it, and the history variables carry what those       *)
(* theorems do not say: order and completeness.                            *)
(***************************************************************************)
EXTENDS DispatchOrder, SequenceTheorems, TLAPS

-----------------------------------------------------------------------------
(* Lemmas on queues *)

(* Append adds its element to the range of a queue. *)
LEMMA RangeAppend ==
  ASSUME NEW S, NEW q \in Seq(S), NEW e \in S
  PROVE  Range(Append(q, e)) = Range(q) \cup {e}
<1> DEFINE r == Append(q, e)
<1>1. /\ Len(q) \in Nat /\ DOMAIN q = 1..Len(q)
      /\ DOMAIN r = 1..(Len(q) + 1)
      /\ \A k \in 1..Len(q) : r[k] = q[k]
      /\ r[Len(q) + 1] = e
  OBVIOUS
<1>2. ASSUME NEW x \in Range(r) PROVE x \in Range(q) \cup {e}
  BY <1>1 DEF Range
<1>3. ASSUME NEW x \in Range(q) PROVE x \in Range(r)
  BY <1>1 DEF Range
<1>4. e \in Range(r)
  BY <1>1 DEF Range
<1> QED BY <1>2, <1>3, <1>4

(* Append keeps a queue free of repetitions when its element is new.       *)
LEMMA NoRepeatAppend ==
  ASSUME NEW S, NEW q \in Seq(S), NEW e \in S,
         NoRepeat(q), e \notin Range(q)
  PROVE  NoRepeat(Append(q, e))
BY DEF NoRepeat, Range

(* In a queue without repetitions, Tail removes exactly the head.          *)
LEMMA RangeTail ==
  ASSUME NEW S, NEW q \in Seq(S), q # <<>>, NoRepeat(q)
  PROVE  /\ Head(q) \in Range(q)
         /\ Range(Tail(q)) = Range(q) \ {Head(q)}
         /\ NoRepeat(Tail(q))
<1> DEFINE t == Tail(q)
<1>1. /\ Len(q) \in Nat \ {0} /\ DOMAIN q = 1..Len(q)
      /\ t \in Seq(S) /\ Len(t) = Len(q) - 1 /\ DOMAIN t = 1..(Len(q) - 1)
      /\ \A k \in 1..(Len(q) - 1) : t[k] = q[k + 1]
      /\ Head(q) = q[1]
  OBVIOUS
<1>2. Head(q) \in Range(q)
  BY <1>1 DEF Range
<1>3. ASSUME NEW x \in Range(t) PROVE x \in Range(q) \ {Head(q)}
  BY <1>1 DEF Range, NoRepeat
<1>4. ASSUME NEW x \in Range(q) \ {Head(q)} PROVE x \in Range(t)
  <2>1. PICK k \in 1..Len(q) : x = q[k]
    BY <1>1 DEF Range
  <2>2. k - 1 \in 1..(Len(q) - 1) /\ x = t[k - 1]
    BY <1>1, <2>1
  <2> QED BY <1>1, <2>2 DEF Range
<1>5. NoRepeat(t)
  BY <1>1 DEF NoRepeat
<1> QED BY <1>2, <1>3, <1>4, <1>5

(* The range of a queue of objects is a set of objects.                    *)
LEMMA RangeSubset ==
  ASSUME NEW S, NEW q \in Seq(S)
  PROVE  Range(q) \subseteq S
BY DEF Range

-----------------------------------------------------------------------------
(* Type correctness *)

(* No null UniquePtr enters a queue and the loop never pops an empty queue, *)
(* for every number of workers and objects.                                *)
THEOREM TypeCorrect == Spec => []TypeOK
<1> USE DEF TypeOK, MainSteps, ThreadSteps, ServiceSteps, startVars, poolVars,
            queueVars, handVars, answerVars
<1>1. Init => TypeOK
  <2> SUFFICES ASSUME Init PROVE TypeOK
    OBVIOUS
  <2>1. mPacketQueue \in Seq(Obj) /\ mWorkQueue \in Seq(Obj)
    BY EmptySeq DEF Init
  <2>2. pool \subseteq Obj /\ created \subseteq Obj
    BY PoolAssumption DEF Init
  <2>3. held \in [Worker -> Obj \cup {NoPacket}]
    BY DEF Init
  <2>4. /\ main \in MainSteps /\ mIsRunning \in BOOLEAN /\ mService \in BOOLEAN
        /\ pc \in ThreadSteps /\ i \in Nat /\ pc = "absent"
        /\ pooledPacket = NoPacket /\ unsent = {}
    BY DEF Init
  <2> QED BY <2>1, <2>2, <2>3, <2>4
<1>2. TypeOK /\ [Next]_vars => TypeOK'
  <2> SUFFICES ASSUME TypeOK, [Next]_vars PROVE TypeOK'
    OBVIOUS
  <2>1. CASE Main
    <3>1. /\ UNCHANGED <<poolVars, handVars, queueVars, i>>
          /\ main' \in MainSteps /\ mIsRunning' \in BOOLEAN
          /\ mService' \in BOOLEAN
      BY <2>1 DEF Main, StartThread, SetService, SetRunning,
                  InitializeNetwork, StopRunning, UnsetService, Join
    <3>2. \/ pc' = pc /\ main' # "create"
          \/ pc = "absent" /\ pc' = "test" /\ main' # "create"
      BY <2>1 DEF Main, StartThread, SetService, SetRunning,
                  InitializeNetwork, StopRunning, UnsetService, Join
    <3> QED BY <3>1, <3>2
  <2>2. ASSUME NEW w \in Worker, NEW o \in Obj, GetPacket(w, o) PROVE TypeOK'
    BY <2>2 DEF GetPacket, Acquire
  <2>3. ASSUME NEW w \in Worker, ReadError(w) PROVE TypeOK'
    BY <2>3 DEF ReadError, Release
  <2>4. ASSUME NEW w \in Worker, PushPacket(w) PROVE TypeOK'
    <3>1. held[w] \in Obj
      BY <2>4 DEF PushPacket
    <3> QED BY <2>4, <3>1 DEF PushPacket
  <2>5. CASE TestRunning
    BY <2>5 DEF TestRunning
  <2>6. CASE FindEmpty
    BY <2>6 DEF FindEmpty
  <2>7. CASE SwapQueues
    BY <2>7 DEF SwapQueues
  <2>8. CASE TestLoop
    BY <2>8 DEF TestLoop
  <2>9. CASE ProcessPacket
    <3>1. CASE pc' = "pop" /\ UNCHANGED <<poolVars, pooledPacket>>
      BY <2>9, <3>1 DEF ProcessPacket
    <3>2. ASSUME NEW o \in Obj, Acquire(o), pooledPacket' = o, pc' = "reply"
          PROVE  TypeOK'
      BY <2>9, <3>2, PoolAssumption DEF ProcessPacket, Acquire
    <3> QED BY <2>9, <3>1, <3>2 DEF ProcessPacket
  <2>12. CASE RejectAnswer
    BY <2>12 DEF RejectAnswer, Release
  <2>13. CASE EnqueuePacket
    BY <2>13 DEF EnqueuePacket
  <2>14. CASE SendAnswer
    BY <2>14 DEF SendAnswer, Release
  <2>15. ASSUME NEW w \in Worker, NEW o \in Obj, SendNext(w, o) PROVE TypeOK'
    BY <2>15 DEF SendNext, Release
  <2>10. CASE PopPacket
    <3>1. mWorkQueue # <<>>
      BY <2>10 DEF PopPacket
    <3>2. Tail(mWorkQueue) \in Seq(Obj) /\ Head(mWorkQueue) \in Obj
      BY <3>1
    <3> QED BY <2>10, <3>2 DEF PopPacket, Release
  <2>11. CASE UNCHANGED vars
    BY <2>11 DEF vars
  <2> QED BY <2>1, <2>2, <2>3, <2>4, <2>5, <2>6, <2>7, <2>8, <2>9, <2>10,
             <2>11, <2>12, <2>13, <2>14, <2>15 DEF Next, Work, Dispatch
<1> QED BY <1>1, <1>2, PTL DEF Spec
-----------------------------------------------------------------------------
(* Start-up *)

(* There is traffic only while the main thread is in Server::Run, and then *)
(* mService is set.                                                        *)
NoTraffic ==
  /\ mPacketQueue = <<>> /\ mWorkQueue = <<>>
  /\ \A w \in Worker : held[w] = NoPacket
  /\ pc \notin {"loop", "process", "reply", "send", "pop"}

StartInv ==
  /\ main # "serve" => NoTraffic
  /\ main = "serve" => mService = TRUE
  /\ main = "io" => mService = TRUE
  /\ main = "running" => mService = TRUE

(* The dispatch thread never runs ProcessPacket through a null mService,   *)
(* for every interleaving of start-up, shutdown and traffic.               *)
THEOREM ServiceAlwaysPresent == Spec => []ServicePresent
<1> USE DEF TypeOK, StartInv, NoTraffic, ServiceSteps, startVars, poolVars,
            queueVars, handVars, answerVars
<1>1. Init => StartInv
  BY DEF Init
<1>2. TypeOK /\ StartInv /\ [Next]_vars => StartInv'
  <2> SUFFICES ASSUME TypeOK, StartInv, [Next]_vars PROVE StartInv'
    OBVIOUS
  <2>1. CASE Main
    BY <2>1 DEF Main, StartThread, SetService, SetRunning,
                InitializeNetwork, StopRunning, UnsetService, Join
  <2>2. ASSUME NEW w \in Worker, Work(w) PROVE StartInv'
    BY <2>2 DEF Work, GetPacket, ReadError, PushPacket, SendNext
  <2>3. CASE Dispatch
    <3>1. main # "serve" => NoTraffic'
      BY <2>3 DEF Dispatch, TestRunning, FindEmpty, SwapQueues, TestLoop,
                  ProcessPacket, RejectAnswer, EnqueuePacket, SendAnswer,
                  PopPacket
    <3>2. UNCHANGED startVars
      BY <2>3 DEF Dispatch, TestRunning, FindEmpty, SwapQueues, TestLoop,
                  ProcessPacket, RejectAnswer, EnqueuePacket, SendAnswer,
                  PopPacket
    <3> QED BY <3>1, <3>2
  <2>4. CASE UNCHANGED vars
    BY <2>4 DEF vars
  <2> QED BY <2>1, <2>2, <2>3, <2>4 DEF Next
<1>3. StartInv => ServicePresent
  BY DEF ServicePresent
<1> QED BY <1>1, <1>2, <1>3, TypeCorrect, PTL DEF Spec

-----------------------------------------------------------------------------
(* Ownership of Packet objects *)

(* An allocated object has exactly one owner in every reachable state, with *)
(* any number of workers: OneOwner is inductive relative to TypeOK.        *)
THEOREM Ownership == Spec => []OneOwner
<1> USE DEF startVars, poolVars, queueVars, handVars, answerVars
<1>1. Init => OneOwner
  <2> SUFFICES ASSUME Init PROVE OneOwner
    OBVIOUS
  <2>1. Queued = {} /\ InHands = {} /\ Answer = {}
    BY DEF Init, Queued, InHands, Answer, Range
  <2> QED BY <2>1 DEF Init, OneOwner, NoRepeat, Range
<1>2. TypeOK /\ OneOwner /\ [Next]_vars => OneOwner'
  <2> SUFFICES ASSUME TypeOK, OneOwner, [Next]_vars PROVE OneOwner'
    OBVIOUS
  <2> DEFINE Same == UNCHANGED <<pool, created, handVars, queueVars>>
             Owned == Queued \cup InHands \cup Answer \cup unsent
  <2>1. ASSUME Same PROVE OneOwner'
    BY <2>1 DEF OneOwner, Queued, InHands, Answer
  <2>0. ASSUME NEW o \in Obj, Acquire(o)
        PROVE  /\ o \notin Owned /\ o # NoPacket
               /\ o \notin pool' /\ pool' \subseteq pool
               /\ created' = pool' \cup Owned \cup {o}
    BY <2>0, PoolAssumption DEF Acquire, OneOwner
  <2>2. ASSUME NEW w \in Worker, NEW o \in Obj, GetPacket(w, o)
        PROVE  OneOwner'
    <3>1. held[w] = NoPacket /\ o \notin Owned
      BY <2>0, <2>2 DEF GetPacket
    <3>2. /\ held' = [held EXCEPT ![w] = o] /\ unsent' = unsent
          /\ Queued' = Queued /\ Answer' = Answer
          /\ o # NoPacket /\ o \notin pool' /\ pool' \subseteq pool
      BY <2>0, <2>2 DEF GetPacket, Queued, Answer
    <3>3. InHands' = InHands \cup {o}
      BY <3>1, <3>2 DEF InHands, TypeOK
    <3>4. \A u, v \in Worker : held'[u] = held'[v] /\ held'[u] # NoPacket => u = v
      BY <3>1, <3>2 DEF InHands, TypeOK, OneOwner
    <3>5. created' = pool' \cup Queued' \cup InHands' \cup Answer' \cup unsent'
      BY <2>0, <2>2, <3>2, <3>3 DEF GetPacket
    <3> QED BY <2>2, <3>1, <3>2, <3>3, <3>4, <3>5 DEF GetPacket, OneOwner
  <2>3. ASSUME NEW w \in Worker, ReadError(w) PROVE OneOwner'
    <3>1. /\ held[w] \in InHands
          /\ InHands' = InHands \ {held[w]}
          /\ Queued' = Queued /\ Answer' = Answer
          /\ \A u, v \in Worker : held'[u] = held'[v] /\ held'[u] # NoPacket => u = v
      BY <2>3 DEF ReadError, InHands, TypeOK, OneOwner, Queued, Answer
    <3> QED BY <2>3, <3>1 DEF ReadError, Release, OneOwner
  <2>4. ASSUME NEW w \in Worker, PushPacket(w) PROVE OneOwner'
    <3>1. /\ held[w] \in InHands /\ held[w] \in Obj
          /\ InHands' = InHands \ {held[w]} /\ Answer' = Answer
          /\ \A u, v \in Worker : held'[u] = held'[v] /\ held'[u] # NoPacket => u = v
      BY <2>4 DEF PushPacket, InHands, TypeOK, OneOwner, Answer
    <3>2. held[w] \notin pool \cup Queued \cup Answer \cup unsent
      BY <3>1 DEF OneOwner
    <3>3. /\ Range(mPacketQueue') = Range(mPacketQueue) \cup {held[w]}
          /\ NoRepeat(mPacketQueue')
      BY <2>4, <3>1, <3>2, RangeAppend, NoRepeatAppend
         DEF PushPacket, TypeOK, OneOwner, Queued
    <3>4. Queued' = Queued \cup {held[w]}
      BY <2>4, <3>3 DEF PushPacket, Queued
    <3> QED BY <2>4, <3>1, <3>2, <3>3, <3>4 DEF PushPacket, OneOwner, Queued
  <2>5. CASE SwapQueues
    <3>1. Queued' = Queued /\ InHands' = InHands /\ Answer' = Answer
      BY <2>5 DEF SwapQueues, Queued, InHands, Answer
    <3> QED BY <2>5, <3>1 DEF SwapQueues, OneOwner
  <2>6. CASE PopPacket
    <3> DEFINE h == Head(mWorkQueue)
    <3>1. /\ h \in Range(mWorkQueue)
          /\ Range(mWorkQueue') = Range(mWorkQueue) \ {h}
          /\ NoRepeat(mWorkQueue')
      BY <2>6, RangeTail DEF PopPacket, TypeOK, OneOwner
    <3>2. /\ InHands' = InHands /\ Answer' = Answer
          /\ Queued' = Queued \ {h} /\ h \in Queued
      BY <2>6, <3>1 DEF PopPacket, Queued, InHands, Answer, OneOwner
    <3> QED BY <2>6, <3>1, <3>2 DEF PopPacket, Release, OneOwner
  <2> DEFINE Still == UNCHANGED <<held, queueVars>>
  <2>7. Still => Queued' = Queued /\ InHands' = InHands
    BY DEF Queued, InHands
  <2>8. CASE ProcessPacket
    <3>1. CASE pc' = "pop" /\ UNCHANGED <<poolVars, pooledPacket>>
      BY <2>1, <2>8, <3>1 DEF ProcessPacket
    <3>2. ASSUME NEW o \in Obj, Acquire(o), pooledPacket' = o PROVE OneOwner'
      <4>1. /\ o \notin Owned /\ o # NoPacket /\ o \notin pool'
            /\ pool' \subseteq pool /\ created' = pool' \cup Owned \cup {o}
        BY <2>0, <3>2
      <4>2. Answer = {} /\ Answer' = {o}
        BY <2>8, <3>2, <4>1 DEF ProcessPacket, TypeOK, Answer
      <4>3. /\ Queued' = Queued /\ InHands' = InHands
            /\ UNCHANGED <<unsent, held, queueVars>>
        BY <2>7, <2>8 DEF ProcessPacket
      <4> QED BY <4>1, <4>2, <4>3 DEF OneOwner
    <3> QED BY <2>8, <3>1, <3>2 DEF ProcessPacket
  <2>9. CASE RejectAnswer
    <3>1. Answer = {pooledPacket} /\ Answer' = {}
      BY <2>9 DEF RejectAnswer, Answer, TypeOK
    <3> QED BY <2>7, <2>9, <3>1 DEF RejectAnswer, Release, OneOwner
  <2>10. CASE EnqueuePacket
    <3>1. Answer = {pooledPacket} /\ Answer' = {}
      BY <2>10 DEF EnqueuePacket, Answer, TypeOK
    <3> QED BY <2>7, <2>10, <3>1 DEF EnqueuePacket, OneOwner
  <2>11. ASSUME NEW o \in unsent, unsent' = unsent \ {o}, Release(o),
                UNCHANGED <<held, pooledPacket, queueVars>>
         PROVE  OneOwner'
    BY <2>7, <2>11 DEF Release, OneOwner, Answer
  <2>12. CASE SendAnswer
    <3>1. CASE UNCHANGED <<poolVars, unsent>>
      BY <2>1, <2>12, <3>1 DEF SendAnswer
    <3> QED BY <2>11, <2>12, <3>1 DEF SendAnswer
  <2>13. ASSUME NEW w \in Worker, NEW o \in Obj, SendNext(w, o) PROVE OneOwner'
    BY <2>11, <2>13 DEF SendNext
  <2>14. CASE Main
    BY <2>1, <2>14 DEF Main, StartThread, SetService, SetRunning,
                       InitializeNetwork, StopRunning, UnsetService, Join
  <2>15. CASE TestRunning \/ FindEmpty \/ TestLoop
    BY <2>1, <2>15 DEF TestRunning, FindEmpty, TestLoop
  <2>16. CASE UNCHANGED vars
    BY <2>1, <2>16 DEF vars
  <2> QED BY <2>2, <2>3, <2>4, <2>5, <2>6, <2>8, <2>9, <2>10, <2>12, <2>13,
             <2>14, <2>15, <2>16 DEF Next, Work, Dispatch
<1> QED BY <1>1, <1>2, TypeCorrect, PTL DEF Spec
-----------------------------------------------------------------------------
(* Refinement *)

(* A step of the dispatcher is a step of HandOff or leaves its variables    *)
(* unchanged: whatever the interleaving of workers, swaps and the dispatch  *)
(* thread, an object moves between owners one owner at a time.             *)
THEOREM ImplementsHandOff == Spec => HandOffSpec
<1> USE DEF startVars, poolVars, queueVars, handVars, answerVars
<1>1. Init => Abstract!AbsInit
  BY DEF Init, Abstract!AbsInit, Queued, Range
<1>2. TypeOK /\ OneOwner /\ [Next]_vars => [Abstract!AbsNext]_(Abstract!absVars)
  <2> SUFFICES ASSUME TypeOK, OneOwner, [Next]_vars
               PROVE  Abstract!AbsNext \/ UNCHANGED Abstract!absVars
    OBVIOUS
  <2> DEFINE Same == UNCHANGED <<pool, created, handVars>> /\ Queued' = Queued
  <2>1. Same => UNCHANGED Abstract!absVars
    BY DEF Abstract!absVars
  <2>2. Abstract!Owned = InHands \cup Queued \cup unsent \cup Answer
    BY DEF Abstract!Owned, Abstract!Hand, InHands, Answer
  <2>3. ASSUME NEW o \in Obj, Acquire(o) PROVE Abstract!Obtain(o)
    BY <2>2, <2>3 DEF Acquire, OneOwner, Abstract!Obtain
  <2>4. ASSUME NEW w \in Worker, NEW o \in Obj, GetPacket(w, o)
        PROVE  Abstract!Take(w, o)
    BY <2>3, <2>4 DEF GetPacket, Queued, Abstract!Take
  <2>5. ASSUME NEW w \in Worker, ReadError(w) PROVE Abstract!Drop(w)
    <3>1. held[w] \in InHands
      BY <2>5 DEF ReadError, InHands
    <3> QED BY <2>5, <3>1 DEF ReadError, Release, OneOwner, Queued,
                              Abstract!Drop, Abstract!GiveBack
  <2>6. ASSUME NEW w \in Worker, PushPacket(w) PROVE Abstract!Give(w)
    <3>1. held[w] \in InHands /\ held[w] \in Obj
      BY <2>6 DEF PushPacket, InHands, TypeOK
    <3>2. Range(mPacketQueue') = Range(mPacketQueue) \cup {held[w]}
      BY <2>6, <3>1, RangeAppend DEF PushPacket, TypeOK
    <3>3. Queued' = Queued \cup {held[w]}
      BY <2>6, <3>2 DEF PushPacket, Queued
    <3> QED BY <2>6, <3>1, <3>3 DEF PushPacket, OneOwner, Abstract!Give
  <2>7. ASSUME PopPacket PROVE Abstract!Deliver(Head(mWorkQueue))
    <3> DEFINE h == Head(mWorkQueue)
    <3>1. /\ h \in Range(mWorkQueue)
          /\ Range(mWorkQueue') = Range(mWorkQueue) \ {h}
      BY <2>7, RangeTail DEF PopPacket, TypeOK, OneOwner
    <3>2. h \in Queued /\ Queued' = Queued \ {h} /\ h \notin pool
      BY <2>7, <3>1 DEF PopPacket, Queued, OneOwner
    <3>3. pooledPacket = NoPacket
      BY <2>7 DEF PopPacket, TypeOK
    <3> QED BY <2>7, <3>2, <3>3 DEF PopPacket, Release, Abstract!Deliver,
                                    Abstract!GiveBack
  <2>8. Head(mWorkQueue) \in Obj \/ ~PopPacket
    BY DEF TypeOK, PopPacket
  <2>9. ASSUME ProcessPacket, ~Same
        PROVE  \E o \in Obj : Abstract!Reply(o)
    <3>1. Queued' = Queued /\ UNCHANGED <<held, unsent>>
      BY <2>9 DEF ProcessPacket, Queued
    <3>2. PICK o \in Obj : Acquire(o) /\ pooledPacket' = o
      BY <2>9, <3>1 DEF ProcessPacket
    <3>3. pooledPacket = NoPacket /\ Queued # {}
      <4>1. pooledPacket = NoPacket /\ mWorkQueue # <<>>
        BY <2>9 DEF ProcessPacket, TypeOK, ServiceSteps
      <4>2. Head(mWorkQueue) \in Range(mWorkQueue)
        BY <4>1, RangeTail DEF TypeOK, OneOwner
      <4> QED BY <4>1, <4>2 DEF Queued
    <3> QED BY <2>3, <3>1, <3>2, <3>3 DEF Abstract!Reply
  <2>10. ASSUME RejectAnswer PROVE Abstract!Discard
    <3>1. pooledPacket # NoPacket /\ pooledPacket \notin pool
      BY <2>10 DEF RejectAnswer, TypeOK, OneOwner, Answer
    <3> QED BY <2>10, <3>1 DEF RejectAnswer, Release, Queued, Abstract!Discard,
                               Abstract!GiveBack
  <2>11. ASSUME EnqueuePacket PROVE Abstract!Post
    <3>1. pooledPacket # NoPacket /\ pooledPacket \notin pool \cup unsent
      BY <2>11 DEF EnqueuePacket, TypeOK, OneOwner, Answer
    <3> QED BY <2>11, <3>1 DEF EnqueuePacket, Queued, Abstract!Post
  <2>12. ASSUME NEW o \in unsent, unsent' = unsent \ {o}, Release(o),
                UNCHANGED <<held, pooledPacket, queueVars>>
         PROVE  Abstract!Depart(o) /\ o \in Obj
    BY <2>12 DEF Release, OneOwner, Queued, TypeOK, Abstract!Depart,
                 Abstract!GiveBack
  <2>13. ASSUME SendAnswer, ~Same
         PROVE  \E o \in Obj : Abstract!Depart(o)
    <3>1. Queued' = Queued /\ UNCHANGED <<held, pooledPacket, queueVars>>
      BY <2>13 DEF SendAnswer, Queued
    <3>2. PICK o \in unsent : unsent' = unsent \ {o} /\ Release(o)
      BY <2>13, <3>1 DEF SendAnswer
    <3> QED BY <2>12, <3>1, <3>2
  <2>14. ASSUME NEW w \in Worker, NEW o \in Obj, SendNext(w, o)
         PROVE  Abstract!Depart(o)
    BY <2>12, <2>14 DEF SendNext
  <2>15. SwapQueues => Same
    BY DEF SwapQueues, Queued
  <2>16. Main => Same
    BY DEF Main, StartThread, SetService, SetRunning, InitializeNetwork,
           StopRunning, UnsetService, Join, Queued
  <2>17. TestRunning \/ FindEmpty \/ TestLoop => Same
    BY DEF TestRunning, FindEmpty, TestLoop, Queued
  <2>18. UNCHANGED vars => Same
    BY DEF vars, Queued
  <2>19. CASE Same
    BY <2>1, <2>19
  <2>20. CASE ~Same
    BY <2>4, <2>5, <2>6, <2>7, <2>8, <2>9, <2>10, <2>11, <2>13, <2>14, <2>15,
       <2>16, <2>17, <2>18, <2>20 DEF Next, Work, Dispatch, Abstract!AbsNext
  <2> QED BY <2>19, <2>20
<1> QED BY <1>1, <1>2, TypeCorrect, Ownership, PTL
        DEF Spec, HandOffSpec, Abstract!AbsSpec
-----------------------------------------------------------------------------
(* Dispatcher's steps with their history *)

USE DEF startVars, poolVars, queueVars, handVars, answerVars

(* A step that keeps history is a step of Dispatcher. *)
LEMMA OrderStep == [OrderNext]_ovars => [Next]_vars
BY DEF OrderNext, ovars, PushStamped, SwapStamped, ProcessStamped,
       OtherDispatch, AnswerStep, OtherStep, Next, Work, Dispatch, Main, vars

(* DispatchOrder only adds variables to Dispatcher. *)
LEMMA OrderImplementsDispatcher == OrderSpec => Spec
<1>1. OrderInit => Init
  BY DEF OrderInit
<1> QED BY <1>1, OrderStep, PTL DEF OrderSpec, Spec

-----------------------------------------------------------------------------
(* The size of the leftover *)

(* While the loop runs, i packets of the batch are gone, and i is at most   *)
(* one ahead of the packets that are left.                                 *)
LoopInv ==
  /\ batch \in Nat
  /\ pc \in {"absent", "test", "lock"} => Len(mWorkQueue) = batch \div 2
  /\ pc = "loop" => /\ i + Len(mWorkQueue) = batch
                    /\ i <= Len(mWorkQueue) + 1
  /\ pc \in {"process", "reply", "send", "pop"}
       => /\ i + Len(mWorkQueue) = batch
          /\ i < Len(mWorkQueue)

LEMMA Halving ==
  ASSUME NEW n \in Nat, NEW k \in Nat, NEW b \in Nat,
         k + n = b, k <= n + 1, ~(k < n)
  PROVE  n = b \div 2
OBVIOUS

(* The relation between the loop variable and the queue is invariant.       *)
LEMMA LoopInvariant == OrderSpec => []LoopInv
<1>1. OrderInit => LoopInv
  BY DEF OrderInit, Init, LoopInv
<1>2. TypeOK /\ LoopInv /\ [OrderNext]_ovars => LoopInv'
  <2> SUFFICES ASSUME TypeOK, LoopInv, [OrderNext]_ovars PROVE LoopInv'
    OBVIOUS
  <2>1. Len(mWorkQueue) \in Nat /\ i \in Nat /\ Len(mPacketQueue) \in Nat
    BY DEF TypeOK
  <2>2. ASSUME NEW w \in Worker, PushStamped(w) PROVE LoopInv'
    BY <2>2 DEF PushStamped, PushPacket, LoopInv
  <2>3. CASE SwapStamped
    BY <2>1, <2>3 DEF SwapStamped, SwapQueues, LoopInv
  <2>4. CASE ProcessStamped
    BY <2>4 DEF ProcessStamped, ProcessPacket, LoopInv
  <2>5. CASE OtherDispatch
    <3>1. CASE TestRunning
      BY <2>5, <3>1 DEF OtherDispatch, TestRunning, LoopInv, history
    <3>2. CASE FindEmpty
      BY <2>5, <3>2 DEF OtherDispatch, FindEmpty, LoopInv, history
    <3>3. CASE TestLoop
      <4>1. CASE i < Len(mWorkQueue)
        BY <2>5, <3>3, <4>1 DEF OtherDispatch, TestLoop, LoopInv, history
      <4>2. CASE ~(i < Len(mWorkQueue))
        <5>1. Len(mWorkQueue) = batch \div 2
          BY <2>1, <3>3, <4>2, Halving DEF TestLoop, LoopInv
        <5> QED BY <2>5, <3>3, <4>2, <5>1
                DEF OtherDispatch, TestLoop, LoopInv, history
      <4> QED BY <4>1, <4>2
    <3>4. CASE PopPacket
      <4>1. Len(Tail(mWorkQueue)) = Len(mWorkQueue) - 1
        BY <3>4 DEF PopPacket, TypeOK
      <4>2. /\ pc' = "loop" /\ i' = i + 1 /\ batch' = batch
            /\ Len(mWorkQueue') = Len(mWorkQueue) - 1
        BY <2>5, <3>4, <4>1 DEF OtherDispatch, PopPacket, history
      <4>3. i + Len(mWorkQueue) = batch /\ i < Len(mWorkQueue) /\ batch \in Nat
        BY <3>4 DEF PopPacket, LoopInv
      <4> QED BY <2>1, <4>2, <4>3 DEF LoopInv
    <3>5. CASE AnswerStep
      BY <2>5, <3>5 DEF OtherDispatch, AnswerStep, RejectAnswer, EnqueuePacket,
                        SendAnswer, LoopInv, history
    <3> QED BY <2>5, <3>1, <3>2, <3>3, <3>4, <3>5 DEF OtherDispatch
  <2>6. CASE OtherStep
    <3>1. /\ UNCHANGED <<mWorkQueue, i, batch>>
          /\ main' # "create" \/ main' = main
          /\ \/ pc' = pc
             \/ main = "create" /\ main' = "service" /\ pc' = "test"
      BY <2>6 DEF OtherStep, history, Main, StartThread, SetService, SetRunning,
                  InitializeNetwork, StopRunning, UnsetService, Join,
                  ReadError, GetPacket, SendNext
    <3> QED BY <3>1 DEF LoopInv, TypeOK
  <2>7. CASE UNCHANGED ovars
    BY <2>7 DEF ovars, vars, history, LoopInv
  <2> QED BY <2>2, <2>3, <2>4, <2>5, <2>6, <2>7 DEF OrderNext
<1> QED BY <1>1, <1>2, TypeCorrect, OrderImplementsDispatcher, PTL
        DEF OrderSpec

(* After a batch of n the work queue holds n \div 2 packets, for every n    *)
(* and every interleaving with the workers that push meanwhile.            *)
THEOREM HalfIsLeft == OrderSpec => []HalfLeft
<1>1. LoopInv => HalfLeft
  BY DEF LoopInv, HalfLeft
<1> QED BY <1>1, LoopInvariant, PTL
-----------------------------------------------------------------------------
(* Order and completeness *)

(* Arrival numbers of queued packets are numbers that were given out. *)
StampInv ==
  /\ arrivals \in Nat /\ stamp \in [Obj -> Nat] /\ log \in Seq(Nat)
  /\ \A o \in Queued : stamp[o] \in 1..arrivals

OrderInv == StampInv /\ QueuesInOrder /\ ExactlyOnce

(* A push puts the largest arrival number at the tail of a sorted queue.    *)
LEMMA PushKeepsOrder ==
  ASSUME TypeOK, OneOwner, StampInv, NEW w \in Worker, PushStamped(w)
  PROVE  /\ held[w] \in Obj /\ held[w] \notin Queued
         /\ Queued' = Queued \cup {held[w]}
         /\ stamp'[held[w]] = arrivals + 1
         /\ \A o \in Queued : stamp'[o] = stamp[o]
         /\ QueuesInOrder => QueuesInOrder'
<1>1. /\ held[w] \in InHands /\ held[w] \in Obj
      /\ mPacketQueue' = Append(mPacketQueue, held[w])
      /\ mWorkQueue' = mWorkQueue
      /\ stamp' = [stamp EXCEPT ![held[w]] = arrivals + 1]
  BY DEF PushStamped, PushPacket, InHands, TypeOK
<1>2. held[w] \notin Queued
  BY <1>1 DEF OneOwner
<1>3. Range(mPacketQueue') = Range(mPacketQueue) \cup {held[w]}
  BY <1>1, RangeAppend DEF TypeOK
<1>4. Queued' = Queued \cup {held[w]}
  BY <1>1, <1>3 DEF Queued
<1>5. stamp'[held[w]] = arrivals + 1 /\ \A o \in Queued : stamp'[o] = stamp[o]
  <2>1. Queued \subseteq Obj
    BY RangeSubset DEF Queued, TypeOK
  <2> QED BY <1>1, <1>2, <2>1 DEF StampInv
<1>6. ASSUME QueuesInOrder PROVE QueuesInOrder'
  <2>1. \A a \in 1..Len(mPacketQueue) : mPacketQueue[a] \in Queued
    BY DEF TypeOK, Queued, Range
  <2>2. \A a \in 1..Len(mWorkQueue) : mWorkQueue[a] \in Queued
    BY DEF TypeOK, Queued, Range
  <2>3. SortedByArrival(mWorkQueue)'
    BY <1>1, <1>5, <1>6, <2>2 DEF QueuesInOrder, SortedByArrival
  <2>4. SortedByArrival(mPacketQueue)'
    <3> DEFINE n == Len(mPacketQueue)
               q == Append(mPacketQueue, held[w])
    <3>1. /\ n \in Nat /\ Len(q) = n + 1 /\ q[n + 1] = held[w]
          /\ \A a \in 1..n : q[a] = mPacketQueue[a]
      BY <1>1 DEF TypeOK
    <3>2. ASSUME NEW a \in 1..(n + 1), NEW b \in 1..(n + 1), a < b
          PROVE  stamp'[q[a]] < stamp'[q[b]]
      <4>1. a \in 1..n /\ stamp'[q[a]] = stamp[mPacketQueue[a]]
        BY <1>5, <2>1, <3>1, <3>2
      <4>2. CASE b = n + 1
        <5>1. stamp[mPacketQueue[a]] \in 1..arrivals
          BY <2>1, <4>1 DEF StampInv
        <5> QED BY <1>5, <3>1, <4>1, <4>2, <5>1 DEF StampInv
      <4>3. CASE b \in 1..n
        BY <1>5, <1>6, <2>1, <3>1, <3>2, <4>1, <4>3
           DEF QueuesInOrder, SortedByArrival
      <4> QED BY <3>1, <4>2, <4>3
    <3> QED BY <1>1, <3>1, <3>2 DEF SortedByArrival
  <2> QED BY <2>3, <2>4 DEF QueuesInOrder
<1> QED BY <1>1, <1>2, <1>4, <1>5, <1>6

(* Tail keeps a queue sorted. *)
LEMMA TailKeepsOrder ==
  ASSUME NEW q \in Seq(Obj), q # <<>>, SortedByArrival(q)
  PROVE  SortedByArrival(Tail(q))
<1>1. /\ Len(q) \in Nat \ {0} /\ Len(Tail(q)) = Len(q) - 1
      /\ \A k \in 1..(Len(q) - 1) : Tail(q)[k] = q[k + 1]
  OBVIOUS
<1> QED BY <1>1 DEF SortedByArrival

(* Steps that leave the queues, the stamps and the log alone, and give the  *)
(* service nothing, keep the invariant.                                    *)
LEMMA QuietStep ==
  ASSUME OrderInv, UNCHANGED <<mPacketQueue, mWorkQueue, arrivals, stamp, log>>,
         Given' = Given
  PROVE  OrderInv'
<1>1. Queued' = Queued /\ Waiting' = Waiting
  BY DEF Queued, Waiting
<1> QED BY <1>1 DEF OrderInv, StampInv, QueuesInOrder, SortedByArrival,
                    ExactlyOnce, NoRepeat

(* QueuesInOrder and ExactlyOnce are proved together, since both rest on   *)
(* the arrival numbers of queued objects being distinct.                   *)
LEMMA OrderInvariant == OrderSpec => []OrderInv
<1>1. OrderInit => OrderInv
  <2> SUFFICES ASSUME OrderInit PROVE OrderInv
    OBVIOUS
  <2>1. Queued = {} /\ Waiting = {} /\ Range(log) = {} /\ arrivals = 0
    BY DEF OrderInit, Init, Queued, Waiting, Range
  <2>2. log \in Seq(Nat) /\ log = <<>>
    BY EmptySeq DEF OrderInit
  <2>3. StampInv
    BY <2>1, <2>2 DEF StampInv, OrderInit
  <2>4. QueuesInOrder
    BY DEF OrderInit, Init, QueuesInOrder, SortedByArrival
  <2>5. ExactlyOnce
    <3>1. NoRepeat(log) /\ 1..arrivals = {}
      BY <2>1, <2>2 DEF NoRepeat
    <3> QED BY <2>1, <3>1 DEF ExactlyOnce
  <2> QED BY <2>3, <2>4, <2>5 DEF OrderInv
<1>2. TypeOK /\ OneOwner /\ LoopInv /\ OrderInv /\ [OrderNext]_ovars => OrderInv'
  <2> SUFFICES ASSUME TypeOK, OneOwner, LoopInv, OrderInv, [OrderNext]_ovars
               PROVE  OrderInv'
    OBVIOUS
  <2>1. StampInv /\ QueuesInOrder /\ ExactlyOnce
    BY DEF OrderInv
  <2>2. ASSUME NEW w \in Worker, PushStamped(w) PROVE OrderInv'
    <3>1. /\ held[w] \in Obj /\ held[w] \notin Queued
          /\ Queued' = Queued \cup {held[w]}
          /\ stamp'[held[w]] = arrivals + 1
          /\ \A o \in Queued : stamp'[o] = stamp[o]
          /\ QueuesInOrder'
      BY <2>1, <2>2, PushKeepsOrder
    <3>2. /\ arrivals' = arrivals + 1 /\ log' = log /\ pc' = pc
          /\ stamp' \in [Obj -> Nat] /\ mWorkQueue' = mWorkQueue
      <4>1. /\ arrivals' = arrivals + 1 /\ log' = log /\ pc' = pc
            /\ stamp' = [stamp EXCEPT ![held[w]] = arrivals + 1]
            /\ mWorkQueue' = mWorkQueue
        BY <2>2 DEF PushStamped, PushPacket
      <4>2. arrivals + 1 \in Nat /\ stamp \in [Obj -> Nat]
        BY <2>1 DEF StampInv
      <4> QED BY <4>1, <4>2
    <3>3. StampInv'
      BY <2>1, <3>1, <3>2 DEF StampInv
    <3>4. Waiting' = Waiting \cup {held[w]} /\ Waiting \subseteq Queued
      <4>1. Given \subseteq Queued /\ Given' = Given
        BY <3>2, RangeTail
           DEF TypeOK, ServiceSteps, OneOwner, Queued, Given
      <4> QED BY <3>1, <4>1 DEF Waiting
    <3>5. {stamp'[o] : o \in Waiting'} = {stamp[o] : o \in Waiting} \cup {arrivals + 1}
      BY <3>1, <3>4
    <3>6. ExactlyOnce'
      <4>1. 1..(arrivals + 1) = (1..arrivals) \cup {arrivals + 1}
        BY <2>1 DEF StampInv
      <4>2. \A o, p \in Queued' : stamp'[o] = stamp'[p] => o = p
        BY <2>1, <3>1 DEF ExactlyOnce, StampInv
      <4>3. arrivals + 1 \notin Range(log)
        BY <2>1 DEF ExactlyOnce, StampInv
      <4>4. NoRepeat(log') /\ Range(log') = Range(log)
        BY <2>1, <3>2 DEF ExactlyOnce
      <4>5. {stamp'[o] : o \in Waiting'} \cap Range(log) = {}
        BY <2>1, <3>5, <4>3 DEF ExactlyOnce
      <4>6. {stamp'[o] : o \in Waiting'} \cup Range(log) = 1..(arrivals + 1)
        BY <2>1, <3>5, <4>1 DEF ExactlyOnce
      <4> QED BY <3>2, <4>2, <4>4, <4>5, <4>6 DEF ExactlyOnce
    <3> QED BY <3>1, <3>3, <3>6 DEF OrderInv
  <2>3. CASE SwapStamped
    <3>1. /\ Queued' = Queued /\ Waiting' = Waiting
          /\ UNCHANGED <<arrivals, stamp, log>>
      BY <2>3 DEF SwapStamped, SwapQueues, Queued, Waiting, Given
    <3>2. QueuesInOrder'
      BY <2>1, <2>3, <3>1
         DEF SwapStamped, SwapQueues, QueuesInOrder, SortedByArrival
    <3> QED BY <2>1, <3>1, <3>2 DEF OrderInv, StampInv, ExactlyOnce, NoRepeat
  <2>4. CASE ProcessStamped
    <3> DEFINE h == Head(mWorkQueue)
    <3>1. /\ pc = "process" /\ pc' \in {"pop", "reply"}
          /\ UNCHANGED <<mPacketQueue, mWorkQueue, arrivals, stamp>>
          /\ log' = Append(log, stamp[h])
      BY <2>4 DEF ProcessStamped, ProcessPacket
    <3>2. h \in Queued /\ stamp[h] \in 1..arrivals /\ stamp[h] \in Nat
      BY <2>1, <3>1, RangeTail
         DEF TypeOK, ServiceSteps, OneOwner, Queued, StampInv
    <3>3. /\ Queued' = Queued /\ Waiting = Queued /\ Waiting' = Queued \ {h}
      BY <3>1 DEF Queued, Waiting, Given
    <3>4. stamp[h] \notin Range(log)
      BY <2>1, <3>2, <3>3 DEF ExactlyOnce
    <3>5. /\ Range(log') = Range(log) \cup {stamp[h]}
          /\ NoRepeat(log') /\ log' \in Seq(Nat)
      BY <2>1, <3>1, <3>2, <3>4, RangeAppend, NoRepeatAppend
         DEF StampInv, ExactlyOnce
    <3>6. {stamp[o] : o \in Queued \ {h}} = {stamp[o] : o \in Queued} \ {stamp[h]}
      BY <2>1, <3>2 DEF ExactlyOnce
    <3>7. ExactlyOnce'
      BY <2>1, <3>1, <3>2, <3>3, <3>5, <3>6 DEF ExactlyOnce
    <3>8. StampInv' /\ QueuesInOrder'
      BY <2>1, <3>1, <3>3, <3>5 DEF StampInv, QueuesInOrder, SortedByArrival
    <3> QED BY <3>7, <3>8 DEF OrderInv
  <2>5. CASE OtherDispatch
    <3>1. CASE TestRunning \/ FindEmpty \/ TestLoop
      <4>1. Given' = Given
        BY <3>1 DEF TestRunning, FindEmpty, TestLoop, Given
      <4> QED BY <2>5, <3>1, <4>1, QuietStep
              DEF OtherDispatch, TestRunning, FindEmpty, TestLoop, history
    <3>3. CASE AnswerStep
      <4>1. Given' = Given
        BY <3>3 DEF AnswerStep, RejectAnswer, EnqueuePacket, SendAnswer, Given
      <4> QED BY <2>5, <3>3, <4>1, QuietStep
              DEF OtherDispatch, AnswerStep, RejectAnswer, EnqueuePacket,
                  SendAnswer, history
    <3>2. CASE PopPacket
      <4> DEFINE h == Head(mWorkQueue)
      <4>1. /\ pc = "pop" /\ pc' = "loop" /\ mWorkQueue # <<>>
            /\ mWorkQueue' = Tail(mWorkQueue)
            /\ UNCHANGED <<mPacketQueue, arrivals, stamp, log>>
        BY <2>5, <3>2 DEF OtherDispatch, PopPacket, TypeOK, history
      <4>2. /\ h \in Range(mWorkQueue)
            /\ Range(mWorkQueue') = Range(mWorkQueue) \ {h}
        BY <4>1, RangeTail DEF TypeOK, OneOwner
      <4>3. Queued' = Queued \ {h} /\ Waiting' = Waiting
        BY <4>1, <4>2 DEF Queued, Waiting, Given, OneOwner
      <4>4. QueuesInOrder'
        BY <2>1, <4>1, TailKeepsOrder DEF TypeOK, QueuesInOrder, SortedByArrival
      <4> QED BY <2>1, <4>1, <4>3, <4>4
              DEF OrderInv, StampInv, ExactlyOnce, NoRepeat
    <3> QED BY <2>5, <3>1, <3>2, <3>3 DEF OtherDispatch
  <2>6. CASE OtherStep
    <3>1. /\ UNCHANGED <<mPacketQueue, mWorkQueue, arrivals, stamp, log>>
          /\ pc' = pc \/ (main = "create" /\ pc' = "test")
      BY <2>6 DEF OtherStep, history, Main, StartThread, SetService, SetRunning,
                  InitializeNetwork, StopRunning, UnsetService, Join,
                  ReadError, GetPacket, SendNext
    <3>2. Given' = Given
      BY <3>1 DEF Given, TypeOK
    <3> QED BY <3>1, <3>2, QuietStep
  <2>7. CASE UNCHANGED ovars
    BY <2>7, QuietStep DEF ovars, vars, history, Given
  <2> QED BY <2>2, <2>3, <2>4, <2>5, <2>6, <2>7 DEF OrderNext
<1> QED BY <1>1, <1>2, TypeCorrect, Ownership, LoopInvariant,
           OrderImplementsDispatcher, PTL DEF OrderSpec

(* Packets that share a queue are never reordered, for any number of        *)
(* workers and packets.                                                    *)
THEOREM QueuesStayInOrder == OrderSpec => []QueuesInOrder
<1>1. OrderInv => QueuesInOrder
  BY DEF OrderInv
<1> QED BY <1>1, OrderInvariant, PTL

(* Every pushed packet waits in exactly one queue or was given to the       *)
(* service exactly once.                                                   *)
THEOREM ProcessedExactlyOnce == OrderSpec => []ExactlyOnce
<1>1. OrderInv => ExactlyOnce
  BY DEF OrderInv
<1> QED BY <1>1, OrderInvariant, PTL
=============================================================================
