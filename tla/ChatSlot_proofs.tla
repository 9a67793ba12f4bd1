--------------------------- MODULE ChatSlot_proofs ---------------------------
(***************************************************************************)
(* Proofs about ChatSlot, for any set of workers and any bounds.            *)
(***************************************************************************)
EXTENDS ChatSlot, SequenceTheorems, FiniteSetTheorems, TLAPS

Op == {"accept", "recv", "send"}

(* What the argument needs of the types. *)
SendTypes ==
  /\ mSendQueue \in Seq(Nat) /\ pushed \in Nat /\ sendFailed \in BOOLEAN
  /\ \A x \in io : x.op \in Op
  /\ DOMAIN pc = Worker /\ pc = [w \in Worker |-> pc[w]]
  /\ DOMAIN it = Worker /\ it = [w \in Worker |-> it[w]]

SendInv == SendTypes /\ FrontUnderWay

-----------------------------------------------------------------------------
(* Lemmas on the set of calls *)

(* Ending calls changes no tag, so the sends stay one and the front's.       *)
LEMMA EndedSends ==
  ASSUME NEW s, io' = EndIO(s)
  PROVE  /\ \A y \in Sends' : \E x \in Sends : y = x \/ y = Ended(x, "failed")
         /\ Sends # {} => Sends' # {}
         /\ (\A x, y \in Sends : x = y) => \A x, y \in Sends' : x = y
<1> DEFINE f(x) == IF x.sock = s /\ x.st = "posted" THEN Ended(x, "failed") ELSE x
<1>1. \A x : f(x).op = x.op
  BY DEF Ended, Call
<1>2. io' = {f(x) : x \in io}
  BY DEF EndIO
<1>3. \A y \in Sends' : \E x \in Sends : y = f(x)
  BY <1>1, <1>2 DEF Sends
<1>4. \A x \in Sends : f(x) \in Sends'
  BY <1>1, <1>2 DEF Sends
<1> QED BY <1>3, <1>4

(* A step that leaves the queue and the workers' places at the sends alone,  *)
(* and at most ends calls, keeps the invariant.                             *)
LEMMA CallsEnd ==
  ASSUME SendInv, SendTypes',
         UNCHANGED <<mSendQueue, sendFailed>>,
         \A w \in Worker : (pc'[w] = "sent") <=> (pc[w] = "sent"),
         \A w \in Worker : pc[w] = "sent" => it'[w] = it[w],
         \A y \in Sends' : \E x \in Sends : y.tag = x.tag,
         Sends # {} => Sends' # {},
         \A x, y \in Sends' : x = y
  PROVE  SendInv'
BY DEF SendInv, FrontUnderWay

(* The same for a step that leaves the sends alone. *)
LEMMA SendsStay ==
  ASSUME SendInv, SendTypes',
         UNCHANGED <<mSendQueue, sendFailed>>, Sends' = Sends,
         \A w \in Worker : (pc'[w] = "sent") <=> (pc[w] = "sent"),
         \A w \in Worker : pc[w] = "sent" => it'[w] = it[w]
  PROVE  SendInv'
BY DEF SendInv, FrontUnderWay

(* Worker w goes from one place that is not "sent" to another. *)
LEMMA GotoElsewhere ==
  ASSUME SendTypes, NEW w \in Worker, pc[w] # "sent",
         NEW step, step # "sent", Goto(w, step) \/ Finish(w)
  PROVE  /\ DOMAIN pc' = Worker /\ pc' = [v \in Worker |-> pc'[v]]
         /\ DOMAIN it' = Worker /\ it' = [v \in Worker |-> it'[v]]
         /\ \A v \in Worker : (pc'[v] = "sent") <=> (pc[v] = "sent")
         /\ \A v \in Worker : pc[v] = "sent" => it'[v] = it[v]
BY DEF SendTypes, Goto, Finish

-----------------------------------------------------------------------------

(* SendIO posts the front of the queue it is given, alone, or notes failure. *)
LEMMA SendIOStep ==
  ASSUME SendTypes, NEW q, Sends = {}, SendIO(q)
  PROVE  /\ sendFailed' \in BOOLEAN /\ \A x \in io' : x.op \in Op
         /\ \A x, y \in Sends' : x = y
         /\ \A x \in Sends' : x.tag = Head(q)
         /\ ~sendFailed' => Sends' # {}
<1> DEFINE c == Call("send", mSocket, Head(q), "posted")
<1>1. c.op = "send" /\ c.tag = Head(q)
  BY DEF Call
<1>2. CASE io' = io \cup {c} /\ UNCHANGED sendFailed
  <2>1. Sends' = {c}
    BY <1>1, <1>2 DEF Sends
  <2> QED BY <1>1, <1>2, <2>1 DEF SendTypes, Op
<1>3. CASE sendFailed' = TRUE /\ UNCHANGED <<io, wire>>
  BY <1>3 DEF Sends, SendTypes
<1> QED BY <1>2, <1>3 DEF SendIO

(* The packet thread pushes a message. *)
LEMMA SendMsgStep ==
  ASSUME SendInv, SendMsg
  PROVE  SendInv'
<1> DEFINE m == pushed + 1
<1> USE DEF SendInv, SendTypes
<1>1. /\ mSendQueue' = Append(mSendQueue, m) /\ m \in Nat /\ UNCHANGED <<pc, it>>
      /\ pushed' = m
  BY DEF SendMsg, threadVars
<1>3. CASE mSendQueue = <<>>
  <2>1. Sends = {} /\ \A w \in Worker : pc[w] # "sent"
    BY <1>3 DEF FrontUnderWay
  <2>2. mSendQueue' # <<>> /\ SendIO(mSendQueue')
    BY <1>1, <1>3 DEF SendMsg
  <2>3. /\ sendFailed' \in BOOLEAN /\ \A x \in io' : x.op \in Op
        /\ \A x, y \in Sends' : x = y
        /\ \A x \in Sends' : x.tag = Head(mSendQueue')
        /\ ~sendFailed' => Sends' # {}
    BY <2>1, <2>2, SendIOStep
  <2> QED BY <1>1, <2>1, <2>2, <2>3 DEF FrontUnderWay
<1>4. CASE mSendQueue # <<>>
  <2>1. /\ mSendQueue' # <<>> /\ Head(mSendQueue') = Head(mSendQueue)
        /\ Len(mSendQueue') # 1
    BY <1>1, <1>4
  <2>2. UNCHANGED <<io, sendFailed>>
    BY <2>1 DEF SendMsg
  <2>3. Sends' = Sends
    BY <2>2 DEF Sends
  <2> QED BY <1>1, <1>4, <2>1, <2>2, <2>3 DEF FrontUnderWay
<1> QED BY <1>3, <1>4

(* A worker handles a completed send: it frees the front and posts the next.  *)
LEMMA SendCompletedStep ==
  ASSUME SendInv, NEW w \in Worker, SendCompleted(w)
  PROVE  SendInv'
<1> USE DEF SendInv, SendTypes
<1>1. Sends = {} /\ mSendQueue # <<>> /\ \A v \in Worker : pc[v] = "sent" => v = w
  BY DEF SendCompleted, FrontUnderWay
<1>2. mSendQueue' \in Seq(Nat) /\ pushed' \in Nat
  BY <1>1 DEF SendCompleted
<1>5. /\ DOMAIN pc' = Worker /\ pc' = [v \in Worker |-> pc'[v]]
      /\ DOMAIN it' = Worker /\ it' = [v \in Worker |-> it'[v]]
      /\ \A v \in Worker : pc'[v] # "sent"
  BY <1>1 DEF SendCompleted, Finish
<1>3. CASE mSendQueue' = <<>>
  <2>1. Sends' = {} /\ UNCHANGED <<io, sendFailed>>
    BY <1>1, <1>3 DEF SendCompleted, Sends
  <2> QED BY <1>2, <1>5, <1>3, <2>1 DEF FrontUnderWay
<1>4. CASE mSendQueue' # <<>>
  <2>1. SendIO(mSendQueue')
    BY <1>4 DEF SendCompleted
  <2>2. /\ sendFailed' \in BOOLEAN /\ \A x \in io' : x.op \in Op
        /\ \A x, y \in Sends' : x = y
        /\ \A x \in Sends' : x.tag = Head(mSendQueue')
        /\ ~sendFailed' => Sends' # {}
    BY <1>1, <2>1, SendIOStep
  <2> QED BY <1>2, <1>5, <1>4, <2>2 DEF FrontUnderWay
<1> QED BY <1>3, <1>4

(* A worker takes a completion from the port. *)
LEMMA TakeStep ==
  ASSUME SendInv, NEW w \in Worker, NEW x \in io, Take(w, x)
  PROVE  SendInv'
<1> USE DEF SendInv
<1>1. pc[w] = "idle" /\ io' = io \ {x} /\ UNCHANGED <<mSendQueue, pushed>>
  BY DEF Take
<1>2. Sends' = Sends \ {x}
  BY <1>1 DEF Sends
<1>3. SendTypes'
  BY <1>1 DEF Take, threadVars, SendTypes
<1>4. CASE x.op = "send" /\ x.st # "failed"
  <2>1. /\ pc' = [pc EXCEPT ![w] = "sent"] /\ it' = [it EXCEPT ![w] = x]
        /\ UNCHANGED sendFailed
    BY <1>4 DEF Take, Handler, SendTypes
  <2>2. Sends = {x} /\ Sends' = {}
    BY <1>2, <1>4 DEF Sends, FrontUnderWay
  <2>3. /\ \A v \in Worker : pc'[v] = "sent" => v = w
        /\ pc'[w] = "sent" /\ it'[w] = x
    BY <2>1, <2>2 DEF SendTypes, FrontUnderWay
  <2> QED BY <1>1, <1>3, <2>1, <2>2, <2>3 DEF FrontUnderWay
<1>5. CASE x.op = "send" /\ x.st = "failed"
  <2>1. sendFailed' = TRUE /\ pc' = [pc EXCEPT ![w] = "check"]
    BY <1>5 DEF Take
  <2>2. Sends = {x} /\ Sends' = {}
    BY <1>2, <1>5 DEF Sends, FrontUnderWay
  <2>3. \A v \in Worker : pc'[v] # "sent"
    BY <2>1, <2>2 DEF SendTypes, FrontUnderWay
  <2> QED BY <1>3, <2>1, <2>2, <2>3 DEF FrontUnderWay
<1>6. CASE x.op # "send"
  <2>1. Sends' = Sends
    BY <1>2, <1>6 DEF Sends
  <2>2. sendFailed' = sendFailed
    BY <1>6 DEF Take, SendTypes
  <2>3. /\ \A v \in Worker : (pc'[v] = "sent") <=> (pc[v] = "sent")
        /\ \A v \in Worker : pc[v] = "sent" => it'[v] = it[v]
    BY <1>1, <1>6 DEF Take, threadVars, SendTypes, Handler, Op
  <2> QED BY <1>1, <1>3, <2>1, <2>2, <2>3, SendsStay
<1> QED BY <1>4, <1>5, <1>6 DEF Take

-----------------------------------------------------------------------------

(* A worker posts the next receive, or does not. *)
LEMMA BindRecvSends ==
  ASSUME SendTypes, BindRecv
  PROVE  Sends' = Sends /\ \A x \in io' : x.op \in Op
BY DEF BindRecv, Call, Sends, SendTypes, Op

(* A worker shuts or closes the socket the slot has. *)
LEMMA EndIOStep ==
  ASSUME SendInv, NEW w \in Worker, NEW step, step # "sent", pc[w] # "sent",
         io' = EndIO(mSocket) \/ UNCHANGED io,
         Goto(w, step), UNCHANGED sendVars
  PROVE  SendInv'
<1> USE DEF SendInv
<1>1. /\ DOMAIN pc' = Worker /\ pc' = [v \in Worker |-> pc'[v]]
      /\ DOMAIN it' = Worker /\ it' = [v \in Worker |-> it'[v]]
      /\ \A v \in Worker : (pc'[v] = "sent") <=> (pc[v] = "sent")
      /\ \A v \in Worker : pc[v] = "sent" => it'[v] = it[v]
  BY GotoElsewhere
<1>2. CASE UNCHANGED io
  <2>1. Sends' = Sends /\ SendTypes'
    BY <1>1, <1>2 DEF Sends, SendTypes, sendVars
  <2> QED BY <1>1, <2>1, SendsStay DEF sendVars
<1>3. CASE io' = EndIO(mSocket)
  <2>1. \A y \in io' : y.op \in Op
    BY <1>3 DEF EndIO, Ended, Call, SendTypes
  <2>2. SendTypes'
    BY <1>1, <2>1 DEF SendTypes, sendVars
  <2>3. \A y \in Sends' : \E x \in Sends : y = x \/ y = Ended(x, "failed")
    BY <1>3, EndedSends
  <2>4. \A y \in Sends' : \E x \in Sends : y.tag = x.tag
    BY <2>3 DEF Ended, Call
  <2>5. (Sends # {} => Sends' # {}) /\ \A x, y \in Sends' : x = y
    BY <1>3, EndedSends DEF FrontUnderWay
  <2> QED BY <1>1, <2>2, <2>4, <2>5, CallsEnd DEF sendVars
<1> QED BY <1>2, <1>3

(* Any other step of a worker keeps the invariant. *)
LEMMA OtherWork ==
  ASSUME SendInv, NEW w \in Worker,
         \/ Connect(w) \/ BindFirst(w) \/ Receive(w) \/ CheckConnected(w)
         \/ MarkClosed(w) \/ StampTime(w) \/ ForgetSocket(w)
  PROVE  SendInv'
<1> USE DEF SendInv
<1>1. /\ pc[w] # "sent"
      /\ \/ Finish(w)
         \/ \E step \in {"bind", "check", "shutdown", "stamp", "close"} : Goto(w, step)
      /\ UNCHANGED <<mSendQueue, pushed, sendFailed>>
      /\ UNCHANGED io \/ BindRecv
  BY DEF Connect, BindFirst, Receive, CheckConnected, MarkClosed, StampTime,
         ForgetSocket, sendVars
<1>2. /\ DOMAIN pc' = Worker /\ pc' = [v \in Worker |-> pc'[v]]
      /\ DOMAIN it' = Worker /\ it' = [v \in Worker |-> it'[v]]
      /\ \A v \in Worker : (pc'[v] = "sent") <=> (pc[v] = "sent")
      /\ \A v \in Worker : pc[v] = "sent" => it'[v] = it[v]
  BY <1>1, GotoElsewhere
<1>3. Sends' = Sends /\ \A x \in io' : x.op \in Op
  <2>1. CASE UNCHANGED io
    BY <2>1 DEF Sends, SendTypes
  <2>2. CASE BindRecv
    BY <2>2, BindRecvSends
  <2> QED BY <1>1, <2>1, <2>2
<1>4. SendTypes'
  BY <1>1, <1>2, <1>3 DEF SendTypes
<1> QED BY <1>1, <1>2, <1>3, <1>4, SendsStay

(* The kernel completes a call. *)
LEMMA CompleteStep ==
  ASSUME SendInv, NEW x \in io, NEW st, Complete(x, st)
  PROVE  SendInv'
<1> USE DEF SendInv
<1>1. /\ io' = (io \ {x}) \cup {Ended(x, st)}
      /\ UNCHANGED <<mSendQueue, pushed, sendFailed, pc, it>>
  BY DEF Complete, sendVars, threadVars
<1>2. Ended(x, st).op = x.op /\ Ended(x, st).tag = x.tag
  BY DEF Ended, Call
<1>3. SendTypes'
  BY <1>1, <1>2 DEF SendTypes
<1>4. CASE x \in Sends
  <2>1. Sends = {x} /\ Sends' = {Ended(x, st)}
    BY <1>1, <1>2, <1>4 DEF Sends, FrontUnderWay
  <2> QED BY <1>1, <1>2, <1>3, <2>1, CallsEnd
<1>5. CASE x \notin Sends
  <2>1. Sends' = Sends
    BY <1>1, <1>2, <1>5 DEF Sends
  <2> QED BY <1>1, <1>3, <2>1, SendsStay
<1> QED BY <1>4, <1>5

(* Neither time nor the acceptor touches a send. *)
LEMMA AcceptorStep ==
  ASSUME SendInv, Age \/ Acceptor
  PROVE  SendInv'
<1> USE DEF SendInv
<1>1. UNCHANGED <<mSendQueue, pushed, sendFailed, pc, it>>
  BY DEF Age, Acceptor, SeesDisconnected, SeesTime, Arm, MakeSocket,
         PostAcceptEx, sendVars, threadVars
<1>2. UNCHANGED io \/ io' = io \cup {Call("accept", mSocket, 0, "posted")}
  BY DEF Age, Acceptor, SeesDisconnected, SeesTime, Arm, MakeSocket, PostAcceptEx
<1>3. Sends' = Sends /\ \A x \in io' : x.op \in Op
  BY <1>2 DEF Call, Sends, SendTypes, Op
<1>4. SendTypes'
  BY <1>1, <1>3 DEF SendTypes
<1> QED BY <1>1, <1>3, <1>4, SendsStay

-----------------------------------------------------------------------------
LEMMA InitSends == Init => SendInv
<1> SUFFICES ASSUME Init PROVE SendInv
  OBVIOUS
<1>1. mSendQueue \in Seq(Nat) /\ pushed \in Nat /\ sendFailed \in BOOLEAN
  BY EmptySeq DEF Init
<1>2. Sends = {} /\ io = {} /\ mSendQueue = <<>>
  BY DEF Init, Sends
<1>3. /\ DOMAIN pc = Worker /\ pc = [w \in Worker |-> pc[w]]
      /\ DOMAIN it = Worker /\ it = [w \in Worker |-> it[w]]
      /\ \A w \in Worker : pc[w] = "idle"
  BY DEF Init
<1> QED BY <1>1, <1>2, <1>3 DEF SendInv, SendTypes, FrontUnderWay

LEMMA StepSends == SendInv /\ [Next]_vars => SendInv'
<1> SUFFICES ASSUME SendInv, [Next]_vars PROVE SendInv'
  OBVIOUS
<1>1. CASE \E x \in io, st \in {"done", "failed"} : Complete(x, st)
  BY <1>1, CompleteStep
<1>2. CASE Age \/ Acceptor
  BY <1>2, AcceptorStep
<1>3. CASE SendMsg
  BY <1>3, SendMsgStep
<1>4. ASSUME NEW w \in Worker, Work(w) PROVE SendInv'
  <2>1. CASE \E x \in io : Take(w, x)
    BY <2>1, TakeStep
  <2>2. CASE SendCompleted(w)
    BY <2>2, SendCompletedStep
  <2>3. CASE Shutdown(w)
    BY <2>3, EndIOStep DEF Shutdown
  <2>4. CASE CloseHandle(w)
    BY <2>4, EndIOStep DEF CloseHandle
  <2>5. CASE \/ Connect(w) \/ BindFirst(w) \/ Receive(w) \/ CheckConnected(w)
             \/ MarkClosed(w) \/ StampTime(w) \/ ForgetSocket(w)
    BY <2>5, OtherWork
  <2> QED BY <1>4, <2>1, <2>2, <2>3, <2>4, <2>5 DEF Work
<1>5. CASE UNCHANGED vars
  <2>1. UNCHANGED <<mSendQueue, pushed, sendFailed, pc, it, io>>
    BY <1>5 DEF vars, sendVars, threadVars
  <2>2. Sends' = Sends /\ SendTypes'
    BY <2>1 DEF Sends, SendInv, SendTypes
  <2> QED BY <2>1, <2>2, SendsStay
<1> QED BY <1>1, <1>2, <1>3, <1>4, <1>5 DEF Next

(* At most one WSASend of a slot is under way and it is that of the front of   *)
(* mSendQueue, so SendCompleted frees the message that was sent, whatever      *)
(* closes, reuses and late completions come between.                         *)
THEOREM FrontIsUnderWay == Spec => []FrontUnderWay
<1>1. SendInv => FrontUnderWay
  BY DEF SendInv
<1> QED BY <1>1, InitSends, StepSends, PTL DEF Spec

-----------------------------------------------------------------------------
(* Types *)

Calls(n) == [op : Op, sock : 1..n, tag : Nat, st : {"posted", "done", "failed"}]
States == {"none", "made", "linked", "shut", "closed"}
Steps == {"idle", "connect", "bind", "receive", "sent"} \cup Closing

Slot ==
  /\ mIsConnect \in BOOLEAN /\ mLatestClosedTimeSec \in {"max", "recent", "old"}
  /\ made \in 0..MaxSocket /\ mSocket \in 0..made
  /\ state \in [1..MaxSocket -> States]
  /\ apc \in {"scan", "time", "arm", "socket", "post"}
  /\ asked \in BOOLEAN /\ crashed \in BOOLEAN
Working ==
  /\ pc \in [Worker -> Steps] /\ it = [w \in Worker |-> it[w]]
InPort == IsFiniteSet(io) /\ io \subseteq Calls(made)
Messages ==
  /\ pushed \in 0..MaxMsg /\ mSendQueue \in Seq(1..pushed)
  /\ pushedOn \in Seq(0..MaxSocket) /\ Len(pushedOn) = pushed
  /\ wire \in [1..MaxSocket -> Seq(1..pushed)]

Types == Slot /\ Working /\ InPort /\ Messages

(* There is a tag that no receive in the port has. *)
LEMMA FreeTag ==
  ASSUME IsFiniteSet(io)
  PROVE  \E n \in 1..Cardinality(io) + 1 : \A x \in io : x.op = "recv" => x.tag # n
<1> DEFINE S == 1..(Cardinality(io) + 1)
           f == [n \in S |-> CHOOSE x \in io : x.tag = n]
<1>1. Cardinality(io) \in Nat
  BY FS_CardinalityType
<1>2. IsFiniteSet(S) /\ Cardinality(S) = Cardinality(io) + 1
  BY <1>1, FS_Interval
<1> SUFFICES ASSUME \A n \in S : \E x \in io : x.tag = n PROVE FALSE
  OBVIOUS
<1>3. \A n \in S : f[n] \in io /\ f[n].tag = n
  OBVIOUS
<1>4. f \in [S -> io]
  BY <1>3
<1> HIDE DEF f
<1>5. \E a, b \in S : a # b /\ f[a] = f[b]
  BY <1>1, <1>2, <1>4, FS_PigeonHole
<1> QED BY <1>3, <1>5

(* Ending calls keeps them calls, and finite. *)
LEMMA EndedCalls ==
  ASSUME InPort, NEW s, io' = EndIO(s)
  PROVE  IsFiniteSet(io') /\ io' \subseteq Calls(made)
<1> DEFINE f == [x \in io |-> IF x.sock = s /\ x.st = "posted"
                              THEN Ended(x, "failed") ELSE x]
<1>1. io' = {f[x] : x \in io}
  BY DEF EndIO
<1>2. \A x \in io : f[x] \in Calls(made)
  BY DEF InPort, Calls, Ended, Call
<1>3. f \in Surjection(io, io')
  <2> HIDE DEF f
  <2>1. \A x \in io : f[x] \in io'
    BY <1>1
  <2>2. f \in [io -> io']
    BY <2>1 DEF f
  <2> QED BY <1>1, <2>2 DEF Surjection
<1> QED BY <1>1, <1>2, <1>3, FS_Surjection DEF InPort

(* So does a new one on the socket of the slot. *)
LEMMA OneMoreCall ==
  ASSUME Slot, InPort, NEW op \in Op, NEW tag \in Nat, mSocket # 0,
         io' = io \cup {Call(op, mSocket, tag, "posted")}
  PROVE  IsFiniteSet(io') /\ io' \subseteq Calls(made)
<1>1. mSocket \in 1..made
  BY ChatSlotAssumption DEF Slot
<1>2. Call(op, mSocket, tag, "posted") \in Calls(made)
  BY <1>1 DEF Call, Calls
<1> QED BY <1>2, FS_AddElement DEF InPort

LEMMA Tagged ==
  ASSUME Slot, InPort, BindRecv
  PROVE  IsFiniteSet(io') /\ io' \subseteq Calls(made)
<1>1. CASE io' = io
  BY <1>1 DEF InPort
<1>2. CASE io' # io
  <2> DEFINE tag == CHOOSE n \in 1..Cardinality(io) + 1 :
                      \A x \in io : x.op = "recv" => x.tag # n
  <2>1. tag \in 1..Cardinality(io) + 1
    BY FreeTag DEF InPort
  <2>2. tag \in Nat
    BY <2>1, FS_CardinalityType DEF InPort
  <2>3. Linked(mSocket) /\ io' = io \cup {Call("recv", mSocket, tag, "posted")}
    BY <1>2 DEF BindRecv
  <2> HIDE DEF tag
  <2> QED BY <2>2, <2>3, OneMoreCall DEF Linked, Op
<1> QED BY <1>1, <1>2

LEMMA SeqGrows ==
  ASSUME NEW n \in Nat, NEW s \in Seq(1..n)
  PROVE  s \in Seq(1..(n + 1)) /\ s \in Seq(Nat)
<1>1. \A i \in 1..Len(s) : s[i] \in 1..n
  OBVIOUS
<1>2. \A i \in 1..Len(s) : s[i] \in 1..(n + 1) /\ s[i] \in Nat
  BY <1>1
<1> QED BY <1>2, SeqDef

LEMMA SlotStep == Types /\ [Next]_vars => Slot'
<1> SUFFICES ASSUME Types, [Next]_vars PROVE Slot'
  OBVIOUS
<1> USE ChatSlotAssumption DEF slotVars, sockVars, sendVars, threadVars
<1>0. Slot /\ made \in Nat
  BY DEF Types, Slot
<1>1. ASSUME NEW x \in io, NEW st, Complete(x, st) PROVE Slot'
  BY <1>0, <1>1 DEF Complete, Slot, States
<1>2. CASE Age
  BY <1>0, <1>2 DEF Age, Slot
<1>3. CASE Acceptor
  <2>1. CASE MakeSocket
    BY <1>0, <2>1 DEF MakeSocket, Slot, States
  <2>2. CASE SeesDisconnected \/ SeesTime \/ Arm \/ PostAcceptEx
    BY <1>0, <2>2 DEF SeesDisconnected, SeesTime, Arm, PostAcceptEx, Slot
  <2> QED BY <1>3, <2>1, <2>2 DEF Acceptor
<1>4. CASE SendMsg
  BY <1>0, <1>4 DEF SendMsg, Slot
<1>5. ASSUME NEW w \in Worker, Work(w) PROVE Slot'
  <2>1. ASSUME NEW x \in io, Take(w, x) PROVE Slot'
    BY <1>0, <2>1 DEF Take, Slot
  <2>2. CASE Connect(w) \/ MarkClosed(w)
    <3>1. /\ mIsConnect' \in BOOLEAN
          /\ UNCHANGED <<mLatestClosedTimeSec, mSocket, made, state, apc, asked, crashed>>
      BY <2>2 DEF Connect, MarkClosed
    <3> QED BY <1>0, <3>1 DEF Slot
  <2>6. CASE StampTime(w)
    BY <1>0, <2>6 DEF StampTime, Slot
  <2>7. CASE ForgetSocket(w)
    <3>1. /\ mSocket' = 0
          /\ UNCHANGED <<mIsConnect, mLatestClosedTimeSec, made, state, apc, asked, crashed>>
      BY <2>7 DEF ForgetSocket
    <3> QED BY <1>0, <3>1 DEF Slot
  <2>3. CASE BindFirst(w) \/ SendCompleted(w) \/ CheckConnected(w)
    <3>1. UNCHANGED <<slotVars, sockVars, apc, asked, crashed>>
      BY <2>3 DEF BindFirst, SendCompleted, CheckConnected
    <3> QED BY <1>0, <3>1 DEF Slot
  <2>4. CASE Receive(w)
    BY <1>0, <2>4 DEF Receive, Slot
  <2>5. CASE Shutdown(w) \/ CloseHandle(w)
    BY <1>0, <2>5 DEF Shutdown, CloseHandle, Slot, States
  <2> QED BY <1>5, <2>1, <2>2, <2>3, <2>4, <2>5, <2>6, <2>7 DEF Work
<1>6. CASE UNCHANGED vars
  BY <1>0, <1>6 DEF vars, Slot
<1> QED BY <1>1, <1>2, <1>3, <1>4, <1>5, <1>6 DEF Next

LEMMA WorkingStep == Types /\ [Next]_vars => Working'
<1> SUFFICES ASSUME Types, [Next]_vars PROVE Working'
  OBVIOUS
<1> USE DEF Working, Steps, Closing, Goto, Finish
<1>0. Working /\ \A x \in io : x.op \in Op
  BY DEF Types, InPort, Calls
<1>1. CASE UNCHANGED threadVars
  BY <1>0, <1>1 DEF threadVars
<1>2. ASSUME NEW w \in Worker, Work(w) PROVE Working'
  <2>1. ASSUME NEW x \in io, Take(w, x) PROVE Working'
    BY <1>0, <1>1, <2>1 DEF Take, Handler, Op
  <2>2. CASE \/ Connect(w) \/ BindFirst(w) \/ Receive(w) \/ SendCompleted(w)
             \/ CheckConnected(w) \/ MarkClosed(w) \/ StampTime(w) \/ ForgetSocket(w)
             \/ Shutdown(w) \/ CloseHandle(w)
    BY <1>0, <2>2 DEF Connect, BindFirst, Receive, SendCompleted, CheckConnected,
                MarkClosed, StampTime, ForgetSocket, Shutdown, CloseHandle
  <2> QED BY <1>2, <2>1, <2>2 DEF Work
<1>3. CASE \/ Age \/ Acceptor \/ SendMsg \/ UNCHANGED vars
           \/ \E x \in io, st \in {"done", "failed"} : Complete(x, st)
  BY <1>1, <1>3 DEF Age, Acceptor, SeesDisconnected, SeesTime, Arm, MakeSocket,
                    PostAcceptEx, SendMsg, vars, Complete
<1> QED BY <1>2, <1>3 DEF Next

LEMMA InPortStep == Types /\ FrontUnderWay /\ [Next]_vars => InPort'
<1> SUFFICES ASSUME Types, FrontUnderWay, [Next]_vars PROVE InPort'
  OBVIOUS
<1> USE DEF slotVars, sockVars
<1>0. Slot /\ InPort /\ Messages /\ made \in Nat /\ MaxSocket \in Nat
  BY ChatSlotAssumption DEF Types, Slot
<1>1. CASE UNCHANGED <<io, made>>
  BY <1>0, <1>1 DEF InPort
<1>s. ASSUME IsFiniteSet(io') /\ io' \subseteq Calls(made), made' = made PROVE InPort'
  BY <1>s DEF InPort
<1>2. ASSUME NEW x \in io, NEW st \in {"done", "failed"}, Complete(x, st) PROVE InPort'
  <2>1. /\ io' = (io \ {x}) \cup {Ended(x, st)} /\ Ended(x, st) \in Calls(made)
        /\ made' = made
    BY <1>0, <1>2 DEF Complete, InPort, Calls, Ended, Call
  <2>2. IsFiniteSet(io')
    BY <1>0, <2>1, FS_RemoveElement, FS_AddElement DEF InPort
  <2> QED BY <1>0, <2>1, <2>2 DEF InPort
<1>3. CASE Acceptor
  <2>1. CASE MakeSocket
    <3>1. io' = io /\ (made' = made \/ made' = made + 1)
      BY <2>1 DEF MakeSocket
    <3>2. Calls(made) \subseteq Calls(made')
      BY <1>0, <3>1 DEF Calls
    <3> QED BY <1>0, <3>1, <3>2 DEF InPort
  <2>2. CASE PostAcceptEx
    <3>1. made' = made
      BY <2>2 DEF PostAcceptEx
    <3>2. UNCHANGED io \/ (mSocket # 0 /\ io' = io \cup {Call("accept", mSocket, 0, "posted")})
      BY <2>2 DEF PostAcceptEx
    <3>3. "accept" \in Op /\ 0 \in Nat
      BY DEF Op
    <3> QED BY <1>0, <1>1, <1>s, <3>1, <3>2, <3>3, OneMoreCall
  <2>3. CASE SeesDisconnected \/ SeesTime \/ Arm
    BY <1>1, <2>3 DEF SeesDisconnected, SeesTime, Arm
  <2> QED BY <1>3, <2>1, <2>2, <2>3 DEF Acceptor
<1>4. ASSUME NEW q, SendIO(q), Head(q) \in Nat, made' = made PROVE InPort'
  <2>1. io' = io \/ (mSocket # 0 /\ io' = io \cup {Call("send", mSocket, Head(q), "posted")})
    BY <1>4 DEF SendIO, Linked
  <2> QED BY <1>0, <1>1, <1>4, <1>s, <2>1, OneMoreCall DEF Op
<1>5. CASE SendMsg
  <2>1. mSendQueue \in Seq(Nat) /\ pushed \in Nat /\ made' = made
        /\ mSendQueue' = Append(mSendQueue, pushed + 1)
    BY <1>0, <1>5, SeqGrows, ChatSlotAssumption DEF Messages, SendMsg
  <2>2. CASE Len(mSendQueue') = 1
    <3>1. SendIO(mSendQueue') /\ Head(mSendQueue') \in Nat
      BY <1>5, <2>1, <2>2 DEF SendMsg
    <3> QED BY <1>4, <2>1, <3>1
  <2>3. CASE Len(mSendQueue') # 1
    BY <1>1, <1>5, <2>1, <2>3 DEF SendMsg
  <2> QED BY <2>2, <2>3
<1>6. ASSUME NEW w \in Worker, Work(w) PROVE InPort'
  <2>1. ASSUME NEW x \in io, Take(w, x) PROVE InPort'
    BY <1>0, <2>1, FS_RemoveElement DEF Take, InPort
  <2>2. CASE Connect(w) \/ MarkClosed(w) \/ StampTime(w) \/ ForgetSocket(w)
             \/ CheckConnected(w)
    BY <1>1, <2>2 DEF Connect, MarkClosed, StampTime, ForgetSocket, CheckConnected
  <2>3. CASE BindFirst(w) \/ Receive(w)
    <3>1. BindRecv /\ made' = made
      BY <2>3 DEF BindFirst, Receive
    <3> QED BY <1>0, <1>s, <3>1, Tagged
  <2>4. CASE SendCompleted(w)
    <3>1. /\ mSendQueue' = Tail(mSendQueue) /\ made' = made
          /\ mSendQueue \in Seq(Nat) /\ mSendQueue # <<>>
      BY <1>0, <2>4, SeqGrows, ChatSlotAssumption
      DEF SendCompleted, FrontUnderWay, Messages
    <3>2. CASE mSendQueue' # <<>>
      <4>1. Head(mSendQueue') \in Nat
        BY <3>1, <3>2
      <4>2. SendIO(mSendQueue')
        BY <2>4, <3>2 DEF SendCompleted
      <4> QED BY <1>4, <3>1, <4>1, <4>2
    <3>3. CASE mSendQueue' = <<>>
      BY <1>1, <2>4, <3>3 DEF SendCompleted
    <3> QED BY <3>2, <3>3
  <2>5. CASE Shutdown(w) \/ CloseHandle(w)
    <3>1. made' = made /\ (io' = io \/ io' = EndIO(mSocket))
      BY <2>5 DEF Shutdown, CloseHandle
    <3> QED BY <1>0, <1>1, <1>s, <3>1, EndedCalls
  <2> QED BY <1>6, <2>1, <2>2, <2>3, <2>4, <2>5 DEF Work
<1>7. CASE Age \/ UNCHANGED vars
  BY <1>1, <1>7 DEF Age, vars
<1> QED BY <1>2, <1>3, <1>5, <1>6, <1>7 DEF Next

(* What SendIO gives to the socket is the front of the queue. *)
LEMMA WireGrows ==
  ASSUME Slot, NEW n \in Nat, wire \in [1..MaxSocket -> Seq(1..n)],
         NEW q, Head(q) \in 1..n, SendIO(q)
  PROVE  wire' \in [1..MaxSocket -> Seq(1..n)]
<1>1. CASE UNCHANGED wire
  BY <1>1
<1>2. CASE /\ Linked(mSocket)
           /\ wire' = [wire EXCEPT ![mSocket] = Append(@, Head(q))]
  <2>1. mSocket \in 1..MaxSocket
    BY <1>2, ChatSlotAssumption DEF Slot, Linked
  <2>2. wire[mSocket] \in Seq(1..n)
    BY <2>1
  <2>3. Append(wire[mSocket], Head(q)) \in Seq(1..n)
    BY <2>2, AppendProperties
  <2> QED BY <1>2, <2>1, <2>3
<1> QED BY <1>1, <1>2 DEF SendIO

LEMMA MessagesStep == Types /\ FrontUnderWay /\ [Next]_vars => Messages'
<1> SUFFICES ASSUME Types, FrontUnderWay, [Next]_vars PROVE Messages'
  OBVIOUS
<1> USE DEF sendVars
<1>0. Slot /\ Messages /\ MaxMsg \in Nat /\ pushed \in Nat
  BY ChatSlotAssumption DEF Types, Messages
<1>1. CASE UNCHANGED <<mSendQueue, pushed, pushedOn, wire>>
  BY <1>0, <1>1 DEF Messages
<1>2. CASE SendMsg
  <2> DEFINE m == pushed + 1
  <2>1. /\ m \in 1..MaxMsg /\ pushed' = m
        /\ mSendQueue' = Append(mSendQueue, m) /\ pushedOn' = Append(pushedOn, mSocket)
    BY <1>0, <1>2 DEF SendMsg, Messages
  <2>2. mSendQueue \in Seq(1..m) /\ m \in 1..m
    BY <1>0, SeqGrows DEF Messages
  <2>3. mSendQueue' \in Seq(1..m)
    BY <2>1, <2>2, AppendProperties
  <2>4. mSocket \in 0..MaxSocket
    BY <1>0, ChatSlotAssumption DEF Slot
  <2>5. pushedOn' \in Seq(0..MaxSocket) /\ Len(pushedOn') = m
    BY <1>0, <2>1, <2>4, AppendProperties DEF Messages
  <2>6. wire \in [1..MaxSocket -> Seq(1..m)]
    <3>1. \A k \in 1..MaxSocket : wire[k] \in Seq(1..m)
      BY <1>0, SeqGrows DEF Messages
    <3> QED BY <1>0, <3>1 DEF Messages
  <2>7. wire' \in [1..MaxSocket -> Seq(1..m)]
    <3>1. CASE Len(mSendQueue') = 1
      <4>1. SendIO(mSendQueue')
        BY <1>2, <3>1 DEF SendMsg
      <4>2. Head(mSendQueue') \in 1..m
        <5>1. mSendQueue' # <<>>
          BY <3>1
        <5> QED BY <2>3, <5>1, HeadTailProperties
      <4> QED BY <1>0, <2>6, <4>1, <4>2, WireGrows
    <3>2. CASE Len(mSendQueue') # 1
      BY <1>2, <2>6, <3>2 DEF SendMsg
    <3> QED BY <3>1, <3>2
  <2> HIDE DEF m
  <2>8. m \in 0..MaxMsg
    BY <2>1
  <2> QED BY <2>1, <2>3, <2>5, <2>7, <2>8 DEF Messages
<1>3. ASSUME NEW w \in Worker, SendCompleted(w) PROVE Messages'
  <2>1. /\ mSendQueue' = Tail(mSendQueue) /\ UNCHANGED <<pushed, pushedOn>>
        /\ mSendQueue \in Seq(1..pushed) /\ mSendQueue # <<>>
    BY <1>0, <1>3 DEF SendCompleted, FrontUnderWay, Messages
  <2>2. mSendQueue' \in Seq(1..pushed)
    BY <2>1
  <2>3. wire' \in [1..MaxSocket -> Seq(1..pushed)]
    <3>1. CASE mSendQueue' # <<>>
      <4>1. SendIO(mSendQueue')
        BY <1>3, <3>1 DEF SendCompleted
      <4>2. Head(mSendQueue') \in 1..pushed
        BY <2>2, <3>1, HeadTailProperties
      <4> QED BY <1>0, <4>1, <4>2, WireGrows DEF Messages
    <3>2. CASE mSendQueue' = <<>>
      BY <1>0, <1>3, <3>2 DEF SendCompleted, Messages
    <3> QED BY <3>1, <3>2
  <2> QED BY <1>0, <2>1, <2>2, <2>3 DEF Messages
<1>4. CASE \/ Age \/ Acceptor \/ UNCHANGED vars
           \/ \E x \in io, st \in {"done", "failed"} : Complete(x, st)
  BY <1>1, <1>4 DEF Age, Acceptor, SeesDisconnected, SeesTime, Arm, MakeSocket,
                    PostAcceptEx, vars, Complete
<1>5. ASSUME NEW w \in Worker, Work(w), ~SendCompleted(w) PROVE Messages'
  BY <1>1, <1>5 DEF Work, Take, Connect, BindFirst, Receive, CheckConnected, Shutdown,
                    MarkClosed, StampTime, CloseHandle, ForgetSocket
<1> QED BY <1>2, <1>3, <1>4, <1>5 DEF Next

TypeInv == SendInv /\ Types

LEMMA TypeStep == TypeInv /\ [Next]_vars => TypeInv'
<1>1. SendInv => FrontUnderWay
  BY DEF SendInv
<1> QED BY <1>1, StepSends, SlotStep, WorkingStep, InPortStep, MessagesStep DEF TypeInv, Types

LEMMA InitTypes == Init => TypeInv
<1> SUFFICES ASSUME Init PROVE Types
  BY InitSends DEF TypeInv
<1>1. Slot
  <2>1. state \in [1..MaxSocket -> States]
    BY DEF Init, States
  <2>2. made = 0 /\ mSocket = 0 /\ mIsConnect = FALSE /\ mLatestClosedTimeSec = "old"
        /\ apc = "scan" /\ asked = FALSE /\ crashed = FALSE
    BY DEF Init
  <2>3. made \in 0..MaxSocket /\ mSocket \in 0..made
    BY <2>2, ChatSlotAssumption
  <2>4. /\ mIsConnect \in BOOLEAN /\ mLatestClosedTimeSec \in {"max", "recent", "old"}
        /\ apc \in {"scan", "time", "arm", "socket", "post"}
        /\ asked \in BOOLEAN /\ crashed \in BOOLEAN
    BY <2>2
  <2> QED BY <2>1, <2>3, <2>4 DEF Slot
<1>2. Working
  BY DEF Init, Working, Steps
<1>3. InPort
  BY FS_EmptySet DEF Init, InPort
<1>4. Messages
  BY ChatSlotAssumption, EmptySeq DEF Init, Messages
<1> QED BY <1>1, <1>2, <1>3, <1>4 DEF Types

(* Every variable keeps its type; above all, the buffer of a WSASend that is     *)
(* posted is in the queue that frees it, through every close and reuse.      *)
THEOREM TypeCorrect == Spec => []TypeOK
<1>1. TypeInv => TypeOK
  <2> SUFFICES ASSUME TypeInv PROVE TypeOK
    OBVIOUS
  <2>1. Types /\ FrontUnderWay
    BY DEF TypeInv, SendInv
  <2>2. \A x \in Sends : x.tag \in Range(mSendQueue)
    <3> SUFFICES ASSUME NEW x \in Sends PROVE x.tag \in Range(mSendQueue)
      OBVIOUS
    <3>1. mSendQueue # <<>> /\ x.tag = Head(mSendQueue) /\ mSendQueue \in Seq(1..pushed)
      BY <2>1 DEF FrontUnderWay, Types, Messages
    <3>2. Head(mSendQueue) = mSendQueue[1] /\ 1 \in DOMAIN mSendQueue
      BY <3>1
    <3> QED BY <3>1, <3>2 DEF Range
  <2>3. \A x \in io : x \in [op : {"accept", "recv", "send"}, sock : 1..made,
                             tag : Nat, st : {"posted", "done", "failed"}]
    BY <2>1 DEF Types, InPort, Calls, Op
  <2> QED BY <2>1, <2>2, <2>3 DEF TypeOK, Types, Slot, Working, Messages, States, Steps
<1> QED BY <1>1, InitTypes, TypeStep, PTL DEF Spec

-----------------------------------------------------------------------------
(* The life of a slot *)

At(steps) == \A w \in Worker : pc[w] \in steps
Busy(steps) == \E w \in Worker : pc[w] \in steps

NoAccept == \A x \in io : x.op # "accept"
OneAccept == \E x \in io : x.op = "accept" /\ \A y \in io : y.op = "accept" => y = x
Listens == \E x \in Receives : x.sock = mSocket

Polls == apc \in {"scan", "time"}
Quiet == io = {} /\ At({"idle"}) /\ ~mIsConnect
Unconnected == mLatestClosedTimeSec = "max" /\ ~mIsConnect /\ Polls

(* The wait is over, or there has been no connection. *)
ReadyAgain ==
  /\ mLatestClosedTimeSec = "old" /\ Quiet /\ mSocket = 0
  /\ apc \in {"scan", "time", "arm"}

(* The acceptor is at it, or PostAccept has failed for good. *)
Arming ==
  /\ mLatestClosedTimeSec = "max" /\ Quiet
  /\ \/ apc = "socket" /\ mSocket = 0
     \/ apc \in {"post", "scan", "time"} /\ ~Linked(mSocket)

(* The AcceptEx is in the port; a peer may already be sent to. *)
Waiting ==
  /\ Unconnected /\ OneAccept /\ Receives = {} /\ mSocket # 0
  /\ At({"idle", "sent", "check"})

(* A worker has its completion. *)
HandedOver ==
  /\ Unconnected /\ NoAccept /\ Receives = {} /\ mSocket # 0
  /\ \E w \in Worker : /\ pc[w] = "connect"
                       /\ \A v \in Worker \ {w} : pc[v] \in {"idle", "sent", "check"}

(* The AcceptEx has failed. *)
Stopped ==
  /\ Unconnected /\ NoAccept /\ Receives = {} /\ crashed
  /\ At({"idle", "sent", "check"})

(* Until the first close marks it, a connected slot listens, or a worker is    *)
(* about to post the receive or to close, or a receive could not be posted.  *)
Connected ==
  /\ mLatestClosedTimeSec = "max" /\ mIsConnect /\ Polls /\ NoAccept /\ mSocket # 0
  /\ At({"idle", "bind", "receive", "sent", "check", "shutdown", "mark"})
  /\ ~bindFailed => Listens \/ Busy({"bind", "receive", "check", "shutdown", "mark"})

(* From the first mark to the end of the wait: the close stamps the time        *)
(* before it lets go of the socket.                                         *)
Closed ==
  /\ ~mIsConnect /\ Polls /\ NoAccept /\ At(Steps \ {"connect"})
  /\ \/ mLatestClosedTimeSec = "recent"
     \/ mLatestClosedTimeSec = "max" /\ Busy({"stamp"})
  /\ mSocket = 0 \/ Busy({"stamp", "close", "forget"})

Life == \/ ReadyAgain \/ Arming \/ Waiting \/ HandedOver \/ Stopped \/ Connected
        \/ Closed

(* All calls and all completions in a worker's hands are of the last socket.  *)
Own ==
  /\ mSocket \in {0, made}
  /\ \A x \in io : x.sock = made
  /\ \A w \in Worker : pc[w] # "idle" => it[w].sock = made

UnderWay == Sends # {} \/ Busy({"sent"})

(* While a send is under way, what waits behind it was queued on the same     *)
(* socket, or after Close had let go of it.                                *)
PushedOnIt ==
  UnderWay => \A m \in Range(mSendQueue) :
                pushedOn[m] = made \/ (pushedOn[m] = 0 /\ mSocket = 0)

SentRight == \A s \in 1..MaxSocket : \A m \in Range(wire[s]) : pushedOn[m] = s

UseInv == TypeInv /\ (~late => Life /\ Own /\ PushedOnIt /\ SentRight)

-----------------------------------------------------------------------------

(* A step that adds no accept and takes away neither that nor a receive. *)
KeepsCalls ==
  /\ NoAccept => NoAccept'
  /\ OneAccept => OneAccept'
  /\ Listens => Listens'
  /\ io = {} => io' = {} \/ Linked(mSocket)

NoneYet == Receives = {} => Receives' = {}

LEMMA EndKeeps ==
  ASSUME NEW s, io' = EndIO(s), UNCHANGED mSocket
  PROVE  KeepsCalls /\ NoneYet
<1> DEFINE f(x) == IF x.sock = s /\ x.st = "posted" THEN Ended(x, "failed") ELSE x
<1>1. \A x : f(x).op = x.op /\ f(x).sock = x.sock
  BY DEF Ended, Call
<1>2. io' = {f(x) : x \in io}
  BY DEF EndIO
<1> HIDE DEF f
<1>3. NoAccept => NoAccept'
  BY <1>1, <1>2 DEF NoAccept
<1>4. OneAccept => OneAccept'
  <2> SUFFICES ASSUME NEW x \in io, x.op = "accept",
                      \A y \in io : y.op = "accept" => y = x
               PROVE  OneAccept'
    BY DEF OneAccept
  <2>1. f(x) \in io' /\ f(x).op = "accept"
    BY <1>1, <1>2
  <2>2. \A z \in io' : z.op = "accept" => z = f(x)
    BY <1>1, <1>2
  <2> QED BY <2>1, <2>2 DEF OneAccept
<1>5. Listens => Listens'
  BY <1>1, <1>2 DEF Listens, Receives
<1>6. io = {} => io' = {}
  BY <1>2
<1>7. NoneYet
  BY <1>1, <1>2 DEF NoneYet, Receives
<1> QED BY <1>3, <1>4, <1>5, <1>6, <1>7 DEF KeepsCalls

LEMMA CompleteKeeps ==
  ASSUME NEW x \in io, NEW st, io' = (io \ {x}) \cup {Ended(x, st)}, UNCHANGED mSocket
  PROVE  KeepsCalls /\ NoneYet
<1> DEFINE e == Ended(x, st)
<1>1. e.op = x.op /\ e.sock = x.sock
  BY DEF Ended, Call
<1> HIDE DEF e
<1>2. io' = (io \ {x}) \cup {e}
  BY DEF e
<1>3. NoAccept => NoAccept'
  BY <1>1, <1>2 DEF NoAccept
<1>4. OneAccept => OneAccept'
  <2> SUFFICES ASSUME NEW a \in io, a.op = "accept",
                      \A y \in io : y.op = "accept" => y = a
               PROVE  OneAccept'
    BY DEF OneAccept
  <2>1. CASE a = x
    <3>1. e \in io' /\ e.op = "accept" /\ \A z \in io' : z.op = "accept" => z = e
      BY <1>1, <1>2, <2>1
    <3> QED BY <3>1 DEF OneAccept
  <2>2. CASE a # x
    <3>1. a \in io' /\ x.op # "accept"
      BY <1>2, <2>2
    <3>2. \A z \in io' : z.op = "accept" => z = a
      BY <1>1, <1>2, <3>1
    <3> QED BY <3>1, <3>2 DEF OneAccept
  <2> QED BY <2>1, <2>2
<1>5. Listens => Listens'
  BY <1>1, <1>2 DEF Listens, Receives
<1>6. NoneYet
  BY <1>1, <1>2 DEF NoneYet, Receives
<1> QED BY <1>3, <1>4, <1>5, <1>6 DEF KeepsCalls

LEMMA AddKeeps ==
  ASSUME NEW op \in {"recv", "send"}, NEW tag,
         \/ UNCHANGED io
         \/ Linked(mSocket) /\ io' = io \cup {Call(op, mSocket, tag, "posted")},
         UNCHANGED mSocket
  PROVE  KeepsCalls /\ (op = "send" => NoneYet)
<1> DEFINE c == Call(op, mSocket, tag, "posted")
<1>1. c.op = op /\ op # "accept"
  BY DEF Call
<1> HIDE DEF c
<1>2. CASE UNCHANGED io
  BY <1>2 DEF KeepsCalls, NoneYet, NoAccept, OneAccept, Listens, Receives
<1>3. CASE Linked(mSocket) /\ io' = io \cup {c}
  BY <1>1, <1>3 DEF KeepsCalls, NoneYet, NoAccept, OneAccept, Listens, Receives
<1> QED BY <1>2, <1>3 DEF c

(* The kernel completes something, or the packet thread answers. *)
LEMMA LifeOutside ==
  ASSUME Life, KeepsCalls, NoneYet, UNCHANGED <<slotVars, pc, apc, crashed, bindFailed>>,
         io = {} => UNCHANGED state
  PROVE  Life'
<1> USE DEF slotVars, At, Busy, Quiet, Unconnected, Polls
<1>1. CASE ReadyAgain
  BY <1>1 DEF ReadyAgain, Life, KeepsCalls, Linked
<1>2. CASE Arming
  BY <1>2 DEF Arming, Life, KeepsCalls, Linked
<1>3. CASE Waiting
  BY <1>3 DEF Waiting, Life, KeepsCalls, NoneYet
<1>4. CASE HandedOver
  BY <1>4 DEF HandedOver, Life, KeepsCalls, NoneYet
<1>5. CASE Stopped
  BY <1>5 DEF Stopped, Life, KeepsCalls, NoneYet
<1>6. CASE Connected
  BY <1>6 DEF Connected, Life, KeepsCalls
<1>7. CASE Closed
  BY <1>7 DEF Closed, Life, KeepsCalls
<1> QED BY <1>1, <1>2, <1>3, <1>4, <1>5, <1>6, <1>7 DEF Life

(* A worker goes on without touching the slot. *)
LEMMA LifeInside ==
  ASSUME Working, Life, KeepsCalls, UNCHANGED <<slotVars, apc, crashed>>,
         bindFailed => bindFailed',
         NEW w \in Worker, NoneYet \/ pc[w] \in {"bind", "receive"},
         NEW to, pc' = [pc EXCEPT ![w] = to],
         \/ pc[w] = "sent" /\ to = "idle"
         \/ pc[w] = "check" /\ to = "idle" /\ ~mIsConnect
         \/ pc[w] = "check" /\ to = "shutdown" /\ mIsConnect
         \/ pc[w] = "shutdown" /\ to = "mark"
         \/ pc[w] = "close" /\ to = "forget"
         \/ pc[w] \in {"bind", "receive"} /\ to = "idle" /\ (Listens' \/ bindFailed')
         \/ pc[w] = "bind" /\ to = "check"
  PROVE  Life'
<1>0. /\ pc'[w] = to /\ \A v \in Worker : v # w => pc'[v] = pc[v]
      /\ pc[w] # "idle"
  BY DEF Working
<1> USE DEF slotVars, At, Busy, Unconnected, Polls
<1>1. ~Quiet
  BY <1>0 DEF Quiet
<1>3. CASE Waiting
  BY <1>0, <1>3 DEF Waiting, Life, KeepsCalls, NoneYet
<1>4. CASE HandedOver
  BY <1>0, <1>4 DEF HandedOver, Life, KeepsCalls, NoneYet
<1>5. CASE Stopped
  BY <1>0, <1>5 DEF Stopped, Life, KeepsCalls, NoneYet
<1>6. CASE Connected
  BY <1>0, <1>6 DEF Connected, Life, KeepsCalls
<1>7. CASE Closed
  BY <1>0, <1>7 DEF Closed, Life, KeepsCalls, Steps, Closing
<1> QED BY <1>1, <1>3, <1>4, <1>5, <1>6, <1>7 DEF Life, ReadyAgain, Arming

(* A worker takes a completion: whatever it is, the slot waits or is in use. *)
LEMMA LifeTake ==
  ASSUME Working, InPort, Life, NEW w \in Worker, NEW x \in io, Take(w, x)
  PROVE  Life'
<1> USE DEF slotVars, At, Busy, Unconnected, Polls
<1>0. /\ pc[w] = "idle" /\ io' = io \ {x} /\ UNCHANGED <<slotVars, apc, bindFailed>>
      /\ x.op \in Op
  BY DEF Take, InPort, Calls, histVars
<1>1. ~Quiet /\ (NoAccept => NoAccept') /\ NoneYet
  BY <1>0 DEF Quiet, NoAccept, NoneYet, Receives
<1>2. CASE x.op = "accept"
  <2>1. Waiting /\ ~NoAccept /\ NoAccept'
    BY <1>0, <1>1, <1>2 DEF Life, ReadyAgain, Arming, HandedOver, Stopped, Connected,
                Closed, NoAccept, Waiting, OneAccept
  <2>2. CASE x.st = "failed"
    <3>1. crashed' = TRUE /\ UNCHANGED pc
      BY <1>2, <2>2 DEF Take, threadVars
    <3> QED BY <1>0, <1>1, <2>1, <3>1 DEF Waiting, Stopped, Life, NoneYet
  <2>3. CASE x.st # "failed"
    <3>1. pc' = [pc EXCEPT ![w] = "connect"]
      BY <1>2, <2>3 DEF Take, Handler
    <3>2. pc'[w] = "connect" /\ \A v \in Worker : v # w => pc'[v] = pc[v]
      BY <3>1 DEF Working
    <3>3. HandedOver'
      BY <1>0, <1>1, <2>1, <3>2 DEF Waiting, HandedOver, NoneYet
    <3> QED BY <3>3 DEF Life
  <2> QED BY <2>2, <2>3
<1>3. CASE x.op # "accept"
  <2> DEFINE to == IF x.st = "failed" THEN "check"
                   ELSE IF x.op = "recv" THEN "receive" ELSE "sent"
  <2>1. pc' = [pc EXCEPT ![w] = to] /\ UNCHANGED crashed
    BY <1>0, <1>3 DEF Take, Handler, Op
  <2>2. pc'[w] = to /\ \A v \in Worker : v # w => pc'[v] = pc[v]
    BY <2>1 DEF Working
  <2>3. to \in {"check", "receive", "sent"} /\ (Receives = {} => to # "receive")
    BY <1>3 DEF Receives
  <2>4. OneAccept => OneAccept'
    BY <1>0, <1>3 DEF OneAccept
  <2>5. Listens => Listens' \/ to \in {"check", "receive"}
    BY <1>0 DEF Listens, Receives
  <2> HIDE DEF to
  <2>6. CASE Waiting
    BY <1>0, <1>1, <2>1, <2>2, <2>3, <2>4, <2>6 DEF Waiting, Life, NoneYet
  <2>7. CASE HandedOver
    BY <1>0, <1>1, <2>1, <2>2, <2>3, <2>7 DEF HandedOver, Life, NoneYet
  <2>8. CASE Stopped
    BY <1>0, <1>1, <2>1, <2>2, <2>3, <2>8 DEF Stopped, Life, NoneYet
  <2>9. CASE Connected
    BY <1>0, <1>1, <2>1, <2>2, <2>3, <2>5, <2>9 DEF Connected, Life
  <2>10. CASE Closed
    BY <1>0, <1>1, <2>1, <2>2, <2>3, <2>10 DEF Closed, Life, Steps, Closing
  <2> QED BY <1>1, <2>6, <2>7, <2>8, <2>9, <2>10 DEF Life, ReadyAgain, Arming
<1> QED BY <1>2, <1>3

(* OnConnect, and the steps of Close that write the slot. *)
LEMMA LifeWrite ==
  ASSUME Working, Life, NEW w \in Worker,
         Connect(w) \/ MarkClosed(w) \/ StampTime(w) \/ ForgetSocket(w)
  PROVE  Life'
<1> USE DEF At, Busy, Unconnected, Polls, Goto, Finish, histVars, Quiet
<1>1. CASE Connect(w)
  <2>1. HandedOver /\ \A v \in Worker : pc[v] = "connect" => v = w
    BY <1>1 DEF Connect, Life, ReadyAgain, Arming, Waiting, HandedOver, Stopped,
                Connected, Closed
  <2>2. /\ pc'[w] = "bind" /\ \A v \in Worker : v # w => pc'[v] = pc[v]
        /\ mIsConnect' = TRUE /\ UNCHANGED <<mLatestClosedTimeSec, mSocket, io, apc>>
    BY <1>1 DEF Connect, Working
  <2>3. NoAccept'
    BY <2>1, <2>2 DEF NoAccept, HandedOver
  <2>4. Connected'
    BY <2>1, <2>2, <2>3 DEF HandedOver, Connected
  <2> QED BY <2>4 DEF Life
<1>2. CASE MarkClosed(w)
  <2>1. Connected \/ Closed
    BY <1>2 DEF MarkClosed, Life, ReadyAgain, Arming, Waiting, HandedOver, Stopped
  <2>2. /\ pc'[w] = "stamp" /\ \A v \in Worker : v # w => pc'[v] = pc[v]
        /\ mIsConnect' = FALSE /\ UNCHANGED <<mLatestClosedTimeSec, mSocket, io, apc>>
    BY <1>2 DEF MarkClosed, Working
  <2>3. NoAccept'
    BY <2>1, <2>2 DEF NoAccept, Connected, Closed
  <2>4. Closed'
    BY <2>1, <2>2, <2>3 DEF Connected, Closed, Steps, Closing
  <2> QED BY <2>4 DEF Life
<1>3. CASE StampTime(w)
  <2>1. Closed
    BY <1>3 DEF StampTime, Life, ReadyAgain, Arming, Waiting, HandedOver, Stopped,
                Connected
  <2>2. /\ pc'[w] = "close" /\ \A v \in Worker : v # w => pc'[v] = pc[v]
        /\ mLatestClosedTimeSec' = "recent" /\ UNCHANGED <<mIsConnect, mSocket, io, apc>>
    BY <1>3 DEF StampTime, Working
  <2>3. NoAccept'
    BY <2>1, <2>2 DEF NoAccept, Closed
  <2>4. Closed'
    BY <2>1, <2>2, <2>3 DEF Closed, Steps, Closing
  <2> QED BY <2>4 DEF Life
<1>4. CASE ForgetSocket(w)
  <2>1. Closed
    BY <1>4 DEF ForgetSocket, Life, ReadyAgain, Arming, Waiting, HandedOver, Stopped,
                Connected
  <2>2. /\ pc[w] = "forget" /\ pc'[w] = "idle"
        /\ \A v \in Worker : v # w => pc'[v] = pc[v]
        /\ mSocket' = 0 /\ UNCHANGED <<mIsConnect, mLatestClosedTimeSec, io, apc>>
    BY <1>4 DEF ForgetSocket, Working
  <2>3. NoAccept'
    BY <2>1, <2>2 DEF NoAccept, Closed
  <2>4. Closed'
    BY <2>1, <2>2, <2>3 DEF Closed, Steps
  <2> QED BY <2>4 DEF Life
<1> QED BY <1>1, <1>2, <1>3, <1>4

(* The wait ends with nothing left, and the acceptor arms the slot. *)
LEMMA LifeArm ==
  ASSUME Slot, Life, (Age /\ ~late') \/ Acceptor
  PROVE  Life'
<1> USE DEF At, Busy, Unconnected, Polls, Quiet, slotVars, threadVars, histVars
<1>1. CASE Age /\ ~late'
  <2>1. /\ mLatestClosedTimeSec = "recent" /\ mLatestClosedTimeSec' = "old"
        /\ io = {} /\ (\A w \in Worker : pc[w] = "idle")
        /\ UNCHANGED <<mIsConnect, mSocket, io, pc, apc>>
    BY <1>1 DEF Age
  <2>2. Closed
    BY <2>1 DEF Life, ReadyAgain, Arming, Waiting, HandedOver, Stopped, Connected
  <2>3. ReadyAgain'
    BY <2>1, <2>2 DEF Closed, ReadyAgain
  <2> QED BY <2>3 DEF Life
<1>2. CASE SeesDisconnected \/ SeesTime
  <2>0. UNCHANGED <<slotVars, io, state, pc, crashed, bindFailed>>
    BY <1>2 DEF SeesDisconnected, SeesTime, sockVars
  <2>1. /\ NoAccept' <=> NoAccept
        /\ OneAccept' <=> OneAccept
        /\ Listens' <=> Listens
        /\ Receives' = Receives
        /\ Linked(mSocket)' <=> Linked(mSocket)
    BY <2>0 DEF NoAccept, OneAccept, Listens, Receives, Linked
  <2>2. CASE apc \in {"scan", "time"} /\ apc' \in {"scan", "time"}
    BY <2>0, <2>1, <2>2 DEF Life, ReadyAgain, Arming, Waiting, HandedOver, Stopped,
                            Connected, Closed
  <2>3. CASE apc = "time" /\ apc' = "arm" /\ mLatestClosedTimeSec = "old"
    <3>1. ReadyAgain
      BY <2>3 DEF Life, Arming, Waiting, HandedOver, Stopped, Connected, Closed
    <3> QED BY <2>0, <2>3, <3>1 DEF ReadyAgain, Life
  <2> QED BY <1>2, <2>2, <2>3 DEF SeesDisconnected, SeesTime
<1>3. CASE Arm
  <2>1. ReadyAgain
    BY <1>3 DEF Arm, Life, Arming, Waiting, HandedOver, Stopped, Connected, Closed
  <2>2. Arming'
    BY <1>3, <2>1 DEF Arm, ReadyAgain, Arming
  <2> QED BY <2>2 DEF Life
<1>4. CASE MakeSocket
  <2>1. Arming
    BY <1>4 DEF MakeSocket, Life, ReadyAgain, Waiting, HandedOver, Stopped, Connected,
                Closed
  <2>2. ~Linked(mSocket)'
    BY <1>4, ChatSlotAssumption DEF MakeSocket, Linked, Slot
  <2>3. Arming'
    BY <1>4, <2>1, <2>2 DEF MakeSocket, Arming
  <2> QED BY <2>3 DEF Life
<1>5. CASE PostAcceptEx
  <2>1. Arming
    BY <1>5 DEF PostAcceptEx, Life, ReadyAgain, Waiting, HandedOver, Stopped,
                Connected, Closed
  <2>2. CASE UNCHANGED io
    <3>1. Arming'
      BY <1>5, <2>1, <2>2 DEF PostAcceptEx, Arming, Linked, sockVars
    <3> QED BY <3>1 DEF Life
  <2>3. CASE /\ mSocket # 0
             /\ io' = io \cup {Call("accept", mSocket, 0, "posted")}
    <3>1. Call("accept", mSocket, 0, "posted").op = "accept"
      BY DEF Call
    <3>2. io' = {Call("accept", mSocket, 0, "posted")}
      BY <2>1, <2>3 DEF Arming
    <3>3. OneAccept' /\ Receives' = {}
      BY <3>1, <3>2 DEF OneAccept, Receives
    <3>4. Waiting'
      BY <1>5, <2>1, <2>3, <3>3 DEF PostAcceptEx, Arming, Waiting
    <3> QED BY <3>4 DEF Life
  <2> QED BY <1>5, <2>2, <2>3 DEF PostAcceptEx
<1> QED BY <1>1, <1>2, <1>3, <1>4, <1>5 DEF Acceptor

LEMMA LifeStep ==
  ASSUME TypeInv, Life, [Next]_vars, ~late'
  PROVE  Life'
<1> USE DEF slotVars, histVars, threadVars, sockVars
<1>0. Slot /\ Working /\ InPort /\ \A x \in io : x.op \in Op
  BY DEF TypeInv, Types, InPort, Calls
<1>s. "send" \in {"recv", "send"} /\ "recv" \in {"recv", "send"}
  OBVIOUS
<1>1. ASSUME NEW x \in io, NEW st, Complete(x, st) PROVE Life'
  <2>1. KeepsCalls /\ NoneYet
    BY <1>1, CompleteKeeps DEF Complete
  <2> QED BY <1>1, <2>1, LifeOutside DEF Complete
<1>2. CASE Age \/ Acceptor
  BY <1>0, <1>2, LifeArm
<1>3. ASSUME NEW q, SendIO(q) \/ UNCHANGED io, UNCHANGED mSocket
      PROVE  KeepsCalls /\ NoneYet
  <2>1. \/ UNCHANGED io
        \/ Linked(mSocket) /\ io' = io \cup {Call("send", mSocket, Head(q), "posted")}
    BY <1>3 DEF SendIO
  <2> QED BY <1>3, <1>s, <2>1, AddKeeps
<1>4. CASE SendMsg
  <2>1. SendIO(mSendQueue') \/ UNCHANGED io
    BY <1>4 DEF SendMsg
  <2>2. KeepsCalls /\ NoneYet
    BY <1>3, <1>4, <2>1 DEF SendMsg
  <2> QED BY <1>4, <2>2, LifeOutside DEF SendMsg
<1>5. ASSUME NEW w \in Worker, Work(w) PROVE Life'
  <2>1. ASSUME NEW x \in io, Take(w, x) PROVE Life'
    BY <1>0, <2>1, LifeTake
  <2>2. CASE Connect(w) \/ MarkClosed(w) \/ StampTime(w) \/ ForgetSocket(w)
    BY <1>0, <2>2, LifeWrite
  <2>3. CASE SendCompleted(w)
    <3>1. SendIO(mSendQueue') \/ UNCHANGED io
      BY <2>3 DEF SendCompleted
    <3>2. KeepsCalls /\ NoneYet
      BY <1>3, <2>3, <3>1 DEF SendCompleted
    <3>3. /\ UNCHANGED <<slotVars, apc, crashed, bindFailed>>
          /\ pc[w] = "sent" /\ pc' = [pc EXCEPT ![w] = "idle"]
      BY <2>3 DEF SendCompleted, Finish
    <3> QED BY <1>0, <3>2, <3>3, LifeInside
  <2>4. CASE CheckConnected(w)
    <3>1. KeepsCalls /\ NoneYet
      BY <1>3, <2>4 DEF CheckConnected
    <3>2. /\ UNCHANGED <<slotVars, apc, crashed, bindFailed>> /\ pc[w] = "check"
          /\ \/ ~mIsConnect /\ pc' = [pc EXCEPT ![w] = "idle"]
             \/ mIsConnect /\ pc' = [pc EXCEPT ![w] = "shutdown"]
      BY <2>4 DEF CheckConnected, Goto, Finish
    <3> QED BY <1>0, <3>1, <3>2, LifeInside
  <2>5. CASE Shutdown(w) \/ CloseHandle(w)
    <3>1. UNCHANGED mSocket /\ (io' = EndIO(mSocket) \/ UNCHANGED io)
      BY <2>5 DEF Shutdown, CloseHandle
    <3>2. KeepsCalls /\ NoneYet
      BY <1>3, <3>1, EndKeeps
    <3>3. /\ UNCHANGED <<slotVars, apc, crashed, bindFailed>>
          /\ \/ pc[w] = "shutdown" /\ pc' = [pc EXCEPT ![w] = "mark"]
             \/ pc[w] = "close" /\ pc' = [pc EXCEPT ![w] = "forget"]
      BY <2>5 DEF Shutdown, CloseHandle, Goto
    <3> QED BY <1>0, <3>2, <3>3, LifeInside
  <2>6. CASE BindFirst(w) \/ Receive(w)
    <3> DEFINE tag == CHOOSE n \in 1..Cardinality(io) + 1 :
                        \A x \in io : x.op = "recv" => x.tag # n
               c == Call("recv", mSocket, tag, "posted")
    <3>1. /\ UNCHANGED <<slotVars, apc, crashed>>
          /\ \/ Linked(mSocket) /\ io' = io \cup {c} /\ UNCHANGED bindFailed
             \/ bindFailed' = TRUE /\ UNCHANGED io
      BY <2>6 DEF BindFirst, Receive, BindRecv
    <3>2. c.op = "recv" /\ c.sock = mSocket
      BY DEF Call
    <3>3. KeepsCalls
      <4> HIDE DEF tag
      <4> QED BY <1>s, <3>1, AddKeeps
    <3> HIDE DEF c
    <3>4. Listens' \/ bindFailed'
      BY <3>1, <3>2 DEF Listens, Receives
    <3>5. bindFailed => bindFailed'
      BY <3>1
    <3>6. \/ /\ pc[w] \in {"bind", "receive"} /\ pc' = [pc EXCEPT ![w] = "idle"]
          \/ /\ pc[w] = "bind" /\ pc' = [pc EXCEPT ![w] = "check"]
      BY <2>6 DEF BindFirst, Receive, Goto, Finish
    <3> QED BY <1>0, <3>1, <3>3, <3>4, <3>5, <3>6, LifeInside
  <2> QED BY <1>5, <2>1, <2>2, <2>3, <2>4, <2>5, <2>6 DEF Work
<1>6. CASE UNCHANGED vars
  <2>1. KeepsCalls /\ NoneYet
    BY <1>3, <1>6 DEF vars
  <2> QED BY <1>6, <2>1, LifeOutside DEF vars
<1> QED BY <1>1, <1>2, <1>4, <1>5, <1>6 DEF Next

-----------------------------------------------------------------------------
(* Whose the calls are *)

(* A step that makes no socket, when what it adds to the port is of the last  *)
(* one and a worker only takes up what was in the port.                     *)
LEMMA OwnKept ==
  ASSUME Own, made' = made, mSocket' \in {0, mSocket},
         \A y \in io' : (y.sock = mSocket /\ mSocket # 0) \/ \E x \in io : y.sock = x.sock,
         \A w \in Worker : \/ pc'[w] = "idle"
                           \/ pc[w] # "idle" /\ it'[w] = it[w]
                           \/ \E x \in io : it'[w] = x
  PROVE  Own'
BY DEF Own

LEMMA OwnStep ==
  ASSUME TypeInv, Life, Own, [Next]_vars
  PROVE  Own'
<1> USE DEF slotVars, threadVars, sockVars
<1>0. Slot /\ Working
  BY DEF TypeInv, Types
<1>i. ASSUME NEW s, io' = EndIO(s), NEW y \in io' PROVE \E x \in io : y.sock = x.sock
  BY <1>i DEF EndIO, Ended, Call
<1>s. ASSUME NEW q, SendIO(q), NEW y \in io'
      PROVE  (y.sock = mSocket /\ mSocket # 0) \/ \E x \in io : y.sock = x.sock
  BY <1>s DEF SendIO, Linked, Call
<1>1. ASSUME NEW x \in io, NEW st, Complete(x, st) PROVE Own'
  <2>1. \A y \in io' : \E z \in io : y.sock = z.sock
    BY <1>1 DEF Complete, Ended, Call
  <2> QED BY <1>1, <2>1, OwnKept DEF Complete
<1>2. CASE Acceptor
  <2>1. CASE MakeSocket
    <3>1. io = {} /\ \A w \in Worker : pc[w] = "idle"
      BY <2>1 DEF MakeSocket, Life, ReadyAgain, Arming, Waiting, HandedOver, Stopped,
                  Connected, Closed, Quiet, At, Unconnected, Polls
    <3>2. mSocket' \in {0, made'} /\ UNCHANGED <<io, pc>>
      BY <2>1 DEF MakeSocket
    <3> QED BY <3>1, <3>2 DEF Own
  <2>2. CASE PostAcceptEx
    <3>1. \A y \in io' : (y.sock = mSocket /\ mSocket # 0) \/ \E x \in io : y.sock = x.sock
      BY <2>2 DEF PostAcceptEx, Call
    <3> QED BY <2>2, <3>1, OwnKept DEF PostAcceptEx
  <2>3. CASE SeesDisconnected \/ SeesTime \/ Arm
    BY <2>3, OwnKept DEF SeesDisconnected, SeesTime, Arm
  <2> QED BY <1>2, <2>1, <2>2, <2>3 DEF Acceptor
<1>3. CASE Age \/ UNCHANGED vars
  BY <1>3, OwnKept DEF Age, vars
<1>4. CASE SendMsg
  <2>1. SendIO(mSendQueue') \/ UNCHANGED io
    BY <1>4 DEF SendMsg
  <2>2. \A y \in io' : (y.sock = mSocket /\ mSocket # 0) \/ \E x \in io : y.sock = x.sock
    BY <1>s, <2>1
  <2> QED BY <1>4, <2>2, OwnKept DEF SendMsg
<1>5. ASSUME NEW w \in Worker, Work(w) PROVE Own'
  <2>1. ASSUME NEW x \in io, Take(w, x) PROVE Own'
    <3>1. UNCHANGED <<slotVars, sockVars>> /\ io' = io \ {x}
      BY <2>1 DEF Take
    <3>2. \/ UNCHANGED threadVars
          \/ \E to : pc' = [pc EXCEPT ![w] = to] /\ it' = [it EXCEPT ![w] = x]
      BY <2>1 DEF Take
    <3>3. \A v \in Worker : \/ pc'[v] = "idle"
                            \/ pc[v] # "idle" /\ it'[v] = it[v]
                            \/ \E z \in io : it'[v] = z
      BY <1>0, <3>2 DEF Working
    <3> QED BY <3>1, <3>3, OwnKept
  <2> DEFINE Ends == Finish(w) \/ \E step : Goto(w, step)
  <2>2. Ends => \A v \in Worker : \/ pc'[v] = "idle"
                                  \/ pc[v] # "idle" /\ it'[v] = it[v]
                                  \/ v = w /\ it'[v] = it[v]
    BY <1>0 DEF Finish, Goto, Working
  <2>3. CASE \/ Connect(w) \/ CheckConnected(w) \/ MarkClosed(w) \/ StampTime(w)
             \/ ForgetSocket(w)
    <3>1. /\ pc[w] # "idle" /\ Ends /\ UNCHANGED <<made, io>> /\ mSocket' \in {0, mSocket}
      BY <2>3 DEF Connect, CheckConnected, MarkClosed, StampTime, ForgetSocket
    <3> HIDE DEF Ends
    <3> QED BY <2>2, <3>1, OwnKept
  <2>4. CASE Shutdown(w) \/ CloseHandle(w)
    <3>1. /\ pc[w] # "idle" /\ Ends /\ UNCHANGED <<made, mSocket>>
          /\ io' = EndIO(mSocket) \/ UNCHANGED io
      BY <2>4 DEF Shutdown, CloseHandle
    <3>2. \A y \in io' : \E x \in io : y.sock = x.sock
      BY <1>i, <3>1
    <3> HIDE DEF Ends
    <3> QED BY <2>2, <3>1, <3>2, OwnKept
  <2>5. CASE BindFirst(w) \/ Receive(w)
    <3>1. pc[w] # "idle" /\ Ends /\ UNCHANGED <<made, mSocket>> /\ BindRecv
      BY <2>5 DEF BindFirst, Receive
    <3>2. \A y \in io' : (y.sock = mSocket /\ mSocket # 0) \/ \E x \in io : y.sock = x.sock
      BY <3>1 DEF BindRecv, Linked, Call
    <3> HIDE DEF Ends
    <3> QED BY <2>2, <3>1, <3>2, OwnKept
  <2>6. CASE SendCompleted(w)
    <3>1. /\ pc[w] # "idle" /\ Ends /\ UNCHANGED <<made, mSocket>>
          /\ SendIO(mSendQueue') \/ UNCHANGED io
      BY <2>6 DEF SendCompleted
    <3>2. \A y \in io' : (y.sock = mSocket /\ mSocket # 0) \/ \E x \in io : y.sock = x.sock
      BY <1>s, <3>1
    <3> HIDE DEF Ends
    <3> QED BY <2>2, <3>1, <3>2, OwnKept
  <2> QED BY <1>5, <2>1, <2>3, <2>4, <2>5, <2>6 DEF Work
<1> QED BY <1>1, <1>2, <1>3, <1>4, <1>5 DEF Next

-----------------------------------------------------------------------------
(* Where the messages go *)

(* A message queued now: those queued before are where they were. *)
LEMMA QueuedNow ==
  ASSUME Slot, Messages, SendMsg
  PROVE  /\ pushed \in Nat
         /\ \A k \in 1..pushed : pushedOn'[k] = pushedOn[k]
         /\ pushedOn'[pushed + 1] = mSocket
         /\ Range(mSendQueue) \subseteq 1..pushed
         /\ Range(mSendQueue') \subseteq Range(mSendQueue) \cup {pushed + 1}
<1>1. /\ pushed \in Nat /\ pushedOn \in Seq(0..MaxSocket) /\ Len(pushedOn) = pushed
      /\ mSendQueue \in Seq(1..pushed) /\ mSocket \in 0..MaxSocket
  BY ChatSlotAssumption DEF Slot, Messages
<1>2. pushedOn' = Append(pushedOn, mSocket) /\ mSendQueue' = Append(mSendQueue, pushed + 1)
  BY DEF SendMsg
<1>3. /\ \A k \in 1..pushed : pushedOn'[k] = pushedOn[k]
      /\ pushedOn'[pushed + 1] = mSocket
  BY <1>1, <1>2
<1>4. Range(mSendQueue) \subseteq 1..pushed
  BY <1>1 DEF Range
<1>5. /\ DOMAIN mSendQueue' = 1..(Len(mSendQueue) + 1)
      /\ \A k \in 1..Len(mSendQueue) : mSendQueue'[k] = mSendQueue[k]
      /\ mSendQueue'[Len(mSendQueue) + 1] = pushed + 1
      /\ DOMAIN mSendQueue = 1..Len(mSendQueue) /\ Len(mSendQueue) \in Nat
  BY <1>1, <1>2
<1>6. \A k \in DOMAIN mSendQueue' : k \in DOMAIN mSendQueue \/ k = Len(mSendQueue) + 1
  BY <1>5
<1>7. Range(mSendQueue') \subseteq Range(mSendQueue) \cup {pushed + 1}
  BY <1>5, <1>6 DEF Range
<1> QED BY <1>1, <1>3, <1>4, <1>7

LEMMA PushedStay ==
  ASSUME Own, PushedOnIt, UNCHANGED <<mSendQueue, pushedOn, made>>,
         mSocket' \in {0, mSocket}, UnderWay' => UnderWay
  PROVE  PushedOnIt'
BY DEF PushedOnIt

LEMMA PushedStep ==
  ASSUME TypeInv, Life, Own, PushedOnIt, [Next]_vars
  PROVE  PushedOnIt'
<1> USE DEF slotVars, threadVars, sockVars, sendVars, UnderWay, Busy
<1>0. Slot /\ Working /\ Messages /\ FrontUnderWay /\ SendTypes /\ \A x \in io : x.op \in Op
  BY DEF TypeInv, Types, SendInv, SendTypes
<1>1. ASSUME NEW x \in io, NEW st, Complete(x, st) PROVE PushedOnIt'
  <2>1. UnderWay' => UnderWay
    BY <1>1 DEF Complete, Ended, Call, Sends
  <2> QED BY <1>1, <2>1, PushedStay DEF Complete
<1>2. CASE Acceptor
  <2>1. CASE MakeSocket
    <3>1. io = {} /\ \A w \in Worker : pc[w] = "idle"
      BY <2>1 DEF MakeSocket, Life, ReadyAgain, Arming, Waiting, HandedOver, Stopped,
                  Connected, Closed, Quiet, At, Unconnected, Polls
    <3>2. ~UnderWay'
      BY <2>1, <3>1 DEF MakeSocket, Sends
    <3> QED BY <3>2 DEF PushedOnIt
  <2>2. CASE PostAcceptEx
    <3>1. UNCHANGED io \/ io' = io \cup {Call("accept", mSocket, 0, "posted")}
      BY <2>2 DEF PostAcceptEx
    <3>2. Sends' = Sends
      BY <3>1 DEF Sends, Call
    <3> QED BY <2>2, <3>2, PushedStay DEF PostAcceptEx
  <2>3. CASE SeesDisconnected \/ SeesTime \/ Arm
    BY <2>3, PushedStay DEF SeesDisconnected, SeesTime, Arm, Sends
  <2> QED BY <1>2, <2>1, <2>2, <2>3 DEF Acceptor
<1>3. CASE Age \/ UNCHANGED vars
  BY <1>3, PushedStay DEF Age, vars, Sends
<1>4. CASE SendMsg
  <2>1. /\ \A k \in 1..pushed : pushedOn'[k] = pushedOn[k]
        /\ pushedOn'[pushed + 1] = mSocket
        /\ Range(mSendQueue) \subseteq 1..pushed
        /\ Range(mSendQueue') \subseteq Range(mSendQueue) \cup {pushed + 1}
    BY <1>0, <1>4, QueuedNow
  <2>2. UNCHANGED <<made, mSocket, pc>> /\ mSocket \in {0, made}
    BY <1>4 DEF SendMsg, Own
  <2>3. CASE UnderWay
    BY <2>1, <2>2, <2>3 DEF PushedOnIt
  <2>4. CASE ~UnderWay /\ mSendQueue = <<>>
    <3>1. Range(mSendQueue) = {}
      BY <2>4 DEF Range
    <3> QED BY <2>1, <2>2, <3>1 DEF PushedOnIt
  <2>5. CASE ~UnderWay /\ mSendQueue # <<>>
    <3>1. Len(mSendQueue') # 1
      BY <1>0, <1>4, <2>5 DEF SendMsg, SendTypes
    <3>2. ~UnderWay'
      BY <1>4, <2>5, <3>1 DEF SendMsg, Sends
    <3> QED BY <3>2 DEF PushedOnIt
  <2> QED BY <2>3, <2>4, <2>5
<1>5. ASSUME NEW w \in Worker, Work(w) PROVE PushedOnIt'
  <2>1. ASSUME NEW x \in io, Take(w, x) PROVE PushedOnIt'
    <3>1. /\ UNCHANGED <<made, mSocket, mSendQueue, pushedOn>> /\ io' = io \ {x}
          /\ \/ UNCHANGED pc
             \/ \E to : pc' = [pc EXCEPT ![w] = to] /\ (to = "sent" => x.op = "send")
      BY <1>0, <2>1 DEF Take, Handler, Op
    <3>2. UnderWay' => UnderWay
      BY <1>0, <3>1 DEF Sends, Working
    <3> QED BY <3>1, <3>2, PushedStay
  <2>2. CASE \/ Connect(w) \/ CheckConnected(w) \/ MarkClosed(w) \/ StampTime(w)
             \/ ForgetSocket(w) \/ Shutdown(w) \/ CloseHandle(w) \/ BindFirst(w)
             \/ Receive(w)
    <3>1. UNCHANGED <<made, mSendQueue, pushedOn>> /\ mSocket' \in {0, mSocket}
      BY <2>2 DEF Connect, CheckConnected, MarkClosed, StampTime, ForgetSocket, Shutdown,
                  CloseHandle, BindFirst, Receive
    <3>2. \E to : to # "sent" /\ pc' = [pc EXCEPT ![w] = to]
      BY <2>2 DEF Connect, CheckConnected, MarkClosed, StampTime, ForgetSocket, Shutdown,
                  CloseHandle, BindFirst, Receive, Goto, Finish
    <3>3. Busy({"sent"})' => Busy({"sent"})
      BY <1>0, <3>2 DEF Working
    <3>4. UNCHANGED io \/ io' = EndIO(mSocket) \/ BindRecv
      BY <2>2 DEF Connect, CheckConnected, MarkClosed, StampTime, ForgetSocket, Shutdown,
                  CloseHandle, BindFirst, Receive
    <3>5. Sends' # {} => Sends # {}
      <4>1. CASE UNCHANGED io
        BY <4>1 DEF Sends
      <4>2. CASE io' = EndIO(mSocket)
        BY <4>2, EndedSends
      <4>3. CASE BindRecv
        BY <1>0, <4>3, BindRecvSends
      <4> QED BY <3>4, <4>1, <4>2, <4>3
    <3> QED BY <3>1, <3>3, <3>5, PushedStay
  <2>3. CASE SendCompleted(w)
    <3>1. /\ mSendQueue' = Tail(mSendQueue) /\ UNCHANGED <<made, mSocket, pushedOn>>
          /\ mSendQueue \in Seq(Nat) /\ mSendQueue # <<>>
      BY <1>0, <2>3 DEF SendCompleted, FrontUnderWay, SendTypes
    <3>2. Range(mSendQueue') \subseteq Range(mSendQueue)
      BY <3>1 DEF Range
    <3>3. UnderWay
      BY <2>3 DEF SendCompleted
    <3> QED BY <3>1, <3>2, <3>3 DEF PushedOnIt
  <2> QED BY <1>5, <2>1, <2>2, <2>3 DEF Work
<1> QED BY <1>1, <1>2, <1>3, <1>4, <1>5 DEF Next

(* What SendIO adds to the wire is the front of the queue. *)
LEMMA OnTheWire ==
  ASSUME Slot, wire \in [1..MaxSocket -> Seq(1..pushed)], pushed \in Nat,
         NEW q, SendIO(q), NEW s \in 1..MaxSocket, NEW m \in Range(wire'[s])
  PROVE  m \in Range(wire[s]) \/ (m = Head(q) /\ s = mSocket /\ mSocket # 0)
<1>1. CASE UNCHANGED wire
  BY <1>1
<1>2. CASE /\ Linked(mSocket)
           /\ wire' = [wire EXCEPT ![mSocket] = Append(@, Head(q))]
  <2>1. CASE s # mSocket
    BY <1>2, <2>1
  <2>2. CASE s = mSocket
    <3>1. wire'[s] = Append(wire[s], Head(q)) /\ wire[s] \in Seq(1..pushed)
      BY <1>2, <2>2
    <3>2. /\ DOMAIN wire'[s] = 1..(Len(wire[s]) + 1)
          /\ \A k \in 1..Len(wire[s]) : wire'[s][k] = wire[s][k]
          /\ wire'[s][Len(wire[s]) + 1] = Head(q)
          /\ DOMAIN wire[s] = 1..Len(wire[s]) /\ Len(wire[s]) \in Nat
      BY <3>1
    <3>3. \A k \in DOMAIN wire'[s] : k \in DOMAIN wire[s] \/ k = Len(wire[s]) + 1
      BY <3>2
    <3>4. mSocket # 0
      BY <1>2 DEF Linked
    <3> QED BY <2>2, <3>2, <3>3, <3>4 DEF Range
  <2> QED BY <2>1, <2>2
<1> QED BY <1>1, <1>2 DEF SendIO

LEMMA SentRightStep ==
  ASSUME TypeInv, Life, Own, PushedOnIt, SentRight, [Next]_vars
  PROVE  SentRight'
<1> USE DEF sendVars
<1>0. /\ Slot /\ Messages /\ FrontUnderWay /\ SendTypes /\ pushed \in Nat
      /\ wire \in [1..MaxSocket -> Seq(1..pushed)]
  BY ChatSlotAssumption DEF TypeInv, Types, SendInv, Messages
<1>1. CASE UNCHANGED <<pushedOn, wire>>
  BY <1>1 DEF SentRight
<1>2. CASE SendMsg
  <2>1. /\ \A k \in 1..pushed : pushedOn'[k] = pushedOn[k]
        /\ pushedOn'[pushed + 1] = mSocket
    BY <1>0, <1>2, QueuedNow
  <2>2. \A s \in 1..MaxSocket : \A m \in Range(wire[s]) : pushedOn'[m] = s
    <3>1. \A s \in 1..MaxSocket : Range(wire[s]) \subseteq 1..pushed
      BY <1>0 DEF Range
    <3> QED BY <2>1, <3>1 DEF SentRight
  <2>3. CASE Len(mSendQueue') = 1
    <3>1. SendIO(mSendQueue')
      BY <1>2, <2>3 DEF SendMsg
    <3>2. mSendQueue' = Append(mSendQueue, pushed + 1) /\ mSendQueue \in Seq(Nat)
      BY <1>0, <1>2 DEF SendMsg, SendTypes
    <3>3. Head(mSendQueue') = pushed + 1
      BY <1>0, <2>3, <3>2
    <3>4. ASSUME NEW s \in 1..MaxSocket, NEW m \in Range(wire'[s]) PROVE pushedOn'[m] = s
      BY <1>0, <2>1, <2>2, <3>1, <3>3, OnTheWire
    <3> QED BY <3>4 DEF SentRight
  <2>4. CASE Len(mSendQueue') # 1
    BY <1>2, <2>2, <2>4 DEF SendMsg, SentRight
  <2> QED BY <2>3, <2>4
<1>3. ASSUME NEW w \in Worker, SendCompleted(w) PROVE SentRight'
  <2>1. /\ mSendQueue' = Tail(mSendQueue) /\ UNCHANGED pushedOn
        /\ mSendQueue \in Seq(Nat) /\ mSendQueue # <<>> /\ UnderWay
    BY <1>0, <1>3 DEF SendCompleted, FrontUnderWay, SendTypes, UnderWay, Busy
  <2>2. CASE mSendQueue' = <<>>
    BY <1>1, <1>3, <2>2 DEF SendCompleted
  <2>3. CASE mSendQueue' # <<>>
    <3>1. SendIO(mSendQueue')
      BY <1>3, <2>3 DEF SendCompleted
    <3>2. Head(mSendQueue') \in Range(mSendQueue)
      <4>1. Head(mSendQueue') = mSendQueue[2] /\ 2 \in DOMAIN mSendQueue
        BY <2>1, <2>3
      <4> QED BY <4>1 DEF Range
    <3>3. mSocket # 0 => pushedOn[Head(mSendQueue')] = mSocket
      BY <2>1, <3>2 DEF PushedOnIt, Own
    <3>4. ASSUME NEW s \in 1..MaxSocket, NEW m \in Range(wire'[s]) PROVE pushedOn'[m] = s
      BY <1>0, <2>1, <3>1, <3>3, OnTheWire DEF SentRight
    <3> QED BY <3>4 DEF SentRight
  <2> QED BY <2>2, <2>3
<1>4. CASE \/ Age \/ Acceptor \/ UNCHANGED vars
           \/ \E x \in io, st \in {"done", "failed"} : Complete(x, st)
  BY <1>1, <1>4 DEF Age, Acceptor, SeesDisconnected, SeesTime, Arm, MakeSocket,
                    PostAcceptEx, vars, Complete
<1>5. ASSUME NEW w \in Worker, Work(w), ~SendCompleted(w) PROVE SentRight'
  BY <1>1, <1>5 DEF Work, Take, Connect, BindFirst, Receive, CheckConnected, Shutdown,
                    MarkClosed, StampTime, CloseHandle, ForgetSocket
<1> QED BY <1>2, <1>3, <1>4, <1>5 DEF Next

-----------------------------------------------------------------------------
LEMMA InitUse == Init => UseInv
<1> SUFFICES ASSUME Init PROVE Life /\ Own /\ PushedOnIt /\ SentRight
  BY InitTypes DEF UseInv
<1>1. Life
  BY DEF Init, Life, ReadyAgain, Quiet, At
<1>2. Own /\ PushedOnIt
  BY DEF Init, Own, PushedOnIt, UnderWay, Sends, Busy
<1>3. SentRight
  BY DEF Init, SentRight, Range
<1> QED BY <1>1, <1>2, <1>3

LEMMA StepUse == UseInv /\ [Next]_vars => UseInv'
<1> SUFFICES ASSUME UseInv, [Next]_vars PROVE UseInv'
  OBVIOUS
<1>1. TypeInv /\ TypeInv'
  BY TypeStep DEF UseInv
<1>2. late => late'
  BY DEF Next, Complete, Age, Acceptor, SeesDisconnected, SeesTime, Arm, MakeSocket,
         PostAcceptEx, SendMsg, Work, Take, Connect, BindFirst, Receive, SendCompleted,
         CheckConnected, Shutdown, MarkClosed, StampTime, CloseHandle, ForgetSocket,
         vars, histVars
<1>3. ASSUME ~late' PROVE (Life /\ Own /\ PushedOnIt /\ SentRight)'
  <2>1. Life /\ Own /\ PushedOnIt /\ SentRight
    BY <1>2, <1>3 DEF UseInv
  <2> QED BY <1>1, <1>3, <2>1, LifeStep, OwnStep, PushedStep, SentRightStep
<1> QED BY <1>1, <1>3 DEF UseInv

(* A slot is in one use at a time - being armed, waiting for a peer, handed to a *)
(* worker or connected - as long as no work is left when the wait after a close *)
(* ends: CheckConnectTime and Close keep the acceptor out until then.         *)
THEOREM OneUse == Spec => []InOneUse
<1>1. UseInv => InOneUse
  <2> SUFFICES ASSUME UseInv, ~late
               PROVE  Cardinality({x \in io : x.op = "accept"})
                      + Cardinality({w \in Worker : pc[w] = "connect"})
                      + (IF apc \in {"arm", "socket", "post"} THEN 1 ELSE 0)
                      + (IF mIsConnect THEN 1 ELSE 0) <= 1
    BY DEF InOneUse
  <2> DEFINE A == {x \in io : x.op = "accept"}
             C == {w \in Worker : pc[w] = "connect"}
  <2>1. Life
    BY DEF UseInv
  <2>2. A = {} => Cardinality(A) = 0
    BY FS_EmptySet
  <2>3. C = {} => Cardinality(C) = 0
    BY FS_EmptySet
  <2>4. ASSUME NEW x, A = {x} PROVE Cardinality(A) = 1
    BY <2>4, FS_Singleton
  <2>5. ASSUME NEW w, C = {w} PROVE Cardinality(C) = 1
    BY <2>5, FS_Singleton
  <2>6. NoAccept => A = {}
    BY DEF NoAccept
  <2>7. OneAccept => \E x : A = {x}
    BY DEF OneAccept
  <2>8. ASSUME NEW steps, At(steps), "connect" \notin steps PROVE C = {}
    BY <2>8 DEF At
  <2>9. HandedOver => \E w : C = {w}
    BY DEF HandedOver
  <2> HIDE DEF A, C
  <2>10. CASE ReadyAgain \/ Arming
    <3>1. NoAccept /\ At({"idle"}) /\ ~mIsConnect
      BY <2>10 DEF ReadyAgain, Arming, Quiet, NoAccept
    <3>2. Cardinality(A) = 0 /\ Cardinality(C) = 0
      BY <2>2, <2>3, <2>6, <2>8, <3>1
    <3> QED BY <3>1, <3>2 DEF A, C
  <2>11. CASE Waiting
    <3>1. ~mIsConnect /\ apc \notin {"arm", "socket", "post"}
      BY <2>11 DEF Waiting, Unconnected, Polls
    <3>2. Cardinality(A) = 1
      BY <2>4, <2>7, <2>11 DEF Waiting
    <3>3. Cardinality(C) = 0
      BY <2>3, <2>8, <2>11 DEF Waiting
    <3> QED BY <3>1, <3>2, <3>3 DEF A, C
  <2>12. CASE HandedOver
    <3>1. ~mIsConnect /\ apc \notin {"arm", "socket", "post"}
      BY <2>12 DEF HandedOver, Unconnected, Polls
    <3>2. Cardinality(C) = 1
      BY <2>5, <2>9, <2>12
    <3>3. Cardinality(A) = 0
      BY <2>2, <2>6, <2>12 DEF HandedOver
    <3> QED BY <3>1, <3>2, <3>3 DEF A, C
  <2>13. CASE Stopped \/ Connected \/ Closed
    <3>1. apc \notin {"arm", "socket", "post"} /\ NoAccept
      BY <2>13 DEF Stopped, Connected, Closed, Unconnected, Polls
    <3>2. C = {}
      BY <2>8, <2>13 DEF Stopped, Connected, Closed, Steps
    <3>3. Cardinality(A) = 0 /\ Cardinality(C) = 0
      BY <2>2, <2>3, <2>6, <3>1, <3>2
    <3> QED BY <3>1, <3>3 DEF A, C
  <2> QED BY <2>1, <2>10, <2>11, <2>12, <2>13 DEF Life
<1> QED BY <1>1, InitUse, StepUse, PTL DEF Spec

(* A worker that closes closes the connection whose failed call it took, though *)
(* Close takes whatever mSocket is by then: no new socket is made before the   *)
(* closing is over (unless work was left when the wait ended).                *)
THEOREM ClosesOwn == Spec => []ClosesItsOwn
<1>1. UseInv => ClosesItsOwn
  BY DEF UseInv, ClosesItsOwn, Own, Closing
<1> QED BY <1>1, InitUse, StepUse, PTL DEF Spec

(* A message is given to the socket it was queued on, never to the next peer of *)
(* the slot, though Close leaves mSendQueue as it is (unless work was left).  *)
THEOREM SentToItsOwn == Spec => []SentWherePushed
<1>1. UseInv => SentWherePushed
  BY DEF UseInv, SentRight, SentWherePushed
<1> QED BY <1>1, InitUse, StepUse, PTL DEF Spec

(* A connected slot has a receive in the port, or a worker that will post one   *)
(* or close the slot, unless posting a receive has failed.                    *)
THEOREM Listening == Spec => []ConnectedListens
<1>1. UseInv => ConnectedListens
  <2> SUFFICES ASSUME UseInv, mIsConnect, ~late, ~bindFailed
               PROVE  \/ \E x \in Receives : x.sock = mSocket
                      \/ \E w \in Worker : pc[w] \in {"bind", "receive"} \cup Closing
    BY DEF ConnectedListens
  <2>1. Connected
    BY DEF UseInv, Life, ReadyAgain, Arming, Waiting, HandedOver, Stopped, Closed, Quiet,
           Unconnected
  <2> QED BY <2>1 DEF Connected, Listens, Busy, Closing
<1> QED BY <1>1, InitUse, StepUse, PTL DEF Spec
=============================================================================
