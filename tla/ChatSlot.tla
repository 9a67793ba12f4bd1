------------------------------- MODULE ChatSlot -------------------------------
(***************************************************************************)
(* A client slot of ChatServer: IOCPServer.h and NetworkClient.h.  The       *)
(* acceptor thread polls the slot and posts an AcceptEx for it, workers      *)
(* take the slot's completions, the packet thread queues messages on it.    *)
(* A slot is reached only by its own index and key, so the module follows   *)
(* one slot.                                                                *)
(***************************************************************************)
EXTENDS Integers, Sequences, FiniteSets, Functions

CONSTANTS Worker,      \* the I/O threads
          MaxSocket,   \* bound: the sockets ever made, 1..MaxSocket
          MaxMsg       \* bound: the messages ever queued, 1..MaxMsg

ASSUME ChatSlotAssumption == MaxSocket \in Nat /\ MaxMsg \in Nat

VARIABLES mIsConnect,
          mLatestClosedTimeSec,  \* "max" (UINT32_MAX), "recent": up to
                      \* REUSE_SESSION_WAIT_TIMESEC ago, or "old"
          mSocket,    \* 0 is INVALID_SOCKET
          mSendQueue,
          made,       \* the sockets made are 1..made
          state,      \* by socket: "none", "made", "linked", "shut", "closed"
          io,         \* overlapped calls: [op, sock, tag, st], where st is
                      \* "posted", or "done" or "failed" in the port
          pc, it,     \* by worker: its step, the completion it works on
          apc,        \* the acceptor's step
          asked,      \* a packet has come: the packet thread may answer it
          pushed,     \* the messages queued are 1..pushed
          crashed,    \* a null NetworkClient has been used
          pushedOn, wire,           \* history: the socket a message was queued
                      \* on, the messages given to a socket
          sendFailed, bindFailed,   \* history: a send, a receive has failed to
          armFailed,  \*   post or to complete; PostAccept has failed
          late        \* history: the wait ended with work left

slotVars == <<mIsConnect, mLatestClosedTimeSec, mSocket>>
sockVars == <<made, state>>
sendVars == <<mSendQueue, asked, pushed, pushedOn, wire, sendFailed>>
threadVars == <<pc, it>>
histVars == <<bindFailed, armFailed, late>>
vars == <<slotVars, sockVars, io, sendVars, threadVars, apc, crashed, histVars>>

Call(op, sock, tag, st) == [op |-> op, sock |-> sock, tag |-> tag, st |-> st]
Idle == Call("none", 0, 0, "none")
Ended(x, st) == Call(x.op, x.sock, x.tag, st)

(* CreateClient: mLatestClosedTimeSec is 0. *)
Init ==
  /\ mIsConnect = FALSE /\ mLatestClosedTimeSec = "old" /\ mSocket = 0
  /\ made = 0 /\ state = [s \in 1..MaxSocket |-> "none"]
  /\ io = {}
  /\ mSendQueue = <<>> /\ asked = FALSE /\ pushed = 0 /\ pushedOn = <<>>
  /\ wire = [s \in 1..MaxSocket |-> <<>>] /\ sendFailed = FALSE
  /\ pc = [w \in Worker |-> "idle"] /\ it = [w \in Worker |-> Idle]
  /\ apc = "scan" /\ crashed = FALSE
  /\ bindFailed = FALSE /\ armFailed = FALSE /\ late = FALSE

Linked(s) == s # 0 /\ state[s] = "linked"
Goto(w, step) == pc' = [pc EXCEPT ![w] = step] /\ UNCHANGED it
Finish(w) == pc' = [pc EXCEPT ![w] = "idle"] /\ it' = [it EXCEPT ![w] = Idle]

(* What is posted on a socket fails when the socket is shut or closed. *)
EndIO(s) ==
  {IF x.sock = s /\ x.st = "posted" THEN Ended(x, "failed") ELSE x : x \in io}

-----------------------------------------------------------------------------
(* The kernel and the peer complete a call; 0 bytes received is a failure.   *)
Complete(x, st) ==
  /\ x \in io /\ x.st = "posted"
  /\ io' = (io \ {x}) \cup {Ended(x, st)}
  /\ state' = IF x.op = "accept" /\ st = "done"
              THEN [state EXCEPT ![x.sock] = "linked"] ELSE state
  /\ UNCHANGED <<slotVars, made, sendVars, threadVars, apc, crashed, histVars>>

(* More than REUSE_SESSION_WAIT_TIMESEC seconds pass after a close. *)
Age ==
  /\ mLatestClosedTimeSec = "recent"
  /\ mLatestClosedTimeSec' = "old"
  /\ late' = (late \/ io # {} \/ \E w \in Worker : pc[w] # "idle")
  /\ UNCHANGED <<mIsConnect, mSocket, sockVars, io, sendVars, threadVars, apc,
                 crashed, bindFailed, armFailed>>

-----------------------------------------------------------------------------
(* AcceptorThread and PostAccept *)

SeesDisconnected ==
  /\ apc = "scan" /\ ~mIsConnect
  /\ apc' = "time"
  /\ UNCHANGED <<slotVars, sockVars, io, sendVars, threadVars, crashed, histVars>>

(* Mutant of SeesTime: the wait is left out. *)
SeesClosed ==
  /\ apc = "time"
  /\ apc' = IF mLatestClosedTimeSec # "max" THEN "arm" ELSE "scan"
  /\ UNCHANGED <<slotVars, sockVars, io, sendVars, threadVars, crashed, histVars>>

SeesTime ==
  /\ apc = "time"
  /\ apc' = IF mLatestClosedTimeSec = "old" THEN "arm" ELSE "scan"
  /\ UNCHANGED <<slotVars, sockVars, io, sendVars, threadVars, crashed, histVars>>

(* Mutant of Arm: the time of the last close stays. *)
ArmUnmarked ==
  /\ apc = "arm"
  /\ apc' = "socket"
  /\ UNCHANGED <<slotVars, sockVars, io, sendVars, threadVars, crashed, histVars>>

Arm ==
  /\ apc = "arm"
  /\ mLatestClosedTimeSec' = "max"
  /\ apc' = "socket"
  /\ UNCHANGED <<mIsConnect, mSocket, sockVars, io, sendVars, threadVars,
                 crashed, histVars>>

MakeSocket ==
  /\ apc = "socket"
  /\ \/ /\ made < MaxSocket /\ made' = made + 1
        /\ mSocket' = made + 1
        /\ state' = [state EXCEPT ![made + 1] = "made"]
        /\ apc' = "post" /\ UNCHANGED armFailed
     \/ /\ mSocket' = 0 /\ armFailed' = TRUE
        /\ apc' = "scan" /\ UNCHANGED sockVars
  /\ UNCHANGED <<mIsConnect, mLatestClosedTimeSec, io, sendVars, threadVars,
                 crashed, bindFailed, late>>

PostAcceptEx ==
  /\ apc = "post"
  /\ apc' = "scan"
  /\ \/ /\ mSocket # 0 /\ state[mSocket] = "made"
        /\ io' = io \cup {Call("accept", mSocket, 0, "posted")}
        /\ UNCHANGED armFailed
     \/ armFailed' = TRUE /\ UNCHANGED io
  /\ UNCHANGED <<slotVars, sockVars, sendVars, threadVars, crashed, bindFailed,
                 late>>

Acceptor ==
  ~crashed /\ (SeesDisconnected \/ SeesTime \/ Arm \/ MakeSocket \/ PostAcceptEx)

-----------------------------------------------------------------------------
Handler(op) == CASE op = "accept" -> "connect"
                 [] op = "recv"   -> "receive"
                 [] op = "send"   -> "sent"

(* WorkerThread takes a completion.  A failed AcceptEx has the key of the     *)
(* listening socket, 0: CloseSocket is called with a null client.           *)
Take(w, x) ==
  /\ pc[w] = "idle" /\ x \in io /\ x.st # "posted"
  /\ io' = io \ {x}
  /\ IF x.st = "failed" /\ x.op = "accept"
     THEN crashed' = TRUE /\ UNCHANGED threadVars
     ELSE /\ pc' = [pc EXCEPT ![w] =
                      IF x.st = "failed" THEN "check" ELSE Handler(x.op)]
          /\ it' = [it EXCEPT ![w] = x] /\ UNCHANGED crashed
  /\ sendFailed' = (sendFailed \/ (x.op = "send" /\ x.st = "failed"))
  /\ UNCHANGED <<slotVars, sockVars, mSendQueue, asked, pushed, pushedOn, wire,
                 apc,
                 histVars>>

(* OnConnect *)
Connect(w) ==
  /\ pc[w] = "connect"
  /\ mIsConnect' = TRUE
  /\ Goto(w, "bind")
  /\ UNCHANGED <<mLatestClosedTimeSec, mSocket, sockVars, io, sendVars, apc,
                 crashed, histVars>>

BindRecv ==
  LET tag == CHOOSE n \in 1..Cardinality(io) + 1 :
               \A x \in io : x.op = "recv" => x.tag # n IN
  \/ /\ Linked(mSocket)
     /\ io' = io \cup {Call("recv", mSocket, tag, "posted")}
     /\ UNCHANGED bindFailed
  \/ bindFailed' = TRUE /\ UNCHANGED io

(* The first receive; the slot is closed when it fails. *)
BindFirst(w) ==
  /\ pc[w] = "bind"
  /\ BindRecv
  /\ IF io' # io THEN Finish(w) ELSE Goto(w, "check")
  /\ UNCHANGED <<slotVars, sockVars, sendVars, apc, crashed, armFailed, late>>

(* Mutant of Receive: OnReceive is the last thing that is done. *)
ReceiveOnly(w) ==
  /\ pc[w] = "receive"
  /\ asked' = TRUE
  /\ Finish(w)
  /\ UNCHANGED <<slotVars, sockVars, io, mSendQueue, pushed, pushedOn, wire,
                 sendFailed, apc, crashed, histVars>>

(* OnReceive, then the next receive, whose result is not looked at. *)
Receive(w) ==
  /\ pc[w] = "receive"
  /\ asked' = TRUE
  /\ BindRecv
  /\ Finish(w)
  /\ UNCHANGED <<slotVars, sockVars, mSendQueue, pushed, pushedOn, wire,
                 sendFailed, apc, crashed, armFailed, late>>

-----------------------------------------------------------------------------
(* The send queue, under mSendLock *)

SendIO(q) ==
  \/ /\ Linked(mSocket)
     /\ io' = io \cup {Call("send", mSocket, Head(q), "posted")}
     /\ wire' = [wire EXCEPT ![mSocket] = Append(@, Head(q))]
     /\ UNCHANGED sendFailed
  \/ sendFailed' = TRUE /\ UNCHANGED <<io, wire>>

(* Mutant of SendMsg: the message is given to the socket whatever is queued.  *)
SendMsgAtOnce ==
  LET m == pushed + 1 IN
  /\ ~crashed /\ asked /\ pushed < MaxMsg /\ pushed' = m
  /\ mSendQueue' = Append(mSendQueue, m)
  /\ pushedOn' = Append(pushedOn, mSocket)
  /\ SendIO(<<m>>)
  /\ UNCHANGED <<slotVars, sockVars, threadVars, apc, asked, crashed, histVars>>

(* The packet thread answers a packet, connected or not. *)
SendMsg ==
  LET m == pushed + 1 IN
  /\ ~crashed /\ asked /\ pushed < MaxMsg /\ pushed' = m
  /\ mSendQueue' = Append(mSendQueue, m)
  /\ pushedOn' = Append(pushedOn, mSocket)
  /\ IF Len(mSendQueue') = 1 THEN SendIO(mSendQueue')
     ELSE UNCHANGED <<io, wire, sendFailed>>
  /\ UNCHANGED <<slotVars, sockVars, threadVars, apc, asked, crashed, histVars>>

(* The front is freed whatever it is; its size is not compared. *)
SendCompleted(w) ==
  /\ pc[w] = "sent"
  /\ mSendQueue' = Tail(mSendQueue)
  /\ IF mSendQueue' # <<>> THEN SendIO(mSendQueue')
     ELSE UNCHANGED <<io, wire, sendFailed>>
  /\ Finish(w)
  /\ UNCHANGED <<slotVars, sockVars, asked, pushed, pushedOn, apc, crashed, histVars>>

-----------------------------------------------------------------------------
(* CloseSocket and Close *)

CheckConnected(w) ==
  /\ pc[w] = "check"
  /\ IF mIsConnect THEN Goto(w, "shutdown") ELSE Finish(w)
  /\ UNCHANGED <<slotVars, sockVars, io, sendVars, apc, crashed, histVars>>

Shutdown(w) ==
  /\ pc[w] = "shutdown"
  /\ IF Linked(mSocket)
     THEN state' = [state EXCEPT ![mSocket] = "shut"] /\ io' = EndIO(mSocket)
     ELSE UNCHANGED <<state, io>>
  /\ Goto(w, "mark")
  /\ UNCHANGED <<slotVars, made, sendVars, apc, crashed, histVars>>

MarkClosed(w) ==
  /\ pc[w] = "mark"
  /\ mIsConnect' = FALSE
  /\ Goto(w, "stamp")
  /\ UNCHANGED <<mLatestClosedTimeSec, mSocket, sockVars, io, sendVars, apc,
                 crashed, histVars>>

(* Mutant of StampTime: the time of the close is not kept. *)
StampNothing(w) ==
  /\ pc[w] = "stamp"
  /\ Goto(w, "close")
  /\ UNCHANGED <<slotVars, sockVars, io, sendVars, apc, crashed, histVars>>

StampTime(w) ==
  /\ pc[w] = "stamp"
  /\ mLatestClosedTimeSec' = "recent"
  /\ Goto(w, "close")
  /\ UNCHANGED <<mIsConnect, mSocket, sockVars, io, sendVars, apc, crashed,
                 histVars>>

CloseHandle(w) ==
  /\ pc[w] = "close"
  /\ IF mSocket # 0
     THEN state' = [state EXCEPT ![mSocket] = "closed"] /\ io' = EndIO(mSocket)
     ELSE UNCHANGED <<state, io>>
  /\ Goto(w, "forget")
  /\ UNCHANGED <<slotVars, made, sendVars, apc, crashed, histVars>>

(* Mutant of ForgetSocket: what waits to be sent is dropped with the socket, *)
(* while a send of it may still be posted.                                   *)
ForgetQueue(w) ==
  /\ pc[w] = "forget"
  /\ mSocket' = 0 /\ mSendQueue' = <<>>
  /\ Finish(w)
  /\ UNCHANGED <<mIsConnect, mLatestClosedTimeSec, sockVars, io, asked, pushed,
                 pushedOn, wire, sendFailed, apc, crashed, histVars>>

ForgetSocket(w) ==
  /\ pc[w] = "forget"
  /\ mSocket' = 0
  /\ Finish(w)
  /\ UNCHANGED <<mIsConnect, mLatestClosedTimeSec, sockVars, io, sendVars, apc,
                 crashed, histVars>>

Work(w) ==
  /\ ~crashed
  /\ \/ \E x \in io : Take(w, x)
     \/ Connect(w) \/ BindFirst(w) \/ Receive(w) \/ SendCompleted(w)
     \/ CheckConnected(w) \/ Shutdown(w) \/ MarkClosed(w) \/ StampTime(w)
     \/ CloseHandle(w) \/ ForgetSocket(w)

-----------------------------------------------------------------------------

Next ==
  \/ \E x \in io, st \in {"done", "failed"} : Complete(x, st)
  \/ Age \/ Acceptor \/ SendMsg
  \/ \E w \in Worker : Work(w)

Spec == Init /\ [][Next]_vars

TakeFailed(w) == ~crashed /\ \E x \in io : x.st = "failed" /\ Take(w, x)

(* Time passes, threads go on, and the port hands out completions in order:   *)
(* others may not overtake a failed one for ever.                           *)
Fairness ==
  /\ WF_vars(Age) /\ WF_vars(Acceptor) /\ \A w \in Worker : WF_vars(Work(w))
  /\ SF_vars(\E w \in Worker : TakeFailed(w))

FairSpec == Spec /\ Fairness

-----------------------------------------------------------------------------

Sends == {x \in io : x.op = "send"}
Receives == {x \in io : x.op = "recv"}
Closing == {"check", "shutdown", "mark", "stamp", "close", "forget"}

(* Types; and the buffer of a WSASend that is posted is still in the queue    *)
(* that frees it.                                                           *)
TypeOK ==
  /\ mIsConnect \in BOOLEAN /\ mLatestClosedTimeSec \in {"max", "recent", "old"}
  /\ made \in 0..MaxSocket /\ mSocket \in 0..made
  /\ state \in [1..MaxSocket -> {"none", "made", "linked", "shut", "closed"}]
  /\ \A x \in io : x \in [op : {"accept", "recv", "send"}, sock : 1..made,
                          tag : Nat, st : {"posted", "done", "failed"}]
  /\ pushed \in 0..MaxMsg /\ mSendQueue \in Seq(1..pushed)
  /\ \A x \in Sends : x.tag \in Range(mSendQueue)
  /\ pc \in [Worker -> {"idle", "connect", "bind", "receive", "sent"} \cup Closing]
  /\ apc \in {"scan", "time", "arm", "socket", "post"}
  /\ asked \in BOOLEAN /\ crashed \in BOOLEAN

(* A message is freed when its own WSASend has completed, never another's;    *)
(* the front is under way, alone, until a send fails.                       *)
FrontUnderWay ==
  /\ \A x, y \in Sends : x = y
  /\ \A x \in Sends : mSendQueue # <<>> /\ x.tag = Head(mSendQueue)
  /\ \A v, w \in Worker : pc[v] = "sent" /\ pc[w] = "sent" => v = w
  /\ \A w \in Worker : pc[w] = "sent" =>
       Sends = {} /\ mSendQueue # <<>> /\ it[w].tag = Head(mSendQueue)
  /\ mSendQueue # <<>> /\ ~sendFailed =>
       Sends # {} \/ \E w \in Worker : pc[w] = "sent"

(* A slot is in one use at a time: being armed, waiting for a peer, handed    *)
(* to a worker or connected.  (Unless work was left when the wait ended.)   *)
InOneUse ==
  ~late =>
    Cardinality({x \in io : x.op = "accept"})
    + Cardinality({w \in Worker : pc[w] = "connect"})
    + (IF apc \in {"arm", "socket", "post"} THEN 1 ELSE 0)
    + (IF mIsConnect THEN 1 ELSE 0) <= 1

(* A worker that closes closes the connection whose failure it took, though   *)
(* Close takes whatever mSocket is then.  (Unless work was left as above.)  *)
ClosesItsOwn ==
  ~late => \A w \in Worker :
    pc[w] \in Closing \ {"check"} => mSocket \in {0, it[w].sock}

(* A message goes to the connection the slot had when it was queued, though    *)
(* Close leaves the queue as it is.  (Unless work was left as above.)        *)
SentWherePushed ==
  ~late => \A s \in 1..MaxSocket : \A m \in Range(wire[s]) : pushedOn[m] = s

(* A connected slot has a receive posted, or a worker that will post it or    *)
(* close the slot - unless posting one has failed: that is not looked at.    *)
ConnectedListens ==
  mIsConnect /\ ~late /\ ~bindFailed =>
    \/ \E x \in Receives : x.sock = mSocket
    \/ \E w \in Worker : pc[w] \in {"bind", "receive"} \cup Closing

(* A slot without a socket, or connected when a call fails, waits for a peer   *)
(* again, unless PostAccept or AcceptEx has failed (or work was left).        *)
SlotComesBack ==
  mSocket = 0 \/ (mIsConnect /\ \E x \in io : x.st = "failed")
    ~> \/ \E x \in io : x.op = "accept"
       \/ armFailed \/ crashed \/ late
=============================================================================
