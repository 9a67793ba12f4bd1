------------------------------- MODULE SendPath -------------------------------
(***************************************************************************)
(* The 1-Send path of StudyServer for one connection, from AddClient to    *)
(* the first RemoveClient: PushSendPacket on the dispatch thread,           *)
(* NetworkClient::Send on it and on the I/O workers, _HandleSend and        *)
(* RemoveClient on the workers, and WSASend in the kernel.                  *)
(*                                                                         *)
(* Every access to state that two threads share without a lock is a step    *)
(* of its own: IsConnected, the push, mSending.exchange, the filling of     *)
(* mSendContext, WSASend, Read, the test of GetDataSize, mSending.store.    *)
(***************************************************************************)
EXTENDS Integers, Sequences, FiniteSets, Functions

CONSTANTS Worker,      \* the I/O threads
          Dispatcher,  \* the dispatch thread of the service
          Packet,      \* the packets the service may answer with
          Size,        \* Size[p]: header and body, in bytes
          Cap,         \* mBuffer.size()
          Zero,        \* a byte of an empty buffer
          QueueMax     \* bound: packets waiting in mSendQueue

(* The service only echoes packets that fitted a receive buffer of the same *)
(* size, so a packet always fits an empty send buffer.                     *)
ASSUME SendAssumption ==
  /\ Dispatcher \notin Worker
  /\ Cap \in Nat \ {0}
  /\ Size \in [Packet -> 1..Cap]
  /\ QueueMax \in Nat

Byte(p, k) == <<p, k>>
Bytes(p) == [k \in 1..Size[p] |-> Byte(p, k)]
Cell == {Byte(p, k) : p \in Packet, k \in 1..Cap} \cup {Zero}

INSTANCE ContextBuffer

Thread == Worker \cup {Dispatcher}

VARIABLES socket,        \* "open", "reset" by the peer, or "closed" by Close
          mIsConnected, mSessionID,
          receiving,     \* the WSARecv that tells of a disconnect: "posted",
                         \* "ended" (its completion waits) or "taken"
          mSendQueue, mSending,
          ctx,           \* mSendContext
          inflight,      \* WSASend calls the kernel has: [from, len]
          completions,   \* of WSASend, for GetQueuedCompletionStatus; an
                         \* aborted one is a completion of 0 bytes
          line,          \* history: the bytes the kernel sent last
          sendFailed,    \* history: a WSASend failed on a live socket
          pc,            \* the step of each thread
          packet,        \* the packet the dispatch thread is pushing
          transferred    \* dwIoSize of the completion a worker handles

connVars == <<socket, mIsConnected, mSessionID, receiving>>
sendVars == <<mSendQueue, mSending, ctx>>
kernelVars == <<inflight, completions, line, sendFailed>>
threadVars == <<pc, packet, transferred>>
vars == <<connVars, sendVars, kernelVars, threadVars>>

Sid == 1     \* the index of this client in mClientList; 0 is another one

Goto(t, step) == pc' = [pc EXCEPT ![t] = step]

Init ==
  /\ socket = "open" /\ mIsConnected = TRUE /\ mSessionID = Sid
  /\ receiving = "posted"
  /\ mSendQueue = <<>> /\ mSending = FALSE /\ ctx = EmptyContext
  /\ inflight = <<>> /\ completions = <<>> /\ line = <<>>
  /\ sendFailed = FALSE
  /\ pc = [t \in Thread |-> "idle"]
  /\ packet \in Packet
  /\ transferred = [w \in Worker |-> 0]

-----------------------------------------------------------------------------
(* The dispatch thread: sendFunction and PushSendPacket *)

(* The service answers with p.  Queued packets are told apart.             *)
Respond(p) ==
  /\ pc[Dispatcher] = "idle"
  /\ p \notin Range(mSendQueue)
  /\ Len(mSendQueue) < QueueMax
  /\ packet' = p
  /\ Goto(Dispatcher, "connected")
  /\ UNCHANGED <<connVars, sendVars, kernelVars, transferred>>

TestConnected ==
  /\ pc[Dispatcher] = "connected"
  /\ Goto(Dispatcher, IF mIsConnected THEN "enqueue" ELSE "idle")
  /\ UNCHANGED <<connVars, sendVars, kernelVars, packet, transferred>>

EnqueuePacket ==
  /\ pc[Dispatcher] = "enqueue"
  /\ mSendQueue' = Append(mSendQueue, packet)
  /\ Goto(Dispatcher, "exchange")
  /\ UNCHANGED <<connVars, mSending, ctx, kernelVars, packet, transferred>>

(* Mutant of ExchangeSending: Send is called whatever mSending was.        *)
ExchangeIgnored ==
  /\ pc[Dispatcher] = "exchange"
  /\ mSending' = TRUE
  /\ Goto(Dispatcher, "fill")
  /\ UNCHANGED <<connVars, mSendQueue, ctx, kernelVars, packet, transferred>>

ExchangeSending ==
  /\ pc[Dispatcher] = "exchange"
  /\ mSending' = TRUE
  /\ Goto(Dispatcher, IF mSending THEN "idle" ELSE "fill")
  /\ UNCHANGED <<connVars, mSendQueue, ctx, kernelVars, packet, transferred>>

-----------------------------------------------------------------------------
(* NetworkClient::Send, on whichever thread calls it *)

(* An empty context takes the front of the queue; it is popped only when    *)
(* the write succeeds.  A context with data is sent as it is.              *)
Fill(t) ==
  /\ pc[t] = "fill"
  /\ LET p == Head(mSendQueue) IN
     \/ /\ DataSize(ctx) # 0
        /\ Goto(t, "post") /\ UNCHANGED <<ctx, mSendQueue>>
     \/ /\ DataSize(ctx) = 0 /\ mSendQueue = <<>>
        /\ Goto(t, "idle") /\ UNCHANGED <<ctx, mSendQueue>>
     \/ /\ DataSize(ctx) = 0 /\ mSendQueue # <<>>
        /\ IF Fits(ctx, Size[p])
           THEN /\ ctx' = Write(ctx, Bytes(p))
                /\ mSendQueue' = Tail(mSendQueue)
                /\ Goto(t, "post")
           ELSE /\ ctx' = MakeRoom(ctx, Size[p])
                /\ Goto(t, "idle") /\ UNCHANGED mSendQueue
  /\ UNCHANGED <<connVars, mSending, kernelVars, packet, transferred>>

(* Mutant of Post: WSASend is given the start of the buffer.              *)
PostFromStart(t) ==
  /\ pc[t] = "post"
  /\ \/ /\ socket # "closed"
        /\ inflight' = Append(inflight, [from |-> 0, len |-> DataSize(ctx)])
        /\ UNCHANGED sendFailed
     \/ /\ UNCHANGED inflight
        /\ sendFailed' = (sendFailed \/ socket # "closed")
  /\ Goto(t, "idle")
  /\ UNCHANGED <<connVars, sendVars, completions, line, packet, transferred>>

(* WSASend: the socket takes it, or it fails and Send returns with mSending  *)
(* still set.  It always fails once Close has made the socket invalid.      *)
Post(t) ==
  /\ pc[t] = "post"
  /\ \/ /\ socket # "closed"
        /\ inflight' = Append(inflight, [from |-> ctx.read, len |-> DataSize(ctx)])
        /\ UNCHANGED sendFailed
     \/ /\ UNCHANGED inflight
        /\ sendFailed' = (sendFailed \/ socket # "closed")
  /\ Goto(t, "idle")
  /\ UNCHANGED <<connVars, sendVars, completions, line, packet, transferred>>

-----------------------------------------------------------------------------
(* The kernel and the peer *)

(* The kernel sends n bytes of the oldest WSASend and completes it. *)
Transmit(n) ==
  /\ socket = "open" /\ inflight # <<>>
  /\ n \in 1..Head(inflight).len
  /\ line' = [k \in 1..n |-> ctx.data[Head(inflight).from + k - 1]]
  /\ inflight' = Tail(inflight)
  /\ completions' = Append(completions, n)
  /\ UNCHANGED <<connVars, sendVars, sendFailed, threadVars>>

(* A WSASend on a socket that is no longer open completes with an error.    *)
AbortSend ==
  /\ socket # "open" /\ inflight # <<>>
  /\ inflight' = Tail(inflight)
  /\ completions' = Append(completions, 0)
  /\ UNCHANGED <<connVars, sendVars, line, sendFailed, threadVars>>

(* The posted WSARecv ends when the peer or this side ends the connection.  *)
EndReceive == receiving' = IF receiving = "posted" THEN "ended" ELSE receiving

(* The peer stops sending: the socket can still be written to. *)
PeerClose ==
  /\ socket = "open" /\ receiving = "posted"
  /\ EndReceive
  /\ UNCHANGED <<socket, mIsConnected, mSessionID, sendVars, kernelVars,
                 threadVars>>

PeerReset ==
  /\ socket = "open"
  /\ socket' = "reset" /\ EndReceive
  /\ UNCHANGED <<mIsConnected, mSessionID, sendVars, kernelVars, threadVars>>

-----------------------------------------------------------------------------
(* An I/O worker: _HandleSend and RemoveClient *)

TakeCompletion(w) ==
  /\ pc[w] = "idle" /\ completions # <<>>
  /\ completions' = Tail(completions)
  /\ transferred' = [transferred EXCEPT ![w] = Head(completions)]
  /\ Goto(w, IF Head(completions) = 0 THEN "remove" ELSE "read")
  /\ UNCHANGED <<connVars, sendVars, inflight, line, sendFailed, packet>>

(* The posted WSARecv completes with 0 bytes or an error. *)
TakeDisconnect(w) ==
  /\ pc[w] = "idle" /\ receiving = "ended"
  /\ receiving' = "taken"
  /\ Goto(w, "remove")
  /\ UNCHANGED <<socket, mIsConnected, mSessionID, sendVars, kernelVars,
                 packet, transferred>>

(* Mutant of ReadSent: the position moves whatever the context holds.      *)
ReadUnchecked(w) ==
  /\ pc[w] = "read"
  /\ ctx' = [ctx EXCEPT !.read = @ + transferred[w]]
  /\ Goto(w, "test")
  /\ UNCHANGED <<connVars, mSendQueue, mSending, kernelVars, packet, transferred>>

ReadSent(w) ==
  /\ pc[w] = "read"
  /\ ctx' = ReadDone(ctx, transferred[w])
  /\ Goto(w, IF CanRead(ctx, transferred[w]) THEN "test" ELSE "idle")
  /\ UNCHANGED <<connVars, mSendQueue, mSending, kernelVars, packet, transferred>>

(* Mutant of TestSent: a partial send is taken for a whole one. *)
TestSentPartial(w) ==
  /\ pc[w] = "test"
  /\ Goto(w, "store")
  /\ UNCHANGED <<connVars, sendVars, kernelVars, packet, transferred>>

(* Mutant of TestSent: what a partial send left is not sent. *)
TestSentStops(w) ==
  /\ pc[w] = "test"
  /\ Goto(w, IF DataSize(ctx) > 0 THEN "idle" ELSE "store")
  /\ UNCHANGED <<connVars, sendVars, kernelVars, packet, transferred>>

TestSent(w) ==
  /\ pc[w] = "test"
  /\ Goto(w, IF DataSize(ctx) > 0 THEN "fill" ELSE "store")
  /\ UNCHANGED <<connVars, sendVars, kernelVars, packet, transferred>>

StoreSending(w) ==
  /\ pc[w] = "store"
  /\ mSending' = FALSE
  /\ Goto(w, "idle")
  /\ UNCHANGED <<connVars, mSendQueue, ctx, kernelVars, packet, transferred>>

(* RemoveClient closes the client its session ID names.  Once Reset has      *)
(* zeroed mSessionID that is the client at index 0, which is not this one.  *)
RemoveClient(w) ==
  /\ pc[w] = "remove"
  /\ IF mSessionID = Sid
     THEN socket' = "closed" /\ EndReceive /\ Goto(w, "reset")
     ELSE Goto(w, "idle") /\ UNCHANGED <<socket, receiving>>
  /\ UNCHANGED <<mIsConnected, mSessionID, sendVars, kernelVars,
                 packet, transferred>>

Reset(w) ==
  /\ pc[w] = "reset"
  /\ ctx' = EmptyContext
  /\ mIsConnected' = FALSE /\ mSessionID' = 0 /\ mSending' = FALSE
  /\ Goto(w, "idle")
  /\ UNCHANGED <<socket, receiving, mSendQueue, kernelVars, packet, transferred>>

-----------------------------------------------------------------------------

Push == TestConnected \/ EnqueuePacket \/ ExchangeSending

Send(t) == Fill(t) \/ Post(t)

Handle(w) == \/ TakeCompletion(w) \/ TakeDisconnect(w)
             \/ ReadSent(w) \/ TestSent(w) \/ StoreSending(w)
             \/ RemoveClient(w) \/ Reset(w)

Kernel == AbortSend \/ \E n \in 1..Cap : Transmit(n)

Next ==
  \/ \E p \in Packet : Respond(p)
  \/ Push
  \/ \E t \in Thread : Send(t)
  \/ \E w \in Worker : Handle(w)
  \/ Kernel
  \/ PeerClose \/ PeerReset

Spec == Init /\ [][Next]_vars

(* Threads that are ready run, the kernel completes what was posted and a   *)
(* worker is there to take it.  The service and the peer owe nothing.       *)
Fairness ==
  /\ WF_vars(Push) /\ WF_vars(Send(Dispatcher)) /\ WF_vars(Kernel)
  /\ \A w \in Worker : WF_vars(Send(w)) /\ WF_vars(Handle(w))

FairSpec == Spec /\ Fairness

-----------------------------------------------------------------------------
(* Properties *)

Steps == {"idle", "connected", "enqueue", "exchange", "fill", "post", "remove",
          "reset", "read", "test", "store"}

(* The positions of the send buffer stay in it and in order, so WSASend     *)
(* gets bytes that Write put there; a push never meets a full buffer.       *)
TypeOK ==
  /\ socket \in {"open", "reset", "closed"}
  /\ mIsConnected \in BOOLEAN /\ mSessionID \in {0, Sid}
  /\ receiving \in {"posted", "ended", "taken"}
  /\ mSendQueue \in Seq(Packet) /\ mSending \in BOOLEAN
  /\ ctx \in Context /\ ctx.read <= ctx.write
  /\ inflight \in Seq([from : 0..Cap, len : 0..Cap])
  /\ completions \in Seq(0..Cap) /\ line \in Seq(Cell)
  /\ sendFailed \in BOOLEAN
  /\ pc \in [Thread -> Steps]
  /\ packet \in Packet
  /\ transferred \in [Worker -> 0..Cap]

(* The threads that read or write mSendContext, or are about to. *)
Busy == {t \in Thread : pc[t] \in {"fill", "post", "read", "test", "store"}}

(* 1-Send: while the socket is ours, the send context has one user at a     *)
(* time, be it a thread in Send or in _HandleSend, the kernel with a        *)
(* WSASend, or a completion nobody has taken; no send starts before the     *)
(* last one has completed and been accounted for.                          *)
OneSend ==
  socket # "closed" =>
    /\ \A s, t \in Busy : s = t
    /\ Busy # {} => inflight = <<>> /\ completions = <<>>
    /\ Len(inflight) + Len(completions) <= 1

(* When mSending is clear the last packet has left whole: the next Send     *)
(* takes a packet and never the tail of an older one, and the kernel holds   *)
(* nothing of it.                                                          *)
IdleMeansDrained ==
  socket # "closed" /\ ~mSending =>
    DataSize(ctx) = 0 /\ inflight = <<>> /\ completions = <<>> /\ Busy = {}

(* The bytes at the front of the context that the kernel has sent and no      *)
(* worker has read yet.                                                    *)
Acked ==
  IF completions # <<>> THEN Head(completions)
  ELSE IF \E w \in Worker : pc[w] = "read"
       THEN transferred[CHOOSE w \in Worker : pc[w] = "read"]
       ELSE 0

(* The packet whose bytes are in the context and have not all left. *)
Unsent == DataSize(ctx) - Acked
Current == IF Unsent > 0 THEN <<ctx.data[ctx.write - 1][1]>> ELSE <<>>

Up == socket = "open"
Channel ==
  INSTANCE SendChannel
    WITH MaxSize <- Cap,
         up <- Up,
         chan <- IF Up THEN Current \o mSendQueue ELSE <<>>,
         off <- IF Up /\ Unsent > 0 THEN Size[Current[1]] - Unsent ELSE 0

(* Over the whole path, with partial sends and a lost connection, what        *)
(* reaches the wire is the queued packets, in order, with no byte lost,     *)
(* repeated or overwritten while the kernel had it.                        *)
ChannelSpec == Channel!ChanSpec

(* The connection cannot be sent on any more: it is gone, or a WSASend has   *)
(* failed, after which mSending stays set with no one to clear it.          *)
Lost == socket # "open" \/ sendFailed

(* A send that was begun comes to its end: through partial completions, each  *)
(* with a Send of its own on whichever worker takes it, mSending is cleared   *)
(* at last, unless the connection is lost or a WSASend fails.  A completion   *)
(* that goes on with nothing would leave mSending set and the connection mute *)
(* for good, with nothing lost to show for it.                             *)
SendingEnds == mSending ~> (~mSending \/ Lost)

(* README.md: 1-Send waits "for the completion of one send operation before  *)
(* initiating the next", so a packet queued behind a send goes out after it. *)
NextIsInitiated ==
  \A p \in Packet :
    (p \in Range(mSendQueue)) ~> (p \notin Range(mSendQueue) \/ Lost)
=============================================================================
