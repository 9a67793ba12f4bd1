----------------------------- MODULE ChatPackets -----------------------------
(***************************************************************************)
(* The way of a packet through ChatServer: OnConnect and OnReceive on the    *)
(* I/O threads, the users' buffers (User.h), the two queues and the packet   *)
(* thread (PacketManager.cpp).  The buffers are shared without a lock.       *)
(*                                                                         *)
(* One receive of a connection is posted at a time, so the worker that       *)
(* handles it is named by its user.  A byte is its place in the peer's       *)
(* stream, 0 is none of it; the header is one byte.                         *)
(***************************************************************************)
EXTENDS Integers, Sequences, FiniteSets, SequencesExt

CONSTANTS User,
          Size,        \* PACKET_DATA_BUFFER_SIZE
          MaxChunk,    \* MAX_SOCK_RECVBUF
          Wide,        \* 2^32 for UINT32
          Start,       \* where the packets begin in the stream that a user's
                       \* peers send, and where it ends
          MaxConn      \* bound: the connections of a user

ASSUME ChatPacketsAssumption ==
  /\ Size \in Nat /\ MaxChunk \in Nat /\ MaxChunk < Size
  /\ Wide \in Nat /\ Size < Wide
  /\ Start \in Seq(Nat) /\ Start # <<>> /\ Start[1] = 1
  /\ \A i, j \in DOMAIN Start : i < j => Start[i] < Start[j]
  /\ MaxConn \in Nat

VARIABLES mPacketDataBuffer, WritePos, ReadPos,    \* by user
          hpc,       \* by user: the receive: "none", "posted", or the step of
                     \* the worker that handles its completion
          chunk,     \* by user: the bytes it received
          base,      \* by user: the write position SetPacketData copied to
          sent,      \* by user: bytes of the stream received
          conn, enqueued, cleared,   \* by user: connections, connects queued,
                     \* connects whose Clear is done
          mIncomingPacketUserIndex, mSystemPacketQueue,
          tpc, cur,  \* the packet thread's step, the user it works on
          top, at, len,   \* in GetPacket: WritePos as it was read, where the
                     \* packet is, its length
          handled,   \* history, by user: the bytes of each packet handled
          disturbed, \* history, by user: see Deliver and CheckRoom
          cut        \* history, by user: a receive was not just one packet

posVars == <<WritePos, ReadPos>>
recvVars == <<hpc, chunk, base, sent>>
connVars == <<conn, enqueued, cleared>>
queueVars == <<mIncomingPacketUserIndex, mSystemPacketQueue>>
threadVars == <<tpc, cur, top, at, len>>
histVars == <<handled, disturbed, cut>>
vars == <<mPacketDataBuffer, posVars, recvVars, connVars, queueVars,
          threadVars, histVars>>

Init ==
  /\ mPacketDataBuffer = [u \in User |-> [k \in 0..Size-1 |-> 0]]
  /\ WritePos = [u \in User |-> 0] /\ ReadPos = [u \in User |-> 0]
  /\ hpc = [u \in User |-> "none"] /\ chunk = [u \in User |-> <<>>]
  /\ base = [u \in User |-> 0] /\ sent = [u \in User |-> 0]
  /\ conn = [u \in User |-> 0] /\ enqueued = [u \in User |-> 0]
  /\ cleared = [u \in User |-> 0]
  /\ mIncomingPacketUserIndex = <<>> /\ mSystemPacketQueue = <<>>
  /\ tpc = "pop" /\ cur \in User /\ top = 0 /\ at = 0 /\ len = 0
  /\ handled = [u \in User |-> <<>>]
  /\ disturbed = [u \in User |-> FALSE] /\ cut = [u \in User |-> FALSE]

(* Packet m takes the bytes Start[m] to Start[m + 1] - 1 of the stream. *)
Numbers == 1..Len(Start)-1
PacketLength(m) == Start[m + 1] - Start[m]
Bytes(m) == [k \in 1..PacketLength(m) |-> Start[m] + k - 1]
StreamEnd == Start[Len(Start)] - 1

GetsOn == {"load", "get", "advance", "handle"}

(* The user has bytes that are not taken, or an index of it is on its way. *)
Busy(u) ==
  \/ ReadPos[u] # WritePos[u] \/ Contains(mIncomingPacketUserIndex, u)
  \/ tpc \in GetsOn /\ cur = u

-----------------------------------------------------------------------------
(* Connections *)

(* AcceptCompletion posts the first receive.  A new connection begins with a  *)
(* packet, whatever the last one left out.                                 *)
Connect(u) ==
  /\ hpc[u] = "none" /\ conn[u] < MaxConn
  /\ conn' = [conn EXCEPT ![u] = @ + 1]
  /\ hpc' = [hpc EXCEPT ![u] = "posted"]
  /\ \E m \in Numbers : /\ Start[m] > sent[u]
                        /\ m > 1 => Start[m - 1] <= sent[u]
                        /\ sent' = [sent EXCEPT ![u] = Start[m] - 1]
  /\ UNCHANGED <<mPacketDataBuffer, posVars, chunk, base, enqueued, cleared,
                 queueVars, threadVars, histVars>>

(* OnConnect, after AcceptCompletion: the receive may be done by now. *)
OnConnect(u) ==
  /\ enqueued[u] < conn[u]
  /\ enqueued' = [enqueued EXCEPT ![u] = @ + 1]
  /\ mSystemPacketQueue' = Append(mSystemPacketQueue, u)
  /\ UNCHANGED <<mPacketDataBuffer, posVars, recvVars, conn, cleared,
                 mIncomingPacketUserIndex, threadVars, histVars>>

(* The connection ends and is closed; OnClose is not called. *)
Disconnect(u) ==
  /\ hpc[u] = "posted"
  /\ hpc' = [hpc EXCEPT ![u] = "none"]
  /\ UNCHANGED <<mPacketDataBuffer, posVars, chunk, base, sent, connVars,
                 queueVars, threadVars, histVars>>

-----------------------------------------------------------------------------
(* OnReceive: SetPacketData and EnqueuePacket *)

Step(u, from, to) == hpc[u] = from /\ hpc' = [hpc EXCEPT ![u] = to]

(* n bytes arrive in mRecvBuf.  They disturb the user when the connection's   *)
(* own Clear is still to come.                                             *)
Deliver(u, n) ==
  LET c == [k \in 1..n |-> sent[u] + k] IN
  /\ Step(u, "posted", "check")
  /\ sent[u] + n <= StreamEnd
  /\ chunk' = [chunk EXCEPT ![u] = c]
  /\ sent' = [sent EXCEPT ![u] = @ + n]
  /\ disturbed' = [disturbed EXCEPT ![u] = @ \/ cleared[u] < conn[u]]
  /\ cut' = [cut EXCEPT ![u] = @ \/ \A m \in Numbers : c # Bytes(m)]
  /\ UNCHANGED <<mPacketDataBuffer, posVars, base, connVars, queueVars,
                 threadVars, handled>>

(* Mutant: a receive may fill the buffer to its end. *)
FullOffByOne(u) == Size < WritePos[u] + Len(chunk[u])

Full(u) == Size <= WritePos[u] + Len(chunk[u])

(* A wrap disturbs the user as well, unless all it was sent is dealt with.    *)
CheckRoom(u) ==
  /\ Step(u, "check", IF Full(u) THEN "move" ELSE "copy")
  /\ disturbed' = [disturbed EXCEPT ![u] = @ \/ (Full(u) /\ Busy(u))]
  /\ UNCHANGED <<mPacketDataBuffer, posVars, chunk, base, sent, connVars,
                 queueVars, threadVars, handled, cut>>

(* What lies behind the write position, not what is unread, goes to the front. *)
MoveRest(u) ==
  LET rest == Size - WritePos[u] IN
  /\ Step(u, "move", "wrap")
  /\ mPacketDataBuffer' = [mPacketDataBuffer EXCEPT ![u] =
       [k \in 0..Size-1 |-> IF k < rest THEN @[WritePos[u] + k] ELSE @[k]]]
  /\ UNCHANGED <<posVars, chunk, base, sent, connVars, queueVars, threadVars,
                 histVars>>

WrapWrite(u) ==
  /\ Step(u, "wrap", "rewind")
  /\ WritePos' = [WritePos EXCEPT ![u] = 0]
  /\ UNCHANGED <<mPacketDataBuffer, ReadPos, chunk, base, sent, connVars,
                 queueVars, threadVars, histVars>>

(* Mutant: a wrap leaves the read position where it was. *)
WrapReadKept(u) ==
  /\ Step(u, "rewind", "copy")
  /\ UNCHANGED <<mPacketDataBuffer, posVars, chunk, base, sent, connVars,
                 queueVars, threadVars, histVars>>

WrapRead(u) ==
  /\ Step(u, "rewind", "copy")
  /\ ReadPos' = [ReadPos EXCEPT ![u] = 0]
  /\ UNCHANGED <<mPacketDataBuffer, WritePos, chunk, base, sent, connVars,
                 queueVars, threadVars, histVars>>

CopyData(u) ==
  LET w == WritePos[u] IN
  /\ Step(u, "copy", "add")
  /\ base' = [base EXCEPT ![u] = w]
  /\ mPacketDataBuffer' = [mPacketDataBuffer EXCEPT ![u] =
       [k \in 0..Size-1 |-> IF k - w + 1 \in DOMAIN chunk[u]
                            THEN chunk[u][k - w + 1] ELSE @[k]]]
  /\ UNCHANGED <<posVars, chunk, sent, connVars, queueVars, threadVars, histVars>>

(* += is no atomic operation: the value it adds to may be from before a Clear. *)
AddSize(u) ==
  /\ Step(u, "add", "push")
  /\ \E w \in {base[u], WritePos[u]} :
       WritePos' = [WritePos EXCEPT ![u] = w + Len(chunk[u])]
  /\ UNCHANGED <<mPacketDataBuffer, ReadPos, chunk, base, sent, connVars,
                 queueVars, threadVars, histVars>>

(* Mutant: a user that waits in the queue is not queued again. *)
EnqueuePacketOnce(u) ==
  /\ Step(u, "push", "posted")
  /\ mIncomingPacketUserIndex' =
       IF Contains(mIncomingPacketUserIndex, u) THEN mIncomingPacketUserIndex
       ELSE Append(mIncomingPacketUserIndex, u)
  /\ chunk' = [chunk EXCEPT ![u] = <<>>] /\ base' = [base EXCEPT ![u] = 0]
  /\ UNCHANGED <<mPacketDataBuffer, posVars, sent, connVars,
                 mSystemPacketQueue, threadVars, histVars>>

(* EnqueuePacket, then BindRecv. *)
EnqueuePacket(u) ==
  /\ Step(u, "push", "posted")
  /\ mIncomingPacketUserIndex' = Append(mIncomingPacketUserIndex, u)
  /\ chunk' = [chunk EXCEPT ![u] = <<>>] /\ base' = [base EXCEPT ![u] = 0]
  /\ UNCHANGED <<mPacketDataBuffer, posVars, sent, connVars,
                 mSystemPacketQueue, threadVars, histVars>>

Receive(u) ==
  \/ CheckRoom(u) \/ MoveRest(u) \/ WrapWrite(u) \/ WrapRead(u) \/ CopyData(u)
  \/ AddSize(u) \/ EnqueuePacket(u)

-----------------------------------------------------------------------------
(* The packet thread *)

(* DequeuePacket takes one index, and GetPacket one packet for it. *)
PopIndex ==
  /\ tpc = "pop"
  /\ IF mIncomingPacketUserIndex = <<>>
     THEN tpc' = "system" /\ UNCHANGED <<cur, mIncomingPacketUserIndex>>
     ELSE /\ tpc' = "load" /\ cur' = Head(mIncomingPacketUserIndex)
          /\ mIncomingPacketUserIndex' = Tail(mIncomingPacketUserIndex)
  /\ UNCHANGED <<mPacketDataBuffer, posVars, recvVars, connVars,
                 mSystemPacketQueue, top, at, len, histVars>>

LoadWritePos ==
  /\ tpc = "load"
  /\ tpc' = "get" /\ top' = WritePos[cur]
  /\ UNCHANGED <<mPacketDataBuffer, posVars, recvVars, connVars, queueVars, cur,
                 at, len, histVars>>

(* The length that a header at r announces: a packet's own, or anything.      *)
Announced(r) ==
  IF \E m \in Numbers : r < Size /\ mPacketDataBuffer[cur][r] = Start[m]
  THEN {PacketLength(m) : m \in {k \in Numbers : mPacketDataBuffer[cur][r] = Start[k]}}
  ELSE 0..Size

(* Mutant of GetPacket: a packet that ends the data is not taken. *)
GetPacketStrict(n) ==
  LET remainSize == (top - ReadPos[cur]) % Wide IN
  /\ tpc = "get"
  /\ n \in Announced(ReadPos[cur])
  /\ IF remainSize > n
     THEN tpc' = "advance" /\ at' = ReadPos[cur] /\ len' = n
     ELSE tpc' = "system" /\ UNCHANGED <<at, len>>
  /\ top' = 0
  /\ UNCHANGED <<mPacketDataBuffer, posVars, recvVars, connVars, queueVars, cur,
                 histVars>>

(* remainSize is unsigned: it is huge when ReadPos is the larger one. *)
GetPacket(n) ==
  LET remainSize == (top - ReadPos[cur]) % Wide IN
  /\ tpc = "get"
  /\ n \in Announced(ReadPos[cur])
  /\ IF remainSize >= 1 /\ remainSize >= n
     THEN tpc' = "advance" /\ at' = ReadPos[cur] /\ len' = n
     ELSE tpc' = "system" /\ UNCHANGED <<at, len>>
  /\ top' = 0
  /\ UNCHANGED <<mPacketDataBuffer, posVars, recvVars, connVars, queueVars, cur,
                 histVars>>

AdvanceReadPos ==
  /\ tpc = "advance"
  /\ tpc' = "handle"
  /\ \E r \in {at, ReadPos[cur]} : ReadPos' = [ReadPos EXCEPT ![cur] = r + len]
  /\ UNCHANGED <<mPacketDataBuffer, WritePos, recvVars, connVars, queueVars, cur,
                 top, at, len, histVars>>

(* ProcessRecvPacket reads the packet where it lies in the buffer.  One with  *)
(* the ID of a system packet is taken and passed over: here it counts too.   *)
HandlePacket ==
  /\ tpc = "handle"
  /\ tpc' = "system" /\ at' = 0 /\ len' = 0
  /\ handled' = [handled EXCEPT ![cur] = Append(@,
       [k \in 1..len |-> IF at + k <= Size THEN mPacketDataBuffer[cur][at + k - 1]
                         ELSE 0])]
  /\ UNCHANGED <<mPacketDataBuffer, posVars, recvVars, connVars, queueVars, cur,
                 top, disturbed, cut>>

(* An empty system queue counts as a packet: the thread never sleeps. *)
PopSystem ==
  /\ tpc = "system"
  /\ IF mSystemPacketQueue = <<>>
     THEN tpc' = "pop" /\ UNCHANGED <<cur, mSystemPacketQueue>>
     ELSE /\ tpc' = "clear" /\ cur' = Head(mSystemPacketQueue)
          /\ mSystemPacketQueue' = Tail(mSystemPacketQueue)
  /\ UNCHANGED <<mPacketDataBuffer, posVars, recvVars, connVars,
                 mIncomingPacketUserIndex, top, at, len, histVars>>

(* ProcessUserConnect: Clear. *)
ClearWrite ==
  /\ tpc = "clear"
  /\ tpc' = "clearread" /\ WritePos' = [WritePos EXCEPT ![cur] = 0]
  /\ UNCHANGED <<mPacketDataBuffer, ReadPos, recvVars, connVars, queueVars, cur,
                 top, at, len, histVars>>

ClearRead ==
  /\ tpc = "clearread"
  /\ tpc' = "pop" /\ ReadPos' = [ReadPos EXCEPT ![cur] = 0]
  /\ cleared' = [cleared EXCEPT ![cur] = @ + 1]
  /\ UNCHANGED <<mPacketDataBuffer, WritePos, recvVars, conn, enqueued,
                 queueVars, cur, top, at, len, histVars>>

ProcessPacket ==
  \/ PopIndex \/ LoadWritePos \/ \E n \in 0..Size : GetPacket(n)
  \/ AdvanceReadPos \/ HandlePacket \/ PopSystem \/ ClearWrite \/ ClearRead

-----------------------------------------------------------------------------

Next ==
  \/ \E u \in User : \/ Connect(u) \/ OnConnect(u) \/ Disconnect(u)
                     \/ \E n \in 1..MaxChunk : Deliver(u, n)
                     \/ Receive(u)
  \/ ProcessPacket

Spec == Init /\ [][Next]_vars

(* A handler that has begun goes on, and so does the packet thread. *)
Fairness ==
  /\ WF_vars(ProcessPacket)
  /\ \A u \in User : WF_vars(OnConnect(u)) /\ WF_vars(Receive(u))

FairSpec == Spec /\ Fairness

-----------------------------------------------------------------------------

TypeOK ==
  /\ mPacketDataBuffer \in [User -> [0..Size-1 -> 0..StreamEnd]]
  /\ WritePos \in [User -> 0..Size-1] /\ ReadPos \in [User -> Nat]
  /\ hpc \in [User -> {"none", "posted", "check", "move", "wrap", "rewind",
                       "copy", "add", "push"}]
  /\ sent \in [User -> 0..StreamEnd] /\ base \in [User -> 0..Size-1]
  /\ conn \in [User -> 0..MaxConn] /\ enqueued \in [User -> 0..MaxConn]
  /\ mIncomingPacketUserIndex \in Seq(User) /\ mSystemPacketQueue \in Seq(User)
  /\ tpc \in GetsOn \cup {"pop", "system", "clear", "clearread"}
  /\ cur \in User /\ top \in 0..Size-1 /\ at \in Nat /\ len \in 0..Size

(* Types; and SetPacketData writes inside the buffer and WritePos stays in it, *)
(* though the packet thread may set it to 0 at any moment: between the test  *)
(* for room, the copy and the addition as well.                            *)
WritesInBuffer ==
  /\ TypeOK
  /\ \A u \in User : hpc[u] = "copy" => WritePos[u] + Len(chunk[u]) < Size

(* While nothing disturbs a user, what the packet thread handles are the      *)
(* packets its peers sent, whole, in order and none twice, without a lock    *)
(* and however the stream was cut; and ReadPos never passes WritePos.        *)
HandledInOrder ==
  \A u \in User : ~disturbed[u] =>
    /\ \E p \in [DOMAIN handled[u] -> Numbers] :
         \A i \in DOMAIN p : /\ handled[u][i] = Bytes(p[i])
                             /\ \A j \in 1..i-1 : p[j] < p[i]
    /\ hpc[u] # "rewind" /\ ~(tpc = "clearread" /\ cur = u)
         => ReadPos[u] <= WritePos[u]

(* The packets in u's buffer that GetPacket has not taken. *)
Unread(u) ==
  LET r == IF tpc = "advance" /\ cur = u THEN at + len ELSE ReadPos[u] IN
  {k \in r..WritePos[u]-1 : \E m \in Numbers : mPacketDataBuffer[u][k] = Start[m]}

(* While each receive brings one packet and nothing disturbs the user, every   *)
(* packet in its buffer has an index in the queue, or on the way to or from  *)
(* it: GetPacket takes but one packet for an index.                         *)
EveryPacketHasItsIndex ==
  \A u \in User : ~disturbed[u] /\ ~cut[u] =>
    Cardinality(Unread(u)) <=
      Cardinality({i \in DOMAIN mIncomingPacketUserIndex :
                     mIncomingPacketUserIndex[i] = u})
      + (IF hpc[u] = "push" THEN 1 ELSE 0)
      + (IF tpc \in {"load", "get"} /\ cur = u THEN 1 ELSE 0)

(* Then no packet stays in the buffer. *)
PacketsAreTaken ==
  \A u \in User : Unread(u) # {} ~> (Unread(u) = {} \/ disturbed[u] \/ cut[u])
=============================================================================
