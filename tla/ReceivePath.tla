----------------------------- MODULE ReceivePath -----------------------------
(***************************************************************************)
(* The receive path of StudyServer for one connection: the peer's byte      *)
(* stream, WSARecv, _HandleReceive with NetworkClient::GetPacket, and       *)
(* NetworkClient::Receive.  One WSARecv is posted at a time and one worker   *)
(* handles its completion, so a completion is one step.                    *)
(*                                                                         *)
(* A byte is its place in the peer's stream (0 is the byte of fill(0)), so   *)
(* a byte that is lost, repeated or out of place shows.  The header is one   *)
(* byte: a header that arrives cut takes the path of a body that does.      *)
(***************************************************************************)
EXTENDS Integers, Sequences, Functions, FiniteSets

CONSTANTS Start,       \* the bytes of the peer's stream that packets start
                       \* with, in order, and the one past its end
          Cap,         \* mBuffer.size()
          MaxAnnounce  \* bound: the packet size a header may announce

Packets == Len(Start) - 1
Size(m) == Start[m + 1] - Start[m]
N == Start[Packets + 1] - 1         \* bytes in the whole stream

ASSUME ReceiveAssumption ==
  /\ Cap \in Nat \ {0}
  /\ Start \in Seq(Nat) /\ Start # <<>> /\ Start[1] = 1
  /\ \A l, m \in 1..(Packets + 1) : l < m => Start[l] < Start[m]
  /\ \A m \in 1..Packets : Size(m) <= Cap
  /\ MaxAnnounce \in Nat /\ Cap <= MaxAnnounce

Zero == 0
Cell == 0..N
Header == 1                         \* sizeof(PacketHeader)

INSTANCE ContextBuffer

VARIABLES announce,    \* packet size a header read at a byte announces
          sent,        \* packets the peer has sent
          taken,       \* bytes of the stream the kernel has delivered
          ctx,         \* mReceiveContext
          posted,      \* a WSARecv is outstanding
          transferred, \* dwIoSize of its completion, 0 when there is none
          dispatched,  \* history: the bytes of each packet pushed
          disturbed,   \* history: a completion was not just one packet
          overrun      \* history: a body was copied from past mBuffer

vars == <<announce, sent, taken, ctx, posted, transferred, dispatched,
          disturbed, overrun>>

(* Body bytes are the peer's to choose, so read as a header they announce    *)
(* anything.                                                               *)
Init ==
  /\ announce \in {f \in [Cell -> 1..MaxAnnounce] :
                     /\ f[Zero] = Header
                     /\ \A m \in 1..Packets : f[Start[m]] = Size(m)}
  /\ sent = 0 /\ taken = 0
  /\ ctx = EmptyContext /\ posted = TRUE /\ transferred = 0
  /\ dispatched = <<>> /\ disturbed = FALSE /\ overrun = FALSE

-----------------------------------------------------------------------------
(* The peer and the kernel *)

PeerSend ==
  /\ sent < Packets
  /\ sent' = sent + 1
  /\ UNCHANGED <<announce, taken, ctx, posted, transferred, dispatched,
                 disturbed, overrun>>

(* Mutant of Deliver: Receive offers the whole buffer, filled or not. *)
DeliverWhole(n) ==
  /\ posted /\ transferred = 0
  /\ taken + n < Start[sent + 1]
  /\ ctx' = [ctx EXCEPT !.data = PutBytes(ctx, [k \in 1..n |-> taken + k]).data]
  /\ taken' = taken + n /\ transferred' = n
  /\ disturbed' = (disturbed \/ ~\E m \in 1..Packets :
                                    /\ Start[m] = taken + 1 /\ Size(m) = n)
  /\ UNCHANGED <<announce, sent, posted, dispatched, overrun>>

(* The WSARecv completes with n bytes that the peer has sent: less than a    *)
(* packet, a packet, or pieces of several, as TCP segments them.            *)
Deliver(n) ==
  /\ posted /\ transferred = 0
  /\ n <= RemainSize(ctx) /\ taken + n < Start[sent + 1]
  /\ ctx' = [ctx EXCEPT !.data = PutBytes(ctx, [k \in 1..n |-> taken + k]).data]
  /\ taken' = taken + n /\ transferred' = n
  /\ disturbed' = (disturbed \/ ~\E m \in 1..Packets :
                                    /\ Start[m] = taken + 1 /\ Size(m) = n)
  /\ UNCHANGED <<announce, sent, posted, dispatched, overrun>>

-----------------------------------------------------------------------------
(* An I/O worker in _HandleReceive *)

(* What a header at the read position announces; past the end of the        *)
(* buffer that is whatever memory holds.                                   *)
Announced(c) ==
  IF c.read < Cap THEN {announce[c.data[c.read]]} ELSE 1..MaxAnnounce

(* int against size_t: a negative DataSize is larger than every size.       *)
Short(c, n) == DataSize(c) >= 0 /\ DataSize(c) < n

(* Both tests pass, and GetPacket copies the announced body without another. *)
Copies(c, n) == ~Short(c, Header) /\ ~Short(c, n)

(* The copy goes past mBuffer.  Packet::Body is larger than mBuffer, so a     *)
(* body too large for it is among these; and only a negative DataSize lets   *)
(* such a body through.                                                    *)
CopyOverruns(c, n) == Copies(c, n) /\ c.read + n > Cap

(* Mutant of GetsPacket: a packet that ends the data is not taken.          *)
GetsStrict(c, n) == ~Short(c, Header) /\ ~Short(c, n + 1) /\ CanRead(c, n)

(* GetPacket returns a packet of n bytes: the body is copied, and then Read  *)
(* (an int comparison) lets header and body go.                            *)
GetsPacket(c, n) == Copies(c, n) /\ CanRead(c, n)

(* Mutant of TakePacket: the body is taken and the header forgotten. *)
TakeBody(c, n) == ReadDone(c, n - Header)

TakePacket(c, n) == ReadDone(c, n)

(* Mutant of NextContext: after GetPacket the whole buffer is taken back. *)
RewindContext(c) == [c EXCEPT !.read = 0]

(* context.Read(transferred) after the push, then GetWriteBuffer in Receive. *)
NextContext(c) == AlignBuffer(ReadDone(c, transferred))

(* A completion that does not yield a packet returns early and posts no     *)
(* receive.  Copying past mBuffer is undefined: whether the program dies of  *)
(* it or Read then refuses, this connection receives no more.               *)
HandleReceive(n) ==
  LET c == WriteDone(ctx, transferred) IN
  /\ transferred > 0
  /\ n \in Announced(c)
  /\ IF GetsPacket(c, n)
     THEN /\ dispatched' = Append(dispatched,
                                  [k \in 1..n |-> c.data[c.read + k - 1]])
          /\ ctx' = NextContext(TakePacket(c, n))
          /\ posted' = TRUE
     ELSE /\ ctx' = c
          /\ posted' = FALSE
          /\ UNCHANGED dispatched
  /\ overrun' = (overrun \/ CopyOverruns(c, n))
  /\ transferred' = 0
  /\ UNCHANGED <<announce, sent, taken, disturbed>>

-----------------------------------------------------------------------------

Next ==
  \/ PeerSend
  \/ \E n \in 1..Cap : Deliver(n)
  \/ \E n \in 1..MaxAnnounce : HandleReceive(n)

Spec == Init /\ [][Next]_vars

(* The kernel delivers what was sent into a posted receive, and a worker     *)
(* takes the completion.  The peer owes nothing.                            *)
Fairness == /\ WF_vars(\E n \in 1..Cap : Deliver(n))
            /\ WF_vars(\E n \in 1..MaxAnnounce : HandleReceive(n))

FairSpec == Spec /\ Fairness

-----------------------------------------------------------------------------
(* Properties *)

(* Positions stay inside the buffer on every framing the peer can cause,     *)
(* although DataSize may be negative.                                      *)
TypeOK ==
  /\ announce \in [Cell -> 1..MaxAnnounce]
  /\ sent \in 0..Packets /\ taken \in 0..N
  /\ ctx \in Context
  /\ posted \in BOOLEAN /\ transferred \in 0..Cap
  /\ disturbed \in BOOLEAN /\ overrun \in BOOLEAN
  /\ transferred <= RemainSize(ctx)
  /\ dispatched \in Seq(Seq(Cell))

(* Whatever the segmentation, a dispatched packet is a run of consecutive    *)
(* bytes of the stream, and no byte is dispatched twice or before an earlier *)
(* one: the service never sees stale or repeated bytes, even when framing    *)
(* is lost.                                                                *)
EachByteOnce ==
  /\ \A m \in 1..Len(dispatched) : LET s == dispatched[m] IN
       s[1] # Zero /\ \A k \in 1..Len(s) : s[k] = s[1] + k - 1
  /\ \A l, m \in 1..Len(dispatched) : l < m =>
       LET s == dispatched[l] IN s[Len(s)] < dispatched[m][1]

(* While every completion carries exactly one packet, the dispatched packets *)
(* are the peer's packets, whole and in order, a receive is posted, and      *)
(* GetPacket's copy stays in the buffer.                                    *)
FramedWhileUndisturbed ==
  ~disturbed =>
    /\ ~overrun
    /\ \A m \in 1..Len(dispatched) :
         dispatched[m] = [k \in 1..Size(m) |-> Start[m] + k - 1]
    /\ posted
    /\ transferred = 0 => taken + 1 = Start[Len(dispatched) + 1]

(* A peer that is never segmented otherwise has every packet dispatched.     *)
ServedWhileUndisturbed ==
  [](~disturbed) => \A m \in 1..Packets : (sent >= m) ~> (Len(dispatched) >= m)

(* NetworkContext.cpp says AlignBuffer "Move[s] the remaining data to the     *)
(* front of the buffer" and "Adjust[s] the read and write positions": the    *)
(* unread bytes after a completion are those that were there, less the       *)
(* packet (and less transferred more, when that many are left).             *)
AlignKeepsUnread ==
  [][\A n \in 1..MaxAnnounce :
       LET c == ReadDone(ReadDone(WriteDone(ctx, transferred), n), transferred) IN
       HandleReceive(n) /\ posted' /\ DataSize(c) >= 0 => Unread(ctx') = Unread(c)]_vars
=============================================================================
