--------------------------- MODULE SendPath_proofs ---------------------------
(***************************************************************************)
(* Proofs about SendPath, for any workers, packets, sizes and buffer.        *)
(***************************************************************************)
EXTENDS SendPath, SequenceTheorems, TLAPS

Call == [from : 0..Cap, len : 0..Cap]

(* TypeOK in parts; a WSASend is given bytes inside the buffer. *)
Conn ==
  /\ socket \in {"open", "reset", "closed"}
  /\ mIsConnected \in BOOLEAN /\ mSessionID \in {0, Sid}
  /\ receiving \in {"posted", "ended", "taken"}
Sending == mSendQueue \in Seq(Packet) /\ mSending \in BOOLEAN
Buffer == ctx \in Context /\ ctx.read <= ctx.write
Kern ==
  /\ inflight \in Seq({c \in Call : c.from + c.len <= Cap})
  /\ completions \in Seq(0..Cap) /\ line \in Seq(Cell)
  /\ sendFailed \in BOOLEAN
Threads ==
  /\ pc \in [Thread -> Steps]
  /\ packet \in Packet /\ transferred \in [Worker -> 0..Cap]

Types == Conn /\ Sending /\ Buffer /\ Kern /\ Threads

-----------------------------------------------------------------------------
(* The buffer *)

LEMMA EmptyContextIsOne ==
  EmptyContext \in Context /\ DataSize(EmptyContext) = 0
  /\ EmptyContext.read = 0 /\ EmptyContext.write = 0
BY SendAssumption DEF EmptyContext, Context, DataSize, Cell

(* A context without data has room for every packet, at its front if need be. *)
LEMMA WriteWhenEmpty ==
  ASSUME NEW c \in Context, DataSize(c) = 0, NEW p \in Packet
  PROVE  /\ Fits(c, Size[p]) /\ Write(c, Bytes(p)) \in Context
         /\ Write(c, Bytes(p)).read <= Write(c, Bytes(p)).write
<1> DEFINE n == Size[p]
           d == MakeRoom(c, n)
<1>1. n \in 1..Cap /\ Cap \in Nat
  BY SendAssumption
<1>2. /\ Bytes(p) \in Seq(Cell) /\ Len(Bytes(p)) = n
      /\ \A k \in 1..n : Bytes(p)[k] \in Cell
  BY <1>1 DEF Bytes, Byte, Cell
<1>3. c.read \in 0..Cap /\ c.write = c.read /\ c.data \in [0..(Cap - 1) -> Cell]
  BY <1>1 DEF Context, DataSize
<1>4. AlignBuffer(c) \in {c, EmptyContext} /\ (c.read # 0 => AlignBuffer(c) = EmptyContext)
  BY <1>3, <1>1 DEF AlignBuffer
<1>5. d \in Context /\ d.read <= d.write /\ n <= RemainSize(d)
  <2>1. CASE n > RemainSize(c)
    <3>1. d = AlignBuffer(c) /\ c.read # 0
      BY <1>1, <1>3, <2>1 DEF MakeRoom, RemainSize
    <3> QED BY <1>1, <1>4, <3>1, EmptyContextIsOne DEF RemainSize
  <2>2. CASE ~(n > RemainSize(c))
    <3>1. d = c
      BY <2>2 DEF MakeRoom
    <3> QED BY <1>1, <1>3, <2>2, <3>1 DEF RemainSize
  <2> QED BY <2>1, <2>2
<1>6. PutBytes(d, Bytes(p)) \in Context
      /\ PutBytes(d, Bytes(p)).read <= PutBytes(d, Bytes(p)).write
  <2> HIDE DEF d, n
  <2> DEFINE s == Bytes(p)
             data == [k \in 0..(Cap - 1) |->
                        IF k \in d.write..(d.write + Len(s) - 1)
                        THEN s[k - d.write + 1] ELSE d.data[k]]
  <2>1. d.write \in 0..Cap /\ d.read \in 0..Cap /\ d.data \in [0..(Cap - 1) -> Cell]
        /\ d.write + n <= Cap
        /\ d = [data |-> d.data, read |-> d.read, write |-> d.write]
    BY <1>1, <1>5 DEF Context, RemainSize
  <2>2. data \in [0..(Cap - 1) -> Cell]
    <3> SUFFICES ASSUME NEW k \in 0..(Cap - 1)
                 PROVE  data[k] \in Cell
      OBVIOUS
    <3>1. CASE k \in d.write..(d.write + n - 1)
      <4>1. k - d.write + 1 \in 1..n
        BY <1>1, <2>1, <3>1
      <4> QED BY <1>2, <3>1, <4>1
    <3>2. CASE k \notin d.write..(d.write + n - 1)
      BY <1>2, <2>1, <3>2
    <3> QED BY <3>1, <3>2
  <2>3. PutBytes(d, s) = [data |-> data, read |-> d.read, write |-> d.write + n]
    <3>1. PutBytes(d, s) = [d EXCEPT !.data = data, !.write = d.write + Len(s)]
      BY DEF PutBytes
    <3> HIDE DEF data
    <3> QED BY <1>2, <2>1, <3>1
  <2> HIDE DEF data
  <2> QED BY <1>1, <1>5, <2>1, <2>2, <2>3 DEF Context
<1> QED BY <1>2, <1>5, <1>6 DEF Fits, Write

(* The bytes with data are the last ones of p, up to its end. *)
Holds(c, p) ==
  /\ DataSize(c) <= Size[p]
  /\ \A k \in c.read..(c.write - 1) : c.data[k] = Byte(p, Size[p] - (c.write - k) + 1)

LEMMA WriteHolds ==
  ASSUME NEW c \in Context, DataSize(c) = 0, NEW p \in Packet
  PROVE  /\ Holds(Write(c, Bytes(p)), p) /\ DataSize(Write(c, Bytes(p))) = Size[p]
<1> DEFINE n == Size[p]
           d == MakeRoom(c, n)
           e == PutBytes(d, Bytes(p))
<1>1. n \in 1..Cap /\ Cap \in Nat
  BY SendAssumption
<1>2. Len(Bytes(p)) = n /\ \A k \in 1..n : Bytes(p)[k] = Byte(p, k)
  BY <1>1 DEF Bytes
<1>3. c.read \in 0..Cap /\ c.write = c.read
  BY <1>1 DEF Context, DataSize
<1>4. d.read \in 0..Cap /\ d.write = d.read /\ n <= Cap - d.read
  BY <1>1, <1>3, EmptyContextIsOne DEF MakeRoom, AlignBuffer, RemainSize
<1>5. d \in Context
  BY <1>3, EmptyContextIsOne DEF MakeRoom, AlignBuffer
<1>6. /\ e.read = d.read /\ e.write = d.read + n
      /\ \A k \in d.read..(d.read + n - 1) : e.data[k] = Bytes(p)[k - d.read + 1]
  <2> HIDE DEF d, n
  <2> DEFINE s == Bytes(p)
             data == [k \in 0..(Cap - 1) |->
                        IF k \in d.write..(d.write + Len(s) - 1)
                        THEN s[k - d.write + 1] ELSE d.data[k]]
  <2>1. d = [data |-> d.data, read |-> d.read, write |-> d.write]
    BY <1>5 DEF Context
  <2>2. e = [d EXCEPT !.data = data, !.write = d.write + Len(s)]
    BY DEF PutBytes
  <2>3. \A k \in d.read..(d.read + n - 1) : data[k] = s[k - d.read + 1]
    <3> SUFFICES ASSUME NEW k \in d.read..(d.read + n - 1)
                 PROVE  data[k] = s[k - d.read + 1]
      OBVIOUS
    <3>1. k \in 0..(Cap - 1) /\ k \in d.write..(d.write + Len(s) - 1)
      BY <1>1, <1>2, <1>4
    <3> QED BY <1>4, <3>1
  <2> HIDE DEF data, e
  <2> QED BY <1>2, <1>4, <2>1, <2>2, <2>3
<1>7. Write(c, Bytes(p)) = e
  BY <1>2 DEF Write
<1> HIDE DEF d, e, n
<1>8. DataSize(e) = n
  BY <1>1, <1>4, <1>6 DEF DataSize
<1>9. \A k \in e.read..(e.write - 1) : e.data[k] = Byte(p, n - (e.write - k) + 1)
  <2> SUFFICES ASSUME NEW k \in e.read..(e.write - 1)
               PROVE  e.data[k] = Byte(p, n - (e.write - k) + 1)
    OBVIOUS
  <2>1. k - d.read + 1 \in 1..n /\ n - (e.write - k) + 1 = k - d.read + 1
    BY <1>1, <1>4, <1>6
  <2>2. e.data[k] = Bytes(p)[k - d.read + 1]
    BY <1>1, <1>4, <1>6
  <2> QED BY <1>2, <2>1, <2>2
<1> QED BY <1>1, <1>7, <1>8, <1>9 DEF Holds, n

LEMMA ReadKeepsTheBuffer ==
  ASSUME Buffer, NEW n \in 0..Cap
  PROVE  LET d == ReadDone(ctx, n) IN d \in Context /\ d.read <= d.write
BY SendAssumption DEF Buffer, ReadDone, CanRead, DataSize, Context

-----------------------------------------------------------------------------
(* Types *)

LEMMA TypesAreTypes == Types => TypeOK
<1> SUFFICES ASSUME Types PROVE TypeOK
  OBVIOUS
<1>1. inflight \in Seq(Call)
  <2>1. {c \in Call : c.from + c.len <= Cap} \subseteq Call
    OBVIOUS
  <2> QED BY <2>1, SeqMonotonic DEF Types, Kern
<1> QED BY <1>1 DEF Types, TypeOK, Conn, Sending, Buffer, Kern, Threads, Call

LEMMA Moves ==
  ASSUME Threads, NEW t \in Thread, NEW step \in Steps, Goto(t, step),
         packet' \in Packet, transferred' \in [Worker -> 0..Cap]
  PROVE  /\ Threads' /\ pc'[t] = step
         /\ \A u \in Thread : u # t => pc'[u] = pc[u]
BY DEF Threads, Goto

LEMMA InitTypes == Init => Types
<1> SUFFICES ASSUME Init PROVE Types
  OBVIOUS
<1>1. Conn /\ Sending /\ Kern
  BY EmptySeq DEF Init, Conn, Sending, Kern, Sid
<1>2. Buffer
  BY EmptyContextIsOne DEF Init, Buffer
<1>3. Threads
  BY SendAssumption DEF Init, Threads, Steps
<1> QED BY <1>1, <1>2, <1>3 DEF Types

LEMMA NextTypes == Types /\ [Next]_vars => Types'
<1> SUFFICES ASSUME Types, [Next]_vars PROVE Types'
  OBVIOUS
<1> USE DEF connVars, sendVars, kernelVars, threadVars
<1>0. Conn /\ Sending /\ Buffer /\ Kern /\ Threads
  BY DEF Types
<1>d. Dispatcher \in Thread /\ Worker \subseteq Thread /\ Cap \in Nat
  BY SendAssumption DEF Thread
<1>s. /\ {"idle", "connected", "enqueue", "exchange", "fill", "post"} \subseteq Steps
      /\ {"remove", "reset", "read", "test", "store"} \subseteq Steps
  BY DEF Steps
<1>p. packet \in Packet /\ transferred \in [Worker -> 0..Cap]
  BY <1>0 DEF Threads
<1>1. ASSUME NEW p \in Packet, Respond(p) PROVE Types'
  <2>1. Threads'
    BY <1>0, <1>1, <1>d, <1>s, <1>p, Moves DEF Respond
  <2> QED BY <1>0, <1>1, <2>1 DEF Respond, Types, Conn, Sending, Buffer, Kern
<1>2. CASE TestConnected
  <2>1. Threads'
    BY <1>0, <1>2, <1>d, <1>s, <1>p, Moves DEF TestConnected
  <2> QED BY <1>0, <1>2, <2>1 DEF TestConnected, Types, Conn, Sending, Buffer, Kern
<1>3. CASE EnqueuePacket
  <2>1. Threads'
    BY <1>0, <1>3, <1>d, <1>s, <1>p, Moves DEF EnqueuePacket
  <2>2. Sending'
    BY <1>0, <1>3, <1>p, AppendProperties DEF EnqueuePacket, Sending
  <2> QED BY <1>0, <1>3, <2>1, <2>2 DEF EnqueuePacket, Types, Conn, Buffer, Kern
<1>4. CASE ExchangeSending
  <2>1. Threads'
    BY <1>0, <1>4, <1>d, <1>s, <1>p, Moves DEF ExchangeSending
  <2> QED BY <1>0, <1>4, <2>1 DEF ExchangeSending, Types, Conn, Sending, Buffer, Kern
<1>5. ASSUME NEW t \in Thread, Fill(t) PROVE Types'
  <2> DEFINE p == Head(mSendQueue)
  <2>1. Conn' /\ Kern' /\ mSending' \in BOOLEAN
    BY <1>0, <1>5 DEF Fill, Conn, Kern, Sending
  <2>2. UNCHANGED <<packet, transferred>>
    BY <1>5 DEF Fill
  <2>3. CASE Goto(t, "post") /\ UNCHANGED <<ctx, mSendQueue>>
    BY <1>0, <1>d, <1>s, <1>p, <2>1, <2>2, <2>3, Moves DEF Types, Sending, Buffer
  <2>4. CASE Goto(t, "idle") /\ UNCHANGED <<ctx, mSendQueue>>
    BY <1>0, <1>d, <1>s, <1>p, <2>1, <2>2, <2>4, Moves DEF Types, Sending, Buffer
  <2>5. CASE DataSize(ctx) = 0 /\ mSendQueue # <<>>
    <3>1. p \in Packet /\ Tail(mSendQueue) \in Seq(Packet)
      BY <1>0, <2>5, HeadTailProperties DEF Sending
    <3>2. /\ Fits(ctx, Size[p]) /\ Write(ctx, Bytes(p)) \in Context
          /\ Write(ctx, Bytes(p)).read <= Write(ctx, Bytes(p)).write
      BY <1>0, <2>5, <3>1, WriteWhenEmpty DEF Buffer
    <3>3. /\ ctx' = Write(ctx, Bytes(p)) /\ mSendQueue' = Tail(mSendQueue)
          /\ Goto(t, "post")
      BY <1>5, <2>5, <3>2 DEF Fill
    <3>4. Threads'
      BY <1>0, <1>s, <1>p, <2>2, <3>3, Moves
    <3> QED BY <2>1, <3>1, <3>2, <3>3, <3>4 DEF Types, Sending, Buffer
  <2> QED BY <1>5, <2>3, <2>4, <2>5 DEF Fill
<1>6. ASSUME NEW t \in Thread, Post(t) PROVE Types'
  <2>1. Threads'
    BY <1>0, <1>6, <1>s, <1>p, Moves DEF Post
  <2> DEFINE call == [from |-> ctx.read, len |-> DataSize(ctx)]
  <2>2. call \in {c \in Call : c.from + c.len <= Cap}
    BY <1>0, <1>d DEF Buffer, Context, Call, DataSize
  <2>3. Kern'
    <3>1. CASE inflight' = Append(inflight, call) /\ UNCHANGED sendFailed
      <4>1. inflight' \in Seq({c \in Call : c.from + c.len <= Cap})
        BY <1>0, <2>2, <3>1, AppendProperties DEF Kern
      <4> QED BY <1>0, <1>6, <3>1, <4>1 DEF Post, Kern
    <3>2. CASE UNCHANGED inflight /\ sendFailed' = (sendFailed \/ socket # "closed")
      BY <1>0, <1>6, <3>2 DEF Post, Kern
    <3> QED BY <1>6, <3>1, <3>2 DEF Post
  <2> QED BY <1>0, <1>6, <2>1, <2>3 DEF Post, Types, Conn, Sending, Buffer
<1>7. ASSUME NEW n \in 1..Cap, Transmit(n) PROVE Types'
  <2> DEFINE c == Head(inflight)
  <2>1. /\ c \in Call /\ c.from + c.len <= Cap
        /\ inflight' \in Seq({x \in Call : x.from + x.len <= Cap})
    BY <1>0, <1>7, HeadTailProperties DEF Transmit, Kern
  <2>2. n \in 0..Cap /\ n <= c.len
    BY <1>7, <1>d, <2>1 DEF Transmit, Call
  <2>3. completions' \in Seq(0..Cap)
    BY <1>0, <1>7, <2>2, AppendProperties DEF Transmit, Kern
  <2>4. line' \in Seq(Cell)
    <3>1. \A k \in 1..n : ctx.data[c.from + k - 1] \in Cell
      <4> SUFFICES ASSUME NEW k \in 1..n PROVE ctx.data[c.from + k - 1] \in Cell
        OBVIOUS
      <4>1. c.from \in 0..Cap /\ c.len \in 0..Cap
        BY <2>1 DEF Call
      <4>2. c.from + k - 1 \in 0..(Cap - 1)
        BY <1>d, <2>1, <2>2, <4>1
      <4>3. ctx.data \in [0..(Cap - 1) -> Cell]
        BY <1>0 DEF Buffer, Context
      <4> QED BY <4>2, <4>3
    <3>2. line' = [k \in 1..n |-> ctx.data[c.from + k - 1]]
      BY <1>7 DEF Transmit
    <3>3. line' \in [1..n -> Cell]
      BY <3>1, <3>2
    <3> QED BY <1>7, <3>3, SeqDef
  <2> QED BY <1>0, <1>7, <2>1, <2>3, <2>4
          DEF Transmit, Types, Conn, Sending, Buffer, Kern, Threads
<1>8. CASE AbortSend
  <2>1. inflight' \in Seq({x \in Call : x.from + x.len <= Cap})
    BY <1>0, <1>8, HeadTailProperties DEF AbortSend, Kern
  <2>2. completions' \in Seq(0..Cap)
    BY <1>0, <1>8, <1>d, AppendProperties DEF AbortSend, Kern
  <2> QED BY <1>0, <1>8, <2>1, <2>2
          DEF AbortSend, Types, Conn, Sending, Buffer, Kern, Threads
<1>9. CASE PeerClose \/ PeerReset
  BY <1>0, <1>9
  DEF PeerClose, PeerReset, EndReceive, Types, Conn, Sending, Buffer, Kern, Threads
<1>10. ASSUME NEW w \in Worker, TakeCompletion(w) PROVE Types'
  <2>1. Head(completions) \in 0..Cap /\ completions' \in Seq(0..Cap)
    BY <1>0, <1>10, HeadTailProperties DEF TakeCompletion, Kern
  <2>2. Threads'
    <3>1. transferred' \in [Worker -> 0..Cap] /\ packet' \in Packet
      BY <1>10, <1>p, <2>1 DEF TakeCompletion
    <3>2. CASE Goto(w, "remove")
      BY <1>0, <1>d, <1>s, <3>1, <3>2, Moves
    <3>3. CASE Goto(w, "read")
      BY <1>0, <1>d, <1>s, <3>1, <3>3, Moves
    <3> QED BY <1>10, <3>2, <3>3 DEF TakeCompletion
  <2> QED BY <1>0, <1>10, <2>1, <2>2
          DEF TakeCompletion, Types, Conn, Sending, Buffer, Kern
<1>11. ASSUME NEW w \in Worker, TakeDisconnect(w) PROVE Types'
  <2>1. Threads'
    BY <1>0, <1>11, <1>d, <1>s, <1>p, Moves DEF TakeDisconnect
  <2> QED BY <1>0, <1>11, <2>1 DEF TakeDisconnect, Types, Conn, Sending, Buffer, Kern
<1>12. ASSUME NEW w \in Worker, ReadSent(w) PROVE Types'
  <2>1. Threads'
    BY <1>0, <1>12, <1>d, <1>s, <1>p, Moves DEF ReadSent
  <2>2. Buffer'
    <3>1. transferred[w] \in 0..Cap
      BY <1>p
    <3> QED BY <1>0, <1>12, <3>1, ReadKeepsTheBuffer DEF ReadSent, Buffer
  <2> QED BY <1>0, <1>12, <2>1, <2>2 DEF ReadSent, Types, Conn, Sending, Kern
<1>13. ASSUME NEW w \in Worker, TestSent(w) PROVE Types'
  <2>1. Threads'
    BY <1>0, <1>13, <1>d, <1>s, <1>p, Moves DEF TestSent
  <2> QED BY <1>0, <1>13, <2>1 DEF TestSent, Types, Conn, Sending, Buffer, Kern
<1>14. ASSUME NEW w \in Worker, StoreSending(w) PROVE Types'
  <2>1. Threads'
    BY <1>0, <1>14, <1>d, <1>s, <1>p, Moves DEF StoreSending
  <2> QED BY <1>0, <1>14, <2>1 DEF StoreSending, Types, Conn, Sending, Buffer, Kern
<1>15. ASSUME NEW w \in Worker, RemoveClient(w) PROVE Types'
  <2>1. Threads'
    BY <1>0, <1>15, <1>d, <1>s, <1>p, Moves DEF RemoveClient
  <2>2. Conn'
    BY <1>0, <1>15 DEF RemoveClient, EndReceive, Conn
  <2> QED BY <1>0, <1>15, <2>1, <2>2 DEF RemoveClient, Types, Sending, Buffer, Kern
<1>16. ASSUME NEW w \in Worker, Reset(w) PROVE Types'
  <2>1. Threads'
    BY <1>0, <1>16, <1>d, <1>s, <1>p, Moves DEF Reset
  <2>2. Buffer'
    BY <1>16, EmptyContextIsOne DEF Reset, Buffer
  <2> QED BY <1>0, <1>16, <2>1, <2>2 DEF Reset, Types, Conn, Sending, Kern
<1>17. CASE UNCHANGED vars
  BY <1>0, <1>17 DEF vars, Types, Conn, Sending, Buffer, Kern, Threads
<1> QED
  BY <1>1, <1>2, <1>3, <1>4, <1>5, <1>6, <1>7, <1>8, <1>9, <1>10, <1>11, <1>12,
     <1>13, <1>14, <1>15, <1>16, <1>17
  DEF Next, Push, Send, Handle, Kernel

LEMMA TypesAlways == Spec => []Types
BY InitTypes, NextTypes, PTL DEF Spec

(* The positions of the send buffer stay in it and in order, and WSASend gets  *)
(* no byte beyond it, for any sizes of packets and any races of threads.     *)
THEOREM TypeCorrect == Spec => []TypeOK
BY TypesAlways, TypesAreTypes, PTL

-----------------------------------------------------------------------------
(* 1-Send *)

Working(t) == pc[t] \in {"fill", "post", "read", "test", "store"}
NoSend == inflight = <<>> /\ completions = <<>>

(* Until Close, the context has one user: a thread that works on it, or the   *)
(* kernel, or a completion; and with mSending clear it has none and no data. *)
OneUser ==
  /\ \A s, t \in Thread : Working(s) /\ Working(t) => s = t
  /\ \A t \in Thread : Working(t) => NoSend /\ mSending
  /\ Len(inflight) + Len(completions) <= 1
  /\ ~mSending => NoSend /\ DataSize(ctx) = 0
  /\ \A t \in Thread : pc[t] = "store" => DataSize(ctx) = 0
  /\ \A t \in Thread : pc[t] # "reset"

SendInv == Types /\ (socket # "closed" => OneUser)

LEMMA InitSend == Init => SendInv
<1> SUFFICES ASSUME Init PROVE SendInv
  OBVIOUS
<1>1. OneUser
  BY EmptyContextIsOne, EmptySeq DEF Init, OneUser, Working, NoSend
<1> QED BY <1>1, InitTypes DEF SendInv

(* A step that touches none of this but lets a thread go where it does not     *)
(* work on the context.                                                    *)
LEMMA Aside ==
  ASSUME SendInv, socket # "closed", NEW t \in Thread,
         UNCHANGED <<mSending, ctx, inflight, completions>>,
         \A u \in Thread : u # t => pc'[u] = pc[u],
         ~Working(t)', pc'[t] # "reset"
  PROVE  OneUser'
BY DEF SendInv, OneUser, Working, NoSend

LEMMA NextSend == SendInv /\ [Next]_vars => SendInv'
<1> SUFFICES ASSUME SendInv, [Next]_vars PROVE SendInv'
  OBVIOUS
<1> USE DEF connVars, sendVars, kernelVars, threadVars
<1>0. Types /\ Types' /\ Threads /\ Kern /\ Sending /\ (socket # "closed" => OneUser)
  BY NextTypes DEF SendInv, Types
<1>d. Dispatcher \in Thread /\ Worker \subseteq Thread
  BY DEF Thread
<1>s. /\ {"idle", "connected", "enqueue", "exchange", "fill", "post"} \subseteq Steps
      /\ {"remove", "reset", "read", "test", "store"} \subseteq Steps
  BY DEF Steps
<1>p. packet \in Packet /\ transferred \in [Worker -> 0..Cap]
      /\ pc \in [Thread -> Steps]
  BY <1>0 DEF Threads
<1> SUFFICES ASSUME socket' # "closed" PROVE OneUser'
  BY <1>0 DEF SendInv
<1>1. ASSUME NEW p \in Packet, Respond(p) PROVE OneUser'
  BY <1>1, <1>d, <1>p, Aside DEF Respond, Goto, Working
<1>2. CASE TestConnected
  BY <1>2, <1>d, <1>p, Aside DEF TestConnected, Goto, Working
<1>3. CASE EnqueuePacket
  BY <1>3, <1>d, <1>p, Aside DEF EnqueuePacket, Goto, Working
<1>4. CASE ExchangeSending
  <2>1. OneUser /\ ~Working(Dispatcher) /\ mSending' = TRUE
        /\ UNCHANGED <<ctx, inflight, completions>>
    BY <1>0, <1>4 DEF ExchangeSending, Working
  <2>2. CASE mSending
    BY <1>4, <1>d, <1>p, <2>1, <2>2, Aside DEF ExchangeSending, Goto, Working
  <2>3. CASE ~mSending
    <3>1. pc'[Dispatcher] = "fill" /\ \A u \in Thread : u # Dispatcher => pc'[u] = pc[u]
      BY <1>4, <1>d, <1>p, <2>3 DEF ExchangeSending, Goto
    <3>2. \A t \in Thread : ~Working(t)
      BY <2>1, <2>3 DEF OneUser
    <3> QED BY <2>1, <2>3, <3>1, <3>2 DEF OneUser, Working, NoSend
  <2> QED BY <2>2, <2>3
<1>5. ASSUME NEW t \in Thread, Fill(t) PROVE OneUser'
  <2>1. OneUser /\ Working(t) /\ UNCHANGED <<mSending, inflight, completions>>
    BY <1>0, <1>5 DEF Fill, Working
  <2>2. /\ pc'[t] \in {"post", "idle"}
        /\ \A u \in Thread : u # t => pc'[u] = pc[u]
    BY <1>5, <1>p DEF Fill, Goto
  <2> QED BY <2>1, <2>2 DEF OneUser, Working, NoSend
<1>6. ASSUME NEW t \in Thread, Post(t) PROVE OneUser'
  <2>1. OneUser /\ Working(t) /\ UNCHANGED <<mSending, ctx, completions>> /\ NoSend
    BY <1>0, <1>6 DEF Post, Working, OneUser
  <2>2. /\ pc'[t] = "idle" /\ ~Working(t)'
        /\ \A u \in Thread : u # t => pc'[u] = pc[u]
    BY <1>6, <1>p DEF Post, Goto, Working
  <2>3. Len(inflight') + Len(completions') <= 1
    <3>1. Len(completions) = 0 /\ Len(inflight) = 0
      BY <2>1, EmptySeq DEF NoSend
    <3>2. CASE UNCHANGED inflight
      BY <2>1, <3>1, <3>2
    <3>3. CASE inflight' = Append(inflight, [from |-> ctx.read, len |-> DataSize(ctx)])
      <4>1. Len(inflight') = 1
        BY <2>1, <3>3 DEF NoSend
      <4> QED BY <2>1, <3>1, <4>1
    <3> QED BY <1>6, <3>2, <3>3 DEF Post
  <2> QED BY <2>1, <2>2, <2>3 DEF OneUser, Working
<1>7. ASSUME NEW n \in 1..Cap, Transmit(n) PROVE OneUser'
  <2>1. OneUser /\ inflight # <<>> /\ UNCHANGED <<mSending, ctx, pc>>
    BY <1>0, <1>7 DEF Transmit
  <2>2. Len(inflight') + Len(completions') <= 1
    BY <1>0, <1>7, <2>1, HeadTailProperties, AppendProperties DEF Transmit, Kern, OneUser
  <2> QED BY <2>1, <2>2 DEF OneUser, Working, NoSend
<1>8. CASE AbortSend
  <2>1. OneUser /\ inflight # <<>> /\ UNCHANGED <<mSending, ctx, pc>>
    BY <1>0, <1>8 DEF AbortSend
  <2>2. Len(inflight') + Len(completions') <= 1
    <3>1. 0 \in 0..Cap
      BY SendAssumption
    <3> QED BY <1>0, <1>8, <2>1, <3>1, HeadTailProperties, AppendProperties
            DEF AbortSend, Kern, OneUser
  <2> QED BY <2>1, <2>2 DEF OneUser, Working, NoSend
<1>9. CASE PeerClose \/ PeerReset
  BY <1>0, <1>9 DEF PeerClose, PeerReset, OneUser, Working, NoSend
<1>10. ASSUME NEW w \in Worker, TakeCompletion(w) PROVE OneUser'
  <2>1. OneUser /\ ~Working(w) /\ UNCHANGED <<mSending, ctx, inflight>>
        /\ completions # <<>> /\ completions' = Tail(completions)
    BY <1>0, <1>10 DEF TakeCompletion, Working
  <2>2. /\ pc'[w] \in {"remove", "read"}
        /\ \A u \in Thread : u # w => pc'[u] = pc[u]
    BY <1>10, <1>d, <1>p DEF TakeCompletion, Goto
  <2>3. Len(completions) = 1 /\ Len(inflight) = 0 /\ Len(completions') = 0
        /\ completions' = <<>> /\ inflight = <<>>
    <3>1. /\ Len(completions) \in Nat /\ Len(completions) # 0 /\ Len(inflight) \in Nat
          /\ Len(inflight) = 0 => inflight = <<>>
          /\ Len(completions') = Len(completions) - 1
          /\ Len(completions') = 0 => completions' = <<>>
      BY <1>0, <2>1, EmptySeq, HeadTailProperties DEF Kern
    <3> QED BY <2>1, <3>1 DEF OneUser
  <2>4. mSending /\ \A t \in Thread : ~Working(t)
    BY <2>1 DEF OneUser, NoSend
  <2> QED BY <2>1, <2>2, <2>3, <2>4 DEF OneUser, Working, NoSend
<1>11. ASSUME NEW w \in Worker, TakeDisconnect(w) PROVE OneUser'
  BY <1>11, <1>d, <1>p, Aside DEF TakeDisconnect, Goto, Working
<1>12. ASSUME NEW w \in Worker, ReadSent(w) PROVE OneUser'
  <2>1. OneUser /\ Working(w) /\ UNCHANGED <<mSending, inflight, completions>>
    BY <1>0, <1>12 DEF ReadSent, Working
  <2>2. /\ pc'[w] \in {"test", "idle"}
        /\ \A u \in Thread : u # w => pc'[u] = pc[u]
    BY <1>12, <1>d, <1>p DEF ReadSent, Goto
  <2> QED BY <1>d, <2>1, <2>2 DEF OneUser, Working, NoSend
<1>13. ASSUME NEW w \in Worker, TestSent(w) PROVE OneUser'
  <2>1. OneUser /\ Working(w) /\ UNCHANGED <<mSending, ctx, inflight, completions>>
    BY <1>0, <1>13 DEF TestSent, Working
  <2>2. /\ pc'[w] = (IF DataSize(ctx) > 0 THEN "fill" ELSE "store")
        /\ \A u \in Thread : u # w => pc'[u] = pc[u]
    BY <1>13, <1>d, <1>p DEF TestSent, Goto
  <2>3. DataSize(ctx) \in Nat
    BY <1>0, SendAssumption DEF Types, Buffer, Context, DataSize
  <2> QED BY <1>d, <2>1, <2>2, <2>3 DEF OneUser, Working, NoSend
<1>14. ASSUME NEW w \in Worker, StoreSending(w) PROVE OneUser'
  <2>1. OneUser /\ pc[w] = "store" /\ UNCHANGED <<ctx, inflight, completions>>
    BY <1>0, <1>14 DEF StoreSending
  <2>2. pc'[w] = "idle" /\ \A u \in Thread : u # w => pc'[u] = pc[u]
    BY <1>14, <1>d, <1>p DEF StoreSending, Goto
  <2> QED BY <1>d, <2>1, <2>2 DEF OneUser, Working, NoSend
<1>15. ASSUME NEW w \in Worker, RemoveClient(w) PROVE OneUser'
  BY <1>15, <1>d, <1>p, Aside DEF RemoveClient, Goto, Working
<1>16. ASSUME NEW w \in Worker, Reset(w) PROVE OneUser'
  BY <1>0, <1>16, <1>d DEF Reset, OneUser
<1>17. CASE UNCHANGED vars
  BY <1>0, <1>17 DEF vars, OneUser, Working, NoSend
<1> QED
  BY <1>1, <1>2, <1>3, <1>4, <1>5, <1>6, <1>7, <1>8, <1>9, <1>10, <1>11, <1>12,
     <1>13, <1>14, <1>15, <1>16, <1>17
  DEF Next, Push, Send, Handle, Kernel

LEMMA SendAlways == Spec => []SendInv
BY InitSend, NextSend, PTL DEF Spec

(* 1-Send: however pushes, completions and disconnects interleave, the send    *)
(* context of an open connection has one user, though mSending is the only  *)
(* protection and is cleared by whichever worker took the completion.        *)
THEOREM OneSendAtATime == Spec => []OneSend
<1>1. SendInv => OneSend
  BY DEF SendInv, OneUser, OneSend, Busy, Working, NoSend
<1> QED BY <1>1, SendAlways, PTL

(* When mSending is clear the context is drained and nothing is under way.    *)
THEOREM IdleIsDrained == Spec => []IdleMeansDrained
<1>1. SendInv => IdleMeansDrained
  BY DEF SendInv, OneUser, IdleMeansDrained, Busy, Working, NoSend
<1> QED BY <1>1, SendAlways, PTL

-----------------------------------------------------------------------------
(* Refinement *)

(* On an open connection: the context holds the end of a packet; a WSASend is  *)
(* given just that; and what a completion reports is the start of it.        *)
Carries ==
  /\ DataSize(ctx) > 0 => \E p \in Packet : Holds(ctx, p)
  /\ inflight # <<>> =>
       Head(inflight) = [from |-> ctx.read, len |-> DataSize(ctx)]
  /\ completions # <<>> => Head(completions) \in 1..DataSize(ctx)
  /\ \A w \in Worker : pc[w] = "read" => transferred[w] \in 1..DataSize(ctx)

ChannelInv == SendInv /\ (socket = "open" => Carries)

LEMMA InitChannel == Init => ChannelInv
<1> SUFFICES ASSUME Init PROVE ChannelInv
  OBVIOUS
<1>1. Carries
  BY EmptyContextIsOne DEF Init, Carries, Thread
<1> QED BY <1>1, InitSend DEF ChannelInv

(* What a step on an open connection may rely on. *)
LEMMA OpenFacts ==
  ASSUME ChannelInv, socket = "open"
  PROVE  /\ Types /\ OneUser /\ Carries
         /\ Cap \in Nat /\ DataSize(ctx) \in 0..Cap
         /\ ctx.read \in 0..Cap /\ ctx.write = ctx.read + DataSize(ctx)
         /\ pc \in [Thread -> Steps] /\ transferred \in [Worker -> 0..Cap]
         /\ Dispatcher \in Thread /\ Worker \subseteq Thread /\ Dispatcher \notin Worker
<1>1. Types /\ OneUser /\ Carries
  BY DEF ChannelInv, SendInv
<1> QED BY <1>1, SendAssumption
        DEF Types, Buffer, Context, DataSize, Threads, Thread

LEMMA NextChannel == ChannelInv /\ [Next]_vars => ChannelInv'
<1> SUFFICES ASSUME ChannelInv, [Next]_vars PROVE ChannelInv'
  OBVIOUS
<1> USE DEF connVars, sendVars, kernelVars, threadVars
<1> SUFFICES ASSUME socket' = "open" PROVE Carries'
  BY NextSend DEF ChannelInv
<1>o. socket = "open"
  BY DEF Next, Respond, Push, TestConnected, EnqueuePacket, ExchangeSending, Send,
         Fill, Post, Handle, TakeCompletion, TakeDisconnect, ReadSent, TestSent,
         StoreSending, RemoveClient, Reset, Kernel, AbortSend, Transmit, PeerClose,
         PeerReset, vars
<1>0. /\ Types /\ OneUser /\ Carries
      /\ Cap \in Nat /\ DataSize(ctx) \in 0..Cap
      /\ ctx.read \in 0..Cap /\ ctx.write = ctx.read + DataSize(ctx)
      /\ pc \in [Thread -> Steps] /\ transferred \in [Worker -> 0..Cap]
      /\ Dispatcher \in Thread /\ Worker \subseteq Thread /\ Dispatcher \notin Worker
  BY <1>o, OpenFacts
<1>1. ASSUME UNCHANGED <<ctx, inflight, completions, transferred>>,
             \A w \in Worker : pc'[w] = "read" => pc[w] = "read"
      PROVE  Carries'
  BY <1>0, <1>1 DEF Carries
<1>2. ASSUME NEW p \in Packet, Respond(p) PROVE Carries'
  BY <1>0, <1>1, <1>2 DEF Respond, Goto
<1>3. CASE TestConnected \/ EnqueuePacket \/ ExchangeSending
  BY <1>0, <1>1, <1>3 DEF TestConnected, EnqueuePacket, ExchangeSending, Goto
<1>4. ASSUME NEW t \in Thread, Fill(t) PROVE Carries'
  <2>1. /\ UNCHANGED <<inflight, completions, transferred>>
        /\ \A w \in Worker : pc'[w] = "read" => pc[w] = "read"
    BY <1>0, <1>4 DEF Fill, Goto
  <2>2. CASE UNCHANGED ctx
    BY <1>1, <2>1, <2>2
  <2>3. CASE DataSize(ctx) = 0 /\ mSendQueue # <<>>
    <3> DEFINE p == Head(mSendQueue)
    <3>1. p \in Packet /\ ctx \in Context
      BY <1>0, <2>3, HeadTailProperties DEF Types, Sending, Buffer
    <3>2. Fits(ctx, Size[p]) /\ Holds(Write(ctx, Bytes(p)), p)
      BY <2>3, <3>1, WriteWhenEmpty, WriteHolds
    <3>3. ctx' = Write(ctx, Bytes(p))
      BY <1>4, <2>3, <3>2 DEF Fill
    <3>4. NoSend /\ \A w \in Worker : pc[w] # "read"
      BY <1>0, <1>4 DEF OneUser, Working, Fill
    <3> QED BY <2>1, <3>1, <3>2, <3>3, <3>4 DEF Carries, NoSend
  <2> QED BY <1>4, <2>2, <2>3 DEF Fill
<1>5. ASSUME NEW t \in Thread, Post(t) PROVE Carries'
  <2>1. NoSend /\ UNCHANGED <<ctx, completions, transferred>>
    BY <1>0, <1>5 DEF OneUser, Working, Post
  <2>2. \A w \in Worker : pc'[w] = "read" => pc[w] = "read"
    BY <1>0, <1>5 DEF Post, Goto
  <2>3. CASE UNCHANGED inflight
    BY <1>1, <2>1, <2>2, <2>3
  <2>4. CASE inflight' = Append(inflight, [from |-> ctx.read, len |-> DataSize(ctx)])
    <3>1. Head(inflight') = [from |-> ctx.read, len |-> DataSize(ctx)]
      BY <2>1, <2>4 DEF NoSend
    <3> QED BY <1>0, <2>1, <2>2, <3>1 DEF Carries
  <2> QED BY <1>5, <2>3, <2>4 DEF Post
<1>6. ASSUME NEW n \in 1..Cap, Transmit(n) PROVE Carries'
  <2>1. /\ inflight # <<>> /\ UNCHANGED <<ctx, transferred, pc>>
        /\ inflight' = Tail(inflight) /\ completions' = Append(completions, n)
        /\ n \in 1..DataSize(ctx)
    BY <1>0, <1>6 DEF Transmit, Carries
  <2>2. inflight' = <<>> /\ completions = <<>>
    <3>1. /\ Len(inflight) \in Nat /\ Len(inflight) # 0 /\ Len(completions) \in Nat
          /\ Len(completions) = 0 => completions = <<>>
          /\ Len(inflight') = Len(inflight) - 1
          /\ Len(inflight') = 0 => inflight' = <<>>
      <4>1. completions \in Seq(0..Cap) /\ inflight \in Seq({c \in Call : c.from + c.len <= Cap})
        BY <1>0 DEF Types, Kern
      <4> QED BY <2>1, <4>1, EmptySeq, HeadTailProperties
    <3> QED BY <1>0, <3>1 DEF OneUser
  <2>3. Head(completions') = n
    BY <2>1, <2>2
  <2> QED BY <1>0, <2>1, <2>2, <2>3 DEF Carries
<1>7. CASE AbortSend \/ PeerReset
  BY <1>o, <1>7 DEF AbortSend, PeerReset
<1>8. CASE PeerClose
  BY <1>1, <1>8 DEF PeerClose
<1>9. ASSUME NEW w \in Worker, TakeCompletion(w) PROVE Carries'
  <2>1. completions # <<>> /\ Head(completions) \in 1..DataSize(ctx)
    BY <1>0, <1>9 DEF TakeCompletion, Carries
  <2>2. /\ pc'[w] = "read" /\ transferred'[w] = Head(completions)
        /\ \A v \in Worker : v # w => pc'[v] = pc[v] /\ transferred'[v] = transferred[v]
        /\ UNCHANGED <<ctx, inflight>> /\ completions' = Tail(completions)
    BY <1>0, <1>9, <2>1 DEF TakeCompletion, Goto
  <2>3. completions' = <<>>
    <3>1. /\ Len(inflight) \in Nat /\ Len(completions) \in Nat /\ Len(completions) # 0
          /\ Len(completions') = Len(completions) - 1
          /\ Len(completions') = 0 => completions' = <<>>
      <4>1. completions \in Seq(0..Cap) /\ inflight \in Seq({c \in Call : c.from + c.len <= Cap})
        BY <1>0 DEF Types, Kern
      <4> QED BY <2>1, <2>2, <4>1, EmptySeq, HeadTailProperties
    <3> QED BY <1>0, <3>1 DEF OneUser
  <2> QED BY <1>0, <2>1, <2>2, <2>3 DEF Carries
<1>10. ASSUME NEW w \in Worker, ReadSent(w) PROVE Carries'
  <2>1. NoSend /\ \A v \in Worker : v # w => pc[v] # "read"
    BY <1>0, <1>10 DEF OneUser, Working, ReadSent
  <2>2. transferred[w] \in 1..DataSize(ctx) /\ UNCHANGED <<inflight, completions>>
    BY <1>0, <1>10 DEF ReadSent, Carries
  <2>3. \A v \in Worker : pc'[v] # "read"
    BY <1>0, <1>10, <2>1 DEF ReadSent, Goto
  <2>4. ctx' = [ctx EXCEPT !.read = @ + transferred[w]]
    BY <1>0, <1>10, <2>2 DEF ReadSent, ReadDone, CanRead
  <2>5. ctx'.read = ctx.read + transferred[w] /\ ctx'.write = ctx.write
        /\ ctx'.data = ctx.data
    BY <1>0, <2>4 DEF Types, Buffer, Context
  <2>6. \A p \in Packet : Holds(ctx, p) => Holds(ctx', p)
    <3> SUFFICES ASSUME NEW p \in Packet, Holds(ctx, p) PROVE Holds(ctx', p)
      OBVIOUS
    <3>1. Size[p] \in 1..Cap
      BY SendAssumption
    <3>2. DataSize(ctx') <= DataSize(ctx) /\ DataSize(ctx') \in Int
      BY <1>0, <2>2, <2>5 DEF DataSize
    <3>3. \A k \in ctx'.read..(ctx'.write - 1) : k \in ctx.read..(ctx.write - 1)
      BY <1>0, <2>2, <2>5
    <3> QED BY <1>0, <2>5, <3>1, <3>2, <3>3 DEF Holds
  <2>7. DataSize(ctx') > 0 => DataSize(ctx) > 0
    BY <1>0, <2>2, <2>5 DEF DataSize
  <2> QED BY <1>0, <2>1, <2>2, <2>3, <2>6, <2>7 DEF Carries, NoSend
<1>11. ASSUME NEW w \in Worker, TakeDisconnect(w) \/ TestSent(w) \/ StoreSending(w)
       PROVE  Carries'
  BY <1>0, <1>1, <1>11 DEF TakeDisconnect, TestSent, StoreSending, Goto
<1>12. ASSUME NEW w \in Worker, RemoveClient(w) PROVE Carries'
  BY <1>0, <1>1, <1>12 DEF RemoveClient, Goto
<1>13. ASSUME NEW w \in Worker, Reset(w) PROVE Carries'
  BY <1>0, <1>13 DEF Reset, OneUser
<1>14. CASE UNCHANGED vars
  BY <1>1, <1>14 DEF vars
<1> QED
  BY <1>2, <1>3, <1>4, <1>5, <1>6, <1>7, <1>8, <1>9, <1>10, <1>11, <1>12, <1>13, <1>14
  DEF Next, Push, Send, Handle, Kernel

(* The abstract queue and offset, as SendPath's refinement mapping has them.   *)
Chan == IF Up THEN Current \o mSendQueue ELSE <<>>
Off == IF Up /\ Unsent > 0 THEN Size[Current[1]] - Unsent ELSE 0

(* What of the context's data the kernel has sent and no worker has read. *)
AckedRight ==
  socket = "open" =>
    /\ completions # <<>> => Acked = Head(completions)
    /\ \A w \in Worker : pc[w] = "read" => Acked = transferred[w]
    /\ completions = <<>> /\ (\A w \in Worker : pc[w] # "read") => Acked = 0
    /\ Acked \in 0..DataSize(ctx)

LEMMA AckedIs == ChannelInv => AckedRight
<1> SUFFICES ASSUME ChannelInv, socket = "open"
             PROVE  /\ completions # <<>> => Acked = Head(completions)
                    /\ \A w \in Worker : pc[w] = "read" => Acked = transferred[w]
                    /\ completions = <<>> /\ (\A w \in Worker : pc[w] # "read") => Acked = 0
                    /\ Acked \in 0..DataSize(ctx)
  BY DEF AckedRight
<1>0. OneUser /\ Carries /\ DataSize(ctx) \in Nat /\ Worker \subseteq Thread
  BY OpenFacts
<1>1. CASE completions # <<>>
  <2>1. \A w \in Worker : pc[w] # "read"
    BY <1>0, <1>1 DEF OneUser, Working, NoSend
  <2> QED BY <1>0, <1>1, <2>1 DEF Acked, Carries
<1>2. CASE completions = <<>> /\ \E w \in Worker : pc[w] = "read"
  <2>1. PICK w \in Worker : pc[w] = "read"
    BY <1>2
  <2>2. \A v \in Worker : pc[v] = "read" => v = w
    BY <1>0, <2>1 DEF OneUser, Working
  <2>3. (CHOOSE v \in Worker : pc[v] = "read") = w
    BY <2>1, <2>2
  <2>4. Acked = transferred[w]
    BY <1>2, <2>3 DEF Acked
  <2> QED BY <1>0, <1>2, <2>1, <2>2, <2>4 DEF Carries
<1>3. CASE completions = <<>> /\ \A w \in Worker : pc[w] # "read"
  BY <1>0, <1>3 DEF Acked
<1> QED BY <1>1, <1>2, <1>3

(* With the end of p in the context, the abstract queue begins with what of p  *)
(* has not left.                                                           *)
Begins ==
  socket = "open" =>
    \A p \in Packet : DataSize(ctx) > 0 /\ Holds(ctx, p) =>
      /\ Unsent > 0 => Current = <<p>> /\ Off = Size[p] - Unsent
      /\ Unsent = 0 => Current = <<>> /\ Off = 0

LEMMA QueueBegins == ChannelInv => Begins
<1> SUFFICES ASSUME ChannelInv, socket = "open", NEW p \in Packet,
                    DataSize(ctx) > 0, Holds(ctx, p)
             PROVE  /\ Unsent > 0 => Current = <<p>> /\ Off = Size[p] - Unsent
                    /\ Unsent = 0 => Current = <<>> /\ Off = 0
  BY DEF Begins
<1>0. /\ DataSize(ctx) \in 0..Cap /\ Acked \in 0..DataSize(ctx) /\ Cap \in Nat
      /\ ctx.read \in 0..Cap /\ ctx.write = ctx.read + DataSize(ctx)
  BY OpenFacts, AckedIs DEF AckedRight
<1>1. Unsent \in Int
  BY <1>0 DEF Unsent
<1>2. ctx.data[ctx.write - 1][1] = p
  <2>1. ctx.write - 1 \in ctx.read..(ctx.write - 1)
    BY <1>0
  <2>2. ctx.data[ctx.write - 1] = Byte(p, Size[p] - (ctx.write - (ctx.write - 1)) + 1)
    BY <2>1 DEF Holds
  <2> QED BY <2>2 DEF Byte
<1>3. CASE Unsent > 0
  <2>1. Current = <<p>>
    BY <1>2, <1>3 DEF Current
  <2> QED BY <1>1, <1>3, <2>1 DEF Off, Up
<1>4. CASE Unsent = 0
  BY <1>1, <1>4 DEF Current, Off
<1> QED BY <1>3, <1>4

LEMMA ThenAlso == ChannelInv' => AckedRight' /\ Begins'
BY AckedIs, QueueBegins, PTL

(* A step that leaves the queue, the data and what of it has not left.         *)
LEMMA Kept ==
  ASSUME UNCHANGED <<socket, mSendQueue>>, Unsent' = Unsent,
         ctx'.data = ctx.data, ctx'.write = ctx.write
  PROVE  Chan' = Chan /\ Off' = Off
BY DEF Chan, Off, Current, Up

(* No worker begins or ends reading a completion. *)
LEMMA AckedKept ==
  ASSUME ChannelInv, ChannelInv', socket = "open",
         UNCHANGED <<socket, ctx, mSendQueue, completions, transferred>>,
         \A w \in Worker : pc'[w] = "read" <=> pc[w] = "read"
  PROVE  Chan' = Chan /\ Off' = Off
<1>1. AckedRight /\ AckedRight'
  BY AckedIs, ThenAlso
<1>2. Acked' = Acked
  BY <1>1 DEF AckedRight
<1>3. Unsent' = Unsent
  BY <1>2 DEF Unsent
<1> QED BY <1>3, Kept

LEMMA NextRefines ==
  ChannelInv /\ ChannelInv' /\ [Next]_vars =>
    \/ UNCHANGED <<Up, Chan, Off, line>>
    \/ \E p \in Packet : Up /\ Chan' = Append(Chan, p) /\ UNCHANGED <<Up, Off, line>>
    \/ \E n \in 1..Cap :
         /\ Up /\ Chan # <<>> /\ Off + n <= Size[Head(Chan)]
         /\ line' = [k \in 1..n |-> <<Head(Chan), Off + k>>]
         /\ IF Off + n = Size[Head(Chan)] THEN Chan' = Tail(Chan) /\ Off' = 0
                                          ELSE Chan' = Chan /\ Off' = Off + n
         /\ UNCHANGED Up
    \/ Up /\ Up' = FALSE /\ Chan' = <<>> /\ Off' = 0 /\ UNCHANGED line
<1> DEFINE Same == UNCHANGED <<Up, Chan, Off, line>>
           Grows(p) == Up /\ Chan' = Append(Chan, p) /\ UNCHANGED <<Up, Off, line>>
           Leaves(n) ==
             /\ Up /\ Chan # <<>> /\ Off + n <= Size[Head(Chan)]
             /\ line' = [k \in 1..n |-> <<Head(Chan), Off + k>>]
             /\ IF Off + n = Size[Head(Chan)] THEN Chan' = Tail(Chan) /\ Off' = 0
                                              ELSE Chan' = Chan /\ Off' = Off + n
             /\ UNCHANGED Up
           Breaks == Up /\ Up' = FALSE /\ Chan' = <<>> /\ Off' = 0 /\ UNCHANGED line
<1> SUFFICES ASSUME ChannelInv, ChannelInv', [Next]_vars
             PROVE  Same \/ (\E p \in Packet : Grows(p)) \/ (\E n \in 1..Cap : Leaves(n))
                    \/ Breaks
  OBVIOUS
<1> USE DEF connVars, sendVars, kernelVars, threadVars
<1>1. CASE socket # "open"
  <2>1. socket' # "open" /\ line' = line
    BY <1>1
    DEF Next, Respond, Push, TestConnected, EnqueuePacket, ExchangeSending, Send,
        Fill, Post, Handle, TakeCompletion, TakeDisconnect, ReadSent, TestSent,
        StoreSending, RemoveClient, Reset, Kernel, AbortSend, Transmit, PeerClose,
        PeerReset, vars
  <2> QED BY <1>1, <2>1 DEF Up, Chan, Off
<1>2. CASE socket = "open" /\ socket' # "open"
  <2>1. line' = line
    BY <1>2
    DEF Next, Respond, Push, TestConnected, EnqueuePacket, ExchangeSending, Send,
        Fill, Post, Handle, TakeCompletion, TakeDisconnect, ReadSent, TestSent,
        StoreSending, RemoveClient, Reset, Kernel, AbortSend, Transmit, PeerClose,
        PeerReset, vars
  <2> QED BY <1>2, <2>1 DEF Up, Chan, Off
<1>3. CASE socket = "open" /\ socket' = "open"
  <2>0. /\ Types /\ OneUser /\ Carries
        /\ Cap \in Nat /\ DataSize(ctx) \in 0..Cap
        /\ ctx.read \in 0..Cap /\ ctx.write = ctx.read + DataSize(ctx)
        /\ pc \in [Thread -> Steps] /\ transferred \in [Worker -> 0..Cap]
        /\ Dispatcher \in Thread /\ Worker \subseteq Thread /\ Dispatcher \notin Worker
    BY <1>3, OpenFacts
  <2>a. AckedRight /\ Begins /\ AckedRight' /\ Begins'
    BY AckedIs, QueueBegins, ThenAlso
  <2>u. Up /\ Up'
    BY <1>3 DEF Up
  <2>s. ASSUME Chan' = Chan, Off' = Off, line' = line PROVE Same
    BY <2>u, <2>s
  <2>q. mSendQueue \in Seq(Packet)
    BY <2>0 DEF Types, Sending
  <2>1. ASSUME UNCHANGED <<ctx, mSendQueue, completions, transferred, line>>,
               \A w \in Worker : pc'[w] = "read" <=> pc[w] = "read"
        PROVE  Same
    BY <1>3, <2>1, <2>s, AckedKept
  <2>2. ASSUME NEW p \in Packet, Respond(p) PROVE Same
    BY <2>0, <2>1, <2>2 DEF Respond, Goto
  <2>3. CASE TestConnected \/ ExchangeSending
    BY <2>0, <2>1, <2>3 DEF TestConnected, ExchangeSending, Goto
  <2>4. CASE EnqueuePacket
    <3>1. /\ UNCHANGED <<ctx, completions, transferred, line>>
          /\ mSendQueue' = Append(mSendQueue, packet)
          /\ \A w \in Worker : pc'[w] = "read" <=> pc[w] = "read"
      BY <2>0, <2>4 DEF EnqueuePacket, Goto
    <3>2. Acked' = Acked
      BY <1>3, <2>a, <3>1 DEF AckedRight
    <3>3. Current' = Current /\ Off' = Off
      BY <3>1, <3>2, <2>u DEF Current, Off, Unsent
    <3>4. packet \in Packet
      BY <2>0 DEF Types, Threads
    <3>5. Current \o Append(mSendQueue, packet) = Append(Current \o mSendQueue, packet)
      <4>1. Current = <<>> \/ Current = <<ctx.data[ctx.write - 1][1]>>
        BY DEF Current
      <4> QED BY <2>q, <3>4, <4>1
    <3> QED BY <2>u, <3>1, <3>3, <3>4, <3>5 DEF Chan
  <2>5. ASSUME NEW t \in Thread, Fill(t) PROVE Same
    <3>1. /\ UNCHANGED <<completions, transferred, line>>
          /\ \A w \in Worker : pc'[w] = "read" <=> pc[w] = "read"
      BY <2>0, <2>5 DEF Fill, Goto
    <3>2. CASE UNCHANGED <<ctx, mSendQueue>>
      BY <2>1, <3>1, <3>2
    <3>3. CASE DataSize(ctx) = 0 /\ mSendQueue # <<>>
      <4> DEFINE p == Head(mSendQueue)
      <4>1. p \in Packet /\ ctx \in Context /\ mSendQueue = <<p>> \o Tail(mSendQueue)
        BY <2>0, <2>q, <3>3, HeadTailProperties DEF Types, Buffer
      <4>2. /\ Fits(ctx, Size[p]) /\ Holds(Write(ctx, Bytes(p)), p)
            /\ DataSize(Write(ctx, Bytes(p))) = Size[p] /\ Size[p] \in 1..Cap
        BY <3>3, <4>1, WriteWhenEmpty, WriteHolds, SendAssumption
      <4>3. ctx' = Write(ctx, Bytes(p)) /\ mSendQueue' = Tail(mSendQueue)
        BY <2>5, <3>3, <4>2 DEF Fill
      <4>4. completions = <<>> /\ \A w \in Worker : pc[w] # "read"
        BY <2>0, <2>5 DEF OneUser, Working, Fill, NoSend
      <4>5. Acked = 0 /\ Acked' = 0
        BY <1>3, <2>a, <3>1, <4>4 DEF AckedRight
      <4>6. Unsent = 0 /\ Unsent' = Size[p]
        BY <3>3, <4>2, <4>3, <4>5 DEF Unsent
      <4>7. Current = <<>> /\ Off = 0
        BY <4>6 DEF Current, Off
      <4>8. DataSize(ctx') > 0 /\ Holds(ctx', p) /\ Unsent' > 0
        BY <4>2, <4>3, <4>6
      <4>9. Current' = <<p>> /\ Off' = Size[p] - Unsent'
        BY <1>3, <2>a, <4>1, <4>8 DEF Begins
      <4>10. Off' = 0
        BY <4>2, <4>6, <4>9
      <4>11. Chan = mSendQueue /\ Chan' = mSendQueue
        <5>1. <<>> \o mSendQueue = mSendQueue
          BY <2>q
        <5> QED BY <2>u, <4>1, <4>3, <4>7, <4>9, <5>1 DEF Chan
      <4> QED BY <2>s, <3>1, <4>7, <4>10, <4>11
    <3> QED BY <2>5, <3>2, <3>3 DEF Fill
  <2>6. ASSUME NEW t \in Thread, Post(t) PROVE Same
    BY <2>0, <2>1, <2>6 DEF Post, Goto
  <2>7. ASSUME NEW n \in 1..Cap, Transmit(n) PROVE Leaves(n)
    <3>1. /\ inflight # <<>> /\ UNCHANGED <<ctx, mSendQueue, transferred, pc>>
          /\ completions' = Append(completions, n) /\ n \in 1..DataSize(ctx)
          /\ line' = [k \in 1..n |-> ctx.data[ctx.read + k - 1]]
      BY <2>0, <2>7 DEF Transmit, Carries
    <3>2. completions = <<>> /\ \A w \in Worker : pc[w] # "read"
      <4>1. completions \in Seq(0..Cap) /\ inflight \in Seq({c \in Call : c.from + c.len <= Cap})
        BY <2>0 DEF Types, Kern
      <4>2. Len(inflight) \in Nat /\ Len(inflight) # 0 /\ Len(completions) \in Nat
            /\ (Len(completions) = 0 => completions = <<>>)
        BY <3>1, <4>1, EmptySeq
      <4> QED BY <2>0, <3>1, <4>2 DEF OneUser, Working, NoSend
    <3>3. Acked = 0 /\ Acked' = n
      <4>1. completions' # <<>> /\ Head(completions') = n
        BY <3>1, <3>2
      <4> QED BY <1>3, <2>a, <3>2, <4>1 DEF AckedRight
    <3>4. Unsent = DataSize(ctx) /\ Unsent' = DataSize(ctx) - n
      BY <2>0, <3>1, <3>3 DEF Unsent
    <3>5. PICK p \in Packet : Holds(ctx, p)
      BY <2>0, <3>1 DEF Carries
    <3>6. Size[p] \in 1..Cap /\ DataSize(ctx) <= Size[p]
      BY <3>5, SendAssumption DEF Holds
    <3>7. Current = <<p>> /\ Off = Size[p] - DataSize(ctx)
      BY <1>3, <2>0, <2>a, <3>1, <3>4, <3>5 DEF Begins
    <3>8. Chan # <<>> /\ Head(Chan) = p /\ Tail(Chan) = mSendQueue
          /\ Chan = <<p>> \o mSendQueue
      <4>1. Chan = <<p>> \o mSendQueue
        BY <2>u, <3>7 DEF Chan
      <4> QED BY <2>q, <4>1
    <3>9. line' = [k \in 1..n |-> <<p, Off + k>>]
      <4>1. ASSUME NEW k \in 1..n PROVE ctx.data[ctx.read + k - 1] = <<p, Off + k>>
        <5>1. ctx.read + k - 1 \in ctx.read..(ctx.write - 1)
          BY <2>0, <3>1
        <5>2. Size[p] - (ctx.write - (ctx.read + k - 1)) + 1 = Off + k
          BY <2>0, <3>1, <3>6, <3>7
        <5> QED BY <3>5, <5>1, <5>2 DEF Holds, Byte
      <4> QED BY <3>1, <4>1
    <3>10. Off + n <= Size[p]
      BY <2>0, <3>1, <3>6, <3>7
    <3>11. CASE n = DataSize(ctx)
      <4>1. Unsent' = 0 /\ Off + n = Size[p]
        BY <2>0, <3>4, <3>6, <3>7, <3>11
      <4>2. Current' = <<>> /\ Off' = 0
        BY <4>1 DEF Current, Off
      <4>3. Chan' = mSendQueue
        BY <2>q, <2>u, <3>1, <4>2 DEF Chan
      <4>4. Chan # <<>> /\ Off + n = Size[Head(Chan)]
            /\ line' = [k \in 1..n |-> <<Head(Chan), Off + k>>]
            /\ Chan' = Tail(Chan)
        BY <3>8, <3>9, <4>1, <4>3
      <4>5. Off + n <= Size[Head(Chan)]
        BY <3>8, <3>10
      <4> QED BY <2>u, <4>2, <4>4, <4>5
    <3>12. CASE n # DataSize(ctx)
      <4>1. Unsent' > 0 /\ Off + n # Size[p] /\ DataSize(ctx') > 0 /\ Holds(ctx', p)
        BY <2>0, <3>1, <3>4, <3>5, <3>6, <3>7, <3>12
      <4>2. Current' = <<p>> /\ Off' = Size[p] - Unsent'
        BY <1>3, <2>a, <4>1 DEF Begins
      <4>3. Off' = Off + n
        BY <2>0, <3>1, <3>4, <3>6, <3>7, <4>2
      <4>4. Chan' = <<p>> \o mSendQueue
        BY <2>u, <3>1, <4>2 DEF Chan
      <4> QED BY <2>u, <3>8, <3>9, <3>10, <4>1, <4>3, <4>4
    <3> QED BY <3>11, <3>12
  <2>8. CASE AbortSend \/ PeerReset
    BY <1>3, <2>8 DEF AbortSend, PeerReset
  <2>9. CASE PeerClose
    BY <2>1, <2>9 DEF PeerClose
  <2>10. ASSUME NEW w \in Worker, TakeCompletion(w) PROVE Same
    <3>1. completions # <<>> /\ Head(completions) \in 1..DataSize(ctx)
      BY <2>0, <2>10 DEF TakeCompletion, Carries
    <3>2. pc'[w] = "read" /\ transferred'[w] = Head(completions)
          /\ UNCHANGED <<ctx, mSendQueue, line>>
      BY <2>0, <2>10, <3>1 DEF TakeCompletion, Goto
    <3>3. Acked' = Acked
      BY <1>3, <2>a, <3>1, <3>2 DEF AckedRight
    <3>4. Unsent' = Unsent
      BY <3>2, <3>3 DEF Unsent
    <3> QED BY <1>3, <2>s, <3>2, <3>4, Kept
  <2>11. ASSUME NEW w \in Worker, ReadSent(w) PROVE Same
    <3>1. completions = <<>> /\ \A v \in Worker : v # w => pc[v] # "read"
      BY <2>0, <2>11 DEF OneUser, Working, ReadSent, NoSend
    <3>2. pc[w] = "read" /\ transferred[w] \in 1..DataSize(ctx)
          /\ UNCHANGED <<mSendQueue, completions, line>>
      BY <2>0, <2>11 DEF ReadSent, Carries
    <3>3. \A v \in Worker : pc'[v] # "read"
      BY <2>0, <2>11, <3>1 DEF ReadSent, Goto
    <3>4. ctx' = [ctx EXCEPT !.read = @ + transferred[w]]
      BY <2>0, <2>11, <3>2 DEF ReadSent, ReadDone, CanRead
    <3>5. ctx'.read = ctx.read + transferred[w] /\ ctx'.write = ctx.write
          /\ ctx'.data = ctx.data
      BY <2>0, <3>4 DEF Types, Buffer, Context
    <3>6. Acked = transferred[w] /\ Acked' = 0
      BY <1>3, <2>a, <3>1, <3>2, <3>3 DEF AckedRight
    <3>7. Unsent' = Unsent
      BY <2>0, <3>2, <3>5, <3>6 DEF Unsent, DataSize
    <3> QED BY <1>3, <2>s, <3>2, <3>5, <3>7, Kept
  <2>12. ASSUME NEW w \in Worker, TakeDisconnect(w) \/ TestSent(w) \/ StoreSending(w)
         PROVE  Same
    BY <2>0, <2>1, <2>12 DEF TakeDisconnect, TestSent, StoreSending, Goto
  <2>13. ASSUME NEW w \in Worker, RemoveClient(w) PROVE Same
    BY <2>0, <2>1, <2>13 DEF RemoveClient, Goto
  <2>14. ASSUME NEW w \in Worker, Reset(w) PROVE Same
    BY <2>0, <2>14 DEF Reset, OneUser
  <2>15. CASE UNCHANGED vars
    BY <2>1, <2>15 DEF vars
  <2> QED
    BY <2>2, <2>3, <2>4, <2>5, <2>6, <2>7, <2>8, <2>9, <2>10, <2>11, <2>12, <2>13,
       <2>14, <2>15
    DEF Next, Push, Send, Handle, Kernel
<1> QED
  <2>1. socket = "open" \/ socket # "open"
    OBVIOUS
  <2> QED BY <1>1, <1>2, <1>3

(* SendPath implements SendChannel: over partial sends, failures, resets and   *)
(* removal, with any number of workers, what reaches the wire are the packets *)
(* in the order they were queued, whole and once.                           *)
THEOREM ImplementsChannel == Spec => ChannelSpec
<1>1. Init => Channel!ChanInit
  <2> SUFFICES ASSUME Init PROVE Up = TRUE /\ Chan = <<>> /\ Off = 0 /\ line = <<>>
    BY DEF Channel!ChanInit, Chan, Off
  <2>1. ChannelInv /\ socket = "open" /\ completions = <<>> /\ mSendQueue = <<>>
        /\ (\A w \in Worker : pc[w] # "read") /\ DataSize(ctx) = 0 /\ line = <<>>
    BY InitChannel, EmptyContextIsOne DEF Init, Thread
  <2>2. Acked = 0
    BY <2>1, AckedIs DEF AckedRight
  <2>3. Unsent = 0
    BY <2>1, <2>2 DEF Unsent
  <2> QED BY <2>1, <2>3 DEF Up, Chan, Off, Current
<1>2. ChannelInv /\ ChannelInv' /\ [Next]_vars => [Channel!ChanNext]_(Channel!chanVars)
  <2> SUFFICES ASSUME ChannelInv, ChannelInv', [Next]_vars
               PROVE  Channel!ChanNext \/ UNCHANGED Channel!chanVars
    OBVIOUS
  <2> QED BY NextRefines
          DEF Channel!ChanNext, Channel!chanVars, Channel!Enqueue, Channel!Leave,
              Channel!Break, Chan, Off
<1> QED
  BY <1>1, <1>2, InitChannel, NextChannel, PTL DEF Spec, ChannelSpec, Channel!ChanSpec
=============================================================================
