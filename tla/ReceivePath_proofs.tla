-------------------------- MODULE ReceivePath_proofs --------------------------
(***************************************************************************)
(* Proofs about ReceivePath, for any stream of packets, any segmentation of *)
(* it and any size of the buffer.                                          *)
(***************************************************************************)
EXTENDS ReceivePath, SequenceTheorems, TLAPS

(* Where the next byte the kernel delivers goes, when its completion has     *)
(* been counted.                                                           *)
Filled == ctx.write + transferred

(* The buffer up to there holds the last bytes delivered, in order: moving   *)
(* the data to the front keeps that, although read stays where it was.      *)
LastBytes ==
  /\ Filled <= taken
  /\ \A k \in 0..(Filled - 1) : ctx.data[k] = taken - Filled + k + 1

(* What was dispatched comes before the byte at the read position, which     *)
(* only jumps forward, and before all that is to be delivered.              *)
Behind ==
  \A m \in 1..Len(dispatched) : LET s == dispatched[m] IN
    /\ Len(s) >= 1
    /\ s[Len(s)] <= taken
    /\ s[Len(s)] <= taken - Filled + ctx.read

ByteInv == TypeOK /\ LastBytes /\ Behind /\ EachByteOnce

-----------------------------------------------------------------------------
(* The stream and the buffer *)

LEMMA StreamFacts ==
  /\ Cap \in Nat /\ Cap > 0 /\ MaxAnnounce \in Nat /\ Cap <= MaxAnnounce
  /\ Packets \in Nat /\ N \in Nat /\ 0 \in Cell
  /\ \A m \in 1..(Packets + 1) : Start[m] \in Nat /\ Start[m] >= 1 /\ Start[m] <= N + 1
<1>1. /\ Cap \in Nat /\ Cap > 0 /\ MaxAnnounce \in Nat /\ Cap <= MaxAnnounce
      /\ Start \in Seq(Nat) /\ Start # <<>> /\ Start[1] = 1
      /\ \A l, m \in 1..(Packets + 1) : l < m => Start[l] < Start[m]
  BY ReceiveAssumption
<1>2. Len(Start) \in Nat /\ Len(Start) > 0
  BY <1>1, EmptySeq
<1>3. Packets \in Nat /\ Packets + 1 = Len(Start)
  BY <1>2 DEF Packets
<1>4. \A m \in 1..(Packets + 1) : Start[m] \in Nat
  BY <1>1, <1>3
<1>5. \A m \in 1..(Packets + 1) : Start[m] >= 1 /\ Start[m] <= Start[Packets + 1]
  <2> SUFFICES ASSUME NEW m \in 1..(Packets + 1)
               PROVE  Start[m] >= 1 /\ Start[m] <= Start[Packets + 1]
    OBVIOUS
  <2>1. m = 1 \/ Start[1] < Start[m]
    BY <1>1, <1>3
  <2>2. m = Packets + 1 \/ Start[m] < Start[Packets + 1]
    BY <1>1, <1>3
  <2> QED BY <1>1, <1>3, <1>4, <2>1, <2>2
<1>6. N \in Nat /\ \A m \in 1..(Packets + 1) : Start[m] <= N + 1
  BY <1>3, <1>4, <1>5 DEF N
<1> QED BY <1>1, <1>3, <1>4, <1>5, <1>6 DEF Cell

(* AlignBuffer after something has been read: the unread bytes are at the     *)
(* front with read where it was, or the context is empty.                   *)
LEMMA Aligned ==
  ASSUME NEW d \in Context, d.read > 0
  PROVE  LET e == AlignBuffer(d) IN
         /\ e \in Context
         /\ \/ e.read = 0 /\ e.write = 0
            \/ /\ d.read < d.write /\ e.read = d.read /\ e.write = d.write - d.read
               /\ \A k \in 0..(e.write - 1) : e.data[k] = d.data[d.read + k]
<1> DEFINE data == MoveToFront(d)
<1>1. /\ d.read \in 0..Cap /\ d.write \in 0..Cap /\ d.data \in [0..(Cap - 1) -> Cell]
      /\ Cap \in Nat /\ 0 \in Cell
      /\ d = [data |-> d.data, read |-> d.read, write |-> d.write]
  BY StreamFacts DEF Context
<1>2. CASE d.read < d.write
  <2>1. data \in [0..(Cap - 1) -> Cell]
    BY <1>1, <1>2 DEF MoveToFront, DataSize
  <2>2. \A k \in 0..(d.write - d.read - 1) : data[k] = d.data[d.read + k]
    BY <1>1, <1>2 DEF MoveToFront, DataSize
  <2>3. AlignBuffer(d) = [d EXCEPT !.data = data, !.write = d.write - d.read]
    BY <1>1, <1>2 DEF AlignBuffer
  <2> HIDE DEF data
  <2>4. AlignBuffer(d) = [data |-> data, read |-> d.read, write |-> d.write - d.read]
    BY <1>1, <2>3
  <2> QED BY <1>1, <1>2, <2>1, <2>2, <2>4 DEF Context
<1>3. CASE ~(d.read < d.write)
  <2>1. AlignBuffer(d) = EmptyContext
    BY <1>1, <1>3 DEF AlignBuffer
  <2> QED BY <1>1, <2>1 DEF EmptyContext, Context, Zero
<1> QED BY <1>2, <1>3

(* What a completion leaves of the buffer. *)
LEMMA Delivered ==
  ASSUME TypeOK, NEW n \in 1..Cap, Deliver(n)
  PROVE  /\ ctx' \in Context /\ ctx'.read = ctx.read /\ ctx'.write = ctx.write
         /\ transferred = 0 /\ transferred' = n /\ ctx.write + n <= Cap
         /\ taken' = taken + n /\ taken + n <= N
         /\ \A k \in 0..(Cap - 1) :
              ctx'.data[k] = IF k \in ctx.write..(ctx.write + n - 1)
                             THEN taken + (k - ctx.write + 1) ELSE ctx.data[k]
<1> DEFINE s == [k \in 1..n |-> taken + k]
           data == [k \in 0..(Cap - 1) |->
                      IF k \in ctx.write..(ctx.write + n - 1)
                      THEN s[k - ctx.write + 1] ELSE ctx.data[k]]
<1>1. /\ ctx.read \in 0..Cap /\ ctx.write \in 0..Cap /\ ctx.data \in [0..(Cap - 1) -> Cell]
      /\ ctx = [data |-> ctx.data, read |-> ctx.read, write |-> ctx.write]
      /\ taken \in 0..N /\ sent \in 0..Packets
  BY DEF TypeOK, Context
<1>2. Start[sent + 1] \in Nat /\ Start[sent + 1] <= N + 1 /\ Cap \in Nat /\ N \in Nat
  BY <1>1, StreamFacts
<1>3. /\ transferred = 0 /\ transferred' = n /\ taken' = taken + n
      /\ ctx.write + n <= Cap /\ taken + n <= N
  BY <1>1, <1>2 DEF Deliver, RemainSize
<1>4. n \in Nat /\ Len(s) = n
  BY <1>2
<1>5. ctx' = [ctx EXCEPT !.data = data]
  <2>1. PutBytes(ctx, s) = [ctx EXCEPT !.data = data, !.write = ctx.write + n]
    BY <1>4 DEF PutBytes
  <2> HIDE DEF data
  <2>2. PutBytes(ctx, s).data = data
    BY <1>1, <2>1
  <2> QED BY <2>2 DEF Deliver
<1>6. \A k \in 0..(Cap - 1) :
        data[k] = IF k \in ctx.write..(ctx.write + n - 1)
                  THEN taken + (k - ctx.write + 1) ELSE ctx.data[k]
  BY <1>1, <1>2, <1>4
<1>7. data \in [0..(Cap - 1) -> Cell]
  <2> SUFFICES ASSUME NEW k \in 0..(Cap - 1) PROVE data[k] \in Cell
    OBVIOUS
  <2> HIDE DEF data, s
  <2>1. CASE k \in ctx.write..(ctx.write + n - 1)
    <3>1. data[k] = taken + (k - ctx.write + 1)
      BY <1>6, <2>1
    <3>2. k - ctx.write + 1 \in 1..n /\ taken \in Nat
      BY <1>1, <1>2, <1>4, <2>1
    <3>3. data[k] \in 0..N
      BY <1>2, <1>3, <1>4, <3>1, <3>2
    <3> QED BY <3>3 DEF Cell
  <2>2. CASE k \notin ctx.write..(ctx.write + n - 1)
    <3>1. data[k] = ctx.data[k]
      BY <1>6, <2>2
    <3> QED BY <1>1, <3>1
  <2> QED BY <2>1, <2>2
<1> HIDE DEF data, s
<1>8. ctx' = [data |-> data, read |-> ctx.read, write |-> ctx.write]
  BY <1>1, <1>5
<1> QED BY <1>1, <1>3, <1>6, <1>7, <1>8 DEF Context

(* The early return: the bytes are counted and no receive is posted.  It is    *)
(* not taken when the data are just what the header announces.              *)
Failed ==
  /\ ~(ctx.read < Cap /\ announce[ctx.data[ctx.read]] = Filled - ctx.read)
  /\ ctx'.read = ctx.read /\ ctx'.write = Filled /\ ctx'.data = ctx.data
  /\ dispatched' = dispatched /\ posted' = FALSE

(* The packet at the read position is dispatched; what is behind it, or behind *)
(* transferred more, goes to the front, or the context is emptied.          *)
Succeeded(n) ==
  /\ ctx.read + n <= Filled /\ n = announce[ctx.data[ctx.read]]
  /\ dispatched' = Append(dispatched, [k \in 1..n |-> ctx.data[ctx.read + k - 1]])
  /\ posted' = TRUE /\ overrun' = overrun
  /\ \/ ctx'.read = 0 /\ ctx'.write = 0
     \/ /\ ctx'.read >= ctx.read + n /\ ctx'.read < Filled
        /\ ctx'.write = Filled - ctx'.read
        /\ \A k \in 0..(ctx'.write - 1) : ctx'.data[k] = ctx.data[ctx'.read + k]

LEMMA Handled ==
  ASSUME TypeOK, NEW n \in 1..MaxAnnounce, HandleReceive(n)
  PROVE  /\ transferred > 0 /\ transferred' = 0 /\ Filled <= Cap
         /\ ctx' \in Context
         /\ UNCHANGED <<announce, sent, taken, disturbed>>
         /\ overrun' \in BOOLEAN
         /\ Failed \/ Succeeded(n)
<1> DEFINE c == WriteDone(ctx, transferred)
           d == TakePacket(c, n)
           f == ReadDone(d, transferred)
<1>1. /\ ctx.read \in 0..Cap /\ ctx.write \in 0..Cap /\ ctx.data \in [0..(Cap - 1) -> Cell]
      /\ ctx = [data |-> ctx.data, read |-> ctx.read, write |-> ctx.write]
      /\ Cap \in Nat /\ MaxAnnounce \in Nat
      /\ transferred \in 0..Cap /\ transferred <= Cap - ctx.write
  BY StreamFacts DEF TypeOK, Context, RemainSize
<1>2. transferred > 0 /\ Filled \in 0..Cap /\ ctx.write + transferred <= Cap
  BY <1>1 DEF HandleReceive, Filled
<1>3. c = [data |-> ctx.data, read |-> ctx.read, write |-> Filled]
  BY <1>1 DEF WriteDone, CanWrite, RemainSize, Filled
<1>4. /\ transferred' = 0 /\ UNCHANGED <<announce, sent, taken, disturbed>>
      /\ n \in Announced(c)
      /\ IF GetsPacket(c, n)
         THEN /\ dispatched' = Append(dispatched,
                                      [k \in 1..n |-> c.data[c.read + k - 1]])
              /\ ctx' = NextContext(d)
              /\ posted' = TRUE
         ELSE ctx' = c /\ posted' = FALSE /\ UNCHANGED dispatched
      /\ overrun' = (overrun \/ CopyOverruns(c, n))
  BY DEF HandleReceive
<1> HIDE DEF c
<1>7. overrun \in BOOLEAN /\ overrun' \in BOOLEAN
  BY <1>4 DEF TypeOK
<1>5. CASE ~GetsPacket(c, n)
  <2>0. ~(ctx.read < Cap /\ announce[ctx.data[ctx.read]] = Filled - ctx.read)
    <3> SUFFICES ASSUME ctx.read < Cap, announce[ctx.data[ctx.read]] = Filled - ctx.read
                 PROVE  FALSE
      OBVIOUS
    <3>1. n = Filled - ctx.read
      BY <1>3, <1>4 DEF Announced
    <3>2. DataSize(c) = n
      BY <1>3, <3>1 DEF DataSize
    <3> QED BY <1>1, <1>5, <3>2 DEF GetsPacket, Copies, Short, Header, CanRead
  <2>1. ctx' \in Context /\ Failed
    BY <1>1, <1>2, <1>3, <1>4, <1>5, <2>0 DEF Context, Failed
  <2> QED BY <1>2, <1>4, <1>7, <2>1
<1>6. CASE GetsPacket(c, n)
  <2>1. ctx.read + n <= Filled /\ ctx.read < Cap
    BY <1>1, <1>2, <1>3, <1>6 DEF GetsPacket, CanRead, DataSize
  <2>0. overrun' = overrun
    <3>1. ~(c.read + n > Cap)
      BY <1>1, <1>2, <1>3, <2>1
    <3>2. overrun' = overrun \/ overrun' = (overrun \/ FALSE)
      BY <1>4, <3>1 DEF CopyOverruns
    <3> QED BY <1>7, <3>2
  <2>2. n = announce[ctx.data[ctx.read]]
    BY <1>3, <1>4, <2>1 DEF Announced
  <2>3. d = [data |-> ctx.data, read |-> ctx.read + n, write |-> Filled]
    BY <1>1, <1>2, <1>3, <2>1 DEF TakePacket, ReadDone, CanRead, DataSize
  <2> HIDE DEF d
  <2>4. /\ f = [data |-> ctx.data, read |-> f.read, write |-> Filled]
        /\ f.read >= ctx.read + n /\ f.read <= Filled /\ f.read \in Nat
        /\ f.data = ctx.data /\ f.write = Filled
    <3>1. CASE transferred <= DataSize(d)
      <4>1. f = [d EXCEPT !.read = d.read + transferred]
        BY <3>1 DEF ReadDone, CanRead
      <4>2. f = [data |-> ctx.data, read |-> ctx.read + n + transferred, write |-> Filled]
        BY <2>3, <4>1
      <4>3. ctx.read + n + transferred <= Filled
        BY <1>1, <1>2, <2>1, <2>3, <3>1 DEF DataSize
      <4> QED BY <1>1, <1>2, <4>2, <4>3
    <3>2. CASE ~(transferred <= DataSize(d))
      BY <1>1, <1>2, <2>1, <2>3, <3>2 DEF ReadDone, CanRead
    <3> QED BY <3>1, <3>2
  <2>5. ctx' = AlignBuffer(f)
    BY <1>4, <1>6 DEF NextContext
  <2> HIDE DEF f
  <2>6. f \in Context /\ f.read > 0
    BY <1>1, <1>2, <2>1, <2>4 DEF Context
  <2>7. /\ ctx' \in Context
        /\ \/ ctx'.read = 0 /\ ctx'.write = 0
           \/ /\ f.read < Filled /\ ctx'.read = f.read /\ ctx'.write = Filled - f.read
              /\ \A k \in 0..(ctx'.write - 1) : ctx'.data[k] = ctx.data[f.read + k]
    BY <2>4, <2>5, <2>6, Aligned
  <2>8. dispatched' = Append(dispatched, [k \in 1..n |-> ctx.data[ctx.read + k - 1]])
    BY <1>3, <1>4, <1>6
  <2>9. Succeeded(n)
    BY <1>4, <1>6, <2>0, <2>1, <2>2, <2>4, <2>7, <2>8 DEF Succeeded
  <2> QED BY <1>2, <1>4, <1>7, <2>7, <2>9
<1> QED BY <1>5, <1>6

-----------------------------------------------------------------------------
(* Types *)

LEMMA InitFacts ==
  Init => /\ TypeOK /\ Filled = 0 /\ taken = 0 /\ dispatched = <<>>
          /\ ctx.read = 0 /\ ctx.write = 0 /\ posted = TRUE /\ transferred = 0
          /\ overrun = FALSE
          /\ \A m \in 1..Packets : announce[Start[m]] = Size(m)
<1> SUFFICES ASSUME Init
             PROVE  /\ TypeOK /\ Filled = 0 /\ taken = 0 /\ dispatched = <<>>
                    /\ ctx.read = 0 /\ ctx.write = 0 /\ posted = TRUE /\ transferred = 0
                    /\ overrun = FALSE
                    /\ \A m \in 1..Packets : announce[Start[m]] = Size(m)
  OBVIOUS
<1>1. /\ announce \in [Cell -> 1..MaxAnnounce]
      /\ \A m \in 1..Packets : announce[Start[m]] = Size(m)
      /\ sent = 0 /\ taken = 0 /\ ctx = EmptyContext /\ posted = TRUE
      /\ transferred = 0 /\ dispatched = <<>> /\ disturbed = FALSE
      /\ overrun = FALSE
  BY DEF Init
<1>2. Cap \in Nat /\ Packets \in Nat /\ N \in Nat /\ 0 \in Cell
  BY StreamFacts
<1>3. ctx \in Context /\ ctx.read = 0 /\ ctx.write = 0
  BY <1>1, <1>2 DEF EmptyContext, Context, Zero
<1>4. TypeOK
  BY <1>1, <1>2, <1>3, EmptySeq DEF TypeOK, RemainSize
<1> QED BY <1>1, <1>3, <1>4 DEF Filled

LEMMA TypeStep == TypeOK /\ [Next]_vars => TypeOK'
<1> SUFFICES ASSUME TypeOK, [Next]_vars PROVE TypeOK'
  OBVIOUS
<1>0. /\ Cap \in Nat /\ N \in Nat /\ Packets \in Nat /\ taken \in 0..N
      /\ dispatched \in Seq(Seq(Cell))
  BY StreamFacts DEF TypeOK
<1>1. CASE PeerSend
  BY <1>0, <1>1 DEF PeerSend, TypeOK, RemainSize
<1>2. ASSUME NEW n \in 1..Cap, Deliver(n) PROVE TypeOK'
  <2>1. /\ UNCHANGED <<announce, sent, posted, dispatched, overrun>>
        /\ disturbed' \in BOOLEAN
    BY <1>2 DEF Deliver, TypeOK
  <2>2. /\ ctx' \in Context /\ ctx'.write = ctx.write /\ transferred' = n
        /\ ctx.write + n <= Cap /\ taken' = taken + n /\ taken + n <= N
    BY <1>2, Delivered
  <2>3. ctx'.write \in 0..Cap
    BY <2>2 DEF Context
  <2>4. transferred' \in 0..Cap /\ transferred' <= Cap - ctx'.write /\ taken' \in 0..N
    BY <1>0, <2>2, <2>3
  <2> QED BY <2>1, <2>2, <2>4 DEF TypeOK, RemainSize
<1>3. ASSUME NEW n \in 1..MaxAnnounce, HandleReceive(n) PROVE TypeOK'
  <2>1. /\ transferred' = 0 /\ ctx' \in Context /\ Filled <= Cap
        /\ UNCHANGED <<announce, sent, taken, disturbed>> /\ (Failed \/ Succeeded(n))
        /\ overrun' \in BOOLEAN
    BY <1>3, Handled
  <2>2. posted' \in BOOLEAN
    BY <2>1 DEF Failed, Succeeded
  <2>3. dispatched' \in Seq(Seq(Cell))
    <3>1. CASE Failed
      BY <1>0, <3>1 DEF Failed
    <3>2. CASE Succeeded(n)
      <4> DEFINE s == [k \in 1..n |-> ctx.data[ctx.read + k - 1]]
      <4>1. /\ ctx.read \in 0..Cap /\ ctx.data \in [0..(Cap - 1) -> Cell]
            /\ ctx.read + n <= Filled /\ n \in Nat /\ ctx.write \in 0..Cap
            /\ transferred \in 0..Cap
        BY <1>0, <3>2, StreamFacts DEF Succeeded, TypeOK, Context
      <4>2. \A k \in 1..n : ctx.data[ctx.read + k - 1] \in Cell
        <5> TAKE k \in 1..n
        <5>1. Filled \in Nat
          BY <4>1 DEF Filled
        <5>2. ctx.read + k - 1 \in 0..(Cap - 1)
          BY <1>0, <2>1, <4>1, <5>1
        <5> QED BY <4>1, <5>2
      <4>3. s \in Seq(Cell)
        BY <4>1, <4>2
      <4>4. dispatched' = Append(dispatched, s)
        BY <3>2 DEF Succeeded
      <4> HIDE DEF s
      <4> QED BY <1>0, <4>3, <4>4, AppendProperties
    <3> QED BY <2>1, <3>1, <3>2
  <2>4. transferred' \in 0..Cap /\ transferred' <= Cap - ctx'.write
    <3>1. ctx'.write \in 0..Cap
      BY <2>1 DEF Context
    <3> QED BY <1>0, <2>1, <3>1
  <2> QED BY <2>1, <2>2, <2>3, <2>4 DEF TypeOK, RemainSize
<1>4. CASE UNCHANGED vars
  BY <1>4 DEF vars, TypeOK, RemainSize
<1> QED BY <1>1, <1>2, <1>3, <1>4 DEF Next

(* The positions stay in the buffer, and a completion never has more bytes     *)
(* than the buffer has room for: with any segmentation and any header, though *)
(* DataSize may be negative.                                               *)
THEOREM TypeCorrect == Spec => []TypeOK
<1>1. Init => TypeOK
  BY InitFacts
<1> QED BY <1>1, TypeStep, PTL DEF Spec

-----------------------------------------------------------------------------
(* Bytes *)

(* Numbers the steps below compute with. *)
LEMMA Numbers ==
  TypeOK => /\ Cap \in Nat /\ N \in Nat /\ Packets \in Nat
            /\ ctx.read \in 0..Cap /\ ctx.write \in 0..Cap /\ transferred \in 0..Cap
            /\ Filled \in 0..Cap /\ taken \in 0..N /\ Filled = ctx.write + transferred
            /\ dispatched \in Seq(Seq(Cell)) /\ Len(dispatched) \in Nat
            /\ \A m \in 1..Len(dispatched) :
                 /\ dispatched[m] \in Seq(Cell) /\ Len(dispatched[m]) \in Nat
                 /\ \A k \in 1..Len(dispatched[m]) : dispatched[m][k] \in Nat
<1> SUFFICES ASSUME TypeOK
             PROVE  /\ Cap \in Nat /\ N \in Nat /\ Packets \in Nat
                    /\ ctx.read \in 0..Cap /\ ctx.write \in 0..Cap
                    /\ transferred \in 0..Cap /\ Filled \in 0..Cap /\ taken \in 0..N
                    /\ Filled = ctx.write + transferred
                    /\ dispatched \in Seq(Seq(Cell)) /\ Len(dispatched) \in Nat
                    /\ \A m \in 1..Len(dispatched) :
                         /\ dispatched[m] \in Seq(Cell) /\ Len(dispatched[m]) \in Nat
                         /\ \A k \in 1..Len(dispatched[m]) : dispatched[m][k] \in Nat
  OBVIOUS
<1>1. /\ Cap \in Nat /\ N \in Nat /\ Packets \in Nat /\ taken \in 0..N
      /\ ctx.read \in 0..Cap /\ ctx.write \in 0..Cap /\ transferred \in 0..Cap
      /\ transferred <= Cap - ctx.write
  BY StreamFacts DEF TypeOK, Context, RemainSize
<1>2. Filled \in 0..Cap /\ Filled = ctx.write + transferred
  BY <1>1 DEF Filled
<1>3. dispatched \in Seq(Seq(Cell)) /\ Len(dispatched) \in Nat
  BY DEF TypeOK
<1>4. ASSUME NEW m \in 1..Len(dispatched)
      PROVE  /\ dispatched[m] \in Seq(Cell) /\ Len(dispatched[m]) \in Nat
             /\ \A k \in 1..Len(dispatched[m]) : dispatched[m][k] \in Nat
  <2>1. dispatched[m] \in Seq(Cell)
    BY <1>3
  <2>2. \A k \in 1..Len(dispatched[m]) : dispatched[m][k] \in Cell
    BY <2>1
  <2> QED BY <1>1, <2>1, <2>2 DEF Cell
<1> QED BY <1>1, <1>2, <1>3, <1>4

(* A packet that is dispatched is a run of the bytes before those that the    *)
(* new read position has, after all that was dispatched.                    *)
LEMMA SucceedsInOrder ==
  ASSUME TypeOK, LastBytes, Behind, EachByteOnce,
         NEW n \in 1..MaxAnnounce, HandleReceive(n), Succeeded(n)
  PROVE  LastBytes' /\ Behind' /\ EachByteOnce'
<1> DEFINE at == taken - Filled + ctx.read
           s == [k \in 1..n |-> ctx.data[ctx.read + k - 1]]
<1>0. /\ Cap \in Nat /\ N \in Nat
      /\ ctx.read \in 0..Cap /\ ctx.write \in 0..Cap /\ transferred \in 0..Cap
      /\ Filled \in 0..Cap /\ taken \in 0..N /\ Filled = ctx.write + transferred
      /\ dispatched \in Seq(Seq(Cell)) /\ Len(dispatched) \in Nat
      /\ \A m \in 1..Len(dispatched) :
           /\ dispatched[m] \in Seq(Cell) /\ Len(dispatched[m]) \in Nat
           /\ \A k \in 1..Len(dispatched[m]) : dispatched[m][k] \in Nat
  BY Numbers
<1>a. /\ ctx.read \in Nat /\ ctx.write \in Nat /\ transferred \in Nat
      /\ Filled \in Nat /\ Filled <= Cap /\ taken \in Nat /\ Cap \in Nat
  BY <1>0
<1>1. n \in Nat /\ n >= 1
  BY StreamFacts
<1>2. transferred' = 0 /\ taken' = taken /\ ctx' \in Context
  BY Handled
<1>3. Filled' = ctx'.write /\ ctx'.read \in Nat /\ ctx'.write \in Nat
  BY <1>0, <1>2 DEF Filled, Context
<1>4. ctx.read + n <= Filled /\ Filled <= taken /\ at \in Nat /\ at + n <= taken
  <2>1. ctx.read + n <= Filled /\ Filled <= taken
    BY DEF Succeeded, LastBytes
  <2> QED BY <1>a, <1>1, <2>1
<1>5. Len(s) = n /\ \A k \in 1..n : s[k] = at + k
  <2>1. \A k \in 1..n : ctx.data[ctx.read + k - 1] = at + k
    <3> TAKE k \in 1..n
    <3>1. ctx.read + k - 1 \in 0..(Filled - 1)
      BY <1>a, <1>1, <1>4
    <3>2. ctx.data[ctx.read + k - 1] = taken - Filled + (ctx.read + k - 1) + 1
      BY <3>1 DEF LastBytes
    <3> QED BY <1>a, <1>1, <3>2
  <2> QED BY <1>1, <2>1
<1>6. /\ Len(dispatched') = Len(dispatched) + 1
      /\ \A m \in 1..Len(dispatched) : dispatched'[m] = dispatched[m]
      /\ dispatched'[Len(dispatched) + 1] = s
  <2>1. dispatched' = Append(dispatched, s)
    BY DEF Succeeded
  <2> HIDE DEF s
  <2> QED BY <1>0, <2>1
<1> HIDE DEF s
<1>7. LastBytes'
  <2>1. CASE ctx'.read = 0 /\ ctx'.write = 0
    BY <1>0, <1>2, <1>3, <2>1 DEF LastBytes
  <2>2. CASE /\ ctx'.read < Filled /\ ctx'.write = Filled - ctx'.read
             /\ \A k \in 0..(ctx'.write - 1) : ctx'.data[k] = ctx.data[ctx'.read + k]
    <3>1. Filled' <= taken
      BY <1>a, <1>3, <1>4, <2>2
    <3>2. \A k \in 0..(Filled' - 1) : ctx'.data[k] = taken - Filled' + k + 1
      <4> TAKE k \in 0..(Filled' - 1)
      <4>1. ctx'.data[k] = ctx.data[ctx'.read + k] /\ ctx'.read + k \in 0..(Filled - 1)
        BY <1>a, <1>3, <2>2
      <4>2. ctx.data[ctx'.read + k] = taken - Filled + (ctx'.read + k) + 1
        BY <4>1 DEF LastBytes
      <4> QED BY <1>a, <1>3, <2>2, <4>1, <4>2
    <3> QED BY <1>2, <3>1, <3>2 DEF LastBytes
  <2> QED BY <2>1, <2>2 DEF Succeeded
<1>8. at + n <= taken' - Filled' + ctx'.read /\ at + n <= taken'
  <2>1. CASE ctx'.read = 0 /\ ctx'.write = 0
    BY <1>a, <1>1, <1>2, <1>3, <1>4, <2>1
  <2>2. CASE ctx'.read >= ctx.read + n /\ ctx'.write = Filled - ctx'.read
    BY <1>a, <1>1, <1>2, <1>3, <1>4, <2>2
  <2> QED BY <2>1, <2>2 DEF Succeeded
<1>9. \A m \in 1..Len(dispatched) :
        /\ Len(dispatched[m]) >= 1 /\ dispatched[m][Len(dispatched[m])] \in Nat
        /\ dispatched[m][Len(dispatched[m])] <= at
  <2> TAKE m \in 1..Len(dispatched)
  <2>1. /\ Len(dispatched[m]) >= 1
        /\ dispatched[m][Len(dispatched[m])] <= taken - Filled + ctx.read
    BY DEF Behind
  <2>2. /\ Len(dispatched[m]) \in Nat
        /\ \A k \in 1..Len(dispatched[m]) : dispatched[m][k] \in Nat
    BY <1>0
  <2>3. dispatched[m][Len(dispatched[m])] \in Nat
    BY <2>1, <2>2
  <2> QED BY <2>1, <2>3
<1>10. Behind'
  <2> SUFFICES ASSUME NEW m \in 1..Len(dispatched')
               PROVE  LET t == dispatched'[m] IN
                      /\ Len(t) >= 1 /\ t[Len(t)] <= taken'
                      /\ t[Len(t)] <= taken' - Filled' + ctx'.read
    BY DEF Behind
  <2>1. CASE m = Len(dispatched) + 1
    BY <1>1, <1>5, <1>6, <1>8, <2>1
  <2>2. CASE m # Len(dispatched) + 1
    <3>1. m \in 1..Len(dispatched) /\ dispatched'[m] = dispatched[m]
      BY <1>0, <1>6, <2>2
    <3>2. /\ Len(dispatched[m]) >= 1 /\ dispatched[m][Len(dispatched[m])] \in Nat
          /\ dispatched[m][Len(dispatched[m])] <= at
      BY <1>9, <3>1
    <3> HIDE DEF at
    <3>3. at <= taken' - Filled' + ctx'.read /\ at <= taken'
      BY <1>a, <1>1, <1>2, <1>3, <1>4, <1>8
    <3> QED BY <1>a, <1>2, <1>3, <1>4, <3>1, <3>2, <3>3
  <2> QED BY <2>1, <2>2
<1>11. EachByteOnce'
  <2>1. ASSUME NEW m \in 1..Len(dispatched')
        PROVE  LET t == dispatched'[m] IN
               t[1] # Zero /\ \A k \in 1..Len(t) : t[k] = t[1] + k - 1
    <3>1. CASE m = Len(dispatched) + 1
      BY <1>1, <1>4, <1>5, <1>6, <3>1 DEF Zero
    <3>2. CASE m # Len(dispatched) + 1
      <4>1. m \in 1..Len(dispatched) /\ dispatched'[m] = dispatched[m]
        BY <1>0, <1>6, <3>2
      <4> QED BY <4>1 DEF EachByteOnce
    <3> QED BY <3>1, <3>2
  <2>2. ASSUME NEW l \in 1..Len(dispatched'), NEW m \in 1..Len(dispatched'), l < m
        PROVE  LET t == dispatched'[l] IN t[Len(t)] < dispatched'[m][1]
    <3>1. l \in 1..Len(dispatched) /\ dispatched'[l] = dispatched[l]
      BY <1>0, <1>6, <2>2
    <3>2. CASE m = Len(dispatched) + 1
      <4>1. dispatched'[m][1] = at + 1
        BY <1>1, <1>5, <1>6, <3>2
      <4> QED BY <1>4, <1>9, <3>1, <4>1
    <3>3. CASE m # Len(dispatched) + 1
      <4>1. m \in 1..Len(dispatched) /\ dispatched'[m] = dispatched[m]
        BY <1>0, <1>6, <3>3
      <4> QED BY <2>2, <3>1, <4>1 DEF EachByteOnce
    <3> QED BY <3>2, <3>3
  <2> QED BY <2>1, <2>2 DEF EachByteOnce
<1> QED BY <1>7, <1>10, <1>11

LEMMA BytesStep == ByteInv /\ [Next]_vars => ByteInv'
<1> SUFFICES ASSUME ByteInv, [Next]_vars PROVE LastBytes' /\ Behind' /\ EachByteOnce'
  BY TypeStep DEF ByteInv
<1>0. /\ Cap \in Nat /\ N \in Nat
      /\ ctx.read \in 0..Cap /\ ctx.write \in 0..Cap /\ transferred \in 0..Cap
      /\ Filled \in 0..Cap /\ taken \in 0..N /\ Filled = ctx.write + transferred
      /\ Len(dispatched) \in Nat
      /\ \A m \in 1..Len(dispatched) :
           /\ Len(dispatched[m]) \in Nat
           /\ \A k \in 1..Len(dispatched[m]) : dispatched[m][k] \in Nat
  BY Numbers DEF ByteInv
<1>a. ctx.read \in Nat /\ ctx.write \in Nat /\ taken \in Nat /\ Filled \in Nat
  BY <1>0
<1>1. TypeOK /\ LastBytes /\ Behind /\ EachByteOnce
  BY DEF ByteInv
<1>2. CASE PeerSend \/ UNCHANGED vars
  BY <1>1, <1>2 DEF PeerSend, vars, Filled, LastBytes, Behind, EachByteOnce
<1>3. ASSUME NEW n \in 1..Cap, Deliver(n) PROVE LastBytes' /\ Behind' /\ EachByteOnce'
  <2>1. /\ ctx'.read = ctx.read /\ ctx'.write = ctx.write
        /\ transferred = 0 /\ transferred' = n /\ ctx.write + n <= Cap
        /\ taken' = taken + n
        /\ \A k \in 0..(Cap - 1) :
             ctx'.data[k] = IF k \in ctx.write..(ctx.write + n - 1)
                            THEN taken + (k - ctx.write + 1) ELSE ctx.data[k]
    BY <1>1, <1>3, Delivered
  <2>2. n \in Nat /\ Filled = ctx.write /\ Filled' = ctx.write + n
    BY <1>0, <2>1 DEF Filled
  <2>3. dispatched' = dispatched
    BY <1>3 DEF Deliver
  <2>4. LastBytes'
    <3>1. Filled' <= taken'
      BY <1>0, <1>1, <2>1, <2>2 DEF LastBytes
    <3>2. ASSUME NEW k \in 0..(Filled' - 1)
          PROVE  ctx'.data[k] = taken' - Filled' + k + 1
      <4>1. k \in 0..(Cap - 1)
        BY <1>0, <2>1, <2>2
      <4>2. CASE k \in ctx.write..(ctx.write + n - 1)
        BY <1>a, <2>1, <2>2, <4>1, <4>2
      <4>3. CASE k \notin ctx.write..(ctx.write + n - 1)
        <5>1. k \in 0..(Filled - 1) /\ ctx'.data[k] = ctx.data[k]
          BY <1>0, <2>1, <2>2, <4>1, <4>3
        <5>2. ctx.data[k] = taken - Filled + k + 1
          BY <1>1, <5>1 DEF LastBytes
        <5> QED BY <1>0, <2>1, <2>2, <5>1, <5>2
      <4> QED BY <4>2, <4>3
    <3> QED BY <3>1, <3>2 DEF LastBytes
  <2>5. Behind'
    <3> SUFFICES ASSUME NEW m \in 1..Len(dispatched)
                 PROVE  LET s == dispatched[m] IN
                        /\ Len(s) >= 1 /\ s[Len(s)] <= taken'
                        /\ s[Len(s)] <= taken' - Filled' + ctx'.read
      BY <2>3 DEF Behind
    <3>1. LET s == dispatched[m] IN
          /\ Len(s) >= 1 /\ s[Len(s)] <= taken /\ s[Len(s)] <= taken - Filled + ctx.read
      BY <1>1 DEF Behind
    <3>2. dispatched[m][Len(dispatched[m])] \in Nat
      BY <1>0, <3>1
    <3> QED BY <1>0, <2>1, <2>2, <3>1, <3>2
  <2>6. EachByteOnce'
    BY <1>1, <2>3 DEF EachByteOnce
  <2> QED BY <2>4, <2>5, <2>6
<1>4. ASSUME NEW n \in 1..MaxAnnounce, HandleReceive(n)
      PROVE  LastBytes' /\ Behind' /\ EachByteOnce'
  <2>1. transferred' = 0 /\ taken' = taken /\ (Failed \/ Succeeded(n))
    BY <1>1, <1>4, Handled
  <2>2. CASE Failed
    <3>1. /\ Filled' = Filled /\ ctx'.read = ctx.read /\ ctx'.data = ctx.data
          /\ dispatched' = dispatched
      BY <1>0, <2>1, <2>2 DEF Failed, Filled
    <3> QED BY <1>1, <2>1, <3>1 DEF LastBytes, Behind, EachByteOnce
  <2> QED BY <1>1, <1>4, <2>1, <2>2, SucceedsInOrder
<1> QED BY <1>2, <1>3, <1>4 DEF Next

(* However the stream is segmented and whatever the headers announce, what     *)
(* the service gets is runs of consecutive bytes of the stream, no byte twice *)
(* and none before an earlier one, although AlignBuffer forgets mReadPos.    *)
THEOREM NoByteTwice == Spec => []EachByteOnce
<1>1. Init => ByteInv
  <2> SUFFICES ASSUME Init PROVE ByteInv
    OBVIOUS
  <2>1. TypeOK /\ Filled = 0 /\ taken = 0 /\ dispatched = <<>>
    BY InitFacts
  <2>2. Len(dispatched) = 0
    BY <2>1
  <2> QED BY <2>1, <2>2 DEF ByteInv, LastBytes, Behind, EachByteOnce
<1>2. ByteInv => EachByteOnce
  BY DEF ByteInv
<1> QED BY <1>1, <1>2, BytesStep, PTL DEF Spec

-----------------------------------------------------------------------------
(* Framing *)

(* While every completion is a packet, the context is empty when one comes   *)
(* and the packet it brings is the next to be dispatched.                    *)
Framed ==
  /\ ~overrun
  /\ posted /\ ctx.read = 0 /\ ctx.write = 0
  /\ Len(dispatched) <= Packets
  /\ transferred = 0 => taken + 1 = Start[Len(dispatched) + 1]
  /\ transferred > 0 => /\ Len(dispatched) < Packets
                        /\ transferred = Size(Len(dispatched) + 1)
                        /\ taken + 1 = Start[Len(dispatched) + 2]
  /\ \A m \in 1..Len(dispatched) :
       dispatched[m] = [k \in 1..Size(m) |-> Start[m] + k - 1]

FrameInv ==
  /\ ByteInv
  /\ \A m \in 1..Packets : announce[Start[m]] = Size(m)
  /\ ~disturbed => Framed

LEMMA Sizes ==
  \A m \in 1..Packets : /\ Size(m) \in 1..Cap /\ Start[m] \in Nat /\ Start[m] >= 1
                        /\ Start[m + 1] = Start[m] + Size(m)
<1> TAKE m \in 1..Packets
<1>1. m \in 1..(Packets + 1) /\ m + 1 \in 1..(Packets + 1)
  BY StreamFacts
<1>2. Start[m] \in Nat /\ Start[m + 1] \in Nat /\ Start[m] >= 1
  BY <1>1, StreamFacts
<1>3. m < m + 1
  BY StreamFacts
<1>4. Start[m] < Start[m + 1] /\ Size(m) <= Cap
  BY <1>1, <1>3, ReceiveAssumption
<1> QED BY <1>2, <1>4, StreamFacts DEF Size

(* A packet starts at a byte at most once. *)
LEMMA OneStart ==
  \A l, m \in 1..(Packets + 1) : Start[l] = Start[m] => l = m
<1> TAKE l, m \in 1..(Packets + 1)
<1>1. l < m => Start[l] < Start[m]
  BY ReceiveAssumption
<1>2. m < l => Start[m] < Start[l]
  BY ReceiveAssumption
<1>3. Start[l] \in Nat /\ Start[m] \in Nat /\ Packets \in Nat
  BY StreamFacts
<1> QED BY <1>1, <1>2, <1>3

LEMMA FrameDelivered ==
  ASSUME FrameInv, NEW n \in 1..Cap, Deliver(n), ~disturbed'
  PROVE  Framed'
<1>0. /\ Cap \in Nat /\ N \in Nat /\ Packets \in Nat /\ taken \in Nat
      /\ Len(dispatched) \in Nat
  BY Numbers DEF FrameInv, ByteInv
<1>1. PICK m \in 1..Packets : Start[m] = taken + 1 /\ Size(m) = n
  BY DEF Deliver
<1>2. ~disturbed /\ Framed
  BY DEF Deliver, FrameInv
<1>3. /\ ctx'.read = 0 /\ ctx'.write = 0 /\ transferred = 0 /\ transferred' = n
      /\ taken' = taken + n /\ dispatched' = dispatched /\ posted' /\ ~overrun'
  BY <1>2, Delivered DEF Framed, FrameInv, ByteInv, Deliver
<1>4. Start[Len(dispatched) + 1] = taken + 1 /\ Len(dispatched) <= Packets
  BY <1>2, <1>3 DEF Framed
<1>5. m = Len(dispatched) + 1
  <2>1. m \in 1..(Packets + 1) /\ Len(dispatched) + 1 \in 1..(Packets + 1)
    BY <1>0, <1>4
  <2> QED BY <1>1, <1>4, <2>1, OneStart
<1>6. Len(dispatched) < Packets /\ transferred' = Size(Len(dispatched) + 1)
  BY <1>0, <1>1, <1>3, <1>5
<1>7. taken' + 1 = Start[Len(dispatched) + 2]
  <2>1. Start[m + 1] = Start[m] + Size(m) /\ n \in Nat /\ m + 1 = Len(dispatched) + 2
    <3>1. Start[m + 1] = Start[m] + Size(m) /\ n \in Nat
      BY <1>1, Sizes
    <3> QED BY <1>0, <1>5, <3>1
  <2> QED BY <1>0, <1>1, <1>3, <2>1
<1>8. transferred' # 0
  BY <1>3
<1> QED BY <1>2, <1>3, <1>4, <1>6, <1>7, <1>8 DEF Framed

LEMMA FrameHandled ==
  ASSUME FrameInv, NEW n \in 1..MaxAnnounce, HandleReceive(n), ~disturbed'
  PROVE  Framed'
<1> DEFINE m == Len(dispatched) + 1
<1>0. /\ Cap \in Nat /\ N \in Nat /\ Packets \in Nat /\ taken \in Nat
      /\ Len(dispatched) \in Nat /\ dispatched \in Seq(Seq(Cell))
      /\ transferred \in Nat
  BY Numbers DEF FrameInv, ByteInv
<1>1. /\ transferred > 0 /\ transferred' = 0 /\ Filled <= Cap /\ taken' = taken
      /\ UNCHANGED <<announce, disturbed>> /\ (Failed \/ Succeeded(n))
  BY Handled DEF FrameInv, ByteInv
<1>2. Framed /\ LastBytes /\ \A l \in 1..Packets : announce[Start[l]] = Size(l)
  BY <1>1 DEF FrameInv, ByteInv
<1>3. /\ ctx.read = 0 /\ ctx.write = 0 /\ Filled = transferred
      /\ m \in 1..Packets /\ transferred = Size(m) /\ taken + 1 = Start[m + 1]
  BY <1>0, <1>1, <1>2 DEF Framed, Filled
<1>4. Size(m) \in 1..Cap /\ Start[m] \in Nat /\ Start[m + 1] = Start[m] + Size(m)
  BY <1>3, Sizes
<1>5. taken - Filled + 1 = Start[m]
  BY <1>0, <1>3, <1>4
<1>6. \A k \in 0..(Size(m) - 1) : ctx.data[k] = Start[m] + k
  <2> TAKE k \in 0..(Size(m) - 1)
  <2>1. ctx.data[k] = taken - Filled + k + 1
    BY <1>2, <1>3 DEF LastBytes
  <2>2. k \in Nat /\ Filled \in Nat
    BY <1>0, <1>3, <1>4
  <2> QED BY <1>0, <1>5, <2>1, <2>2
<1>7. announce[ctx.data[0]] = Size(m)
  <2>1. ctx.data[0] = Start[m]
    BY <1>4, <1>6
  <2> QED BY <1>2, <1>3, <2>1
<1>8. Succeeded(n)
  <2>1. ~Failed
    BY <1>0, <1>3, <1>4, <1>7 DEF Failed
  <2> QED BY <1>1, <2>1
<1>9. n = Size(m)
  BY <1>3, <1>7, <1>8 DEF Succeeded
<1>10. posted' /\ ctx'.read = 0 /\ ctx'.write = 0 /\ ~overrun'
  <2>1. ctx'.read \in 0..Cap
    BY Handled DEF FrameInv, ByteInv, Context
  <2>2. n = Filled /\ n \in Nat
    BY <1>3, <1>4, <1>9
  <2>3. ~(ctx'.read >= ctx.read + n /\ ctx'.read < Filled)
    BY <1>0, <1>3, <2>1, <2>2
  <2> QED BY <1>2, <1>8, <2>3 DEF Succeeded, Framed
<1>11. /\ Len(dispatched') = m
       /\ \A l \in 1..Len(dispatched) : dispatched'[l] = dispatched[l]
       /\ dispatched'[m] = [k \in 1..Size(m) |-> Start[m] + k - 1]
  <2> DEFINE s == [k \in 1..n |-> ctx.data[ctx.read + k - 1]]
  <2>1. s = [k \in 1..Size(m) |-> Start[m] + k - 1]
    <3>1. ASSUME NEW k \in 1..Size(m) PROVE ctx.data[ctx.read + k - 1] = Start[m] + k - 1
      <4>1. ctx.read + k - 1 = k - 1 /\ k - 1 \in 0..(Size(m) - 1)
        BY <1>3, <1>4
      <4>2. ctx.data[k - 1] = Start[m] + (k - 1)
        BY <1>6, <4>1
      <4> QED BY <1>4, <4>1, <4>2
    <3> QED BY <1>9, <3>1
  <2>2. dispatched' = Append(dispatched, s)
    BY <1>8 DEF Succeeded
  <2> HIDE DEF s
  <2> QED BY <1>0, <2>1, <2>2
<1>12. \A l \in 1..Len(dispatched') :
         dispatched'[l] = [k \in 1..Size(l) |-> Start[l] + k - 1]
  <2> TAKE l \in 1..Len(dispatched')
  <2>1. CASE l = m
    BY <1>11, <2>1
  <2>2. CASE l # m
    <3>1. l \in 1..Len(dispatched)
      BY <1>0, <1>11, <2>2
    <3> QED BY <1>2, <1>11, <3>1 DEF Framed
  <2> QED BY <2>1, <2>2
<1>13. Len(dispatched') <= Packets /\ taken' + 1 = Start[Len(dispatched') + 1]
  BY <1>0, <1>1, <1>3, <1>11
<1> QED BY <1>1, <1>10, <1>12, <1>13 DEF Framed

LEMMA FrameStep == FrameInv /\ [Next]_vars => FrameInv'
<1> SUFFICES ASSUME FrameInv, [Next]_vars PROVE FrameInv'
  OBVIOUS
<1>1. ByteInv'
  BY BytesStep DEF FrameInv
<1>2. \A m \in 1..Packets : announce'[Start[m]] = Size(m)
  <2>1. announce' = announce
    BY DEF Next, PeerSend, Deliver, HandleReceive, vars
  <2> QED BY <2>1 DEF FrameInv
<1>3. ASSUME ~disturbed' PROVE Framed'
  <2>1. CASE PeerSend \/ UNCHANGED vars
    BY <1>3, <2>1 DEF PeerSend, vars, FrameInv, Framed
  <2>2. ASSUME NEW n \in 1..Cap, Deliver(n) PROVE Framed'
    BY <1>3, <2>2, FrameDelivered
  <2>3. ASSUME NEW n \in 1..MaxAnnounce, HandleReceive(n) PROVE Framed'
    BY <1>3, <2>3, FrameHandled
  <2> QED BY <2>1, <2>2, <2>3 DEF Next
<1> QED BY <1>1, <1>2, <1>3 DEF FrameInv

(* While each completion carries just one packet, the service gets the peer's  *)
(* packets, whole and in order, a receive stays posted, and no body is copied *)
(* from past the buffer.                                                   *)
THEOREM FramingHolds == Spec => []FramedWhileUndisturbed
<1>1. Init => FrameInv
  <2> SUFFICES ASSUME Init PROVE FrameInv
    OBVIOUS
  <2>1. /\ TypeOK /\ Filled = 0 /\ taken = 0 /\ dispatched = <<>>
        /\ ctx.read = 0 /\ ctx.write = 0 /\ posted = TRUE /\ transferred = 0
        /\ overrun = FALSE
        /\ \A m \in 1..Packets : announce[Start[m]] = Size(m)
    BY InitFacts
  <2>2. Len(dispatched) = 0
    BY <2>1
  <2>3. ByteInv
    BY <2>1, <2>2 DEF ByteInv, LastBytes, Behind, EachByteOnce
  <2>4. Start[1] = 1 /\ Packets \in Nat
    BY ReceiveAssumption, StreamFacts
  <2> QED BY <2>1, <2>2, <2>3, <2>4 DEF FrameInv, Framed
<1>2. FrameInv => FramedWhileUndisturbed
  BY DEF FrameInv, Framed, FramedWhileUndisturbed
<1> QED BY <1>1, <1>2, FrameStep, PTL DEF Spec
=============================================================================
