-------------------------- MODULE ChatPackets_proofs --------------------------
(***************************************************************************)
(* Proofs about ChatPackets, for any users, any buffer larger than a receive, *)
(* and any packets.                                                        *)
(***************************************************************************)
EXTENDS ChatPackets, SequenceTheorems, FunctionTheorems, FiniteSetTheorems, TLAPS

HandlerSteps == {"none", "posted", "check", "move", "wrap", "rewind", "copy",
                 "add", "push"}

(* What a receive brought fits a buffer, wherever Clear may put WritePos.     *)
Chunks ==
  /\ chunk \in [User -> Seq(0..StreamEnd)]
  /\ \A u \in User : Len(chunk[u]) <= MaxChunk

(* Between the test for room and the addition, the write position and the one *)
(* that was copied to leave room for the chunk: the only other thread that   *)
(* writes the position sets it to 0.                                       *)
RoomLeft ==
  \A u \in User :
    /\ hpc[u] = "rewind" => WritePos[u] = 0
    /\ hpc[u] \in {"copy", "add"} => WritePos[u] + Len(chunk[u]) < Size
    /\ hpc[u] = "add" => base[u] + Len(chunk[u]) < Size

WriteInv == TypeOK /\ Chunks /\ RoomLeft

-----------------------------------------------------------------------------

LEMMA Bounds ==
  /\ Size \in Nat \ {0} /\ MaxChunk \in Nat /\ MaxChunk < Size /\ MaxConn \in Nat
  /\ StreamEnd \in Nat /\ \A m \in Numbers : Start[m] - 1 \in 0..StreamEnd
<1> DEFINE n == Len(Start)
<1>1. n \in Nat \ {0} /\ DOMAIN Start = 1..n /\ \A m \in 1..n : Start[m] \in Nat
  BY ChatPacketsAssumption, EmptySeq
<1>2. Start[n] >= 1
  <2>1. CASE n = 1
    BY <2>1, ChatPacketsAssumption
  <2>2. CASE n # 1
    <3>1. 1 \in DOMAIN Start /\ n \in DOMAIN Start /\ 1 < n
      BY <1>1, <2>2
    <3> QED BY <1>1, <3>1, ChatPacketsAssumption
  <2> QED BY <2>1, <2>2
<1>3. StreamEnd \in Nat
  BY <1>1, <1>2 DEF StreamEnd
<1>4. ASSUME NEW m \in Numbers PROVE Start[m] - 1 \in 0..StreamEnd
  <2>1. m \in DOMAIN Start /\ n \in DOMAIN Start /\ m < n /\ 1 \in DOMAIN Start
        /\ (m = 1 \/ 1 < m)
    BY <1>1 DEF Numbers
  <2>2. Start[m] < Start[n] /\ Start[m] >= 1
    BY <1>1, <2>1, ChatPacketsAssumption
  <2> QED BY <1>1, <2>1, <2>2 DEF StreamEnd
<1> QED BY <1>3, <1>4, ChatPacketsAssumption

LEMMA InitWrite == Init => WriteInv
<1> SUFFICES ASSUME Init PROVE WriteInv
  OBVIOUS
<1> USE Bounds
<1>1. /\ mIncomingPacketUserIndex \in Seq(User) /\ mSystemPacketQueue \in Seq(User)
      /\ \A u \in User : chunk[u] \in Seq(0..StreamEnd) /\ Len(chunk[u]) = 0
  BY EmptySeq DEF Init
<1>2. TypeOK
  BY <1>1 DEF Init, TypeOK, GetsOn
<1>3. Chunks
  BY <1>1 DEF Init, Chunks
<1>4. RoomLeft
  BY DEF Init, RoomLeft
<1> QED BY <1>2, <1>3, <1>4 DEF WriteInv

(* A step of the handler of u to a place that asks for nothing. *)
LEMMA StepOn ==
  ASSUME WriteInv, NEW u \in User, NEW from, NEW to \in HandlerSteps,
         Step(u, from, to)
  PROVE  /\ hpc' \in [User -> HandlerSteps] /\ hpc[u] = from /\ hpc'[u] = to
         /\ \A v \in User : v # u => hpc'[v] = hpc[v]
BY DEF WriteInv, TypeOK, Step, HandlerSteps

LEMMA NextWrite == WriteInv /\ [Next]_vars => WriteInv'
<1> SUFFICES ASSUME WriteInv, [Next]_vars PROVE WriteInv'
  OBVIOUS
<1> USE Bounds
<1> USE DEF posVars, recvVars, connVars, queueVars, threadVars, histVars
<1>0. /\ TypeOK /\ Chunks /\ RoomLeft
      /\ \A u \in User : Len(chunk[u]) \in Nat /\ Len(chunk[u]) < Size
  BY DEF WriteInv, Chunks
<1>a. /\ WritePos \in [User -> 0..Size-1] /\ base \in [User -> 0..Size-1]
      /\ ReadPos \in [User -> Nat] /\ sent \in [User -> 0..StreamEnd]
  BY <1>0 DEF TypeOK
<1>b. conn \in [User -> 0..MaxConn] /\ enqueued \in [User -> 0..MaxConn]
  BY <1>0 DEF TypeOK
<1>c. /\ mIncomingPacketUserIndex \in Seq(User) /\ mSystemPacketQueue \in Seq(User)
      /\ cur \in User /\ at \in Nat /\ len \in 0..Size
  BY <1>0 DEF TypeOK
<1>1. ASSUME NEW u \in User, Connect(u) PROVE WriteInv'
  <2>1. sent' \in [User -> 0..StreamEnd]
    BY <1>0, <1>1 DEF Connect, TypeOK
  <2>2. conn' \in [User -> 0..MaxConn]
    <3>1. conn[u] + 1 \in 0..MaxConn /\ conn' = [conn EXCEPT ![u] = conn[u] + 1]
      BY <1>1, <1>b DEF Connect
    <3> QED BY <1>b, <3>1
  <2>3. /\ hpc' \in [User -> HandlerSteps] /\ hpc'[u] = "posted"
        /\ \A v \in User : v # u => hpc'[v] = hpc[v]
    BY <1>0, <1>1 DEF Connect, TypeOK, HandlerSteps
  <2>4. TypeOK'
    BY <1>0, <1>1, <2>1, <2>2, <2>3 DEF Connect, TypeOK, HandlerSteps
  <2> QED BY <1>0, <1>1, <2>3, <2>4 DEF Connect, WriteInv, Chunks, RoomLeft
<1>2. ASSUME NEW u \in User, OnConnect(u) PROVE WriteInv'
  <2>1. /\ enqueued' \in [User -> 0..MaxConn]
        /\ mSystemPacketQueue' \in Seq(User)
    <3>1. /\ enqueued[u] + 1 \in 0..MaxConn
          /\ enqueued' = [enqueued EXCEPT ![u] = enqueued[u] + 1]
      BY <1>2, <1>b DEF OnConnect
    <3>2. enqueued' \in [User -> 0..MaxConn]
      BY <1>b, <3>1
    <3>3. mSystemPacketQueue' \in Seq(User)
      BY <1>2, <1>c, AppendProperties DEF OnConnect
    <3> QED BY <3>2, <3>3
  <2>2. TypeOK'
    BY <1>0, <1>2, <2>1 DEF OnConnect, TypeOK
  <2> QED BY <1>0, <1>2, <2>2 DEF OnConnect, WriteInv, Chunks, RoomLeft
<1>3. ASSUME NEW u \in User, Disconnect(u) PROVE WriteInv'
  <2>1. /\ hpc' \in [User -> HandlerSteps] /\ hpc'[u] = "none"
        /\ \A v \in User : v # u => hpc'[v] = hpc[v]
    BY <1>0, <1>3 DEF Disconnect, TypeOK, HandlerSteps
  <2>2. TypeOK'
    BY <1>0, <1>3, <2>1 DEF Disconnect, TypeOK, HandlerSteps
  <2> QED BY <1>0, <1>3, <2>1, <2>2 DEF Disconnect, WriteInv, Chunks, RoomLeft
<1>4. ASSUME NEW u \in User, NEW n \in 1..MaxChunk, Deliver(u, n) PROVE WriteInv'
  <2> DEFINE c == [k \in 1..n |-> sent[u] + k]
  <2>1. sent[u] \in 0..StreamEnd /\ sent[u] + n <= StreamEnd /\ n \in Nat
    BY <1>0, <1>4 DEF Deliver, TypeOK
  <2>2. c \in Seq(0..StreamEnd) /\ Len(c) = n
    BY <2>1
  <2>3. /\ chunk' = [chunk EXCEPT ![u] = c]
        /\ sent' \in [User -> 0..StreamEnd]
    <3>1. sent[u] + n \in 0..StreamEnd /\ sent' = [sent EXCEPT ![u] = sent[u] + n]
      BY <1>4, <2>1 DEF Deliver
    <3>2. sent' \in [User -> 0..StreamEnd]
      BY <1>a, <3>1
    <3> QED BY <1>4, <3>2 DEF Deliver
  <2>4. /\ hpc' \in [User -> HandlerSteps] /\ hpc'[u] = "check"
        /\ \A v \in User : v # u => hpc'[v] = hpc[v]
    BY <1>4, StepOn DEF Deliver, HandlerSteps
  <2>5. Chunks'
    <3>1. chunk' \in [User -> Seq(0..StreamEnd)]
      BY <1>0, <2>2, <2>3 DEF Chunks
    <3>2. \A v \in User : chunk'[v] = IF v = u THEN c ELSE chunk[v]
      BY <1>0, <2>3 DEF Chunks
    <3> QED BY <1>0, <2>2, <3>1, <3>2 DEF Chunks
  <2>6. RoomLeft'
    <3>1. \A v \in User : v # u => chunk'[v] = chunk[v]
      BY <1>0, <2>3 DEF Chunks
    <3>2. UNCHANGED <<WritePos, base>>
      BY <1>4 DEF Deliver
    <3> QED BY <1>0, <2>4, <3>1, <3>2 DEF RoomLeft
  <2>7. TypeOK'
    BY <1>0, <1>4, <2>3, <2>4 DEF Deliver, TypeOK, HandlerSteps
  <2> QED BY <2>5, <2>6, <2>7 DEF WriteInv
<1>5. ASSUME NEW u \in User, CheckRoom(u) PROVE WriteInv'
  <2>1. /\ hpc' \in [User -> HandlerSteps]
        /\ hpc'[u] = IF Full(u) THEN "move" ELSE "copy"
        /\ \A v \in User : v # u => hpc'[v] = hpc[v]
    <3>1. (IF Full(u) THEN "move" ELSE "copy") \in HandlerSteps
      BY DEF HandlerSteps
    <3> QED BY <1>5, <3>1, StepOn DEF CheckRoom
  <2>2. ~Full(u) => WritePos[u] + Len(chunk[u]) < Size
    <3>1. WritePos[u] \in Nat /\ Len(chunk[u]) \in Nat
      BY <1>0, <1>a
    <3> QED BY <3>1 DEF Full
  <2>3. TypeOK'
    BY <1>0, <1>5, <2>1 DEF CheckRoom, TypeOK, HandlerSteps
  <2> QED BY <1>0, <1>5, <2>1, <2>2, <2>3
          DEF CheckRoom, WriteInv, Chunks, RoomLeft
<1>6. ASSUME NEW u \in User, MoveRest(u) PROVE WriteInv'
  <2> DEFINE b == mPacketDataBuffer[u]
             w == WritePos[u]
             moved == [k \in 0..Size-1 |-> IF k < Size - w THEN b[w + k] ELSE b[k]]
  <2>1. /\ hpc' \in [User -> HandlerSteps] /\ hpc'[u] = "wrap"
        /\ \A v \in User : v # u => hpc'[v] = hpc[v]
    BY <1>6, StepOn DEF MoveRest, HandlerSteps
  <2>2. b \in [0..Size-1 -> 0..StreamEnd] /\ w \in 0..Size-1
    BY <1>0 DEF TypeOK
  <2>3. moved \in [0..Size-1 -> 0..StreamEnd]
    <3>1. ASSUME NEW k \in 0..Size-1
          PROVE  (IF k < Size - w THEN b[w + k] ELSE b[k]) \in 0..StreamEnd
      <4>1. k < Size - w => w + k \in 0..Size-1
        BY <2>2
      <4>2. \A j \in 0..Size-1 : b[j] \in 0..StreamEnd
        BY <2>2
      <4> QED BY <4>1, <4>2
    <3> QED BY <3>1
  <2>4. mPacketDataBuffer' = [mPacketDataBuffer EXCEPT ![u] = moved]
    BY <1>6 DEF MoveRest
  <2>5. mPacketDataBuffer' \in [User -> [0..Size-1 -> 0..StreamEnd]]
    <3>1. mPacketDataBuffer \in [User -> [0..Size-1 -> 0..StreamEnd]]
      BY <1>0 DEF TypeOK
    <3> HIDE DEF moved
    <3> QED BY <2>3, <2>4, <3>1
  <2>6. TypeOK'
    BY <1>0, <1>6, <2>1, <2>5 DEF MoveRest, TypeOK, HandlerSteps
  <2> QED BY <1>0, <1>6, <2>1, <2>6 DEF MoveRest, WriteInv, Chunks, RoomLeft
<1>7. ASSUME NEW u \in User, WrapWrite(u) PROVE WriteInv'
  <2>1. /\ hpc' \in [User -> HandlerSteps] /\ hpc'[u] = "rewind"
        /\ \A v \in User : v # u => hpc'[v] = hpc[v]
    BY <1>7, StepOn DEF WrapWrite, HandlerSteps
  <2>2. /\ WritePos' \in [User -> 0..Size-1] /\ WritePos'[u] = 0
        /\ \A v \in User : v # u => WritePos'[v] = WritePos[v]
    BY <1>0, <1>7 DEF WrapWrite, TypeOK
  <2>3. TypeOK'
    BY <1>0, <1>7, <2>1, <2>2 DEF WrapWrite, TypeOK, HandlerSteps
  <2> QED BY <1>0, <1>7, <2>1, <2>2, <2>3
          DEF WrapWrite, WriteInv, Chunks, RoomLeft
<1>8. ASSUME NEW u \in User, WrapRead(u) PROVE WriteInv'
  <2>1. /\ hpc' \in [User -> HandlerSteps] /\ hpc[u] = "rewind" /\ hpc'[u] = "copy"
        /\ \A v \in User : v # u => hpc'[v] = hpc[v]
    BY <1>8, StepOn DEF WrapRead, HandlerSteps
  <2>2. ReadPos' \in [User -> Nat]
    BY <1>0, <1>8 DEF WrapRead, TypeOK
  <2>3. TypeOK'
    BY <1>0, <1>8, <2>1, <2>2 DEF WrapRead, TypeOK, HandlerSteps
  <2>4. UNCHANGED <<WritePos, base, chunk>>
    BY <1>8 DEF WrapRead
  <2>5. WritePos[u] + Len(chunk[u]) < Size
    <3>1. WritePos[u] = 0
      BY <1>0, <2>1 DEF RoomLeft
    <3> QED BY <1>0, <3>1
  <2>6. RoomLeft'
    BY <1>0, <2>1, <2>4, <2>5 DEF RoomLeft
  <2> QED BY <1>0, <2>3, <2>4, <2>6 DEF WriteInv, Chunks
<1>9. ASSUME NEW u \in User, CopyData(u) PROVE WriteInv'
  <2> DEFINE b == mPacketDataBuffer[u]
             w == WritePos[u]
             copied == [k \in 0..Size-1 |-> IF k - w + 1 \in DOMAIN chunk[u]
                                            THEN chunk[u][k - w + 1] ELSE b[k]]
  <2>1. /\ hpc' \in [User -> HandlerSteps] /\ hpc[u] = "copy" /\ hpc'[u] = "add"
        /\ \A v \in User : v # u => hpc'[v] = hpc[v]
    BY <1>9, StepOn DEF CopyData, HandlerSteps
  <2>2. /\ b \in [0..Size-1 -> 0..StreamEnd] /\ w \in 0..Size-1
        /\ chunk[u] \in Seq(0..StreamEnd)
    BY <1>0 DEF TypeOK, Chunks
  <2>3. copied \in [0..Size-1 -> 0..StreamEnd]
    <3>1. ASSUME NEW k \in 0..Size-1
          PROVE  (IF k - w + 1 \in DOMAIN chunk[u] THEN chunk[u][k - w + 1]
                  ELSE b[k]) \in 0..StreamEnd
      <4>1. \A j \in DOMAIN chunk[u] : chunk[u][j] \in 0..StreamEnd
        BY <2>2
      <4>2. b[k] \in 0..StreamEnd
        BY <2>2
      <4> QED BY <4>1, <4>2
    <3> QED BY <3>1
  <2>4. mPacketDataBuffer' = [mPacketDataBuffer EXCEPT ![u] = copied]
    BY <1>9 DEF CopyData
  <2>5. mPacketDataBuffer' \in [User -> [0..Size-1 -> 0..StreamEnd]]
    <3>1. mPacketDataBuffer \in [User -> [0..Size-1 -> 0..StreamEnd]]
      BY <1>0 DEF TypeOK
    <3> HIDE DEF copied
    <3> QED BY <2>3, <2>4, <3>1
  <2>6. /\ base' \in [User -> 0..Size-1] /\ base'[u] = w
        /\ \A v \in User : v # u => base'[v] = base[v]
    BY <1>0, <1>9, <2>2 DEF CopyData, TypeOK
  <2>7. TypeOK'
    BY <1>0, <1>9, <2>1, <2>5, <2>6 DEF CopyData, TypeOK, HandlerSteps
  <2> QED BY <1>0, <1>9, <2>1, <2>6, <2>7
          DEF CopyData, WriteInv, Chunks, RoomLeft
<1>10. ASSUME NEW u \in User, AddSize(u) PROVE WriteInv'
  <2>1. /\ hpc' \in [User -> HandlerSteps] /\ hpc[u] = "add" /\ hpc'[u] = "push"
        /\ \A v \in User : v # u => hpc'[v] = hpc[v]
    BY <1>10, StepOn DEF AddSize, HandlerSteps
  <2>2. PICK w \in {base[u], WritePos[u]} :
          WritePos' = [WritePos EXCEPT ![u] = w + Len(chunk[u])]
    BY <1>10 DEF AddSize
  <2>3. w + Len(chunk[u]) \in 0..Size-1
    <3>1. /\ WritePos[u] + Len(chunk[u]) < Size /\ base[u] + Len(chunk[u]) < Size
      BY <1>0, <2>1 DEF RoomLeft
    <3>2. WritePos[u] \in Nat /\ base[u] \in Nat /\ Len(chunk[u]) \in Nat
      BY <1>0, <1>a
    <3> QED BY <3>1, <3>2
  <2>4. /\ WritePos' \in [User -> 0..Size-1]
        /\ \A v \in User : v # u => WritePos'[v] = WritePos[v]
    BY <1>0, <2>2, <2>3 DEF TypeOK
  <2>5. TypeOK'
    BY <1>0, <1>10, <2>1, <2>4 DEF AddSize, TypeOK, HandlerSteps
  <2> QED BY <1>0, <1>10, <2>1, <2>4, <2>5
          DEF AddSize, WriteInv, Chunks, RoomLeft
<1>11. ASSUME NEW u \in User, EnqueuePacket(u) PROVE WriteInv'
  <2>1. /\ hpc' \in [User -> HandlerSteps] /\ hpc'[u] = "posted"
        /\ \A v \in User : v # u => hpc'[v] = hpc[v]
    BY <1>11, StepOn DEF EnqueuePacket, HandlerSteps
  <2>2. /\ mIncomingPacketUserIndex' \in Seq(User)
        /\ base' \in [User -> 0..Size-1]
        /\ \A v \in User : v # u => base'[v] = base[v]
    BY <1>0, <1>11, AppendProperties DEF EnqueuePacket, TypeOK
  <2>3. /\ chunk' \in [User -> Seq(0..StreamEnd)] /\ Len(chunk'[u]) = 0
        /\ \A v \in User : v # u => chunk'[v] = chunk[v]
    BY <1>0, <1>11, EmptySeq DEF EnqueuePacket, Chunks
  <2>4. TypeOK'
    BY <1>0, <1>11, <2>1, <2>2 DEF EnqueuePacket, TypeOK, HandlerSteps
  <2>5. Chunks'
    BY <1>0, <2>3 DEF Chunks
  <2>6. WritePos' = WritePos
    BY <1>11 DEF EnqueuePacket
  <2> QED BY <1>0, <2>1, <2>2, <2>3, <2>4, <2>5, <2>6 DEF WriteInv, RoomLeft
<1>12. CASE PopIndex
  <2>1. /\ mIncomingPacketUserIndex' \in Seq(User) /\ cur' \in User
        /\ tpc' \in {"system", "load"}
    <3>1. CASE mIncomingPacketUserIndex = <<>>
      BY <1>12, <1>c, <3>1 DEF PopIndex
    <3>2. CASE mIncomingPacketUserIndex # <<>>
      BY <1>12, <1>c, <3>2, HeadTailProperties DEF PopIndex
    <3> QED BY <3>1, <3>2
  <2>2. TypeOK'
    BY <1>0, <1>12, <2>1 DEF PopIndex, TypeOK, GetsOn
  <2> QED BY <1>0, <1>12, <2>2 DEF PopIndex, WriteInv, Chunks, RoomLeft
<1>13. CASE LoadWritePos
  <2>1. top' \in 0..Size-1
    BY <1>0, <1>13 DEF LoadWritePos, TypeOK
  <2>2. TypeOK'
    BY <1>0, <1>13, <2>1 DEF LoadWritePos, TypeOK, GetsOn
  <2> QED BY <1>0, <1>13, <2>2 DEF LoadWritePos, WriteInv, Chunks, RoomLeft
<1>14. ASSUME NEW n \in 0..Size, GetPacket(n) PROVE WriteInv'
  <2>1. /\ tpc' \in {"advance", "system"} /\ top' = 0
        /\ at' \in Nat /\ len' \in 0..Size
    BY <1>0, <1>14 DEF GetPacket, TypeOK
  <2>2. UNCHANGED <<mPacketDataBuffer, posVars, recvVars, connVars, queueVars, cur,
                    histVars>>
    BY <1>14 DEF GetPacket
  <2>3. tpc' \in GetsOn \cup {"pop", "system", "clear", "clearread"}
        /\ top' \in 0..Size-1
    BY <2>1 DEF GetsOn
  <2>4. TypeOK'
    BY <1>0, <2>1, <2>2, <2>3 DEF TypeOK
  <2> QED BY <1>0, <2>2, <2>4 DEF WriteInv, Chunks, RoomLeft
<1>15. CASE AdvanceReadPos
  <2>1. ReadPos' \in [User -> Nat]
    BY <1>0, <1>15 DEF AdvanceReadPos, TypeOK
  <2>2. TypeOK'
    BY <1>0, <1>15, <2>1 DEF AdvanceReadPos, TypeOK, GetsOn
  <2> QED BY <1>0, <1>15, <2>2 DEF AdvanceReadPos, WriteInv, Chunks, RoomLeft
<1>16. CASE HandlePacket
  <2>1. /\ tpc' = "system" /\ at' = 0 /\ len' = 0
        /\ UNCHANGED <<mPacketDataBuffer, posVars, recvVars, connVars, queueVars,
                       cur, top>>
    BY <1>16 DEF HandlePacket
  <2>2. tpc' \in GetsOn \cup {"pop", "system", "clear", "clearread"}
        /\ at' \in Nat /\ len' \in 0..Size
    BY <2>1
  <2>3. TypeOK'
    BY <1>0, <2>1, <2>2 DEF TypeOK
  <2> QED BY <1>0, <2>1, <2>3 DEF WriteInv, Chunks, RoomLeft
<1>17. CASE PopSystem
  <2>1. /\ mSystemPacketQueue' \in Seq(User) /\ cur' \in User
        /\ tpc' \in {"pop", "clear"}
    <3>1. CASE mSystemPacketQueue = <<>>
      BY <1>17, <1>c, <3>1 DEF PopSystem
    <3>2. CASE mSystemPacketQueue # <<>>
      BY <1>17, <1>c, <3>2, HeadTailProperties DEF PopSystem
    <3> QED BY <3>1, <3>2
  <2>2. TypeOK'
    BY <1>0, <1>17, <2>1 DEF PopSystem, TypeOK, GetsOn
  <2> QED BY <1>0, <1>17, <2>2 DEF PopSystem, WriteInv, Chunks, RoomLeft
<1>18. CASE ClearWrite
  <2>1. /\ WritePos' \in [User -> 0..Size-1]
        /\ \A v \in User : WritePos'[v] = WritePos[v] \/ WritePos'[v] = 0
    BY <1>0, <1>18 DEF ClearWrite, TypeOK
  <2>2. TypeOK'
    BY <1>0, <1>18, <2>1 DEF ClearWrite, TypeOK, GetsOn
  <2> QED BY <1>0, <1>18, <2>1, <2>2 DEF ClearWrite, WriteInv, Chunks, RoomLeft
<1>19. CASE ClearRead
  <2>1. ReadPos' \in [User -> Nat]
    BY <1>0, <1>19 DEF ClearRead, TypeOK
  <2>2. TypeOK'
    BY <1>0, <1>19, <2>1 DEF ClearRead, TypeOK, GetsOn
  <2> QED BY <1>0, <1>19, <2>2 DEF ClearRead, WriteInv, Chunks, RoomLeft
<1>20. CASE UNCHANGED vars
  BY <1>0, <1>20 DEF vars, WriteInv, TypeOK, Chunks, RoomLeft
<1> QED
  BY <1>1, <1>2, <1>3, <1>4, <1>5, <1>6, <1>7, <1>8, <1>9, <1>10, <1>11, <1>12,
     <1>13, <1>14, <1>15, <1>16, <1>17, <1>18, <1>19, <1>20
  DEF Next, Receive, ProcessPacket

(* SetPacketData never writes outside the buffer, though the packet thread    *)
(* clears the position at any moment: for any number of users, any buffer    *)
(* that is larger than a receive, and any segmentation of the stream.       *)
THEOREM BufferIsSafe == Spec => []WritesInBuffer
<1>1. WriteInv => WritesInBuffer
  BY DEF WriteInv, RoomLeft, WritesInBuffer
<1> QED BY <1>1, InitWrite, NextWrite, PTL DEF Spec

-----------------------------------------------------------------------------
(* Packets in order: what is known of a user while nothing disturbs it.       *)

Handling == {"check", "move", "wrap", "rewind", "copy", "add", "push"}

Count(q, u) == Cardinality({i \in DOMAIN q : q[i] = u})
One(b) == IF b THEN 1 ELSE 0

(* The packet thread's step, as far as it concerns u. *)
Doing(u) == IF cur = u /\ tpc # "system" THEN tpc ELSE "pop"

(* Bytes received that WritePos does not count yet.                          *)
Pending(u) == IF hpc[u] = "push" THEN 0 ELSE Len(chunk[u])

(* Between the two assignments of a wrap or of Clear the positions say        *)
(* nothing; otherwise they span the bytes that are not taken.               *)
Turning(u) == hpc[u] = "rewind" \/ Doing(u) = "clearread"
Span(u) == IF Turning(u) THEN 0 ELSE WritePos[u] - ReadPos[u]

Histories ==
  /\ cleared \in [User -> Nat]
  /\ handled \in [User -> Seq(Seq(0..StreamEnd))]
  /\ disturbed \in [User -> BOOLEAN] /\ cut \in [User -> BOOLEAN]

(* Every connect has been queued once at most, and cleared once at most.      *)
Clears ==
  \A u \in User :
    /\ cleared[u] + Count(mSystemPacketQueue, u)
         + One(Doing(u) \in {"clear", "clearread"}) = enqueued[u]
    /\ enqueued[u] <= conn[u]

(* What a worker handles are the last bytes received.                        *)
Received ==
  \A u \in User :
    /\ hpc[u] \notin Handling => chunk[u] = <<>>
    /\ hpc[u] \in Handling => Len(chunk[u]) >= 1
    /\ Len(chunk[u]) <= sent[u]
    /\ \A k \in DOMAIN chunk[u] : chunk[u][k] = sent[u] - Len(chunk[u]) + k

(* The worker and the packet thread keep out of each other's way: no Clear is *)
(* to come while a receive is handled, and a wrap finds the thread away.     *)
Calm(u) ==
  /\ cleared[u] # conn[u] => \E m \in DOMAIN Start : sent[u] + 1 = Start[m]
  /\ hpc[u] \in Handling => cleared[u] = conn[u]
  /\ hpc[u] \in {"move", "wrap", "rewind"} =>
       Count(mIncomingPacketUserIndex, u) = 0 /\ Doing(u) \notin GetsOn
  /\ hpc[u] \in {"move", "wrap"} => ReadPos[u] = WritePos[u]
  /\ Doing(u) = "clearread" => WritePos[u] = 0
  /\ hpc[u] = "add" =>
       /\ base[u] = WritePos[u]
       /\ \A k \in DOMAIN chunk[u] :
            mPacketDataBuffer[u][WritePos[u] + k - 1] = chunk[u][k]

(* The packets h are whole, in order, and before packet n. *)
Before(h, n) ==
  \E p \in [DOMAIN h -> Numbers] :
    \A i \in DOMAIN h : /\ h[i] = Bytes(p[i]) /\ p[i] < n
                        /\ \A j \in 1..i-1 : p[j] < p[i]

(* From ReadPos to WritePos the buffer holds the stream from packet a on; and, *)
(* if every connect has been cleared, up to where the handler has counted.   *)
Lies(u, a) ==
  /\ ~Turning(u) =>
       /\ ReadPos[u] <= WritePos[u]
       /\ \A k \in ReadPos[u]..WritePos[u]-1 :
            mPacketDataBuffer[u][k] = Start[a] + (k - ReadPos[u])
  /\ Start[a] + Span(u) <= sent[u] - Pending(u) + 1
  /\ cleared[u] = conn[u] => Start[a] + Span(u) = sent[u] - Pending(u) + 1

(* The packet thread has handled packets before a, or is about to handle the  *)
(* one before a.                                                           *)
Taken(u, a) ==
  /\ Before(handled[u], IF Doing(u) = "handle" THEN a - 1 ELSE a)
  /\ Doing(u) = "get" => ReadPos[u] <= top /\ top <= WritePos[u]
  /\ Doing(u) = "advance" =>
       /\ at = ReadPos[u] /\ a \in Numbers /\ len = PacketLength(a)
       /\ at + len <= WritePos[u]
  /\ Doing(u) = "handle" =>
       /\ at + len = ReadPos[u] /\ a - 1 \in Numbers /\ len = PacketLength(a - 1)
       /\ \A k \in 1..len : mPacketDataBuffer[u][at + k - 1] = Start[a - 1] + k - 1

(* The indices of u in the queue, or about to get there. *)
Indices(u) == Count(mIncomingPacketUserIndex, u) + One(hpc[u] = "push")

(* As long as receives bring one packet each, the bytes that are not taken end *)
(* where a packet b begins, and packets a to b - 1 have their indices: those  *)
(* that came after WritePos was read, in the queue or about to get there.    *)
Whole(u, a) ==
  /\ hpc[u] \in Handling => \E m \in Numbers : chunk[u] = Bytes(m)
  /\ \E b \in DOMAIN Start :
       /\ Start[b] = Start[a] + Span(u)
       /\ b - a <= Indices(u) + One(Doing(u) \in {"load", "get", "advance"})
       /\ Doing(u) = "get" =>
            \E c \in DOMAIN Start : /\ Start[c] = Start[a] + (top - ReadPos[u])
                                    /\ b - c <= Indices(u)

Flow(u) ==
  /\ Calm(u)
  /\ \E a \in DOMAIN Start : Lies(u, a) /\ Taken(u, a) /\ (~cut[u] => Whole(u, a))

FlowInv ==
  /\ WriteInv /\ Histories /\ Clears /\ Received
  /\ \A u \in User : ~disturbed[u] => Flow(u)

-----------------------------------------------------------------------------
(* Lemmas on queues and on the numbers of packets *)

LEMMA CountType ==
  ASSUME NEW q \in Seq(User), NEW u
  PROVE  /\ IsFiniteSet({i \in DOMAIN q : q[i] = u}) /\ Count(q, u) \in Nat
         /\ Count(q, u) = 0 <=> \A i \in DOMAIN q : q[i] # u
<1> DEFINE S == {i \in DOMAIN q : q[i] = u}
<1>1. IsFiniteSet(DOMAIN q) /\ S \in SUBSET (DOMAIN q)
  BY LenProperties, FS_Interval
<1>2. IsFiniteSet(S)
  BY <1>1, FS_Subset
<1>3. Cardinality(S) \in Nat /\ (Cardinality(S) = 0 <=> S = {})
  BY <1>2, FS_CardinalityType, FS_EmptySet
<1> QED BY <1>2, <1>3 DEF Count

LEMMA CountAppend ==
  ASSUME NEW q \in Seq(User), NEW w \in User, NEW u
  PROVE  Count(Append(q, w), u) = Count(q, u) + One(w = u)
<1> DEFINE S == {i \in DOMAIN q : q[i] = u}
           T == {i \in DOMAIN Append(q, w) : Append(q, w)[i] = u}
           n == Len(q) + 1
<1>1. /\ n \in Nat /\ DOMAIN q = 1..Len(q) /\ DOMAIN Append(q, w) = 1..n
      /\ Append(q, w)[n] = w /\ \A i \in 1..Len(q) : Append(q, w)[i] = q[i]
  BY LenProperties, AppendProperties
<1>2. n \notin S
  BY <1>1
<1>3. IsFiniteSet(S) /\ Cardinality(S) \in Nat
  BY CountType, FS_CardinalityType
<1>4. T = IF w = u THEN S \cup {n} ELSE S
  BY <1>1
<1>5. Cardinality(T) = IF w = u THEN Cardinality(S) + 1 ELSE Cardinality(S)
  BY <1>2, <1>3, <1>4, FS_AddElement
<1> HIDE DEF S, T
<1>6. Cardinality(T) = Cardinality(S) + One(w = u)
  BY <1>3, <1>5 DEF One
<1> QED BY <1>6 DEF S, T, Count

LEMMA CountTail ==
  ASSUME NEW q \in Seq(User), q # <<>>, NEW u
  PROVE  Count(q, u) = Count(Tail(q), u) + One(Head(q) = u)
<1> DEFINE S == {i \in DOMAIN q : q[i] = u}
           T == {i \in DOMAIN Tail(q) : Tail(q)[i] = u}
           f == [i \in T |-> i + 1]
<1>1. /\ Tail(q) \in Seq(User) /\ Len(q) \in Nat \ {0} /\ Len(Tail(q)) = Len(q) - 1
      /\ DOMAIN q = 1..Len(q) /\ DOMAIN Tail(q) = 1..Len(q)-1
      /\ \A i \in 1..Len(q)-1 : Tail(q)[i] = q[i + 1]
  BY HeadTailProperties, EmptySeq, LenProperties
<1>2. Head(q) = q[1]
  OBVIOUS
<1>3. IsFiniteSet(S) /\ IsFiniteSet(T) /\ Cardinality(S) \in Nat
      /\ Cardinality(T) \in Nat
  <2>1. IsFiniteSet(S)
    BY CountType
  <2>2. IsFiniteSet(T)
    BY <1>1, CountType
  <2> HIDE DEF S, T
  <2> QED BY <2>1, <2>2, FS_CardinalityType
<1>4. f \in Bijection(T, S \ {1})
  <2>1. \A i \in T : i + 1 \in S \ {1} /\ i \in Nat
    BY <1>1
  <2>2. \A j \in S \ {1} : j - 1 \in T /\ j = (j - 1) + 1
    BY <1>1
  <2>3. f \in [T -> S \ {1}]
    BY <2>1
  <2>4. \A i, j \in T : f[i] = f[j] => i = j
    BY <2>1
  <2>5. \A j \in S \ {1} : \E i \in T : f[i] = j
    BY <2>2
  <2> HIDE DEF f, S, T
  <2> QED BY <2>3, <2>4, <2>5, Fun_IsInj, Fun_IsSurj DEF Bijection
<1>5. Cardinality(S \ {1}) = Cardinality(T)
  BY <1>3, <1>4, FS_Bijection DEF ExistsBijection
<1>6. 1 \in S <=> Head(q) = u
  BY <1>1, <1>2
<1>7. Cardinality(S \ {1}) = IF Head(q) = u THEN Cardinality(S) - 1 ELSE Cardinality(S)
  BY <1>3, <1>6, FS_RemoveElement
<1> HIDE DEF S, T
<1>8. Cardinality(S) = Cardinality(T) + One(Head(q) = u)
  BY <1>3, <1>5, <1>7 DEF One
<1> QED BY <1>8 DEF S, T, Count

(* Packets begin one after another, and none is empty. *)
LEMMA Places ==
  /\ 1 \in DOMAIN Start /\ Len(Start) \in Nat /\ DOMAIN Start = 1..Len(Start)
  /\ \A i \in DOMAIN Start : Start[i] \in Nat /\ Start[i] >= 1 /\ Start[i] <= StreamEnd + 1
  /\ \A i, j \in DOMAIN Start : /\ Start[i] <= Start[j] => i <= j
                                /\ i < j => Start[i] < Start[j]
                                /\ Start[i] = Start[j] => i = j
<1>1. /\ Len(Start) \in Nat \ {0} /\ DOMAIN Start = 1..Len(Start)
      /\ \A i \in 1..Len(Start) : Start[i] \in Nat
  BY ChatPacketsAssumption, EmptySeq
<1>2. 1 \in DOMAIN Start /\ Len(Start) \in DOMAIN Start
  BY <1>1
<1>3. ASSUME NEW i \in DOMAIN Start, NEW j \in DOMAIN Start
      PROVE  /\ Start[i] <= Start[j] => i <= j
             /\ i < j => Start[i] < Start[j]
             /\ Start[i] = Start[j] => i = j
  <2>1. i \in Nat /\ j \in Nat /\ Start[i] \in Nat /\ Start[j] \in Nat
    BY <1>1
  <2>2. (i < j => Start[i] < Start[j]) /\ (j < i => Start[j] < Start[i])
    BY ChatPacketsAssumption
  <2> QED BY <2>1, <2>2
<1>4. ASSUME NEW i \in DOMAIN Start
      PROVE  Start[i] \in Nat /\ Start[i] >= 1 /\ Start[i] <= StreamEnd + 1
  <2>1. i \in Nat /\ 1 <= i /\ i <= Len(Start) /\ Start[i] \in Nat
        /\ Start[1] \in Nat /\ Start[Len(Start)] \in Nat
    BY <1>1
  <2>2. Start[1] <= Start[i]
    BY <1>2, <1>3, <2>1
  <2>3. Start[i] <= Start[Len(Start)]
    BY <1>1, <1>2, <1>3, <2>1
  <2> QED BY <2>1, <2>2, <2>3, ChatPacketsAssumption DEF StreamEnd
<1> QED BY <1>1, <1>2, <1>3, <1>4

LEMMA Packets ==
  ASSUME NEW m \in Numbers
  PROVE  /\ m \in DOMAIN Start /\ m + 1 \in DOMAIN Start /\ m \in Nat
         /\ PacketLength(m) \in Nat /\ PacketLength(m) >= 1
         /\ Start[m + 1] = Start[m] + PacketLength(m)
         /\ Bytes(m) \in Seq(Nat) /\ Len(Bytes(m)) = PacketLength(m)
         /\ DOMAIN Bytes(m) = 1..PacketLength(m)
         /\ \A k \in 1..PacketLength(m) : Bytes(m)[k] = Start[m] + k - 1
<1>1. m \in DOMAIN Start /\ m + 1 \in DOMAIN Start /\ m \in Nat
  BY Places DEF Numbers
<1>2. Start[m] \in Nat /\ Start[m + 1] \in Nat /\ Start[m] < Start[m + 1]
  BY <1>1, Places
<1>3. /\ PacketLength(m) \in Nat /\ PacketLength(m) >= 1
      /\ Start[m + 1] = Start[m] + PacketLength(m)
  BY <1>2 DEF PacketLength
<1>4. \A k \in 1..PacketLength(m) : Start[m] + k - 1 \in Nat
  BY <1>2, <1>3
<1> QED BY <1>1, <1>3, <1>4 DEF Bytes

(* A place before the last is the number of a packet. *)
LEMMA PlaceBefore ==
  ASSUME NEW a \in DOMAIN Start, NEW b \in DOMAIN Start, Start[a] < Start[b]
  PROVE  a \in Numbers /\ a + 1 <= b /\ Start[a] + PacketLength(a) <= Start[b]
<1>1. a \in Nat /\ b \in Nat /\ Start[a] \in Nat /\ Start[b] \in Nat /\ a >= 1
      /\ b <= Len(Start) /\ Len(Start) \in Nat
  BY Places
<1>2. a < b
  <2>1. ~(b < a) /\ a # b
    BY <1>1, Places
  <2> QED BY <1>1, <2>1
<1>3. a \in Numbers
  BY <1>1, <1>2 DEF Numbers
<1>4. a + 1 \in DOMAIN Start /\ Start[a + 1] = Start[a] + PacketLength(a)
  BY <1>3, Packets
<1>5. Start[a + 1] <= Start[b]
  <2>1. a + 1 = b \/ a + 1 < b
    BY <1>1, <1>2
  <2>2. Start[a + 1] \in Nat
    BY <1>4, Places
  <2> QED BY <1>1, <1>4, <2>1, <2>2, Places
<1> QED BY <1>1, <1>2, <1>3, <1>4, <1>5

-----------------------------------------------------------------------------
(* The parts that hold of every user *)

LEMMA InitFlow == Init => FlowInv
<1> SUFFICES ASSUME Init PROVE FlowInv
  OBVIOUS
<1>1. WriteInv
  BY InitWrite
<1>2. Histories
  BY Bounds, EmptySeq DEF Init, Histories
<1>3. \A u \in User : Count(<<>>, u) = 0
  <2>1. <<>> \in Seq(User) /\ DOMAIN <<>> = {}
    BY EmptySeq
  <2> QED BY <2>1, CountType
<1>4. Clears
  BY <1>3, Bounds DEF Init, Clears, Doing, One
<1>5. Received
  BY EmptySeq DEF Init, Received, Handling
<1>6. ASSUME NEW u \in User PROVE Flow(u)
  <2>1. Calm(u)
    BY DEF Init, Calm, Handling, Doing
  <2>2. Lies(u, 1)
    BY EmptySeq, ChatPacketsAssumption DEF Init, Lies, Turning, Span, Pending, Doing
  <2>3. Taken(u, 1)
    <3>1. Before(<<>>, 1)
      <4> DEFINE p == [i \in DOMAIN <<>> |-> 1]
      <4>1. DOMAIN <<>> = {}
        OBVIOUS
      <4>2. p \in [DOMAIN <<>> -> Numbers]
        BY <4>1
      <4> QED BY <4>1, <4>2 DEF Before
    <3> QED BY <3>1 DEF Init, Taken, Doing
  <2>4. Whole(u, 1)
    BY <1>3, Places DEF Init, Whole, Handling, Indices, Span, Turning, Doing, One
  <2> QED BY <2>1, <2>2, <2>3, <2>4, Places DEF Flow
<1> QED BY <1>1, <1>2, <1>4, <1>5, <1>6 DEF FlowInv

LEMMA NextHistories == WriteInv /\ Histories /\ [Next]_vars => Histories'
<1> SUFFICES ASSUME WriteInv, Histories, [Next]_vars PROVE Histories'
  OBVIOUS
<1> USE DEF posVars, recvVars, connVars, queueVars, threadVars, histVars
<1>1. ASSUME NEW u \in User, NEW n \in 1..MaxChunk, Deliver(u, n) PROVE Histories'
  <2>1. disturbed' \in [User -> BOOLEAN]
    BY <1>1 DEF Deliver, Histories
  <2>2. cut' \in [User -> BOOLEAN]
    BY <1>1 DEF Deliver, Histories
  <2> QED BY <1>1, <2>1, <2>2 DEF Deliver, Histories
<1>2. ASSUME NEW u \in User, CheckRoom(u) PROVE Histories'
  <2>1. disturbed' \in [User -> BOOLEAN]
    BY <1>2 DEF CheckRoom, Histories
  <2> QED BY <1>2, <2>1 DEF CheckRoom, Histories
<1>3. CASE HandlePacket
  <2> DEFINE b(k) == IF at + k <= Size THEN mPacketDataBuffer[cur][at + k - 1] ELSE 0
             h == [k \in 1..len |-> b(k)]
  <2>1. /\ cur \in User /\ at \in Nat /\ len \in Nat /\ Size \in Nat
        /\ mPacketDataBuffer \in [User -> [0..Size-1 -> 0..StreamEnd]]
        /\ StreamEnd \in Nat
    <3>1. /\ cur \in User /\ at \in Nat /\ len \in 0..Size
          /\ mPacketDataBuffer \in [User -> [0..Size-1 -> 0..StreamEnd]]
      BY DEF WriteInv, TypeOK
    <3> QED BY <3>1, Bounds
  <2>2. \A k \in 1..len : b(k) \in 0..StreamEnd
    <3>1. ASSUME NEW k \in 1..len PROVE b(k) \in 0..StreamEnd
      <4>1. at + k <= Size => at + k - 1 \in 0..Size-1
        BY <2>1
      <4>2. mPacketDataBuffer[cur] \in [0..Size-1 -> 0..StreamEnd]
        BY <2>1
      <4> QED BY <2>1, <4>1, <4>2
    <3> QED BY <3>1
  <2>3. h \in Seq(0..StreamEnd)
    <3> HIDE DEF b
    <3> QED BY <2>1, <2>2, IsASeq
  <2>4. handled' = [handled EXCEPT ![cur] = Append(@, h)]
    BY <1>3 DEF HandlePacket
  <2> HIDE DEF h
  <2>5. handled' \in [User -> Seq(Seq(0..StreamEnd))]
    <3>1. Append(handled[cur], h) \in Seq(Seq(0..StreamEnd))
      BY <2>1, <2>3, AppendProperties DEF Histories
    <3> QED BY <2>1, <2>4, <3>1 DEF Histories
  <2> QED BY <1>3, <2>5 DEF HandlePacket, Histories
<1>4. CASE ClearRead
  <2>1. cleared' \in [User -> Nat]
    <3>1. cleared \in [User -> Nat] /\ cleared' = [cleared EXCEPT ![cur] = cleared[cur] + 1]
          /\ cur \in User
      BY <1>4 DEF ClearRead, Histories, WriteInv, TypeOK
    <3>2. cleared[cur] + 1 \in Nat
      BY <3>1
    <3> QED BY <3>1, <3>2
  <2> QED BY <1>4, <2>1 DEF ClearRead, Histories
<1>5. ASSUME UNCHANGED <<cleared, histVars>> PROVE Histories'
  BY <1>5 DEF Histories
<1>6. ASSUME NEW u \in User,
             \/ Connect(u) \/ OnConnect(u) \/ Disconnect(u) \/ MoveRest(u)
             \/ WrapWrite(u) \/ WrapRead(u) \/ CopyData(u) \/ AddSize(u)
             \/ EnqueuePacket(u)
      PROVE  Histories'
  BY <1>5, <1>6 DEF Connect, OnConnect, Disconnect, MoveRest, WrapWrite, WrapRead,
     CopyData, AddSize, EnqueuePacket
<1>7. ASSUME \/ PopIndex \/ LoadWritePos \/ (\E n \in 0..Size : GetPacket(n))
             \/ AdvanceReadPos \/ PopSystem \/ ClearWrite \/ UNCHANGED vars
      PROVE  Histories'
  BY <1>5, <1>7 DEF PopIndex, LoadWritePos, GetPacket, AdvanceReadPos, PopSystem,
     ClearWrite, vars
<1> QED BY <1>1, <1>2, <1>3, <1>4, <1>6, <1>7 DEF Next, Receive, ProcessPacket

LEMMA NextReceived == WriteInv /\ Received /\ [Next]_vars => Received'
<1> SUFFICES ASSUME WriteInv, Received, [Next]_vars PROVE Received'
  OBVIOUS
<1> USE DEF posVars, recvVars, connVars, queueVars, threadVars, histVars
<1>0. /\ hpc \in [User -> HandlerSteps] /\ sent \in [User -> 0..StreamEnd]
      /\ chunk \in [User -> Seq(0..StreamEnd)] /\ StreamEnd \in Nat
      /\ \A u \in User : chunk[u] \in Seq(0..StreamEnd) /\ Len(chunk[u]) \in Nat
      /\ \A u \in User : sent[u] \in Nat
  <2>1. /\ hpc \in [User -> HandlerSteps] /\ sent \in [User -> 0..StreamEnd]
        /\ chunk \in [User -> Seq(0..StreamEnd)]
    BY DEF WriteInv, TypeOK, Chunks, HandlerSteps
  <2> QED BY <2>1, Bounds
(* A step of the handler that keeps its place inside or outside. *)
<1>1. ASSUME NEW u \in User, UNCHANGED <<chunk, sent>>,
             \A v \in User : (hpc'[v] \in Handling) <=> (hpc[v] \in Handling)
      PROVE  Received'
  BY <1>1 DEF Received
<1>2. ASSUME NEW u \in User, Connect(u) PROVE Received'
  <2>1. PICK m \in Numbers : /\ Start[m] > sent[u]
                             /\ sent' = [sent EXCEPT ![u] = Start[m] - 1]
    BY <1>2 DEF Connect
  <2>2. /\ hpc[u] = "none" /\ hpc'[u] = "posted" /\ chunk' = chunk
        /\ \A v \in User : v # u => hpc'[v] = hpc[v] /\ sent'[v] = sent[v]
        /\ sent'[u] = Start[m] - 1
    BY <1>0, <1>2, <2>1 DEF Connect
  <2>3. chunk[u] = <<>> /\ Len(chunk[u]) = 0 /\ sent'[u] \in Nat
    <3>1. chunk[u] = <<>>
      BY <2>2 DEF Received, Handling
    <3>2. sent'[u] \in Nat
      BY <2>2, Bounds
    <3> QED BY <3>1, <3>2, EmptySeq
  <2> QED BY <2>2, <2>3 DEF Received, Handling
<1>3. ASSUME NEW u \in User, NEW n \in 1..MaxChunk, Deliver(u, n) PROVE Received'
  <2> DEFINE c == [k \in 1..n |-> sent[u] + k]
  <2>1. /\ n \in Nat /\ sent[u] \in Nat
    BY <1>0, Bounds
  <2>2. Len(c) = n /\ DOMAIN c = 1..n /\ \A k \in 1..n : c[k] = sent[u] + k
    BY <2>1
  <2> HIDE DEF c
  <2>3. /\ hpc'[u] = "check" /\ chunk'[u] = c /\ sent'[u] = sent[u] + n
        /\ \A v \in User : v # u => /\ hpc'[v] = hpc[v] /\ sent'[v] = sent[v]
                                    /\ chunk'[v] = chunk[v]
    BY <1>0, <1>3 DEF Deliver, Step, c
  <2> QED BY <2>1, <2>2, <2>3 DEF Received, Handling
<1>4. ASSUME NEW u \in User, EnqueuePacket(u) PROVE Received'
  <2>1. /\ hpc'[u] = "posted" /\ chunk'[u] = <<>> /\ sent' = sent
        /\ \A v \in User : v # u => hpc'[v] = hpc[v] /\ chunk'[v] = chunk[v]
    BY <1>0, <1>4 DEF EnqueuePacket, Step
  <2>2. Len(<<>>) = 0 /\ DOMAIN <<>> = {} /\ "posted" \notin Handling
    BY DEF Handling
  <2>3. \A v \in User : v # u =>
          /\ hpc'[v] \notin Handling => chunk'[v] = <<>>
          /\ hpc'[v] \in Handling => Len(chunk'[v]) >= 1
          /\ Len(chunk'[v]) <= sent'[v]
          /\ \A k \in DOMAIN chunk'[v] : chunk'[v][k] = sent'[v] - Len(chunk'[v]) + k
    BY <2>1 DEF Received
  <2>4. Len(chunk'[u]) <= sent'[u]
    BY <1>0, <2>1, <2>2
  <2> QED BY <2>1, <2>2, <2>3, <2>4 DEF Received
<1>5. ASSUME NEW u \in User,
             \/ Disconnect(u) \/ CheckRoom(u) \/ MoveRest(u) \/ WrapWrite(u)
             \/ WrapRead(u) \/ CopyData(u) \/ AddSize(u)
      PROVE  Received'
  <2>1. UNCHANGED <<chunk, sent>>
    BY <1>5 DEF Disconnect, CheckRoom, MoveRest, WrapWrite, WrapRead, CopyData, AddSize
  <2>2. /\ (hpc'[u] \in Handling) <=> (hpc[u] \in Handling)
        /\ \A v \in User : v # u => hpc'[v] = hpc[v]
    BY <1>0, <1>5 DEF Disconnect, CheckRoom, MoveRest, WrapWrite, WrapRead, CopyData,
       AddSize, Step, Handling
  <2> QED BY <1>1, <2>1, <2>2
<1>6. ASSUME UNCHANGED <<hpc, chunk, sent>> PROVE Received'
  BY <1>6 DEF Received
<1>7. ASSUME NEW u \in User, OnConnect(u) PROVE Received'
  BY <1>6, <1>7 DEF OnConnect
<1>8. ASSUME ProcessPacket \/ UNCHANGED vars PROVE Received'
  BY <1>6, <1>8 DEF ProcessPacket, PopIndex, LoadWritePos, GetPacket, AdvanceReadPos,
     HandlePacket, PopSystem, ClearWrite, ClearRead, vars
<1> QED BY <1>2, <1>3, <1>4, <1>5, <1>7, <1>8 DEF Next, Receive

LEMMA NextClears == WriteInv /\ Histories /\ Clears /\ [Next]_vars => Clears'
<1> SUFFICES ASSUME WriteInv, Histories, Clears, [Next]_vars PROVE Clears'
  OBVIOUS
<1> USE DEF posVars, recvVars, connVars, queueVars, threadVars, histVars
<1>0. /\ mSystemPacketQueue \in Seq(User) /\ cur \in User
      /\ cleared \in [User -> Nat] /\ enqueued \in [User -> 0..MaxConn]
      /\ conn \in [User -> 0..MaxConn] /\ MaxConn \in Nat
      /\ \A u \in User : Count(mSystemPacketQueue, u) \in Nat
      /\ \A u \in User : cleared[u] \in Nat /\ enqueued[u] \in Nat /\ conn[u] \in Nat
  <2>1. /\ mSystemPacketQueue \in Seq(User) /\ cur \in User
        /\ cleared \in [User -> Nat] /\ enqueued \in [User -> 0..MaxConn]
        /\ conn \in [User -> 0..MaxConn]
    BY DEF WriteInv, TypeOK, Histories
  <2>2. \A u \in User : Count(mSystemPacketQueue, u) \in Nat
    BY <2>1, CountType
  <2> QED BY <2>1, <2>2, Bounds
<1> DEFINE Clearing(u) == One(Doing(u) \in {"clear", "clearread"})
<1>a. \A u \in User : /\ cleared[u] + Count(mSystemPacketQueue, u) + Clearing(u)
                           = enqueued[u]
                      /\ enqueued[u] <= conn[u]
  BY DEF Clears
<1>b. \A u \in User : Clearing(u) \in Nat /\ Clearing(u)' \in Nat
  BY DEF One
<1>1. ASSUME NEW u \in User, Connect(u) PROVE Clears'
  <2>1. /\ UNCHANGED <<enqueued, cleared, mSystemPacketQueue, cur, tpc>>
        /\ conn'[u] = conn[u] + 1 /\ \A v \in User : v # u => conn'[v] = conn[v]
    BY <1>0, <1>1 DEF Connect
  <2>2. \A v \in User : Clearing(v)' = Clearing(v)
    BY <2>1 DEF Doing
  <2> HIDE DEF Clearing
  <2>3. ASSUME NEW v \in User PROVE enqueued'[v] <= conn'[v]
    <3>1. /\ enqueued[v] \in Nat /\ conn[v] \in Nat /\ enqueued[v] <= conn[v]
          /\ enqueued'[v] = enqueued[v]
      BY <1>0, <1>a, <2>1
    <3>2. conn'[v] = conn[v] \/ conn'[v] = conn[v] + 1
      BY <2>1
    <3> QED BY <3>1, <3>2
  <2>4. \A v \in User : cleared'[v] + Count(mSystemPacketQueue', v) + Clearing(v)'
                          = enqueued'[v]
    BY <1>a, <2>1, <2>2
  <2> QED BY <2>3, <2>4 DEF Clears, Clearing
<1>2. ASSUME NEW u \in User, OnConnect(u) PROVE Clears'
  <2>1. /\ UNCHANGED <<conn, cleared, cur, tpc>> /\ enqueued[u] < conn[u]
        /\ enqueued'[u] = enqueued[u] + 1
        /\ \A v \in User : v # u => enqueued'[v] = enqueued[v]
        /\ mSystemPacketQueue' = Append(mSystemPacketQueue, u)
    BY <1>0, <1>2 DEF OnConnect
  <2>2. \A v \in User : Count(mSystemPacketQueue', v)
                          = Count(mSystemPacketQueue, v) + One(u = v)
    BY <1>0, <2>1, CountAppend
  <2>3. \A v \in User : Clearing(v)' = Clearing(v)
    BY <2>1 DEF Doing
  <2>4. One(u = u) = 1 /\ \A v \in User : v # u => One(u = v) = 0
    BY DEF One
  <2> HIDE DEF Clearing
  <2>5. ASSUME NEW v \in User
        PROVE  /\ cleared'[v] + Count(mSystemPacketQueue', v) + Clearing(v)'
                    = enqueued'[v]
               /\ enqueued'[v] <= conn'[v]
    <3>0. /\ cleared[v] \in Nat /\ enqueued[v] \in Nat /\ conn[v] \in Nat
          /\ Count(mSystemPacketQueue, v) \in Nat /\ Clearing(v) \in Nat
          /\ cleared[v] + Count(mSystemPacketQueue, v) + Clearing(v) = enqueued[v]
          /\ enqueued[v] <= conn[v]
          /\ cleared'[v] = cleared[v] /\ conn'[v] = conn[v]
          /\ Clearing(v)' = Clearing(v)
      BY <1>0, <1>a, <1>b, <2>1, <2>3
    <3>1. CASE v = u
      <4>1. /\ Count(mSystemPacketQueue', v) = Count(mSystemPacketQueue, v) + 1
            /\ enqueued'[v] = enqueued[v] + 1 /\ enqueued[v] < conn[v]
        BY <2>1, <2>2, <2>4, <3>1
      <4> QED BY <3>0, <4>1
    <3>2. CASE v # u
      <4>1. /\ Count(mSystemPacketQueue', v) = Count(mSystemPacketQueue, v) + 0
            /\ enqueued'[v] = enqueued[v]
        BY <2>1, <2>2, <2>4, <3>2
      <4> QED BY <3>0, <4>1
    <3> QED BY <3>1, <3>2
  <2> QED BY <2>5 DEF Clears, Clearing
<1>3. ASSUME UNCHANGED <<conn, enqueued, cleared, mSystemPacketQueue>>,
             \A v \in User : Clearing(v)' = Clearing(v)
      PROVE  Clears'
  BY <1>a, <1>3 DEF Clears
<1>4. ASSUME NEW u \in User,
             \/ Disconnect(u) \/ Receive(u) \/ \E n \in 1..MaxChunk : Deliver(u, n)
      PROVE  Clears'
  <2>1. UNCHANGED <<conn, enqueued, cleared, mSystemPacketQueue, cur, tpc>>
    BY <1>4 DEF Disconnect, Receive, Deliver, CheckRoom, MoveRest, WrapWrite, WrapRead,
       CopyData, AddSize, EnqueuePacket
  <2> QED BY <1>3, <2>1 DEF Doing
<1>5. ASSUME \/ PopIndex \/ LoadWritePos \/ (\E n \in 0..Size : GetPacket(n))
             \/ AdvanceReadPos \/ HandlePacket
      PROVE  Clears'
  <2>1. /\ UNCHANGED <<conn, enqueued, cleared, mSystemPacketQueue>>
        /\ tpc \notin {"clear", "clearread"} /\ tpc' \notin {"clear", "clearread"}
    BY <1>5 DEF PopIndex, LoadWritePos, GetPacket, AdvanceReadPos, HandlePacket
  <2>2. \A v \in User : Clearing(v)' = Clearing(v)
    BY <2>1 DEF Doing
  <2> QED BY <1>3, <2>1, <2>2
<1>6. CASE PopSystem
  <2>1. CASE mSystemPacketQueue = <<>>
    <3>1. /\ UNCHANGED <<conn, enqueued, cleared, mSystemPacketQueue>>
          /\ tpc = "system" /\ tpc' = "pop"
      BY <1>6, <2>1 DEF PopSystem
    <3>2. \A v \in User : Clearing(v)' = Clearing(v)
      BY <3>1 DEF Doing
    <3> QED BY <1>3, <3>1, <3>2
  <2>2. CASE mSystemPacketQueue # <<>>
    <3>1. /\ UNCHANGED <<conn, enqueued, cleared>>
          /\ tpc = "system" /\ tpc' = "clear" /\ cur' = Head(mSystemPacketQueue)
          /\ mSystemPacketQueue' = Tail(mSystemPacketQueue)
      BY <1>6, <2>2 DEF PopSystem
    <3>2. \A v \in User : Count(mSystemPacketQueue, v)
            = Count(mSystemPacketQueue', v) + One(Head(mSystemPacketQueue) = v)
      BY <1>0, <2>2, <3>1, CountTail
    <3>3. \A v \in User : Clearing(v) = 0 /\ Clearing(v)' = One(cur' = v)
      BY <3>1 DEF Doing, One
    <3>4. \A v \in User : Count(mSystemPacketQueue', v) \in Nat
      BY <1>0, <2>2, <3>1, HeadTailProperties, CountType
    <3> HIDE DEF Clearing
    <3>5. ASSUME NEW v \in User
          PROVE  cleared'[v] + Count(mSystemPacketQueue', v) + Clearing(v)' = enqueued'[v]
      BY <1>0, <1>a, <1>b, <3>1, <3>2, <3>3, <3>4
    <3> QED BY <1>a, <3>1, <3>5 DEF Clears, Clearing
  <2> QED BY <2>1, <2>2
<1>7. CASE ClearWrite
  <2>1. /\ UNCHANGED <<conn, enqueued, cleared, mSystemPacketQueue, cur>>
        /\ tpc = "clear" /\ tpc' = "clearread"
    BY <1>7 DEF ClearWrite
  <2>2. \A v \in User : Clearing(v)' = Clearing(v)
    BY <2>1 DEF Doing
  <2> QED BY <1>3, <2>1, <2>2
<1>8. CASE ClearRead
  <2>1. /\ UNCHANGED <<conn, enqueued, mSystemPacketQueue, cur>>
        /\ tpc = "clearread" /\ tpc' = "pop" /\ cleared'[cur] = cleared[cur] + 1
        /\ \A v \in User : v # cur => cleared'[v] = cleared[v]
    BY <1>0, <1>8 DEF ClearRead
  <2>2. \A v \in User : Clearing(v)' = 0 /\ Clearing(v) = One(cur = v)
    BY <2>1 DEF Doing, One
  <2> HIDE DEF Clearing
  <2>3. ASSUME NEW v \in User
        PROVE  cleared'[v] + Count(mSystemPacketQueue', v) + Clearing(v)' = enqueued'[v]
    <3>1. CASE v = cur
      <4>1. Clearing(v) = 1
        BY <2>2, <3>1 DEF One
      <4> QED BY <1>0, <1>a, <2>1, <2>2, <3>1, <4>1
    <3>2. CASE v # cur
      <4>1. Clearing(v) = 0
        BY <2>2, <3>2 DEF One
      <4> QED BY <1>0, <1>a, <2>1, <2>2, <3>2, <4>1
    <3> QED BY <3>1, <3>2
  <2> QED BY <1>a, <2>1, <2>3 DEF Clears, Clearing
<1>9. CASE UNCHANGED vars
  BY <1>3, <1>9 DEF vars, Doing
<1> QED BY <1>1, <1>2, <1>4, <1>5, <1>6, <1>7, <1>8, <1>9 DEF Next, ProcessPacket

-----------------------------------------------------------------------------
(* A user's own steps *)

(* Of u alone, but for what the packet thread is at. *)
Mine(u) ==
  <<mPacketDataBuffer[u], WritePos[u], ReadPos[u], chunk[u], base[u], sent[u],
    conn[u], cleared[u], handled[u], cut[u], Count(mIncomingPacketUserIndex, u)>>

LEMMA Untouched ==
  ASSUME NEW v \in User, Flow(v), Mine(v)' = Mine(v),
         \/ hpc'[v] = hpc[v]
         \/ hpc[v] \in {"none", "posted"} /\ hpc'[v] \in {"none", "posted"},
         Doing(v)' = Doing(v),
         Doing(v) \in {"get", "advance", "handle"} => UNCHANGED <<top, at, len>>
  PROVE  Flow(v)'
<1>1. /\ \A h \in Handling : hpc'[v] = h <=> hpc[v] = h
      /\ hpc'[v] \in Handling <=> hpc[v] \in Handling
  BY DEF Handling
<1>2. /\ Turning(v)' = Turning(v) /\ Span(v)' = Span(v)
      /\ Pending(v)' = Pending(v) /\ Indices(v)' = Indices(v)
  BY <1>1 DEF Mine, Turning, Span, Pending, Indices, Handling, One
<1>3. Calm(v)'
  BY <1>1 DEF Flow, Calm, Mine, Handling
<1>4. PICK a \in DOMAIN Start : Lies(v, a) /\ Taken(v, a) /\ (~cut[v] => Whole(v, a))
  BY DEF Flow
<1>5. Lies(v, a)'
  BY <1>2, <1>4 DEF Lies, Mine
<1>6. Taken(v, a)'
  BY <1>4 DEF Taken, Mine
<1>7. ~cut[v]' => Whole(v, a)'
  BY <1>1, <1>2, <1>4 DEF Whole, Mine
<1> QED BY <1>3, <1>4, <1>5, <1>6, <1>7 DEF Flow

LEMMA Values ==
  ASSUME FlowInv, NEW v \in User
  PROVE  /\ WritePos[v] \in Nat /\ WritePos[v] < Size /\ ReadPos[v] \in Nat
         /\ base[v] \in Nat /\ sent[v] \in Nat /\ conn[v] \in Nat /\ cleared[v] \in Nat
         /\ chunk[v] \in Seq(0..StreamEnd) /\ Len(chunk[v]) \in Nat
         /\ DOMAIN chunk[v] = 1..Len(chunk[v]) /\ hpc[v] \in HandlerSteps
         /\ Count(mIncomingPacketUserIndex, v) \in Nat
         /\ Doing(v) \in GetsOn \cup {"pop", "clear", "clearread"}
         /\ cleared[v] <= conn[v]
         /\ Doing(v) \in {"clear", "clearread"} => cleared[v] < conn[v]
         /\ top \in Nat /\ at \in Nat /\ len \in Nat /\ Size \in Nat /\ cur \in User
         /\ Indices(v) \in Nat /\ Pending(v) \in Nat
<1>1. WriteInv /\ Histories /\ Clears
  BY DEF FlowInv
<1>2. /\ WritePos[v] \in 0..Size-1 /\ ReadPos[v] \in Nat /\ base[v] \in 0..Size-1
      /\ sent[v] \in 0..StreamEnd /\ conn[v] \in 0..MaxConn /\ enqueued[v] \in 0..MaxConn
      /\ hpc[v] \in HandlerSteps /\ mIncomingPacketUserIndex \in Seq(User)
      /\ mSystemPacketQueue \in Seq(User)
      /\ tpc \in GetsOn \cup {"pop", "system", "clear", "clearread"}
      /\ top \in 0..Size-1 /\ at \in Nat /\ len \in 0..Size /\ cur \in User
  BY <1>1 DEF WriteInv, TypeOK, HandlerSteps
<1>3. chunk[v] \in Seq(0..StreamEnd) /\ cleared[v] \in Nat
  BY <1>1 DEF WriteInv, Chunks, Histories
<1>4. Len(chunk[v]) \in Nat /\ DOMAIN chunk[v] = 1..Len(chunk[v])
  BY <1>3, LenProperties
<1>5. /\ Count(mIncomingPacketUserIndex, v) \in Nat /\ Count(mSystemPacketQueue, v) \in Nat
  BY <1>2, CountType
<1>6. /\ WritePos[v] \in Nat /\ WritePos[v] < Size /\ base[v] \in Nat /\ sent[v] \in Nat
      /\ conn[v] \in Nat /\ enqueued[v] \in Nat /\ top \in Nat /\ len \in Nat
  BY <1>2, Bounds
<1>7. /\ cleared[v] + Count(mSystemPacketQueue, v) + One(Doing(v) \in {"clear", "clearread"})
           = enqueued[v]
      /\ enqueued[v] <= conn[v]
  BY <1>1 DEF Clears
<1>8. cleared[v] <= conn[v] /\ (Doing(v) \in {"clear", "clearread"} => cleared[v] < conn[v])
  <2>1. CASE Doing(v) \in {"clear", "clearread"}
    <3>1. One(Doing(v) \in {"clear", "clearread"}) = 1
      BY <2>1 DEF One
    <3> QED BY <1>3, <1>5, <1>6, <1>7, <3>1
  <2>2. CASE Doing(v) \notin {"clear", "clearread"}
    <3>1. One(Doing(v) \in {"clear", "clearread"}) = 0
      BY <2>2 DEF One
    <3> QED BY <1>3, <1>5, <1>6, <1>7, <2>2, <3>1
  <2> QED BY <2>1, <2>2
<1>9. Doing(v) \in GetsOn \cup {"pop", "clear", "clearread"}
  BY <1>2 DEF Doing
<1>10. Indices(v) \in Nat /\ Pending(v) \in Nat
  BY <1>4, <1>5 DEF Indices, Pending, One
<1> QED BY <1>2, <1>3, <1>4, <1>5, <1>6, <1>8, <1>9, <1>10, Bounds

(* A new connection begins with a packet; its Clear is to come. *)
LEMMA FlowConnect ==
  ASSUME FlowInv, NEW u \in User, Connect(u), ~disturbed[u]
  PROVE  Flow(u)'
<1>1. PICK m \in Numbers : /\ Start[m] > sent[u]
                           /\ sent' = [sent EXCEPT ![u] = Start[m] - 1]
  BY DEF Connect
<1>2. /\ hpc[u] = "none" /\ hpc'[u] = "posted" /\ conn'[u] = conn[u] + 1
      /\ sent'[u] = Start[m] - 1
      /\ UNCHANGED <<mPacketDataBuffer, WritePos, ReadPos, chunk, base, cleared,
                     mIncomingPacketUserIndex, tpc, cur, top, at, len, handled, cut>>
  BY <1>1 DEF Connect, FlowInv, WriteInv, TypeOK, posVars, queueVars, threadVars, histVars
<1>3. Calm(u) /\ \E a \in DOMAIN Start : Lies(u, a) /\ Taken(u, a) /\ (~cut[u] => Whole(u, a))
  BY DEF FlowInv, Flow
<1>4. PICK a \in DOMAIN Start : Lies(u, a) /\ Taken(u, a) /\ (~cut[u] => Whole(u, a))
  BY <1>3
<1>5. /\ Start[m] \in Nat /\ Start[a] \in Nat /\ sent[u] \in Nat /\ m \in DOMAIN Start
  BY <1>1, <1>4, Places, Packets, Values
<1>6. /\ conn[u] \in Nat /\ cleared[u] \in Nat /\ cleared[u] <= conn[u]
      /\ WritePos[u] \in Nat /\ ReadPos[u] \in Nat /\ Pending(u) \in Nat
  BY Values
<1>7. Doing(u)' = Doing(u)
  BY <1>2 DEF Doing
<1>8. /\ Turning(u)' = Turning(u) /\ Span(u)' = Span(u) /\ Pending(u)' = Pending(u)
      /\ Indices(u)' = Indices(u)
  BY <1>2, <1>7 DEF Turning, Span, Pending, Indices, One
<1>9. cleared'[u] # conn'[u] /\ sent'[u] >= sent[u] /\ sent'[u] + 1 = Start[m]
  BY <1>1, <1>2, <1>5, <1>6
<1>10. Calm(u)'
  BY <1>2, <1>3, <1>5, <1>7, <1>9 DEF Calm, Handling
<1>11. Lies(u, a)'
  <2>1. Span(u) \in Int
    BY <1>6 DEF Span
  <2>2. Start[a] + Span(u) <= sent'[u] - Pending(u) + 1
    <3>1. Start[a] + Span(u) <= sent[u] - Pending(u) + 1 /\ sent'[u] \in Int
      BY <1>2, <1>4, <1>5 DEF Lies
    <3> QED BY <1>5, <1>6, <1>9, <2>1, <3>1
  <2> QED BY <1>2, <1>4, <1>8, <1>9, <2>2 DEF Lies
<1>12. Taken(u, a)'
  BY <1>2, <1>4, <1>7 DEF Taken
<1>13. ~cut[u]' => Whole(u, a)'
  BY <1>2, <1>4, <1>7, <1>8 DEF Whole, Handling
<1> QED BY <1>10, <1>11, <1>12, <1>13 DEF Flow

(* Bytes arrive behind those that are counted: a packet, if the receive is not *)
(* cut.                                                                    *)
LEMMA FlowDeliver ==
  ASSUME FlowInv, NEW u \in User, NEW n \in 1..MaxChunk, Deliver(u, n), ~disturbed'[u]
  PROVE  Flow(u)'
<1> DEFINE c == [k \in 1..n |-> sent[u] + k]
<1>1. n \in Nat /\ Len(c) = n
  BY Bounds
<1>3. /\ ~disturbed[u] /\ cleared[u] >= conn[u]
      /\ ~cut'[u] => ~cut[u] /\ \E m \in Numbers : c = Bytes(m)
  <2>1. disturbed'[u] = (disturbed[u] \/ cleared[u] < conn[u])
    BY DEF Deliver, FlowInv, Histories
  <2>2. cut'[u] = (cut[u] \/ \A m \in Numbers : c # Bytes(m))
    BY DEF Deliver, FlowInv, Histories
  <2>3. cleared[u] \in Nat /\ conn[u] \in Nat
    BY Values
  <2>4. ~disturbed[u] /\ ~(cleared[u] < conn[u])
    BY <2>1, Zenon
  <2>5. ~cut'[u] => ~cut[u] /\ \E m \in Numbers : c = Bytes(m)
    BY <2>2, Zenon
  <2> QED BY <2>3, <2>4, <2>5
<1> HIDE DEF c
<1>4. /\ hpc[u] = "posted" /\ hpc'[u] = "check" /\ chunk'[u] = c /\ sent'[u] = sent[u] + n
      /\ UNCHANGED <<mPacketDataBuffer, WritePos, ReadPos, base, conn, cleared,
                     mIncomingPacketUserIndex, tpc, cur, top, at, len, handled>>
  BY DEF Deliver, Step, FlowInv, WriteInv, TypeOK, Chunks, posVars, connVars, queueVars,
     threadVars, c
<1>5. PICK a \in DOMAIN Start : Lies(u, a) /\ Taken(u, a) /\ (~cut[u] => Whole(u, a))
  BY <1>3 DEF FlowInv, Flow
<1>6. /\ conn[u] \in Nat /\ cleared[u] \in Nat /\ cleared[u] <= conn[u] /\ sent[u] \in Nat
  BY Values
<1>7. cleared[u] = conn[u] /\ cleared'[u] = conn'[u]
  BY <1>3, <1>4, <1>6
<1>8. Doing(u)' = Doing(u)
  BY <1>4 DEF Doing
<1>9. Len(chunk[u]) = 0 /\ chunk[u] = <<>>
  <2>1. chunk[u] = <<>>
    BY <1>4 DEF FlowInv, Received, Handling
  <2> QED BY <2>1
<1>10. /\ Turning(u)' = Turning(u) /\ Span(u)' = Span(u) /\ Indices(u)' = Indices(u)
  BY <1>4, <1>8 DEF Turning, Span, Indices, One
<1>11. Pending(u) = 0 /\ Pending(u)' = n
  BY <1>1, <1>4, <1>9 DEF Pending
<1>12. Calm(u)'
  <2>1. Calm(u)
    BY <1>3 DEF FlowInv, Flow
  <2> QED BY <1>4, <1>7, <1>8, <2>1 DEF Calm, Handling
<1>13. Lies(u, a)'
  <2>1. sent'[u] - Pending(u)' + 1 = sent[u] - Pending(u) + 1
    BY <1>1, <1>4, <1>6, <1>11
  <2> QED BY <1>4, <1>5, <1>10, <2>1 DEF Lies
<1>14. Taken(u, a)'
  BY <1>4, <1>5, <1>8 DEF Taken
<1>15. ~cut[u]' => Whole(u, a)'
  BY <1>3, <1>4, <1>5, <1>8, <1>10 DEF Whole
<1> QED BY <1>12, <1>13, <1>14, <1>15 DEF Flow

(* A wrap finds everything taken and the packet thread elsewhere. *)
LEMMA FlowCheckRoom ==
  ASSUME FlowInv, NEW u \in User, CheckRoom(u), ~disturbed'[u]
  PROVE  Flow(u)'
<1>1. disturbed'[u] = (disturbed[u] \/ (Full(u) /\ Busy(u)))
  BY DEF CheckRoom, FlowInv, Histories
<1>2. /\ hpc[u] = "check" /\ hpc'[u] \in {"move", "copy"} /\ (hpc'[u] = "move" => Full(u))
      /\ UNCHANGED <<mPacketDataBuffer, WritePos, ReadPos, chunk, base, sent, conn, cleared,
                     mIncomingPacketUserIndex, tpc, cur, top, at, len, handled, cut>>
  BY DEF CheckRoom, Step, FlowInv, WriteInv, TypeOK, posVars, connVars, queueVars, threadVars
<1>3. ~disturbed[u] /\ (hpc'[u] = "move" => ~Busy(u))
  BY <1>1, <1>2
<1>4. PICK a \in DOMAIN Start : Lies(u, a) /\ Taken(u, a) /\ (~cut[u] => Whole(u, a))
  BY <1>3 DEF FlowInv, Flow
<1>5. Doing(u)' = Doing(u)
  BY <1>2 DEF Doing
<1>6. /\ Turning(u)' = Turning(u) /\ Span(u)' = Span(u) /\ Indices(u)' = Indices(u)
      /\ Pending(u)' = Pending(u)
  BY <1>2, <1>5 DEF Turning, Span, Indices, Pending, One
<1>7. Calm(u)'
  <2>1. Calm(u)
    BY <1>3 DEF FlowInv, Flow
  <2>2. hpc'[u] = "move" => /\ ReadPos[u] = WritePos[u] /\ Doing(u) \notin GetsOn
                            /\ Count(mIncomingPacketUserIndex, u) = 0
    <3>1. mIncomingPacketUserIndex \in Seq(User)
      BY DEF FlowInv, WriteInv, TypeOK
    <3>2. ~Contains(mIncomingPacketUserIndex, u) => Count(mIncomingPacketUserIndex, u) = 0
      BY <3>1, LenProperties, CountType DEF Contains
    <3>3. Doing(u) \in GetsOn => tpc \in GetsOn /\ cur = u
      BY DEF Doing, GetsOn
    <3> QED BY <1>3, <3>2, <3>3 DEF Busy
  <2> QED BY <1>2, <1>5, <2>1, <2>2 DEF Calm, Handling
<1>8. Lies(u, a)'
  BY <1>2, <1>4, <1>6 DEF Lies
<1>9. Taken(u, a)'
  BY <1>2, <1>4, <1>5 DEF Taken
<1>10. ~cut[u]' => Whole(u, a)'
  BY <1>2, <1>4, <1>5, <1>6 DEF Whole, Handling
<1> QED BY <1>4, <1>7, <1>8, <1>9, <1>10 DEF Flow

LEMMA FlowMoveRest ==
  ASSUME FlowInv, NEW u \in User, MoveRest(u), ~disturbed[u]
  PROVE  Flow(u)'
<1>1. /\ hpc[u] = "move" /\ hpc'[u] = "wrap"
      /\ UNCHANGED <<WritePos, ReadPos, chunk, base, sent, conn, cleared,
                     mIncomingPacketUserIndex, tpc, cur, top, at, len, handled, cut>>
  BY DEF MoveRest, Step, FlowInv, WriteInv, TypeOK, posVars, connVars, queueVars,
     threadVars, histVars
<1>2. Calm(u)
  BY DEF FlowInv, Flow
<1>3. PICK a \in DOMAIN Start : Lies(u, a) /\ Taken(u, a) /\ (~cut[u] => Whole(u, a))
  BY DEF FlowInv, Flow
<1>4. Doing(u)' = Doing(u) /\ Doing(u) \notin GetsOn /\ ReadPos[u] = WritePos[u]
  BY <1>1, <1>2 DEF Doing, Calm
<1>5. /\ Turning(u)' = Turning(u) /\ Span(u)' = Span(u) /\ Indices(u)' = Indices(u)
      /\ Pending(u)' = Pending(u)
  BY <1>1, <1>4 DEF Turning, Span, Indices, Pending, One
<1>6. Calm(u)'
  BY <1>1, <1>2, <1>4 DEF Calm, Handling
<1>7. Lies(u, a)'
  <2>1. ReadPos[u]..WritePos[u]-1 = {}
    <3>1. WritePos[u] \in Nat
      BY Values
    <3> QED BY <1>4, <3>1
  <2> QED BY <1>1, <1>3, <1>5, <2>1 DEF Lies
<1>8. Taken(u, a)'
  BY <1>1, <1>3, <1>4 DEF Taken, GetsOn
<1>9. ~cut[u]' => Whole(u, a)'
  BY <1>1, <1>3, <1>4, <1>5 DEF Whole, Handling
<1> QED BY <1>6, <1>7, <1>8, <1>9 DEF Flow

LEMMA FlowWrapWrite ==
  ASSUME FlowInv, NEW u \in User, WrapWrite(u), ~disturbed[u]
  PROVE  Flow(u)'
<1>1. /\ hpc[u] = "wrap" /\ hpc'[u] = "rewind" /\ WritePos'[u] = 0
      /\ UNCHANGED <<mPacketDataBuffer, ReadPos, chunk, base, sent, conn, cleared,
                     mIncomingPacketUserIndex, tpc, cur, top, at, len, handled, cut>>
  BY DEF WrapWrite, Step, FlowInv, WriteInv, TypeOK, connVars, queueVars, threadVars,
     histVars
<1>2. Calm(u)
  BY DEF FlowInv, Flow
<1>3. PICK a \in DOMAIN Start : Lies(u, a) /\ Taken(u, a) /\ (~cut[u] => Whole(u, a))
  BY DEF FlowInv, Flow
<1>4. Doing(u)' = Doing(u) /\ Doing(u) \notin GetsOn /\ ReadPos[u] = WritePos[u]
  BY <1>1, <1>2 DEF Doing, Calm
<1>5. Span(u) = 0 /\ Span(u)' = 0 /\ Turning(u)'
  <2>1. WritePos[u] \in Nat
    BY Values
  <2> QED BY <1>1, <1>4, <2>1 DEF Span, Turning
<1>6. Indices(u)' = Indices(u) /\ Pending(u)' = Pending(u)
  BY <1>1 DEF Indices, Pending, One
<1>7. Calm(u)'
  BY <1>1, <1>2, <1>4 DEF Calm, Handling
<1>8. Lies(u, a)'
  BY <1>1, <1>3, <1>5, <1>6 DEF Lies
<1>9. Taken(u, a)'
  BY <1>1, <1>3, <1>4 DEF Taken, GetsOn
<1>10. ~cut[u]' => Whole(u, a)'
  BY <1>1, <1>3, <1>4, <1>5, <1>6 DEF Whole, Handling, GetsOn
<1> QED BY <1>7, <1>8, <1>9, <1>10 DEF Flow

LEMMA FlowWrapRead ==
  ASSUME FlowInv, NEW u \in User, WrapRead(u), ~disturbed[u]
  PROVE  Flow(u)'
<1>1. /\ hpc[u] = "rewind" /\ hpc'[u] = "copy" /\ ReadPos'[u] = 0
      /\ UNCHANGED <<mPacketDataBuffer, WritePos, chunk, base, sent, conn, cleared,
                     mIncomingPacketUserIndex, tpc, cur, top, at, len, handled, cut>>
  BY DEF WrapRead, Step, FlowInv, WriteInv, TypeOK, connVars, queueVars, threadVars,
     histVars
<1>2. Calm(u)
  BY DEF FlowInv, Flow
<1>3. PICK a \in DOMAIN Start : Lies(u, a) /\ Taken(u, a) /\ (~cut[u] => Whole(u, a))
  BY DEF FlowInv, Flow
<1>4. Doing(u)' = Doing(u) /\ Doing(u) \notin GetsOn
  BY <1>1, <1>2 DEF Doing, Calm
<1>5. WritePos[u] = 0 /\ Doing(u) # "clearread"
  <2>1. WritePos[u] = 0
    BY <1>1 DEF FlowInv, WriteInv, RoomLeft
  <2>2. cleared[u] = conn[u] /\ cleared[u] \in Nat /\ conn[u] \in Nat
    BY <1>1, <1>2, Values DEF Calm, Handling
  <2>3. Doing(u) # "clearread"
    BY <2>2, Values
  <2> QED BY <2>1, <2>3
<1>6. Span(u) = 0 /\ Span(u)' = 0 /\ ~Turning(u)'
  BY <1>1, <1>4, <1>5 DEF Span, Turning
<1>7. Indices(u)' = Indices(u) /\ Pending(u)' = Pending(u)
  BY <1>1 DEF Indices, Pending, One
<1>8. Calm(u)'
  BY <1>1, <1>2, <1>4, <1>5 DEF Calm, Handling
<1>9. Lies(u, a)'
  BY <1>1, <1>3, <1>5, <1>6, <1>7 DEF Lies
<1>10. Taken(u, a)'
  BY <1>1, <1>3, <1>4 DEF Taken, GetsOn
<1>11. ~cut[u]' => Whole(u, a)'
  BY <1>1, <1>3, <1>4, <1>6, <1>7 DEF Whole, Handling, GetsOn
<1> QED BY <1>8, <1>9, <1>10, <1>11 DEF Flow

(* The handler's worker writes behind what is counted, so it changes nothing   *)
(* the packet thread may read.                                              *)
LEMMA FlowCopyData ==
  ASSUME FlowInv, NEW u \in User, CopyData(u), ~disturbed[u]
  PROVE  Flow(u)'
<1> DEFINE b == mPacketDataBuffer[u]
           w == WritePos[u]
<1>1. /\ hpc[u] = "copy" /\ hpc'[u] = "add" /\ base'[u] = WritePos[u]
      /\ mPacketDataBuffer'[u] =
           [k \in 0..Size-1 |-> IF k - w + 1 \in DOMAIN chunk[u]
                                THEN chunk[u][k - w + 1] ELSE b[k]]
      /\ UNCHANGED <<WritePos, ReadPos, chunk, sent, conn, cleared,
                     mIncomingPacketUserIndex, tpc, cur, top, at, len, handled, cut>>
  BY DEF CopyData, Step, FlowInv, WriteInv, TypeOK, posVars, connVars, queueVars,
     threadVars, histVars
<1>2. Calm(u)
  BY DEF FlowInv, Flow
<1>3. PICK a \in DOMAIN Start : Lies(u, a) /\ Taken(u, a) /\ (~cut[u] => Whole(u, a))
  BY DEF FlowInv, Flow
<1>4. Doing(u)' = Doing(u)
  BY <1>1 DEF Doing
<1>5. /\ Turning(u)' = Turning(u) /\ Span(u)' = Span(u) /\ Indices(u)' = Indices(u)
      /\ Pending(u)' = Pending(u)
  BY <1>1, <1>4 DEF Turning, Span, Indices, Pending, One
<1>6. /\ WritePos[u] \in Nat /\ WritePos[u] < Size /\ ReadPos[u] \in Nat /\ Size \in Nat
      /\ DOMAIN chunk[u] = 1..Len(chunk[u]) /\ Len(chunk[u]) \in Nat
      /\ WritePos[u] + Len(chunk[u]) < Size /\ at \in Nat /\ len \in Nat
  BY <1>1, Values DEF FlowInv, WriteInv, RoomLeft
<1>7. /\ \A k \in DOMAIN chunk[u] : mPacketDataBuffer'[u][WritePos[u] + k - 1] = chunk[u][k]
      /\ \A k \in 0..WritePos[u]-1 : mPacketDataBuffer'[u][k] = mPacketDataBuffer[u][k]
  <2>1. ASSUME NEW k \in DOMAIN chunk[u]
        PROVE  mPacketDataBuffer'[u][WritePos[u] + k - 1] = chunk[u][k]
    <3>1. WritePos[u] + k - 1 \in 0..Size-1 /\ (WritePos[u] + k - 1) - w + 1 = k
      BY <1>6
    <3> QED BY <1>1, <3>1
  <2>2. ASSUME NEW k \in 0..WritePos[u]-1
        PROVE  mPacketDataBuffer'[u][k] = mPacketDataBuffer[u][k]
    <3>1. k \in 0..Size-1 /\ k - w + 1 \notin DOMAIN chunk[u]
      BY <1>6
    <3> QED BY <1>1, <3>1
  <2> QED BY <2>1, <2>2
<1>8. Calm(u)'
  BY <1>1, <1>2, <1>4, <1>7 DEF Calm, Handling
<1>9. Lies(u, a)'
  <2>1. ReadPos[u]..WritePos[u]-1 \subseteq 0..WritePos[u]-1
    BY <1>6
  <2> QED BY <1>1, <1>3, <1>5, <1>7, <2>1 DEF Lies
<1>10. Taken(u, a)'
  <2>1. ASSUME Doing(u) = "handle", NEW k \in 1..len
        PROVE  mPacketDataBuffer'[u][at + k - 1] = mPacketDataBuffer[u][at + k - 1]
    <3>1. at + len = ReadPos[u]
      BY <1>3, <2>1 DEF Taken
    <3>2. ReadPos[u] <= WritePos[u]
      BY <1>1, <1>3, <2>1 DEF Lies, Turning
    <3>3. at + k - 1 \in 0..WritePos[u]-1
      BY <1>6, <3>1, <3>2
    <3> QED BY <1>7, <3>3
  <2> QED BY <1>1, <1>3, <1>4, <2>1 DEF Taken
<1>11. ~cut[u]' => Whole(u, a)'
  BY <1>1, <1>3, <1>4, <1>5 DEF Whole, Handling
<1> QED BY <1>8, <1>9, <1>10, <1>11 DEF Flow

LEMMA FlowAddSize ==
  ASSUME FlowInv, NEW u \in User, AddSize(u), ~disturbed[u]
  PROVE  Flow(u)'
<1>1. Calm(u)
  BY DEF FlowInv, Flow
<1>2. /\ hpc[u] = "add" /\ hpc'[u] = "push" /\ base[u] = WritePos[u]
      /\ WritePos'[u] = WritePos[u] + Len(chunk[u])
      /\ UNCHANGED <<mPacketDataBuffer, ReadPos, chunk, base, sent, conn, cleared,
                     mIncomingPacketUserIndex, tpc, cur, top, at, len, handled, cut>>
  <2>1. hpc[u] = "add"
    BY DEF AddSize, Step
  <2>2. base[u] = WritePos[u]
    BY <1>1, <2>1 DEF Calm
  <2> QED BY <2>1, <2>2 DEF AddSize, Step, FlowInv, WriteInv, TypeOK, connVars, queueVars,
     threadVars, histVars
<1>3. PICK a \in DOMAIN Start : Lies(u, a) /\ Taken(u, a) /\ (~cut[u] => Whole(u, a))
  BY DEF FlowInv, Flow
<1>4. Doing(u)' = Doing(u)
  BY <1>2 DEF Doing
<1>5. /\ WritePos[u] \in Nat /\ ReadPos[u] \in Nat /\ Len(chunk[u]) \in Nat
      /\ sent[u] \in Nat /\ Start[a] \in Nat /\ DOMAIN chunk[u] = 1..Len(chunk[u])
      /\ top \in Nat /\ at \in Nat /\ len \in Nat /\ Indices(u) \in Nat
      /\ Count(mIncomingPacketUserIndex, u) \in Nat
  BY <1>3, Values, Places
<1>6. cleared[u] = conn[u] /\ cleared'[u] = conn'[u] /\ Doing(u) # "clearread"
  <2>1. cleared[u] = conn[u] /\ cleared[u] \in Nat
    BY <1>1, <1>2, Values DEF Calm, Handling
  <2>2. Doing(u) # "clearread"
    BY <2>1, Values
  <2> QED BY <1>2, <2>1, <2>2
<1>7. /\ ~Turning(u) /\ ~Turning(u)' /\ Span(u) = WritePos[u] - ReadPos[u]
      /\ Span(u)' = WritePos[u] + Len(chunk[u]) - ReadPos[u]
      /\ Pending(u) = Len(chunk[u]) /\ Pending(u)' = 0 /\ Indices(u)' = Indices(u) + 1
  BY <1>2, <1>4, <1>5, <1>6 DEF Turning, Span, Pending, Indices, One
<1>8. /\ ReadPos[u] <= WritePos[u]
      /\ \A k \in ReadPos[u]..WritePos[u]-1 :
           mPacketDataBuffer[u][k] = Start[a] + (k - ReadPos[u])
      /\ Start[a] + (WritePos[u] - ReadPos[u]) = sent[u] - Len(chunk[u]) + 1
  BY <1>3, <1>6, <1>7 DEF Lies
<1>8a. Start[a] + (WritePos[u] - ReadPos[u]) = sent[u] - Len(chunk[u]) + 1
  BY <1>8
<1>8b. PICK w \in Int, r \in Int, n \in Int, e \in Int, f \in Int :
         /\ w = WritePos[u] /\ r = ReadPos[u] /\ n = Len(chunk[u])
         /\ e = sent[u] /\ f = Start[a]
  BY <1>5
<1>8c. f + (w - r) = e - n + 1
  BY <1>8a, <1>8b
<1>9. Calm(u)'
  BY <1>1, <1>2, <1>4, <1>6 DEF Calm, Handling
<1>10. Lies(u, a)'
  <2>1. ASSUME NEW k \in ReadPos[u]..(WritePos[u] + Len(chunk[u]))-1
        PROVE  mPacketDataBuffer[u][k] = Start[a] + (k - ReadPos[u])
    <3>1. CASE k < WritePos[u]
      BY <1>5, <1>8, <3>1
    <3>2. CASE ~(k < WritePos[u])
      <4> DEFINE j == k - WritePos[u] + 1
      <4>1. j \in DOMAIN chunk[u] /\ WritePos[u] + j - 1 = k
        BY <1>5, <3>2
      <4>2. mPacketDataBuffer[u][k] = chunk[u][j]
        BY <1>1, <1>2, <4>1 DEF Calm
      <4>3. chunk[u][j] = sent[u] - Len(chunk[u]) + j
        BY <4>1 DEF FlowInv, Received
      <4>4. mPacketDataBuffer[u][k] = sent[u] - Len(chunk[u]) + (k - WritePos[u] + 1)
        BY <4>2, <4>3
      <4>5. k \in Int
        BY <1>5
      <4> HIDE DEF j
      <4>6. e - n + (k - w + 1) = f + (k - r)
        BY <1>8c, <4>5
      <4>7. sent[u] - Len(chunk[u]) + (k - WritePos[u] + 1) = Start[a] + (k - ReadPos[u])
        BY <1>8b, <4>6
      <4> QED BY <4>4, <4>7
    <3> QED BY <3>1, <3>2
  <2>2. ReadPos[u] <= WritePos[u] + Len(chunk[u])
    BY <1>5, <1>8
  <2>3. Start[a] + (WritePos[u] + Len(chunk[u]) - ReadPos[u]) = sent[u] + 1
    <3>1. f + (w + n - r) = e + 1
      BY <1>8c
    <3> QED BY <1>8b, <3>1
  <2>4. /\ WritePos'[u] = WritePos[u] + Len(chunk[u]) /\ ReadPos'[u] = ReadPos[u]
        /\ mPacketDataBuffer' = mPacketDataBuffer /\ sent' = sent
    BY <1>2
  <2>5. \A k \in ReadPos'[u]..WritePos'[u]-1 :
          mPacketDataBuffer'[u][k] = Start[a] + (k - ReadPos'[u])
    BY <2>1, <2>4
  <2>6. Start[a] + Span(u)' = sent'[u] + 1
    BY <1>7, <2>3, <2>4
  <2>7. sent'[u] - Pending(u)' + 1 = sent'[u] + 1
    BY <1>5, <1>7, <2>4
  <2>8. Start[a] + Span(u)' = sent'[u] - Pending(u)' + 1
    BY <2>6, <2>7
  <2>9. ReadPos'[u] <= WritePos'[u] /\ Start[a] + Span(u)' \in Int
    BY <1>5, <2>2, <2>4, <2>6
  <2> QED BY <2>5, <2>8, <2>9 DEF Lies
<1>11. Taken(u, a)'
  <2>1. /\ Doing(u) = "get" => top <= WritePos[u] + Len(chunk[u])
        /\ Doing(u) = "advance" => at + len <= WritePos[u] + Len(chunk[u])
    BY <1>3, <1>5 DEF Taken
  <2> QED BY <1>2, <1>3, <1>4, <2>1 DEF Taken
<1>12. ASSUME ~cut[u] PROVE Whole(u, a)'
  <2>1. PICK m \in Numbers : chunk[u] = Bytes(m)
    BY <1>2, <1>3, <1>12 DEF Whole, Handling
  <2>2. PICK b \in DOMAIN Start :
          /\ Start[b] = Start[a] + Span(u)
          /\ b - a <= Indices(u) + One(Doing(u) \in {"load", "get", "advance"})
          /\ Doing(u) = "get" =>
               \E c \in DOMAIN Start : /\ Start[c] = Start[a] + (top - ReadPos[u])
                                       /\ b - c <= Indices(u)
    BY <1>3, <1>12 DEF Whole
  <2>3. /\ m \in DOMAIN Start /\ m + 1 \in DOMAIN Start /\ Start[m] \in Nat
        /\ Len(chunk[u]) >= 1 /\ Len(chunk[u]) = PacketLength(m) /\ chunk[u][1] = Start[m]
        /\ Start[m + 1] = Start[m] + Len(chunk[u])
    <3>1. /\ m \in DOMAIN Start /\ m + 1 \in DOMAIN Start
          /\ PacketLength(m) \in Nat /\ PacketLength(m) >= 1
          /\ Start[m + 1] = Start[m] + PacketLength(m)
          /\ Len(Bytes(m)) = PacketLength(m) /\ Start[m] \in Nat
          /\ \A k \in 1..PacketLength(m) : Bytes(m)[k] = Start[m] + k - 1
      BY Packets, Places
    <3>2. Bytes(m)[1] = Start[m]
      BY <3>1
    <3> QED BY <2>1, <3>1, <3>2
  <2>4. chunk[u][1] = sent[u] - Len(chunk[u]) + 1
    BY <1>5, <2>3 DEF FlowInv, Received
  <2>5. b = m
    <3>1. Start[b] = Start[m]
      BY <1>7, <1>8, <2>2, <2>3, <2>4
    <3> QED BY <2>3, <3>1, Places
  <2>6. b \in Nat /\ a \in Nat /\ b + 1 \in DOMAIN Start
    BY <2>3, <2>5, Places
  <2>7. Start[b + 1] = Start[a] + Span(u)'
    BY <1>5, <1>7, <2>2, <2>3, <2>5
  <2>8. (b + 1) - a <= Indices(u)' + One(Doing(u)' \in {"load", "get", "advance"})
    BY <1>4, <1>5, <1>7, <2>2, <2>6 DEF One
  <2>9. ASSUME Doing(u)' = "get"
        PROVE  \E c \in DOMAIN Start : /\ Start[c] = Start[a] + (top' - ReadPos'[u])
                                       /\ (b + 1) - c <= Indices(u)'
    <3>1. PICK c \in DOMAIN Start : /\ Start[c] = Start[a] + (top - ReadPos[u])
                                    /\ b - c <= Indices(u)
      BY <1>4, <2>2, <2>9
    <3>2. (b + 1) - c <= Indices(u)'
      <4>1. c \in Nat
        BY Places
      <4> QED BY <1>5, <1>7, <2>6, <3>1, <4>1
    <3> QED BY <1>2, <3>1, <3>2
  <2>10. \E d \in DOMAIN Start :
           /\ Start[d] = Start[a] + Span(u)'
           /\ d - a <= Indices(u)' + One(Doing(u)' \in {"load", "get", "advance"})
           /\ Doing(u)' = "get" =>
                \E c \in DOMAIN Start : /\ Start[c] = Start[a] + (top' - ReadPos'[u])
                                        /\ d - c <= Indices(u)'
    <3> DEFINE d == b + 1
    <3>1. /\ d \in DOMAIN Start /\ Start[d] = Start[a] + Span(u)'
          /\ d - a <= Indices(u)' + One(Doing(u)' \in {"load", "get", "advance"})
          /\ Doing(u)' = "get" =>
               \E c \in DOMAIN Start : /\ Start[c] = Start[a] + (top' - ReadPos'[u])
                                       /\ d - c <= Indices(u)'
      <4>1. d \in DOMAIN Start /\ Start[d] = Start[a] + Span(u)'
        BY <2>6, <2>7
      <4>2. d - a <= Indices(u)' + One(Doing(u)' \in {"load", "get", "advance"})
        BY <2>8
      <4>3. Doing(u)' = "get" =>
               \E c \in DOMAIN Start : /\ Start[c] = Start[a] + (top' - ReadPos'[u])
                                       /\ d - c <= Indices(u)'
        BY <2>9
      <4> QED BY <4>1, <4>2, <4>3
    <3> HIDE DEF d
    <3> QED BY <3>1
  <2>11. \E i \in Numbers : chunk'[u] = Bytes(i)
    BY <1>2, <2>1
  <2> QED BY <2>10, <2>11 DEF Whole
<1> QED BY <1>2, <1>9, <1>10, <1>11, <1>12 DEF Flow

LEMMA FlowEnqueuePacket ==
  ASSUME FlowInv, NEW u \in User, EnqueuePacket(u), ~disturbed[u]
  PROVE  Flow(u)'
<1>1. /\ hpc[u] = "push" /\ hpc'[u] = "posted" /\ chunk'[u] = <<>>
      /\ mIncomingPacketUserIndex' = Append(mIncomingPacketUserIndex, u)
      /\ UNCHANGED <<mPacketDataBuffer, WritePos, ReadPos, sent, conn, cleared,
                     tpc, cur, top, at, len, handled, cut>>
  BY DEF EnqueuePacket, Step, FlowInv, WriteInv, TypeOK, Chunks, posVars, connVars,
     threadVars, histVars
<1>2. Calm(u)
  BY DEF FlowInv, Flow
<1>3. PICK a \in DOMAIN Start : Lies(u, a) /\ Taken(u, a) /\ (~cut[u] => Whole(u, a))
  BY DEF FlowInv, Flow
<1>4. Doing(u)' = Doing(u)
  BY <1>1 DEF Doing
<1>5. Indices(u)' = Indices(u)
  <2>1. Count(mIncomingPacketUserIndex', u) = Count(mIncomingPacketUserIndex, u) + 1
    BY <1>1, CountAppend DEF FlowInv, WriteInv, TypeOK, One
  <2>2. Count(mIncomingPacketUserIndex, u) \in Nat
    BY Values
  <2> QED BY <1>1, <2>1, <2>2 DEF Indices, One
<1>6. /\ Turning(u)' = Turning(u) /\ Span(u)' = Span(u) /\ Pending(u)' = Pending(u)
  BY <1>1, <1>4 DEF Turning, Span, Pending
<1>7. Calm(u)'
  BY <1>1, <1>2, <1>4 DEF Calm, Handling
<1>8. Lies(u, a)'
  BY <1>1, <1>3, <1>6 DEF Lies
<1>9. Taken(u, a)'
  BY <1>1, <1>3, <1>4 DEF Taken
<1>10. ~cut[u]' => Whole(u, a)'
  BY <1>1, <1>3, <1>4, <1>5, <1>6 DEF Whole, Handling
<1> QED BY <1>7, <1>8, <1>9, <1>10 DEF Flow

-----------------------------------------------------------------------------
(* The packet thread's steps, for the user it works on *)

LEMMA BeforeLater ==
  ASSUME NEW h, NEW m \in Nat, NEW n \in Nat, m <= n, Before(h, m)
  PROVE  Before(h, n)
<1>1. PICK p \in [DOMAIN h -> Numbers] :
        \A i \in DOMAIN h : /\ h[i] = Bytes(p[i]) /\ p[i] < m
                            /\ \A j \in 1..i-1 : p[j] < p[i]
  BY DEF Before
<1>2. \A i \in DOMAIN h : p[i] < n
  <2>1. \A i \in DOMAIN h : p[i] \in Nat
    BY Packets
  <2> QED BY <1>1, <2>1
<1> QED BY <1>1, <1>2 DEF Before

LEMMA BeforeAppend ==
  ASSUME NEW S, NEW h \in Seq(S), NEW m \in Numbers, Before(h, m)
  PROVE  Before(Append(h, Bytes(m)), m + 1)
<1>1. PICK p \in [DOMAIN h -> Numbers] :
        \A i \in DOMAIN h : /\ h[i] = Bytes(p[i]) /\ p[i] < m
                            /\ \A j \in 1..i-1 : p[j] < p[i]
  BY DEF Before
<1> DEFINE n == Len(h)
           g == Append(h, Bytes(m))
           q == [i \in 1..n+1 |-> IF i <= n THEN p[i] ELSE m]
<1>2. /\ n \in Nat /\ DOMAIN h = 1..n /\ DOMAIN g = 1..n+1 /\ g[n + 1] = Bytes(m)
      /\ \A i \in 1..n : g[i] = h[i]
  OBVIOUS
<1>3. m \in Nat /\ \A i \in 1..n : p[i] \in Numbers /\ p[i] \in Nat
  BY <1>2, Packets
<1>4. q \in [DOMAIN g -> Numbers]
  BY <1>2, <1>3
<1>5. q[n + 1] = m /\ \A i \in 1..n : q[i] = p[i]
  BY <1>2
<1> HIDE DEF n, g, q
<1>6. ASSUME NEW i \in DOMAIN g
      PROVE  g[i] = Bytes(q[i]) /\ q[i] < m + 1 /\ \A j \in 1..i-1 : q[j] < q[i]
  <2>1. CASE i = n + 1
    <3>1. \A j \in 1..i-1 : j \in 1..n
      BY <1>2, <2>1
    <3>2. \A j \in 1..i-1 : q[j] < m
      BY <1>1, <1>2, <1>5, <3>1
    <3>3. g[i] = Bytes(q[i]) /\ q[i] = m
      BY <1>2, <1>5, <2>1
    <3> QED BY <1>3, <3>2, <3>3
  <2>2. CASE i # n + 1
    <3>1. i \in 1..n /\ \A j \in 1..i-1 : j \in 1..n
      BY <1>2, <2>2
    <3>2. g[i] = Bytes(q[i]) /\ \A j \in 1..i-1 : q[j] < q[i]
      BY <1>1, <1>2, <1>5, <3>1
    <3>3. p[i] < m /\ p[i] \in Nat /\ q[i] = p[i]
      BY <1>1, <1>2, <1>3, <1>5, <3>1
    <3> QED BY <1>3, <3>2, <3>3
  <2> QED BY <2>1, <2>2
<1>7. Before(g, m + 1)
  BY <1>4, <1>6 DEF Before
<1> QED BY <1>7 DEF g

(* What the packet thread leaves alone in most of its steps.                  *)
Theirs == <<mPacketDataBuffer, hpc, chunk, base, sent, conn, handled, cut>>

LEMMA FlowPopIndex ==
  ASSUME FlowInv, NEW u \in User, PopIndex, mIncomingPacketUserIndex # <<>>,
         u = Head(mIncomingPacketUserIndex), ~disturbed[u]
  PROVE  Flow(u)'
<1>1. /\ tpc = "pop" /\ tpc' = "load" /\ cur' = u
      /\ mIncomingPacketUserIndex' = Tail(mIncomingPacketUserIndex)
      /\ UNCHANGED <<Theirs, WritePos, ReadPos, cleared, top, at, len>>
  BY DEF PopIndex, Theirs, posVars, recvVars, connVars, histVars
<1>2. Calm(u)
  BY DEF FlowInv, Flow
<1>3. PICK a \in DOMAIN Start : Lies(u, a) /\ Taken(u, a) /\ (~cut[u] => Whole(u, a))
  BY DEF FlowInv, Flow
<1>4. Doing(u) = "pop" /\ Doing(u)' = "load"
  BY <1>1 DEF Doing
<1>5. /\ Count(mIncomingPacketUserIndex, u) = Count(mIncomingPacketUserIndex', u) + 1
      /\ Count(mIncomingPacketUserIndex', u) \in Nat
  <2>1. mIncomingPacketUserIndex \in Seq(User)
    BY DEF FlowInv, WriteInv, TypeOK
  <2>2. mIncomingPacketUserIndex' \in Seq(User)
    BY <1>1, <2>1, HeadTailProperties
  <2> QED BY <1>1, <2>1, <2>2, CountTail, CountType DEF One
<1>6. /\ Turning(u)' = Turning(u) /\ Span(u)' = Span(u) /\ Pending(u)' = Pending(u)
      /\ Indices(u) = Indices(u)' + 1 /\ Indices(u) \in Nat /\ Indices(u)' \in Nat
  BY <1>1, <1>4, <1>5 DEF Turning, Span, Pending, Indices, One, Theirs
<1>7. Calm(u)'
  <2>1. hpc[u] \notin {"move", "wrap", "rewind"}
    BY <1>2, <1>5 DEF Calm
  <2> QED BY <1>1, <1>2, <1>4, <2>1 DEF Calm, Handling, Theirs
<1>8. Lies(u, a)'
  BY <1>1, <1>3, <1>6 DEF Lies, Theirs
<1>9. Taken(u, a)'
  BY <1>1, <1>3, <1>4 DEF Taken, Theirs
<1>10. ASSUME ~cut[u] PROVE Whole(u, a)'
  <2>1. PICK b \in DOMAIN Start : /\ Start[b] = Start[a] + Span(u)
                                  /\ b - a <= Indices(u) + One(FALSE)
    BY <1>3, <1>4, <1>10 DEF Whole, One
  <2>2. b \in Nat /\ a \in Nat
    BY Places
  <2>3. b - a <= Indices(u)' + One(TRUE)
    BY <1>6, <2>1, <2>2 DEF One
  <2> QED BY <1>1, <1>3, <1>4, <1>6, <1>10, <2>1, <2>3 DEF Whole, Theirs, One
<1> QED BY <1>1, <1>7, <1>8, <1>9, <1>10 DEF Flow, Theirs

LEMMA FlowLoad ==
  ASSUME FlowInv, NEW u \in User, LoadWritePos, u = cur, ~disturbed[u]
  PROVE  Flow(u)'
<1>1. /\ tpc = "load" /\ tpc' = "get" /\ cur' = u /\ top' = WritePos[u]
      /\ UNCHANGED <<Theirs, WritePos, ReadPos, cleared, mIncomingPacketUserIndex, at, len>>
  BY DEF LoadWritePos, Theirs, posVars, recvVars, connVars, queueVars, histVars
<1>2. Calm(u)
  BY DEF FlowInv, Flow
<1>3. PICK a \in DOMAIN Start : Lies(u, a) /\ Taken(u, a) /\ (~cut[u] => Whole(u, a))
  BY DEF FlowInv, Flow
<1>4. Doing(u) = "load" /\ Doing(u)' = "get"
  BY <1>1 DEF Doing
<1>5. ~Turning(u) /\ ~Turning(u)'
  BY <1>1, <1>2, <1>4 DEF Turning, Calm, GetsOn, Theirs
<1>6. /\ Span(u)' = Span(u) /\ Pending(u)' = Pending(u) /\ Indices(u)' = Indices(u)
      /\ Span(u) = WritePos[u] - ReadPos[u]
  BY <1>1, <1>5 DEF Span, Pending, Indices, Theirs
<1>7. Calm(u)'
  BY <1>1, <1>2, <1>4 DEF Calm, GetsOn, Theirs
<1>8. Lies(u, a)'
  BY <1>1, <1>3, <1>5, <1>6 DEF Lies, Theirs
<1>9. Taken(u, a)'
  <2>1. ReadPos[u] <= WritePos[u] /\ WritePos[u] \in Nat
    BY <1>3, <1>5, Values DEF Lies
  <2> QED BY <1>1, <1>3, <1>4, <2>1 DEF Taken, Theirs
<1>10. ASSUME ~cut[u] PROVE Whole(u, a)'
  <2>1. PICK b \in DOMAIN Start : /\ Start[b] = Start[a] + Span(u)
                                  /\ b - a <= Indices(u) + One(TRUE)
    BY <1>3, <1>4, <1>10 DEF Whole, One
  <2>2. Start[b] = Start[a] + (top' - ReadPos[u]) /\ b - b <= Indices(u)
    <3>1. b \in Nat /\ Indices(u) \in Nat
      BY Places, Values
    <3> QED BY <1>1, <1>6, <2>1, <3>1
  <2> QED BY <1>1, <1>3, <1>4, <1>6, <1>10, <2>1, <2>2 DEF Whole, Theirs, One
<1> QED BY <1>1, <1>7, <1>8, <1>9, <1>10 DEF Flow, Theirs

(* With bytes between ReadPos and the write position it read, GetPacket finds  *)
(* the header of the packet that is next.                                   *)
LEMMA Header ==
  ASSUME FlowInv, NEW u \in User, u = cur, ~disturbed[u], tpc = "get",
         NEW a \in DOMAIN Start, Lies(u, a), Taken(u, a)
  PROVE  /\ ReadPos[u] <= top /\ top <= WritePos[u]
         /\ (top - ReadPos[u]) % Wide = top - ReadPos[u]
         /\ ReadPos[u] < top =>
              /\ a \in Numbers /\ Announced(ReadPos[u]) = {PacketLength(a)}
<1>1. Doing(u) = "get"
  BY DEF Doing
<1>2. ReadPos[u] <= top /\ top <= WritePos[u]
  BY <1>1 DEF Taken
<1>3. /\ ReadPos[u] \in Nat /\ top \in Nat /\ WritePos[u] \in Nat /\ WritePos[u] < Size
      /\ Size \in Nat /\ sent[u] \in Nat /\ Pending(u) \in Nat
  BY Values
<1>4. top - ReadPos[u] \in 0..Wide-1 /\ Wide \in Nat
  <2>1. Wide \in Nat /\ Size < Wide
    BY ChatPacketsAssumption
  <2> QED BY <1>2, <1>3, <2>1
<1>5. (top - ReadPos[u]) % Wide = top - ReadPos[u]
  <2>1. PICK d \in 0..Wide-1 : d = top - ReadPos[u]
    BY <1>4
  <2>2. d % Wide = d
    BY <1>4, <2>1
  <2> QED BY <2>1, <2>2
<1>6. ASSUME ReadPos[u] < top
      PROVE  a \in Numbers /\ Announced(ReadPos[u]) = {PacketLength(a)}
  <2>1. Calm(u)
    BY DEF FlowInv, Flow
  <2>2. ~Turning(u)
    BY <1>1, <2>1 DEF Turning, Calm, GetsOn
  <2>3. /\ mPacketDataBuffer[u][ReadPos[u]] = Start[a]
        /\ Start[a] + (WritePos[u] - ReadPos[u]) <= sent[u] - Pending(u) + 1
    <3>1. ReadPos[u] \in ReadPos[u]..WritePos[u]-1
      BY <1>2, <1>3, <1>6
    <3>2. mPacketDataBuffer[u][ReadPos[u]] = Start[a] + (ReadPos[u] - ReadPos[u])
      BY <2>2, <3>1 DEF Lies
    <3>3. Start[a] + (ReadPos[u] - ReadPos[u]) = Start[a]
      BY <1>3, Places
    <3> QED BY <2>2, <3>2, <3>3 DEF Lies, Span
  <2>4. a \in Numbers
    <3> DEFINE e == Len(Start)
    <3>1. /\ e \in DOMAIN Start /\ Start[a] \in Nat /\ Start[e] \in Nat
          /\ StreamEnd = Start[e] - 1
      BY Places DEF StreamEnd
    <3>2. sent[u] <= StreamEnd
      BY Bounds DEF FlowInv, WriteInv, TypeOK
    <3> HIDE DEF e
    <3>3. PICK w \in Int, r \in Int, n \in Int, i \in Int :
            w = WritePos[u] /\ r = ReadPos[u] /\ n = Pending(u) /\ i = sent[u]
      BY <1>3
    <3>3a. PICK f \in Int, g \in Int : f = Start[a] /\ g = Start[e]
      BY <3>1
    <3>4. r < w /\ n >= 0
      BY <1>2, <1>3, <1>6, <3>3
    <3>5. f + (w - r) <= i - n + 1 /\ i <= g - 1
      BY <2>3, <3>1, <3>2, <3>3, <3>3a
    <3>6. f < g
      BY <3>4, <3>5
    <3> QED BY <3>1, <3>3a, <3>6, PlaceBefore
  <2>5. {k \in Numbers : mPacketDataBuffer[cur][ReadPos[u]] = Start[k]} = {a}
    <3>1. \A k \in Numbers : k \in DOMAIN Start
      BY Packets
    <3> QED BY <2>3, <2>4, <3>1, Places
  <2>6. ReadPos[u] < Size
    BY <1>2, <1>3
  <2> QED BY <2>3, <2>4, <2>5, <2>6 DEF Announced
<1> QED BY <1>2, <1>5, <1>6

LEMMA FlowGetPacket ==
  ASSUME FlowInv, NEW u \in User, NEW n, GetPacket(n), u = cur, ~disturbed[u]
  PROVE  Flow(u)'
<1> DEFINE taken == top - ReadPos[u] >= 1 /\ top - ReadPos[u] >= n
<1>1. tpc = "get" /\ cur' = u /\ n \in Announced(ReadPos[u])
      /\ UNCHANGED <<Theirs, WritePos, ReadPos, cleared, mIncomingPacketUserIndex>>
  BY DEF GetPacket, Theirs, posVars, recvVars, connVars, queueVars, histVars
<1>2. Calm(u)
  BY DEF FlowInv, Flow
<1>3. PICK a \in DOMAIN Start : Lies(u, a) /\ Taken(u, a) /\ (~cut[u] => Whole(u, a))
  BY DEF FlowInv, Flow
<1>4. /\ ReadPos[u] <= top /\ top <= WritePos[u]
      /\ (top - ReadPos[u]) % Wide = top - ReadPos[u]
      /\ ReadPos[u] < top => a \in Numbers /\ n = PacketLength(a)
  BY <1>1, <1>3, Header
<1>5. /\ taken => tpc' = "advance" /\ at' = ReadPos[u] /\ len' = n
      /\ ~taken => tpc' = "system" /\ UNCHANGED <<at, len>>
  BY <1>4 DEF GetPacket
<1>6. /\ ReadPos[u] \in Nat /\ top \in Nat /\ WritePos[u] \in Nat /\ Indices(u) \in Nat
      /\ Start[a] \in Nat /\ a \in Nat
  BY Values, Places
<1>7. Doing(u) = "get" /\ (taken => Doing(u)' = "advance") /\ (~taken => Doing(u)' = "pop")
  BY <1>1, <1>5 DEF Doing
<1>8. taken => ReadPos[u] < top /\ ReadPos[u] + n <= WritePos[u]
  <2>1. ReadPos[u] < top => n \in Nat
    BY <1>4, Packets
  <2>2. taken => ReadPos[u] < top
    BY <1>6
  <2> QED BY <1>4, <1>6, <2>1, <2>2
<1>9. taken \/ ReadPos[u] = top \/ PacketLength(a) > top - ReadPos[u]
  <2>1. ReadPos[u] < top => n \in Nat
    BY <1>4, Packets
  <2> QED BY <1>4, <1>6, <2>1
<1> HIDE DEF taken
<1>10. ~Turning(u) /\ ~Turning(u)'
  BY <1>1, <1>2, <1>7 DEF Turning, Calm, GetsOn, Theirs
<1>11. /\ Span(u)' = Span(u) /\ Pending(u)' = Pending(u) /\ Indices(u)' = Indices(u)
  BY <1>1, <1>10 DEF Span, Pending, Indices, Theirs
<1>12. Calm(u)'
  BY <1>1, <1>2, <1>7 DEF Calm, GetsOn, Theirs
<1>13. Lies(u, a)'
  BY <1>1, <1>3, <1>10, <1>11 DEF Lies, Theirs
<1>14. Taken(u, a)'
  BY <1>1, <1>3, <1>4, <1>5, <1>7, <1>8 DEF Taken, Theirs
<1>15. ASSUME ~cut[u] PROVE Whole(u, a)'
  <2>1. PICK b \in DOMAIN Start :
          /\ Start[b] = Start[a] + Span(u)
          /\ b - a <= Indices(u) + One(TRUE)
          /\ \E c \in DOMAIN Start : /\ Start[c] = Start[a] + (top - ReadPos[u])
                                     /\ b - c <= Indices(u)
    BY <1>3, <1>7, <1>15 DEF Whole, One
  <2>2. ~taken => b - a <= Indices(u) + 0
    <3>1. PICK c \in DOMAIN Start : /\ Start[c] = Start[a] + (top - ReadPos[u])
                                    /\ b - c <= Indices(u)
      BY <2>1
    <3>2. c \in Nat /\ Start[c] \in Nat /\ b \in Nat
      BY Places
    <3>3. Start[a] < Start[c] => PacketLength(a) \in Nat /\ PacketLength(a) <= top - ReadPos[u]
      <4>1. ASSUME Start[a] < Start[c]
            PROVE  PacketLength(a) \in Nat /\ Start[a] + PacketLength(a) <= Start[c]
        BY <4>1, PlaceBefore, Packets
      <4> QED BY <1>6, <3>1, <3>2, <4>1
    <3>4. ASSUME ~taken PROVE c = a
      <4>1. ~(Start[a] < Start[c])
        BY <1>6, <1>9, <3>1, <3>2, <3>3, <3>4
      <4>2. Start[a] = Start[c]
        BY <1>4, <1>6, <3>1, <3>2, <4>1
      <4> QED BY <4>2, Places
    <3> QED BY <1>6, <3>1, <3>2, <3>4
  <2>3. b - a <= Indices(u)' + One(Doing(u)' \in {"load", "get", "advance"})
    BY <1>7, <1>11, <2>1, <2>2 DEF One
  <2>4. Doing(u)' # "get"
    BY <1>7
  <2>5. hpc'[u] \in Handling => \E m \in Numbers : chunk'[u] = Bytes(m)
    BY <1>1, <1>3, <1>15 DEF Whole, Theirs
  <2> QED BY <1>11, <2>1, <2>3, <2>4, <2>5 DEF Whole
<1> QED BY <1>1, <1>12, <1>13, <1>14, <1>15 DEF Flow, Theirs

LEMMA FlowAdvance ==
  ASSUME FlowInv, NEW u \in User, AdvanceReadPos, u = cur, ~disturbed[u]
  PROVE  Flow(u)'
<1>1. Calm(u)
  BY DEF FlowInv, Flow
<1>2. PICK a \in DOMAIN Start : Lies(u, a) /\ Taken(u, a) /\ (~cut[u] => Whole(u, a))
  BY DEF FlowInv, Flow
<1>3. tpc = "advance" /\ tpc' = "handle" /\ cur' = u /\ Doing(u) = "advance"
      /\ Doing(u)' = "handle"
  BY DEF AdvanceReadPos, Doing
<1>4. /\ at = ReadPos[u] /\ a \in Numbers /\ len = PacketLength(a)
      /\ at + len <= WritePos[u] /\ Before(handled[u], a)
  BY <1>2, <1>3 DEF Taken
<1>5. /\ ReadPos'[u] = at + len
      /\ UNCHANGED <<Theirs, WritePos, cleared, mIncomingPacketUserIndex, top, at, len>>
  BY <1>4 DEF AdvanceReadPos, FlowInv, WriteInv, TypeOK, Theirs, recvVars, connVars,
     queueVars, histVars
<1>6. /\ ReadPos[u] \in Nat /\ at \in Nat /\ len \in Nat /\ WritePos[u] \in Nat
      /\ Indices(u) \in Nat
  BY Values
<1>7. /\ a \in Nat /\ a + 1 \in DOMAIN Start /\ (a + 1) - 1 = a
      /\ Start[a] \in Nat /\ Start[a + 1] = Start[a] + len
  BY <1>4, Packets, Places
<1>8. ~Turning(u) /\ ~Turning(u)'
  BY <1>1, <1>3, <1>5 DEF Turning, Calm, GetsOn, Theirs
<1>9. /\ Span(u) = WritePos[u] - ReadPos[u] /\ Span(u)' = WritePos[u] - (at + len)
      /\ Pending(u)' = Pending(u) /\ Indices(u)' = Indices(u)
  BY <1>5, <1>8 DEF Span, Pending, Indices, Theirs
<1>10. Start[a + 1] + Span(u)' = Start[a] + Span(u)
  <2>1. PICK s \in Int, w \in Int, r \in Int, l \in Int :
          s = Start[a] /\ w = WritePos[u] /\ r = ReadPos[u] /\ l = len
    BY <1>6, <1>7
  <2>2. (s + l) + (w - (r + l)) = s + (w - r)
    OBVIOUS
  <2> QED BY <1>4, <1>7, <1>9, <2>1, <2>2
<1>11. \A k \in ReadPos[u]..WritePos[u]-1 :
         mPacketDataBuffer[u][k] = Start[a] + (k - ReadPos[u])
  BY <1>2, <1>8 DEF Lies
<1>12. Calm(u)'
  BY <1>1, <1>3, <1>5 DEF Calm, GetsOn, Theirs
<1>13. Lies(u, a + 1)'
  <2>1. ASSUME NEW k \in (at + len)..WritePos[u]-1
        PROVE  mPacketDataBuffer[u][k] = Start[a + 1] + (k - (at + len))
    <3>1. k \in ReadPos[u]..WritePos[u]-1 /\ k \in Int
      BY <1>4, <1>6
    <3>2. mPacketDataBuffer[u][k] = Start[a] + (k - at)
      BY <1>4, <1>11, <3>1
    <3>3. Start[a] + (k - at) = (Start[a] + len) + (k - (at + len))
      BY <1>6, <1>7, <3>1
    <3> QED BY <1>7, <3>2, <3>3
  <2> QED BY <1>2, <1>4, <1>5, <1>8, <1>9, <1>10, <2>1 DEF Lies, Theirs
<1>14. Taken(u, a + 1)'
  <2>1. ASSUME NEW k \in 1..len
        PROVE  mPacketDataBuffer[u][at + k - 1] = Start[a] + k - 1
    <3>1. at + k - 1 \in ReadPos[u]..WritePos[u]-1 /\ k \in Int
      BY <1>4, <1>6
    <3>2. mPacketDataBuffer[u][at + k - 1] = Start[a] + ((at + k - 1) - at)
      BY <1>4, <1>11, <3>1
    <3>3. Start[a] + ((at + k - 1) - at) = Start[a] + k - 1
      BY <1>6, <1>7, <3>1
    <3> QED BY <3>2, <3>3
  <2> QED BY <1>3, <1>4, <1>5, <1>7, <2>1 DEF Taken, Theirs
<1>15. ASSUME ~cut[u] PROVE Whole(u, a + 1)'
  <2>1. PICK b \in DOMAIN Start : /\ Start[b] = Start[a] + Span(u)
                                  /\ b - a <= Indices(u) + One(TRUE)
    BY <1>2, <1>3, <1>15 DEF Whole, One
  <2>2. b - (a + 1) <= Indices(u) + One(FALSE)
    <3>1. b \in Nat
      BY Places
    <3> QED BY <1>6, <1>7, <2>1, <3>1 DEF One
  <2>3. Start[b] = Start[a + 1] + Span(u)'
    BY <1>10, <2>1
  <2>4. hpc'[u] \in Handling => \E m \in Numbers : chunk'[u] = Bytes(m)
    BY <1>2, <1>5, <1>15 DEF Whole, Theirs
  <2> QED BY <1>3, <1>9, <2>2, <2>3, <2>4 DEF Whole, One
<1> QED BY <1>5, <1>7, <1>12, <1>13, <1>14, <1>15 DEF Flow, Theirs

(* The packet is read from the buffer as it was sent. *)
LEMMA FlowHandle ==
  ASSUME FlowInv, NEW u \in User, HandlePacket, u = cur, ~disturbed[u]
  PROVE  Flow(u)'
<1> DEFINE h == [k \in 1..len |-> IF at + k <= Size THEN mPacketDataBuffer[u][at + k - 1]
                                  ELSE 0]
<1>1. Calm(u)
  BY DEF FlowInv, Flow
<1>2. PICK a \in DOMAIN Start : Lies(u, a) /\ Taken(u, a) /\ (~cut[u] => Whole(u, a))
  BY DEF FlowInv, Flow
<1>3. tpc = "handle" /\ tpc' = "system" /\ cur' = u /\ Doing(u) = "handle"
      /\ Doing(u)' = "pop"
  BY DEF HandlePacket, Doing
<1>4. /\ at + len = ReadPos[u] /\ a - 1 \in Numbers /\ len = PacketLength(a - 1)
      /\ \A k \in 1..len : mPacketDataBuffer[u][at + k - 1] = Start[a - 1] + k - 1
      /\ Before(handled[u], a - 1)
  BY <1>2, <1>3 DEF Taken
<1>5. handled[u] \in Seq(Seq(0..StreamEnd)) /\ handled'[u] = Append(handled[u], h)
      /\ UNCHANGED <<mPacketDataBuffer, hpc, chunk, base, sent, conn, cut, WritePos,
                     ReadPos, cleared, mIncomingPacketUserIndex, top>>
  BY DEF HandlePacket, FlowInv, Histories, posVars, recvVars, connVars, queueVars
<1>6. /\ ReadPos[u] \in Nat /\ at \in Nat /\ len \in Nat /\ WritePos[u] \in Nat
      /\ WritePos[u] < Size /\ Size \in Nat /\ a \in Nat
  BY Values, Places
<1>7. ~Turning(u) /\ ~Turning(u)'
  BY <1>1, <1>3, <1>5 DEF Turning, Calm, GetsOn
<1>8. ReadPos[u] <= WritePos[u]
  BY <1>2, <1>7 DEF Lies
<1>9. h = Bytes(a - 1)
  <2>1. \A k \in 1..len : at + k <= Size
    BY <1>4, <1>6, <1>8
  <2>2. h = [k \in 1..len |-> Start[a - 1] + k - 1]
    BY <1>4, <2>1
  <2> QED BY <1>4, <2>2 DEF Bytes
<1>10. Before(handled'[u], a)
  <2>1. Before(Append(handled[u], Bytes(a - 1)), (a - 1) + 1)
    BY <1>4, <1>5, BeforeAppend
  <2>2. (a - 1) + 1 = a
    BY <1>6
  <2> HIDE DEF h
  <2> QED BY <1>5, <1>9, <2>1, <2>2
<1> HIDE DEF h
<1>11. /\ Span(u)' = Span(u) /\ Pending(u)' = Pending(u) /\ Indices(u)' = Indices(u)
  BY <1>5, <1>7 DEF Span, Pending, Indices
<1>12. Calm(u)'
  BY <1>1, <1>3, <1>5 DEF Calm, GetsOn
<1>13. Lies(u, a)'
  BY <1>2, <1>5, <1>7, <1>11 DEF Lies
<1>14. Taken(u, a)'
  BY <1>3, <1>10 DEF Taken
<1>15. ASSUME ~cut[u] PROVE Whole(u, a)'
  BY <1>2, <1>3, <1>5, <1>11, <1>15 DEF Whole
<1> QED BY <1>5, <1>12, <1>13, <1>14, <1>15 DEF Flow

LEMMA FlowPopSystem ==
  ASSUME FlowInv, NEW u \in User, PopSystem, mSystemPacketQueue # <<>>,
         u = Head(mSystemPacketQueue), ~disturbed[u]
  PROVE  Flow(u)'
<1>1. /\ tpc = "system" /\ tpc' = "clear" /\ cur' = u
      /\ UNCHANGED <<Theirs, WritePos, ReadPos, cleared, mIncomingPacketUserIndex,
                     top, at, len>>
  BY DEF PopSystem, Theirs, posVars, recvVars, connVars, histVars
<1>2. Calm(u)
  BY DEF FlowInv, Flow
<1>3. PICK a \in DOMAIN Start : Lies(u, a) /\ Taken(u, a) /\ (~cut[u] => Whole(u, a))
  BY DEF FlowInv, Flow
<1>4. Doing(u) = "pop" /\ Doing(u)' = "clear"
  BY <1>1 DEF Doing
<1>5. /\ Turning(u)' = Turning(u) /\ Span(u)' = Span(u) /\ Pending(u)' = Pending(u)
      /\ Indices(u)' = Indices(u)
  BY <1>1, <1>4 DEF Turning, Span, Pending, Indices, Theirs
<1>6. Calm(u)'
  BY <1>1, <1>2, <1>4 DEF Calm, GetsOn, Theirs
<1>7. Lies(u, a)'
  BY <1>1, <1>3, <1>5 DEF Lies, Theirs
<1>8. Taken(u, a)'
  BY <1>1, <1>3, <1>4 DEF Taken, Theirs
<1>9. ASSUME ~cut[u] PROVE Whole(u, a)'
  BY <1>1, <1>3, <1>4, <1>5, <1>9 DEF Whole, Theirs
<1> QED BY <1>1, <1>6, <1>7, <1>8, <1>9 DEF Flow, Theirs

(* No receive is under way while a connect is to be cleared. *)
LEMMA ClearsApart ==
  ASSUME FlowInv, NEW u \in User, ~disturbed[u], Doing(u) \in {"clear", "clearread"}
  PROVE  /\ cleared[u] < conn[u] /\ hpc[u] \notin Handling /\ Pending(u) = 0
         /\ \E m \in DOMAIN Start : sent[u] + 1 = Start[m]
<1>1. cleared[u] < conn[u] /\ cleared[u] \in Nat /\ conn[u] \in Nat
  BY Values
<1>2. Calm(u)
  BY DEF FlowInv, Flow
<1>3. hpc[u] \notin Handling /\ \E m \in DOMAIN Start : sent[u] + 1 = Start[m]
  BY <1>1, <1>2 DEF Calm
<1>4. Len(chunk[u]) = 0
  <2>1. chunk[u] = <<>>
    BY <1>3 DEF FlowInv, Received
  <2> QED BY <2>1
<1> QED BY <1>1, <1>3, <1>4 DEF Pending

LEMMA FlowClearWrite ==
  ASSUME FlowInv, NEW u \in User, ClearWrite, u = cur, ~disturbed[u]
  PROVE  Flow(u)'
<1>1. /\ tpc = "clear" /\ tpc' = "clearread" /\ cur' = u /\ WritePos'[u] = 0
      /\ UNCHANGED <<Theirs, ReadPos, cleared, mIncomingPacketUserIndex, top, at, len>>
  BY DEF ClearWrite, FlowInv, WriteInv, TypeOK, Theirs, recvVars, connVars, queueVars,
     histVars
<1>2. Calm(u)
  BY DEF FlowInv, Flow
<1>3. PICK a \in DOMAIN Start : Lies(u, a) /\ Taken(u, a) /\ (~cut[u] => Whole(u, a))
  BY DEF FlowInv, Flow
<1>4. Doing(u) = "clear" /\ Doing(u)' = "clearread"
  BY <1>1 DEF Doing
<1>5. /\ cleared[u] < conn[u] /\ hpc[u] \notin Handling
      /\ \E m \in DOMAIN Start : sent[u] + 1 = Start[m]
  BY <1>4, ClearsApart
<1>6. cleared[u] # conn[u] /\ cleared'[u] # conn'[u] /\ Indices(u) \in Nat
  <2>1. cleared[u] \in Nat /\ conn[u] \in Nat
    BY Values
  <2> QED BY <1>1, <1>5, <2>1, Values DEF Theirs
<1>7. /\ ~Turning(u) /\ Turning(u)' /\ Span(u)' = 0 /\ Pending(u)' = Pending(u)
      /\ Indices(u)' = Indices(u) /\ Span(u) = WritePos[u] - ReadPos[u]
  BY <1>1, <1>4, <1>5 DEF Turning, Span, Pending, Indices, Handling, Theirs
<1>8. Calm(u)'
  BY <1>1, <1>2, <1>4, <1>5, <1>6 DEF Calm, Handling, Theirs
<1>9. Lies(u, a)'
  <2>1. Start[a] + 0 <= sent[u] - Pending(u) + 1
    <3>1. PICK s \in Int, w \in Int, r \in Int, e \in Int, n \in Int :
            s = Start[a] /\ w = WritePos[u] /\ r = ReadPos[u] /\ e = sent[u]
            /\ n = Pending(u)
      BY Values, Places
    <3>2. r <= w /\ s + (w - r) <= e - n + 1
      BY <1>3, <1>7, <3>1 DEF Lies
    <3>3. s + 0 <= e - n + 1
      BY <3>2
    <3> QED BY <3>1, <3>3
  <2> QED BY <1>1, <1>6, <1>7, <2>1 DEF Lies, Theirs
<1>10. Taken(u, a)'
  BY <1>1, <1>3, <1>4 DEF Taken, Theirs
<1>11. ASSUME ~cut[u] PROVE Whole(u, a)'
  <2>1. Start[a] = Start[a] + 0 /\ a - a <= Indices(u) + One(FALSE)
    BY <1>6, Places DEF One
  <2> QED BY <1>1, <1>4, <1>5, <1>7, <2>1 DEF Whole, One, Theirs
<1> QED BY <1>1, <1>8, <1>9, <1>10, <1>11 DEF Flow, Theirs

(* After a Clear the connection's first packet is next. *)
LEMMA FlowClearRead ==
  ASSUME FlowInv, NEW u \in User, ClearRead, u = cur, ~disturbed[u]
  PROVE  Flow(u)'
<1>1. /\ tpc = "clearread" /\ tpc' = "pop" /\ cur' = u /\ ReadPos'[u] = 0
      /\ cleared'[u] = cleared[u] + 1
      /\ UNCHANGED <<Theirs, WritePos, mIncomingPacketUserIndex, top, at, len>>
  BY DEF ClearRead, FlowInv, WriteInv, TypeOK, Histories, Theirs, recvVars, queueVars,
     histVars
<1>2. Calm(u)
  BY DEF FlowInv, Flow
<1>3. PICK a \in DOMAIN Start : Lies(u, a) /\ Taken(u, a) /\ (~cut[u] => Whole(u, a))
  BY DEF FlowInv, Flow
<1>4. Doing(u) = "clearread" /\ Doing(u)' = "pop"
  BY <1>1 DEF Doing
<1>5. /\ cleared[u] < conn[u] /\ hpc[u] \notin Handling /\ Pending(u) = 0
      /\ \E m \in DOMAIN Start : sent[u] + 1 = Start[m]
  BY <1>4, ClearsApart
<1>6. PICK m \in DOMAIN Start : sent[u] + 1 = Start[m]
  BY <1>5
<1>7. /\ Turning(u) /\ ~Turning(u)' /\ Span(u) = 0 /\ WritePos[u] = 0 /\ Span(u)' = 0
      /\ Pending(u)' = 0 /\ Indices(u)' = Indices(u)
  BY <1>1, <1>2, <1>4, <1>5 DEF Turning, Span, Pending, Indices, Handling, Calm, Theirs
<1>8. sent[u] \in Nat /\ Indices(u) \in Nat /\ Start[a] \in Nat /\ a \in Nat /\ m \in Nat
      /\ Start[m] \in Nat
  BY Values, Places
<1>9. a <= m
  <2>1. Start[a] + 0 <= sent[u] - 0 + 1
    BY <1>3, <1>5, <1>7 DEF Lies
  <2>2. Start[a] <= Start[m]
    BY <1>6, <1>8, <2>1
  <2> QED BY <2>2, Places
<1>10. Calm(u)'
  BY <1>1, <1>2, <1>4, <1>5 DEF Calm, Handling, Theirs
<1>11. Lies(u, m)'
  <2>1. 0..0-1 = {}
    OBVIOUS
  <2>2. Start[m] + 0 = sent[u] - 0 + 1
    BY <1>6, <1>8
  <2> QED BY <1>1, <1>7, <1>8, <2>1, <2>2 DEF Lies, Theirs
<1>12. Taken(u, m)'
  <2>1. Before(handled[u], m)
    BY <1>3, <1>4, <1>8, <1>9, BeforeLater DEF Taken
  <2> QED BY <1>1, <1>4, <2>1 DEF Taken, Theirs
<1>13. ASSUME ~cut[u] PROVE Whole(u, m)'
  <2>1. Start[m] = Start[m] + 0 /\ m - m <= Indices(u) + One(FALSE)
    BY <1>8 DEF One
  <2> QED BY <1>1, <1>4, <1>5, <1>7, <2>1 DEF Whole, One, Theirs
<1> QED BY <1>1, <1>6, <1>10, <1>11, <1>12, <1>13 DEF Flow, Theirs

-----------------------------------------------------------------------------
(* The invariant *)

(* The disturbed stay disturbed. *)
LEMMA StaysDisturbed ==
  ASSUME FlowInv, [Next]_vars, NEW v \in User, ~disturbed'[v]
  PROVE  ~disturbed[v]
<1> USE DEF histVars
<1>1. disturbed \in [User -> BOOLEAN]
  BY DEF FlowInv, Histories
<1>2. ASSUME NEW u \in User, NEW n \in 1..MaxChunk, Deliver(u, n) PROVE ~disturbed[v]
  BY <1>1, <1>2 DEF Deliver
<1>3. ASSUME NEW u \in User, CheckRoom(u) PROVE ~disturbed[v]
  BY <1>1, <1>3 DEF CheckRoom
<1>4. ASSUME NEW u \in User,
             \/ Connect(u) \/ OnConnect(u) \/ Disconnect(u) \/ MoveRest(u)
             \/ WrapWrite(u) \/ WrapRead(u) \/ CopyData(u) \/ AddSize(u)
             \/ EnqueuePacket(u)
      PROVE  ~disturbed[v]
  BY <1>4 DEF Connect, OnConnect, Disconnect, MoveRest, WrapWrite, WrapRead, CopyData,
     AddSize, EnqueuePacket
<1>5. ASSUME ProcessPacket \/ UNCHANGED vars PROVE ~disturbed[v]
  BY <1>5 DEF ProcessPacket, PopIndex, LoadWritePos, GetPacket, AdvanceReadPos,
     HandlePacket, PopSystem, ClearWrite, ClearRead, vars
<1> QED BY <1>2, <1>3, <1>4, <1>5 DEF Next, Receive

(* A step of another user, or of its worker, is none of v's. *)
LEMMA OthersFlow ==
  ASSUME FlowInv, NEW u \in User, NEW v \in User, v # u, Flow(v),
         \/ Connect(u) \/ OnConnect(u) \/ Disconnect(u) \/ Receive(u)
         \/ \E n \in 1..MaxChunk : Deliver(u, n)
  PROVE  Flow(v)'
<1> USE DEF posVars, recvVars, connVars, queueVars, threadVars, histVars
<1>0. /\ WriteInv /\ Histories /\ mIncomingPacketUserIndex \in Seq(User)
      /\ TypeOK /\ Chunks
  BY DEF FlowInv, WriteInv, TypeOK
<1>1. UNCHANGED <<tpc, cur, top, at, len>> /\ Doing(v)' = Doing(v)
  <2>1. UNCHANGED <<tpc, cur, top, at, len>>
    BY DEF Connect, OnConnect, Disconnect, Receive, Deliver, CheckRoom, MoveRest,
       WrapWrite, WrapRead, CopyData, AddSize, EnqueuePacket
  <2> QED BY <2>1 DEF Doing
<1>2. hpc'[v] = hpc[v]
  BY <1>0 DEF Connect, OnConnect, Disconnect, Receive, Deliver, CheckRoom, MoveRest,
     WrapWrite, WrapRead, CopyData, AddSize, EnqueuePacket, Step, TypeOK
<1>3. /\ mPacketDataBuffer'[v] = mPacketDataBuffer[v] /\ WritePos'[v] = WritePos[v]
      /\ ReadPos'[v] = ReadPos[v] /\ base'[v] = base[v]
  BY <1>0 DEF Connect, OnConnect, Disconnect, Receive, Deliver, CheckRoom, MoveRest,
     WrapWrite, WrapRead, CopyData, AddSize, EnqueuePacket, TypeOK
<1>4. chunk'[v] = chunk[v] /\ sent'[v] = sent[v] /\ conn'[v] = conn[v]
  BY <1>0 DEF Connect, OnConnect, Disconnect, Receive, Deliver, CheckRoom, MoveRest,
     WrapWrite, WrapRead, CopyData, AddSize, EnqueuePacket, TypeOK, Chunks
<1>5. cleared'[v] = cleared[v] /\ handled'[v] = handled[v] /\ cut'[v] = cut[v]
  BY <1>0 DEF Connect, OnConnect, Disconnect, Receive, Deliver, CheckRoom, MoveRest,
     WrapWrite, WrapRead, CopyData, AddSize, EnqueuePacket, Histories
<1>6. Count(mIncomingPacketUserIndex', v) = Count(mIncomingPacketUserIndex, v)
  <2>1. CASE EnqueuePacket(u)
    <3>1. Count(mIncomingPacketUserIndex', v) = Count(mIncomingPacketUserIndex, v) + 0
      BY <1>0, <2>1, CountAppend DEF EnqueuePacket, One
    <3>2. Count(mIncomingPacketUserIndex, v) \in Nat
      BY Values
    <3> QED BY <3>1, <3>2
  <2>2. CASE ~EnqueuePacket(u)
    <3>1. UNCHANGED mIncomingPacketUserIndex
      BY <2>2 DEF Connect, OnConnect, Disconnect, Receive, Deliver, CheckRoom, MoveRest,
         WrapWrite, WrapRead, CopyData, AddSize
    <3> QED BY <3>1
  <2> QED BY <2>1, <2>2
<1>7. Mine(v)' = Mine(v)
  BY <1>3, <1>4, <1>5, <1>6 DEF Mine
<1> QED BY <1>1, <1>2, <1>7, Untouched

(* A user's connections and its worker. *)
LEMMA OwnFlow ==
  ASSUME FlowInv, NEW u \in User, Flow(u), ~disturbed'[u], ~disturbed[u],
         \/ Connect(u) \/ OnConnect(u) \/ Disconnect(u) \/ Receive(u)
         \/ \E n \in 1..MaxChunk : Deliver(u, n)
  PROVE  Flow(u)'
<1>1. CASE OnConnect(u) \/ Disconnect(u)
  <2>1. /\ UNCHANGED <<mPacketDataBuffer, WritePos, ReadPos, chunk, base, sent, conn,
                       cleared, handled, cut, mIncomingPacketUserIndex, tpc, cur, top,
                       at, len>>
        /\ \/ hpc'[u] = hpc[u]
           \/ hpc[u] \in {"none", "posted"} /\ hpc'[u] \in {"none", "posted"}
    BY <1>1 DEF OnConnect, Disconnect, FlowInv, WriteInv, TypeOK, posVars, recvVars,
       connVars, queueVars, threadVars, histVars
  <2>2. Mine(u)' = Mine(u) /\ Doing(u)' = Doing(u)
    BY <2>1 DEF Mine, Doing
  <2> QED BY <2>1, <2>2, Untouched
<1>2. CASE Connect(u)
  BY <1>2, FlowConnect
<1>3. CASE \E n \in 1..MaxChunk : Deliver(u, n)
  BY <1>3, FlowDeliver
<1>4. CASE Receive(u)
  BY <1>4, FlowCheckRoom, FlowMoveRest, FlowWrapWrite, FlowWrapRead, FlowCopyData,
     FlowAddSize, FlowEnqueuePacket DEF Receive
<1> QED BY <1>1, <1>2, <1>3, <1>4

(* A step of the packet thread, for a user it neither takes up nor works on.   *)
LEMMA ThreadAway ==
  ASSUME FlowInv, NEW v \in User, Flow(v), ProcessPacket, Doing(v) = "pop", Doing(v)' = "pop"
  PROVE  Flow(v)'
<1> USE DEF posVars, recvVars, connVars, queueVars, threadVars, histVars
<1>0. /\ WriteInv /\ Histories /\ mIncomingPacketUserIndex \in Seq(User) /\ TypeOK
      /\ cur \in User
  BY DEF FlowInv, WriteInv, TypeOK
<1>1. UNCHANGED <<mPacketDataBuffer, hpc, chunk, base, sent, conn, cut>>
  BY DEF ProcessPacket, PopIndex, LoadWritePos, GetPacket, AdvanceReadPos, HandlePacket,
     PopSystem, ClearWrite, ClearRead
<1>2. cur = v => tpc \in {"pop", "system"}
  BY DEF Doing
<1>3. /\ WritePos'[v] = WritePos[v] /\ ReadPos'[v] = ReadPos[v]
  BY <1>0, <1>2 DEF ProcessPacket, PopIndex, LoadWritePos, GetPacket, AdvanceReadPos,
     HandlePacket, PopSystem, ClearWrite, ClearRead, TypeOK
<1>4. /\ cleared'[v] = cleared[v] /\ handled'[v] = handled[v]
  BY <1>0, <1>2 DEF ProcessPacket, PopIndex, LoadWritePos, GetPacket, AdvanceReadPos,
     HandlePacket, PopSystem, ClearWrite, ClearRead, Histories
<1>5. Count(mIncomingPacketUserIndex', v) = Count(mIncomingPacketUserIndex, v)
  <2>1. CASE PopIndex /\ mIncomingPacketUserIndex # <<>>
    <3>1. /\ tpc' = "load" /\ cur' = Head(mIncomingPacketUserIndex)
          /\ mIncomingPacketUserIndex' = Tail(mIncomingPacketUserIndex)
      BY <2>1 DEF PopIndex
    <3>2. Head(mIncomingPacketUserIndex) # v
      BY <3>1 DEF Doing
    <3>3. Count(mIncomingPacketUserIndex, v) = Count(mIncomingPacketUserIndex', v) + 0
      BY <1>0, <2>1, <3>1, <3>2, CountTail DEF One
    <3>4. Count(mIncomingPacketUserIndex', v) \in Nat
      BY <1>0, <2>1, <3>1, HeadTailProperties, CountType
    <3> QED BY <3>3, <3>4
  <2>2. CASE ~(PopIndex /\ mIncomingPacketUserIndex # <<>>)
    <3>1. UNCHANGED mIncomingPacketUserIndex
      BY <2>2 DEF ProcessPacket, PopIndex, LoadWritePos, GetPacket, AdvanceReadPos,
         HandlePacket, PopSystem, ClearWrite, ClearRead
    <3> QED BY <3>1
  <2> QED BY <2>1, <2>2
<1>6. Mine(v)' = Mine(v)
  BY <1>1, <1>3, <1>4, <1>5 DEF Mine
<1> QED BY <1>1, <1>6, Untouched

LEMMA ThreadFlow ==
  ASSUME FlowInv, NEW v \in User, Flow(v), ~disturbed[v], ProcessPacket
  PROVE  Flow(v)'
<1>0. cur \in User
  BY DEF FlowInv, WriteInv, TypeOK
<1>1. CASE PopIndex
  <2>1. CASE mIncomingPacketUserIndex # <<>> /\ v = Head(mIncomingPacketUserIndex)
    BY <1>1, <2>1, FlowPopIndex
  <2>2. CASE ~(mIncomingPacketUserIndex # <<>> /\ v = Head(mIncomingPacketUserIndex))
    <3>1. Doing(v) = "pop" /\ Doing(v)' = "pop"
      BY <1>1, <2>2 DEF PopIndex, Doing
    <3> QED BY <3>1, ThreadAway
  <2> QED BY <2>1, <2>2
<1>2. CASE PopSystem
  <2>1. CASE mSystemPacketQueue # <<>> /\ v = Head(mSystemPacketQueue)
    BY <1>2, <2>1, FlowPopSystem
  <2>2. CASE ~(mSystemPacketQueue # <<>> /\ v = Head(mSystemPacketQueue))
    <3>1. Doing(v) = "pop" /\ Doing(v)' = "pop"
      BY <1>2, <2>2 DEF PopSystem, Doing
    <3> QED BY <3>1, ThreadAway
  <2> QED BY <2>1, <2>2
<1>3. CASE ~PopIndex /\ ~PopSystem
  <2>1. CASE v = cur
    BY <1>3, <2>1, FlowLoad, FlowGetPacket, FlowAdvance, FlowHandle, FlowClearWrite,
       FlowClearRead DEF ProcessPacket
  <2>2. CASE v # cur
    <3>1. UNCHANGED cur
      BY <1>3 DEF ProcessPacket, LoadWritePos, GetPacket, AdvanceReadPos, HandlePacket,
         ClearWrite, ClearRead
    <3>2. Doing(v) = "pop" /\ Doing(v)' = "pop"
      BY <2>2, <3>1 DEF Doing
    <3> QED BY <3>2, ThreadAway
  <2> QED BY <2>1, <2>2
<1> QED BY <1>1, <1>2, <1>3

LEMMA NextFlow == FlowInv /\ [Next]_vars => FlowInv'
<1> SUFFICES ASSUME FlowInv, [Next]_vars PROVE FlowInv'
  OBVIOUS
<1>1. WriteInv' /\ Histories' /\ Clears' /\ Received'
  BY NextWrite, NextHistories, NextClears, NextReceived DEF FlowInv
<1>2. ASSUME NEW v \in User, ~disturbed'[v] PROVE Flow(v)'
  <2>1. ~disturbed[v] /\ Flow(v)
    BY <1>2, StaysDisturbed DEF FlowInv
  <2>2. ASSUME NEW u \in User,
               \/ Connect(u) \/ OnConnect(u) \/ Disconnect(u) \/ Receive(u)
               \/ \E n \in 1..MaxChunk : Deliver(u, n)
        PROVE  Flow(v)'
    BY <1>2, <2>1, <2>2, OwnFlow, OthersFlow
  <2>3. CASE ProcessPacket
    BY <2>1, <2>3, ThreadFlow
  <2>4. CASE UNCHANGED vars
    <3>1. Mine(v)' = Mine(v) /\ Doing(v)' = Doing(v) /\ hpc'[v] = hpc[v]
          /\ UNCHANGED <<top, at, len>>
      BY <2>4 DEF vars, posVars, recvVars, connVars, queueVars, threadVars, histVars,
         Mine, Doing
    <3> QED BY <2>1, <3>1, Untouched
  <2> QED BY <2>2, <2>3, <2>4 DEF Next
<1> QED BY <1>1, <1>2 DEF FlowInv

LEMMA FlowHolds == Spec => []FlowInv
BY InitFlow, NextFlow, PTL DEF Spec

(* While nothing disturbs a user, the packet thread handles the packets its    *)
(* peers sent, whole, in order and none twice: for any packets, any buffer   *)
(* larger than a receive, and any way the stream is cut into receives.       *)
THEOREM PacketsInOrder == Spec => []HandledInOrder
<1>1. ASSUME FlowInv PROVE HandledInOrder
  <2>1. ASSUME NEW u \in User, ~disturbed[u]
        PROVE  /\ \E p \in [DOMAIN handled[u] -> Numbers] :
                    \A i \in DOMAIN p : /\ handled[u][i] = Bytes(p[i])
                                        /\ \A j \in 1..i-1 : p[j] < p[i]
               /\ hpc[u] # "rewind" /\ ~(tpc = "clearread" /\ cur = u)
                    => ReadPos[u] <= WritePos[u]
    <3>1. PICK a \in DOMAIN Start : Lies(u, a) /\ Taken(u, a)
      BY <1>1, <2>1 DEF FlowInv, Flow
    <3>2. hpc[u] # "rewind" /\ ~(tpc = "clearread" /\ cur = u) => ~Turning(u)
      BY DEF Turning, Doing
    <3>3. PICK n : Before(handled[u], n)
      BY <3>1 DEF Taken
    <3>4. \E p \in [DOMAIN handled[u] -> Numbers] :
            \A i \in DOMAIN p : /\ handled[u][i] = Bytes(p[i])
                                /\ \A j \in 1..i-1 : p[j] < p[i]
      BY <3>3 DEF Before
    <3> QED BY <3>1, <3>2, <3>4 DEF Lies
  <2> QED BY <2>1 DEF HandledInOrder
<1> QED BY <1>1, FlowHolds, PTL

(* The packets that wait are those from the next one to where the bytes end.   *)
LEMMA UnreadPackets ==
  ASSUME FlowInv, NEW u \in User, ~disturbed[u], ~Turning(u),
         NEW a \in DOMAIN Start, NEW b \in DOMAIN Start, Lies(u, a), Taken(u, a),
         Start[b] = Start[a] + Span(u)
  PROVE  LET d == IF Doing(u) = "advance" THEN a + 1 ELSE a IN
         d <= b /\ Cardinality(Unread(u)) <= b - d
<1> DEFINE d == IF Doing(u) = "advance" THEN a + 1 ELSE a
           r == IF Doing(u) = "advance" THEN at + len ELSE ReadPos[u]
           f == [k \in Unread(u) |-> CHOOSE m \in Numbers : mPacketDataBuffer[u][k] = Start[m]]
<1>1. /\ WritePos[u] \in Nat /\ ReadPos[u] \in Nat /\ at \in Nat /\ len \in Nat
      /\ a \in Nat /\ b \in Nat /\ Start[a] \in Nat /\ Start[b] \in Nat
  BY Values, Places
<1>2. /\ ReadPos[u] <= WritePos[u]
      /\ \A k \in ReadPos[u]..WritePos[u]-1 :
           mPacketDataBuffer[u][k] = Start[a] + (k - ReadPos[u])
      /\ Start[b] = Start[a] + (WritePos[u] - ReadPos[u])
  BY DEF Lies, Span
<1>3. /\ d \in DOMAIN Start /\ d \in Nat /\ r \in Nat /\ ReadPos[u] <= r /\ r <= WritePos[u]
      /\ Start[d] = Start[a] + (r - ReadPos[u])
  <2>1. CASE Doing(u) = "advance"
    <3>1. /\ at = ReadPos[u] /\ a \in Numbers /\ len = PacketLength(a)
          /\ at + len <= WritePos[u]
      BY <2>1 DEF Taken
    <3>2. a + 1 \in DOMAIN Start /\ Start[a + 1] = Start[a] + len
      BY <3>1, Packets
    <3>3. len = (at + len) - ReadPos[u]
      BY <1>1, <3>1
    <3> QED BY <1>1, <2>1, <3>1, <3>2, <3>3
  <2>2. CASE Doing(u) # "advance"
    <3>1. Start[a] = Start[a] + (ReadPos[u] - ReadPos[u])
      BY <1>1
    <3> QED BY <1>1, <1>2, <2>2, <3>1
  <2> QED BY <2>1, <2>2
<1>4. Unread(u) = {k \in r..WritePos[u]-1 : \E m \in Numbers : mPacketDataBuffer[u][k] = Start[m]}
  BY DEF Unread, Doing
<1> HIDE DEF d, r
<1>5. d <= b
  <2>1. Start[d] <= Start[b] /\ Start[d] \in Nat
    <3>1. PICK w \in Int, q \in Int, s \in Int, x \in Int :
            w = WritePos[u] /\ q = ReadPos[u] /\ s = Start[a] /\ x = r
      BY <1>1, <1>3
    <3>2. s + (x - q) <= s + (w - q)
      BY <1>3, <3>1
    <3>3. Start[d] \in Nat
      BY <1>3, Places
    <3> QED BY <1>2, <1>3, <3>1, <3>2, <3>3
  <2> QED BY <1>3, <2>1, Places
<1>6. ASSUME NEW k \in Unread(u)
      PROVE  /\ f[k] \in d..b-1 /\ mPacketDataBuffer[u][k] = Start[f[k]]
             /\ mPacketDataBuffer[u][k] = Start[a] + (k - ReadPos[u]) /\ k \in Int
  <2>1. f[k] \in Numbers /\ mPacketDataBuffer[u][k] = Start[f[k]]
    BY <1>4
  <2>2. k \in r..WritePos[u]-1 /\ k \in Int
    BY <1>1, <1>3, <1>4
  <2>3. mPacketDataBuffer[u][k] = Start[a] + (k - ReadPos[u])
    <3>1. k \in ReadPos[u]..WritePos[u]-1
      BY <1>1, <1>3, <2>2
    <3> QED BY <1>2, <3>1
  <2>4. f[k] \in DOMAIN Start /\ f[k] \in Nat /\ Start[f[k]] \in Nat /\ Start[d] \in Nat
    BY <1>3, <2>1, Packets, Places
  <2>5. Start[d] <= Start[f[k]] /\ Start[f[k]] < Start[b]
    <3>1. PICK w \in Int, q \in Int, s \in Int, x \in Int, y \in Int :
            w = WritePos[u] /\ q = ReadPos[u] /\ s = Start[a] /\ x = r /\ y = k
      BY <1>1, <1>3, <2>2
    <3>2. x <= y /\ y < w
      BY <1>1, <1>3, <2>2, <3>1
    <3>3. s + (x - q) <= s + (y - q) /\ s + (y - q) < s + (w - q)
      BY <3>2
    <3> QED BY <1>2, <1>3, <2>1, <2>3, <3>1, <3>3
  <2>6. d <= f[k] /\ f[k] < b
    <3>1. d <= f[k]
      BY <1>3, <2>4, <2>5, Places
    <3>2. Start[f[k]] # Start[b] /\ Start[f[k]] <= Start[b]
      BY <1>1, <2>4, <2>5
    <3>3. f[k] # b
      BY <3>2
    <3>4. f[k] <= b
      BY <2>4, <3>2, Places
    <3> QED BY <1>1, <2>4, <3>1, <3>3, <3>4
  <2> QED BY <1>1, <1>3, <2>1, <2>2, <2>3, <2>4, <2>6
<1>7. f \in Injection(Unread(u), d..b-1)
  <2>1. f \in [Unread(u) -> d..b-1]
    BY <1>6
  <2>2. ASSUME NEW k \in Unread(u), NEW l \in Unread(u), f[k] = f[l] PROVE k = l
    <3>1. Start[a] + (k - ReadPos[u]) = Start[a] + (l - ReadPos[u])
      BY <1>6, <2>2
    <3>2. k \in Int /\ l \in Int
      BY <1>6
    <3> QED BY <1>1, <3>1, <3>2
  <2> HIDE DEF f
  <2> QED BY <2>1, <2>2, Fun_IsInj
<1>8. IsFiniteSet(d..b-1) /\ Cardinality(d..b-1) = b - d
  <2>1. IsFiniteSet(d..b-1) /\ Cardinality(d..b-1) = IF d > b-1 THEN 0 ELSE (b-1)-d+1
    <3>1. d \in Int /\ b-1 \in Int
      BY <1>1, <1>3
    <3> QED BY <3>1, FS_Interval
  <2> QED BY <1>1, <1>3, <1>5, <2>1
<1> HIDE DEF f
<1>9. Cardinality(Unread(u)) <= b - d
  BY <1>7, <1>8, FS_Injection
<1> QED BY <1>5, <1>9 DEF d

(* While each receive brings one packet, no packet is left without an index:   *)
(* GetPacket takes one packet an index, and the queue is not searched.       *)
THEOREM IndicesSuffice == Spec => []EveryPacketHasItsIndex
<1>1. ASSUME FlowInv PROVE EveryPacketHasItsIndex
  <2>1. ASSUME NEW u \in User, ~disturbed[u], ~cut[u]
        PROVE  Cardinality(Unread(u)) <=
                 Cardinality({i \in DOMAIN mIncomingPacketUserIndex :
                                mIncomingPacketUserIndex[i] = u})
                 + (IF hpc[u] = "push" THEN 1 ELSE 0)
                 + (IF tpc \in {"load", "get"} /\ cur = u THEN 1 ELSE 0)
    <3> DEFINE goal == Indices(u) + One(Doing(u) \in {"load", "get"})
    <3>1. Calm(u) /\ \E a \in DOMAIN Start : Lies(u, a) /\ Taken(u, a) /\ Whole(u, a)
      BY <1>1, <2>1 DEF FlowInv, Flow
    <3>2. PICK a \in DOMAIN Start : Lies(u, a) /\ Taken(u, a) /\ Whole(u, a)
      BY <3>1
    <3>3. PICK b \in DOMAIN Start :
            /\ Start[b] = Start[a] + Span(u)
            /\ b - a <= Indices(u) + One(Doing(u) \in {"load", "get", "advance"})
      BY <3>2 DEF Whole
    <3>4. a \in Nat /\ b \in Nat /\ Indices(u) \in Nat /\ ReadPos[u] \in Nat
      BY <1>1, Places, Values
    <3>5. ASSUME Turning(u) PROVE Cardinality(Unread(u)) <= goal
      <4>1. WritePos[u] = 0 /\ Doing(u) # "advance"
        BY <1>1, <3>1, <3>5 DEF Turning, Calm, FlowInv, WriteInv, RoomLeft, GetsOn
      <4>2. Unread(u) = {}
        <5>1. ReadPos[u]..0-1 = {}
          BY <3>4
        <5>2. ~(tpc = "advance" /\ cur = u)
          BY <4>1 DEF Doing
        <5> QED BY <4>1, <5>1, <5>2 DEF Unread
      <4>3. Cardinality(Unread(u)) = 0
        BY <4>2, FS_EmptySet
      <4>4. goal \in Nat
        BY <3>4 DEF One
      <4> HIDE DEF goal
      <4> QED BY <4>3, <4>4
    <3>6. ASSUME ~Turning(u) PROVE Cardinality(Unread(u)) <= goal
      <4> DEFINE d == IF Doing(u) = "advance" THEN a + 1 ELSE a
      <4>1. Cardinality(Unread(u)) <= b - d
        BY <1>1, <2>1, <3>2, <3>3, <3>6, UnreadPackets
      <4>2. b - d <= goal
        <5>1. CASE Doing(u) = "advance"
          <6>1. b - a <= Indices(u) + 1 /\ d = a + 1 /\ goal = Indices(u) + 0
            BY <3>3, <5>1 DEF One
          <6> QED BY <3>4, <6>1
        <5>2. CASE Doing(u) # "advance"
          <6>1. One(Doing(u) \in {"load", "get", "advance"}) = One(Doing(u) \in {"load", "get"})
            BY <5>2
          <6> QED BY <3>3, <5>2, <6>1
        <5> QED BY <5>1, <5>2
      <4>3. IsFiniteSet(Unread(u)) /\ Cardinality(Unread(u)) \in Nat
        <5>0. WritePos[u] \in Nat /\ at \in Nat /\ len \in Nat
          BY <1>1, Values
        <5>1. IsFiniteSet(0..WritePos[u]-1)
          <6>1. 0 \in Int /\ WritePos[u]-1 \in Int
            BY <5>0
          <6> QED BY <6>1, FS_Interval
        <5>2. Unread(u) \subseteq 0..WritePos[u]-1
          BY <3>4, <5>0 DEF Unread
        <5>3. IsFiniteSet(Unread(u))
          BY <5>1, <5>2, FS_Subset
        <5> QED BY <5>3, FS_CardinalityType
      <4>4. goal \in Nat /\ d \in Nat
        BY <3>4 DEF One
      <4> HIDE DEF goal, d
      <4>5. Cardinality(Unread(u)) <= goal
        BY <3>4, <4>1, <4>2, <4>3, <4>4
      <4> QED BY <4>5
    <3>7. goal = Count(mIncomingPacketUserIndex, u) + (IF hpc[u] = "push" THEN 1 ELSE 0)
                 + (IF tpc \in {"load", "get"} /\ cur = u THEN 1 ELSE 0)
      <4>1. Doing(u) \in {"load", "get"} <=> tpc \in {"load", "get"} /\ cur = u
        BY DEF Doing
      <4> QED BY <4>1 DEF Indices, One
    <3>8. Cardinality(Unread(u)) <= goal
      BY <3>5, <3>6
    <3> HIDE DEF goal
    <3> QED BY <3>7, <3>8 DEF Count
  <2> QED BY <2>1 DEF EveryPacketHasItsIndex
<1> QED BY <1>1, FlowHolds, PTL
=============================================================================
