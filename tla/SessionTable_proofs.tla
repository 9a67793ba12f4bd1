------------------------- MODULE SessionTable_proofs -------------------------
(***************************************************************************)
(* Proofs about SessionTable, for any workers, clients and sockets.  What    *)
(* holds before and after a step of Next is stated for workers that may also  *)
(* be at the steps Answers adds, whose proofs use these lemmas.              *)
(***************************************************************************)
EXTENDS SessionTable, SequenceTheorems, FiniteSetTheorems, TLAPS

HandleSteps == {"push", "again", "read", "unset"}      \* in Answers
Steps == {"idle"} \cup AcceptSteps \cup RemoveSteps \cup HandleSteps
Sockets == Socket \cup {None}
IOState == {"none", "posted", "failed"}

(* TypeOK in parts. *)
Objects ==
  /\ made \subseteq Client /\ unused \subseteq Socket /\ open \subseteq Socket
  /\ accepting \subseteq Socket /\ accepted \subseteq [sock : Socket, ok : BOOLEAN]
  /\ acceptFailed \in BOOLEAN /\ gone \subseteq Socket /\ crossed \in BOOLEAN

Table ==
  /\ mClientList \in Seq(made) /\ mClientPool \in Seq(made)
  /\ mSessionID \in [Client -> 0..Len(mClientList)]
  /\ \A c \in Client : mSessionID[c] = Len(mClientList) /\ mClientList # <<>>
                         => \E w \in Worker : pc[w] = "list" /\ cur[w] = c

Links ==
  /\ mIsConnected \in [Client -> BOOLEAN] /\ mSocket \in [Client -> Sockets]
  /\ key \in [Socket -> Client \cup {None}]
  /\ recv \in [Socket -> IOState] /\ send \in [Socket -> IOState]

Threads ==
  /\ pc \in [Worker -> Steps] /\ cur \in [Worker -> Client \cup {None}]
  /\ acc \in [Worker -> Sockets]

(* A worker beyond its first steps works on a client that was made. *)
Holding == {"prepare", "init", "socket", "receive", "setid", "list",
            "close", "invalid", "reset", "pool"}
Held == \A w \in Worker : pc[w] \in Holding => cur[w] \in made

(* SessionTable's workers are at none of Answers's steps. *)
OwnSteps == \A w \in Worker : pc[w] \notin HandleSteps

Base == Objects /\ Table /\ Links /\ Threads /\ Held

-----------------------------------------------------------------------------
(* Types *)

LEMMA BaseIsTypes == Base /\ OwnSteps => TypeOK
BY DEF Base, TypeOK, Objects, Table, Links, Threads, OwnSteps, Steps, Sockets, IOState

LEMMA NewIsMember ==
  ASSUME NEW S, S # {}
  PROVE  New(S) \in S
BY DEF New

LEMMA InitBase == Init => Base
<1> SUFFICES ASSUME Init PROVE Base
  OBVIOUS
<1>1. New(Socket) \in Socket
  BY NewIsMember, SessionAssumption
<1>2. Objects
  BY <1>1 DEF Init, Objects
<1>3. Table
  <2>1. mClientList \in Seq(made) /\ mClientPool \in Seq(made)
        /\ Len(mClientList) = 0 /\ mClientList = <<>>
    BY EmptySeq DEF Init
  <2> QED BY <2>1 DEF Init, Table
<1>4. Links /\ Threads /\ Held
  BY DEF Init, Links, Threads, Held, Steps, Sockets, IOState, Holding
<1> QED BY <1>2, <1>3, <1>4 DEF Base

(* A worker's step. *)
LEMMA OneMoves ==
  ASSUME Threads, NEW w \in Worker, NEW step \in Steps, Goto(w, step)
  PROVE  /\ pc' \in [Worker -> Steps] /\ pc'[w] = step
         /\ \A v \in Worker : v # w => pc'[v] = pc[v]
BY DEF Threads, Goto

LEMMA OneFinishes ==
  ASSUME Threads, NEW w \in Worker, Finish(w)
  PROVE  /\ pc' \in [Worker -> Steps] /\ pc'[w] = "idle"
         /\ cur' \in [Worker -> Client \cup {None}]
         /\ \A v \in Worker : v # w => pc'[v] = pc[v] /\ cur'[v] = cur[v]
BY DEF Threads, Finish, Goto, Steps

(* A step that leaves the list and the IDs alone, and a worker that is about   *)
(* to list its client, keeps the table.                                     *)
LEMMA TableStays ==
  ASSUME Table, made \subseteq made', UNCHANGED <<mClientList, mSessionID>>,
         mClientPool' \in Seq(made'),
         \A v \in Worker : pc[v] = "list" => pc'[v] = "list" /\ cur'[v] = cur[v]
  PROVE  Table'
<1>1. mClientList' \in Seq(made')
  BY SeqMonotonic DEF Table
<1>2. ASSUME NEW c \in Client,
             mSessionID'[c] = Len(mClientList') /\ mClientList' # <<>>
      PROVE  \E w \in Worker : pc'[w] = "list" /\ cur'[w] = c
  <2>1. PICK w \in Worker : pc[w] = "list" /\ cur[w] = c
    BY <1>2 DEF Table
  <2> QED BY <2>1
<1> QED BY <1>1, <1>2 DEF Table

LEMMA NextBase == Base /\ [Next]_vars => Base'
<1> SUFFICES ASSUME Base, [Next]_vars PROVE Base'
  OBVIOUS
<1> USE DEF tableVars, clientVars, ioVars, acceptVars, histVars, threadVars
<1>0. Objects /\ Table /\ Links /\ Threads /\ Held
  BY DEF Base
<1>s. AcceptSteps \subseteq Steps /\ RemoveSteps \subseteq Steps /\ "idle" \in Steps
  BY DEF Steps
<1>1. ASSUME NEW s \in Socket, NEW ok \in BOOLEAN, CompleteAccept(s, ok)
      PROVE  Base'
  <2>1. Objects'
    BY <1>0, <1>1 DEF CompleteAccept, Objects
  <2> QED BY <1>0, <1>1, <2>1 DEF CompleteAccept, Base, Table, Links, Threads, Held
<1>2. ASSUME NEW s \in Socket, PeerClose(s) PROVE Base'
  <2>1. Links'
    BY <1>0, <1>2 DEF PeerClose, Links, IOState
  <2> QED BY <1>0, <1>2, <2>1 DEF PeerClose, Base, Objects, Table, Threads, Held
<1>3. ASSUME NEW c \in Client, ToggleSend(c) PROVE Base'
  <2>1. Links'
    BY <1>0, <1>3 DEF ToggleSend, Links, Objects, IOState
  <2> QED BY <1>0, <1>3, <2>1 DEF ToggleSend, Base, Objects, Table, Threads, Held
<1>4. ASSUME NEW w \in Worker, NEW a \in accepted, TakeAccept(w, a) PROVE Base'
  <2>1. Objects'
    BY <1>0, <1>4 DEF TakeAccept, Objects
  <2>2. /\ pc[w] = "idle" /\ pc' \in [Worker -> Steps]
        /\ pc'[w] \in {"choose", "idle"}
        /\ \A v \in Worker : v # w => pc'[v] = pc[v]
    BY <1>0, <1>4, <1>s, OneMoves DEF TakeAccept, AcceptSteps
  <2>3. Threads'
    BY <1>0, <1>4, <2>2 DEF TakeAccept, Threads, Objects, Sockets
  <2>4. Table'
    BY <1>0, <1>4, <2>2 DEF TakeAccept, Table
  <2>5. Held'
    BY <1>0, <1>4, <2>2 DEF TakeAccept, Held, Holding
  <2> QED BY <1>0, <1>4, <2>1, <2>3, <2>4, <2>5 DEF TakeAccept, Base, Links
<1>5. ASSUME NEW w \in Worker, NEW c \in Client, ChooseClient(w, c) PROVE Base'
  <2>1. /\ pc[w] = "choose" /\ pc' \in [Worker -> Steps] /\ pc'[w] = "prepare"
        /\ \A v \in Worker : v # w => pc'[v] = pc[v]
    BY <1>0, <1>5, <1>s, OneMoves DEF ChooseClient, AcceptSteps
  <2>2. /\ cur' = [cur EXCEPT ![w] = c] /\ cur'[w] = c
        /\ \A v \in Worker : v # w => cur'[v] = cur[v]
    BY <1>0, <1>5 DEF ChooseClient, Threads
  <2>3. made \subseteq made' /\ made' \subseteq Client /\ c \in made'
        /\ mClientPool' \in Seq(made')
    <3>1. CASE mClientPool = <<>> /\ NewClient(c) /\ UNCHANGED mClientPool
      <4>1. made' = made \cup {c}
        BY <3>1 DEF NewClient
      <4> QED BY <1>0, <3>1, <4>1, EmptySeq DEF Objects
    <3>2. CASE /\ mClientPool # <<>> /\ c = Head(mClientPool)
               /\ mClientPool' = Tail(mClientPool) /\ UNCHANGED made
      BY <1>0, <3>2, HeadTailProperties DEF Objects, Table
    <3>3. CASE /\ mClientPool # <<>> /\ NewClient(c)
               /\ mClientPool' = Append(Tail(mClientPool), Head(mClientPool))
      <4>1. made' = made \cup {c}
        BY <3>3 DEF NewClient
      <4>2. Tail(mClientPool) \in Seq(made) /\ Head(mClientPool) \in made
        BY <1>0, <3>3, HeadTailProperties DEF Table
      <4>3. mClientPool' \in Seq(made)
        BY <3>3, <4>2, AppendProperties
      <4> QED BY <1>0, <4>1, <4>3, SeqMonotonic DEF Objects
    <3> QED BY <1>5, <3>1, <3>2, <3>3 DEF ChooseClient
  <2>4. mClientList' = mClientList /\ mClientList' \in Seq(made')
    BY <1>0, <1>5, <2>3, SeqMonotonic DEF ChooseClient, Table
  <2>5. Table'
    <3>1. \A v \in Worker : pc[v] = "list" => pc'[v] = "list" /\ cur'[v] = cur[v]
      BY <2>1, <2>2
    <3> QED BY <1>0, <1>5, <2>3, <3>1, TableStays DEF ChooseClient
  <2>6. Held'
    BY <1>0, <2>1, <2>2, <2>3 DEF Held
  <2>7. Threads'
    BY <1>0, <1>5, <2>1, <2>2 DEF ChooseClient, Threads
  <2> QED BY <1>0, <1>5, <2>3, <2>5, <2>6, <2>7
          DEF ChooseClient, Base, Objects, Links
<1>6. ASSUME NEW w \in Worker, PrepareClient(w) PROVE Base'
  <2>1. /\ pc[w] \in {"prepare", "init", "socket"} /\ pc' \in [Worker -> Steps]
        /\ pc'[w] \in {"init", "socket", "receive"}
        /\ \A v \in Worker : v # w => pc'[v] = pc[v]
    BY <1>0, <1>6, <1>s, OneMoves
       DEF PrepareClient, ClearClient, InitClient, SetSocket, AcceptSteps
  <2>2. cur[w] \in Client /\ cur[w] \in made
    BY <1>0, <2>1 DEF Held, Holding, Objects
  <2>3. /\ UNCHANGED <<made, unused, open, tableVars, ioVars, acceptVars, cur, histVars>>
        /\ mIsConnected' \in [Client -> BOOLEAN] /\ mSocket' \in [Client -> Sockets]
        /\ acc' \in [Worker -> Sockets]
        /\ mSessionID' = mSessionID \/ mSessionID' = [mSessionID EXCEPT ![cur[w]] = 0]
    <3>1. CASE ClearClient(w) \/ InitClient(w)
      BY <1>0, <2>2, <3>1 DEF ClearClient, InitClient, Links, Threads
    <3>2. CASE SetSocket(w)
      BY <1>0, <2>2, <3>2 DEF SetSocket, Links, Threads, Sockets
    <3> QED BY <1>6, <3>1, <3>2 DEF PrepareClient
  <2>4. Table'
    <3>1. Len(mClientList) \in Nat /\ (mClientList # <<>> => Len(mClientList) # 0)
      BY <1>0, EmptySeq DEF Table
    <3>2. /\ mSessionID' \in [Client -> 0..Len(mClientList)]
          /\ \A c \in Client : mSessionID'[c] = mSessionID[c] \/ mSessionID'[c] = 0
      BY <1>0, <2>2, <2>3, <3>1 DEF Table
    <3> QED BY <1>0, <2>1, <2>3, <3>1, <3>2 DEF Table
  <2>5. Links' /\ Threads' /\ Objects'
    BY <1>0, <2>1, <2>3 DEF Links, Threads, Objects
  <2>6. Held'
    BY <1>0, <2>1, <2>2, <2>3 DEF Held, Holding
  <2> QED BY <2>4, <2>5, <2>6 DEF Base
<1>7. ASSUME NEW w \in Worker, PostReceive(w) PROVE Base'
  <2>1. /\ pc[w] = "receive" /\ pc' \in [Worker -> Steps]
        /\ pc'[w] \in {"setid", "idle"}
        /\ \A v \in Worker : v # w => pc'[v] = pc[v] /\ cur'[v] = cur[v]
        /\ cur' \in [Worker -> Client \cup {None}]
        /\ pc'[w] = "setid" => cur'[w] = cur[w]
    <3>1. CASE Goto(w, "setid") /\ UNCHANGED cur
      BY <1>0, <1>7, <1>s, <3>1, OneMoves DEF PostReceive, AcceptSteps, Threads
    <3>2. CASE Finish(w)
      BY <1>0, <1>7, <3>2, OneFinishes DEF PostReceive
    <3> QED BY <1>7, <3>1, <3>2 DEF PostReceive
  <2>2. cur[w] \in Client /\ cur[w] \in made
    BY <1>0, <2>1 DEF Held, Holding, Objects
  <2>3. Links'
    BY <1>0, <1>7, <2>2 DEF PostReceive, Links, Objects, IOState
  <2>4. Objects'
    BY <1>0, <1>7 DEF PostReceive, Objects
  <2>5. Threads' /\ Held'
    BY <1>0, <1>7, <2>1, <2>2 DEF PostReceive, Threads, Held, Holding
  <2>6. Table'
    BY <1>0, <1>7, <2>1 DEF PostReceive, Table
  <2> QED BY <2>3, <2>4, <2>5, <2>6 DEF Base
<1>8. ASSUME NEW w \in Worker, SetSessionID(w) PROVE Base'
  <2>1. /\ pc[w] = "setid" /\ pc' \in [Worker -> Steps]
        /\ pc'[w] \in {"repost", "list"}
        /\ \A v \in Worker : v # w => pc'[v] = pc[v]
    BY <1>0, <1>8, <1>s, OneMoves DEF SetSessionID, AcceptSteps
  <2>2. cur[w] \in Client /\ cur[w] \in made
    BY <1>0, <2>1 DEF Held, Holding, Objects
  <2>3. Table'
    <3>1. Len(mClientList) \in 0..Len(mClientList)
      BY <1>0 DEF Table
    <3>2. CASE UNCHANGED mSessionID
      BY <1>0, <1>8, <2>1, <3>2 DEF SetSessionID, Table
    <3>3. CASE /\ mSessionID' = [mSessionID EXCEPT ![cur[w]] = Len(mClientList)]
               /\ Goto(w, "list")
      <4>1. mSessionID' \in [Client -> 0..Len(mClientList)]
        BY <1>0, <3>1, <3>3 DEF Table
      <4>2. pc'[w] = "list" /\ cur' = cur /\ mClientList' = mClientList
            /\ mClientPool' = mClientPool /\ made' = made
        BY <1>0, <1>8, <3>3 DEF SetSessionID, Threads, Goto
      <4>3. \A c \in Client : c # cur[w] => mSessionID'[c] = mSessionID[c]
        BY <1>0, <2>2, <3>3 DEF Table
      <4>4. ASSUME NEW c \in Client,
                   mSessionID'[c] = Len(mClientList) /\ mClientList # <<>>
            PROVE  \E v \in Worker : pc'[v] = "list" /\ cur'[v] = c
        <5>1. CASE c = cur[w]
          BY <4>2, <5>1
        <5>2. CASE c # cur[w]
          <6>1. PICK v \in Worker : pc[v] = "list" /\ cur[v] = c
            BY <1>0, <4>3, <4>4, <5>2 DEF Table
          <6> QED BY <2>1, <4>2, <6>1
        <5> QED BY <5>1, <5>2
      <4> QED BY <1>0, <4>1, <4>2, <4>4 DEF Table
    <3> QED BY <1>8, <3>2, <3>3 DEF SetSessionID
  <2>4. Threads' /\ Held'
    BY <1>0, <1>8, <2>1, <2>2 DEF SetSessionID, Threads, Held, Holding
  <2> QED BY <1>0, <1>8, <2>3, <2>4 DEF SetSessionID, Base, Objects, Links
<1>9. ASSUME NEW w \in Worker, PushBack(w) PROVE Base'
  <2>1. /\ pc[w] = "list" /\ pc' \in [Worker -> Steps] /\ pc'[w] = "repost"
        /\ \A v \in Worker : v # w => pc'[v] = pc[v]
    BY <1>0, <1>9, <1>s, OneMoves DEF PushBack, AcceptSteps
  <2>2. cur[w] \in made
    BY <1>0, <2>1 DEF Held, Holding
  <2>3. /\ mClientList' \in Seq(made) /\ Len(mClientList') = Len(mClientList) + 1
        /\ Len(mClientList) \in Nat
    BY <1>0, <1>9, <2>2, AppendProperties DEF PushBack, Table
  <2>4. \A c \in Client : /\ mSessionID[c] \in 0..Len(mClientList')
                          /\ mSessionID[c] # Len(mClientList')
    BY <1>0, <2>3 DEF Table
  <2>5. mSessionID \in [Client -> 0..Len(mClientList')]
    BY <1>0, <2>4 DEF Table
  <2>6. Table'
    BY <1>0, <1>9, <2>3, <2>4, <2>5 DEF PushBack, Table
  <2>7. Threads' /\ Held'
    BY <1>0, <1>9, <2>1, <2>2 DEF PushBack, Threads, Held, Holding
  <2> QED BY <1>0, <1>9, <2>6, <2>7 DEF PushBack, Base, Objects, Links
<1>10. ASSUME NEW w \in Worker, PostAccept(w) PROVE Base'
  <2>1. /\ pc[w] = "repost" /\ pc' \in [Worker -> Steps] /\ pc'[w] = "idle"
        /\ cur' \in [Worker -> Client \cup {None}]
        /\ \A v \in Worker : v # w => pc'[v] = pc[v] /\ cur'[v] = cur[v]
    BY <1>0, <1>10, OneFinishes DEF PostAccept
  <2>2. Objects'
    <3>1. CASE MakeAccept /\ UNCHANGED acceptFailed
      <4>1. New(unused) \in Socket
        BY <1>0, <3>1, NewIsMember DEF MakeAccept, Objects
      <4> QED BY <1>0, <1>10, <3>1, <4>1 DEF PostAccept, MakeAccept, Objects
    <3>2. CASE acceptFailed' = TRUE /\ UNCHANGED <<unused, open, accepting>>
      BY <1>0, <1>10, <3>2 DEF PostAccept, Objects
    <3> QED BY <1>10, <3>1, <3>2 DEF PostAccept
  <2>3. UNCHANGED <<made, tableVars, clientVars, ioVars, acc>>
    BY <1>10 DEF PostAccept
  <2>4. Table'
    <3>1. \A v \in Worker : pc[v] = "list" => pc'[v] = "list" /\ cur'[v] = cur[v]
      BY <2>1
    <3> QED BY <1>0, <2>3, <3>1, TableStays DEF Table
  <2>5. Threads' /\ Held'
    BY <1>0, <2>1, <2>3 DEF Threads, Held, Holding
  <2> QED BY <1>0, <2>2, <2>3, <2>4, <2>5 DEF Base, Links
<1>11. ASSUME NEW w \in Worker, NEW a \in accepted, TakeAcceptError(w, a)
       PROVE  Base'
  <2>1. /\ pc[w] = "idle" /\ pc' \in [Worker -> Steps] /\ pc'[w] = "remove"
        /\ \A v \in Worker : v # w => pc'[v] = pc[v]
    BY <1>0, <1>11, <1>s, OneMoves DEF TakeAcceptError, RemoveSteps
  <2>2. /\ cur' \in [Worker -> Client \cup {None}]
        /\ \A v \in Worker : v # w => cur'[v] = cur[v]
    BY <1>0, <1>11 DEF TakeAcceptError, Threads
  <2>3. Table' /\ Threads' /\ Held'
    BY <1>0, <1>11, <2>1, <2>2 DEF TakeAcceptError, Table, Threads, Held, Holding
  <2> QED BY <1>0, <1>11, <2>3 DEF TakeAcceptError, Base, Objects, Links
<1>12. ASSUME NEW w \in Worker, NEW s \in Socket,
              TakeFailedRecv(w, s) \/ TakeFailedSend(w, s)
       PROVE  Base'
  <2>1. /\ pc[w] = "idle" /\ pc' \in [Worker -> Steps] /\ pc'[w] = "remove"
        /\ \A v \in Worker : v # w => pc'[v] = pc[v]
    BY <1>0, <1>12, <1>s, OneMoves
    DEF TakeFailedRecv, TakeFailedSend, RemoveSteps
  <2>2. /\ cur' \in [Worker -> Client \cup {None}]
        /\ \A v \in Worker : v # w => cur'[v] = cur[v]
    BY <1>0, <1>12 DEF TakeFailedRecv, TakeFailedSend, Threads, Links
  <2>3. Links'
    BY <1>0, <1>12 DEF TakeFailedRecv, TakeFailedSend, Links, IOState
  <2>4. Objects'
    <3>1. /\ gone' = gone \cup {s} /\ crossed' \in BOOLEAN
          /\ UNCHANGED <<made, unused, open, accepting, accepted, acceptFailed>>
      BY <1>0, <1>12 DEF TakeFailedRecv, TakeFailedSend, NoteFailure, Objects
    <3> QED BY <1>0, <3>1 DEF Objects
  <2>5. UNCHANGED <<made, tableVars, mSessionID, acc>>
    BY <1>12 DEF TakeFailedRecv, TakeFailedSend
  <2>6. Table'
    <3>1. \A v \in Worker : pc[v] = "list" => pc'[v] = "list" /\ cur'[v] = cur[v]
      BY <2>1, <2>2
    <3> QED BY <1>0, <2>5, <3>1, TableStays DEF Table
  <2>7. Threads' /\ Held'
    BY <1>0, <2>1, <2>2, <2>5 DEF Threads, Held, Holding
  <2> QED BY <2>3, <2>4, <2>6, <2>7 DEF Base
<1>13. ASSUME NEW w \in Worker, FindClient(w) PROVE Base'
  <2> DEFINE id == IF cur[w] = None THEN 0 ELSE mSessionID[cur[w]]
  <2>1. /\ pc[w] = "remove" /\ pc' \in [Worker -> Steps]
        /\ pc'[w] \in {"close", "idle"}
        /\ \A v \in Worker : v # w => pc'[v] = pc[v] /\ cur'[v] = cur[v]
        /\ cur' \in [Worker -> Client \cup {None}]
        /\ pc'[w] = "close" => cur'[w] \in made
    <3>1. CASE id < Len(mClientList)
      <4>1. id \in Nat /\ Len(mClientList) \in Nat
        BY <1>0 DEF Threads, Table
      <4>2. mClientList[id + 1] \in made
        BY <1>0, <3>1, <4>1, ElementOfSeq DEF Table
      <4>3. /\ cur' = [cur EXCEPT ![w] = mClientList[id + 1]]
            /\ Goto(w, "close") /\ pc[w] = "remove"
        BY <1>13, <3>1 DEF FindClient
      <4> QED BY <1>0, <1>s, <4>2, <4>3, OneMoves DEF Threads, Objects, RemoveSteps
    <3>2. CASE ~(id < Len(mClientList))
      <4>1. Finish(w) /\ pc[w] = "remove"
        BY <1>13, <3>2 DEF FindClient
      <4> QED BY <1>0, <4>1, OneFinishes
    <3> QED BY <3>1, <3>2
  <2>2. UNCHANGED <<made, unused, tableVars, clientVars, ioVars, acceptVars, acc,
                    open, histVars>>
    BY <1>13 DEF FindClient
  <2>3. Table' /\ Threads'
    BY <1>0, <2>1, <2>2 DEF Table, Threads
  <2>4. Held'
    BY <1>0, <2>1, <2>2 DEF Held, Holding
  <2> QED BY <1>0, <2>2, <2>3, <2>4 DEF Base, Objects, Links
<1>14. ASSUME NEW w \in Worker, CloseSocket(w) PROVE Base'
  <2>1. /\ pc[w] = "close" /\ pc' \in [Worker -> Steps] /\ pc'[w] = "invalid"
        /\ \A v \in Worker : v # w => pc'[v] = pc[v]
    BY <1>0, <1>14, <1>s, OneMoves DEF CloseSocket, RemoveSteps
  <2>2. cur[w] \in Client /\ cur[w] \in made
    BY <1>0, <2>1 DEF Held, Holding, Objects
  <2>3. mSocket[cur[w]] \in Socket \/ mSocket[cur[w]] = None
    BY <1>0, <2>2 DEF Links, Sockets
  <2>4. recv' \in [Socket -> IOState] /\ send' \in [Socket -> IOState]
    BY <1>0, <1>14, <2>3 DEF CloseSocket, Links, IOState
  <2>5. Objects' /\ Links'
    BY <1>0, <1>14, <2>4 DEF CloseSocket, Objects, Links
  <2>6. Table' /\ Threads' /\ Held'
    BY <1>0, <1>14, <2>1, <2>2 DEF CloseSocket, Table, Threads, Held, Holding
  <2> QED BY <2>5, <2>6 DEF Base
<1>15. ASSUME NEW w \in Worker, InvalidateSocket(w) PROVE Base'
  <2>1. /\ pc[w] = "invalid" /\ pc' \in [Worker -> Steps] /\ pc'[w] = "reset"
        /\ \A v \in Worker : v # w => pc'[v] = pc[v]
    BY <1>0, <1>15, <1>s, OneMoves DEF InvalidateSocket, RemoveSteps
  <2>2. cur[w] \in Client /\ cur[w] \in made
    BY <1>0, <2>1 DEF Held, Holding, Objects
  <2>3. Links'
    BY <1>0, <1>15, <2>2 DEF InvalidateSocket, Links, Sockets
  <2>4. Table' /\ Threads' /\ Held'
    BY <1>0, <1>15, <2>1, <2>2 DEF InvalidateSocket, Table, Threads, Held, Holding
  <2> QED BY <1>0, <1>15, <2>3, <2>4 DEF InvalidateSocket, Base, Objects
<1>16. ASSUME NEW w \in Worker, ResetClient(w) PROVE Base'
  <2>1. /\ pc[w] = "reset" /\ pc' \in [Worker -> Steps] /\ pc'[w] = "pool"
        /\ \A v \in Worker : v # w => pc'[v] = pc[v]
    BY <1>0, <1>16, <1>s, OneMoves DEF ResetClient, RemoveSteps
  <2>2. cur[w] \in Client /\ cur[w] \in made
    BY <1>0, <2>1 DEF Held, Holding, Objects
  <2>3. Links'
    BY <1>0, <1>16, <2>2 DEF ResetClient, Links
  <2>4. Table'
    <3>1. Len(mClientList) \in Nat /\ (mClientList # <<>> => Len(mClientList) # 0)
      BY <1>0, EmptySeq DEF Table
    <3>2. /\ mSessionID' \in [Client -> 0..Len(mClientList)]
          /\ \A c \in Client : mSessionID'[c] = mSessionID[c] \/ mSessionID'[c] = 0
      BY <1>0, <1>16, <2>2, <3>1 DEF ResetClient, Table
    <3> QED BY <1>0, <1>16, <2>1, <3>1, <3>2 DEF ResetClient, Table
  <2>5. Threads' /\ Held'
    BY <1>0, <1>16, <2>1, <2>2 DEF ResetClient, Threads, Held, Holding
  <2> QED BY <1>0, <1>16, <2>3, <2>4, <2>5 DEF ResetClient, Base, Objects
<1>17. ASSUME NEW w \in Worker, PoolClient(w) PROVE Base'
  <2>1. /\ pc[w] = "pool" /\ pc' \in [Worker -> Steps] /\ pc'[w] = "idle"
        /\ cur' \in [Worker -> Client \cup {None}]
        /\ \A v \in Worker : v # w => pc'[v] = pc[v] /\ cur'[v] = cur[v]
    BY <1>0, <1>17, OneFinishes DEF PoolClient
  <2>2. cur[w] \in made
    BY <1>0, <2>1 DEF Held, Holding
  <2>3. mClientPool' \in Seq(made)
    BY <1>0, <1>17, <2>2, AppendProperties DEF PoolClient, Table
  <2>4. Table' /\ Threads' /\ Held'
    BY <1>0, <1>17, <2>1, <2>3 DEF PoolClient, Table, Threads, Held, Holding
  <2> QED BY <1>0, <1>17, <2>4 DEF PoolClient, Base, Objects, Links
<1>18. CASE UNCHANGED vars
  BY <1>0, <1>18 DEF vars, Base, Objects, Table, Links, Threads, Held
<1> QED
  BY <1>1, <1>2, <1>3, <1>4, <1>5, <1>6, <1>7, <1>8, <1>9, <1>10, <1>11, <1>12,
     <1>13, <1>14, <1>15, <1>16, <1>17, <1>18
  DEF Next, Accept, Remove

LEMMA NextOwnSteps == Base /\ OwnSteps /\ [Next]_vars => OwnSteps'
<1> SUFFICES ASSUME Base, OwnSteps, [Next]_vars PROVE OwnSteps'
  OBVIOUS
<1> USE DEF tableVars, clientVars, ioVars, acceptVars, histVars, threadVars
<1>1. pc \in [Worker -> Steps]
  BY DEF Base, Threads
<1>2. ASSUME NEW w \in Worker, NEW step, step \notin HandleSteps, Goto(w, step)
      PROVE  OwnSteps'
  BY <1>1, <1>2 DEF OwnSteps, Goto
<1>3. \A w \in Worker : Finish(w) => OwnSteps'
  BY <1>2 DEF Finish, HandleSteps
<1>4. ASSUME NEW w \in Worker, Accept(w) PROVE OwnSteps'
  BY <1>2, <1>3, <1>4 DEF Accept, TakeAccept, ChooseClient, PrepareClient, ClearClient,
                          InitClient, SetSocket, PostReceive,
                          SetSessionID, PushBack, PostAccept, HandleSteps
<1>5. ASSUME NEW w \in Worker, Remove(w) PROVE OwnSteps'
  BY <1>2, <1>3, <1>5 DEF Remove, TakeAcceptError, TakeFailedRecv, TakeFailedSend,
                          FindClient, CloseSocket, InvalidateSocket, ResetClient,
                          PoolClient, HandleSteps
<1>6. ASSUME UNCHANGED pc PROVE OwnSteps'
  BY <1>6 DEF OwnSteps
<1> QED BY <1>4, <1>5, <1>6 DEF Next, CompleteAccept, PeerClose, ToggleSend, vars

LEMMA BaseAlways == Spec => [](Base /\ OwnSteps)
<1>1. Init => OwnSteps
  BY DEF Init, OwnSteps, HandleSteps
<1> QED BY <1>1, InitBase, NextBase, NextOwnSteps, PTL DEF Spec

(* Types, and a session ID is never beyond mClientList, so that the at of      *)
(* RemoveClient and PushSendPacket never throws.                           *)
THEOREM TypeCorrect == Spec => []TypeOK
BY BaseAlways, BaseIsTypes, PTL

-----------------------------------------------------------------------------
(* Accepting and the session IDs *)

(* OneAccept without counting: two of the three are empty, and the third has  *)
(* at most one member.                                                      *)
Handling(w) == pc[w] \in AcceptSteps
OneStep ==
  /\ \A s, t \in accepting : s = t
  /\ \A a, b \in accepted : a = b
  /\ \A v, w \in Worker : Handling(v) /\ Handling(w) => v = w
  /\ accepting = {} \/ accepted = {}
  /\ \A w \in Worker : Handling(w) => accepting = {} /\ accepted = {}

(* A client that is about to be listed has the ID of its place-to-be, unless  *)
(* a removal has reset it.                                                  *)
ListedNext ==
  \A w \in Worker : pc[w] = "list" => mSessionID[cur[w]] \in {0, Len(mClientList)}

SessionInv == Base /\ OneStep /\ ListedNext /\ RegisteredUnderItsID

(* The steps that neither make an accept or take one that succeeded, nor give *)
(* an ID or list a client.                                                  *)
OtherStep(w) ==
  \/ \E c \in Client : ChooseClient(w, c)
  \/ PrepareClient(w) \/ PostReceive(w)
  \/ Remove(w)

(* What such a step leaves as it is. *)
LeavesTheTable(w) ==
  /\ \A v \in Worker : v # w => pc'[v] = pc[v] /\ cur'[v] = cur[v]
  /\ Handling(w)' => Handling(w)
  /\ pc[w] # "list" /\ pc'[w] # "list"
  /\ UNCHANGED <<mClientList, accepting>> /\ accepted' \subseteq accepted
  /\ \A c \in Client : \/ /\ mSessionID'[c] = mSessionID[c]
                          /\ mIsConnected'[c] = mIsConnected[c]
                       \/ mSessionID'[c] = 0

LEMMA OtherStepsLeave ==
  ASSUME Base, NEW w \in Worker, OtherStep(w)
  PROVE  LeavesTheTable(w)
<1> USE DEF tableVars, clientVars, ioVars, acceptVars, histVars, threadVars
<1>0. /\ pc \in [Worker -> Steps] /\ cur \in [Worker -> Client \cup {None}]
      /\ DOMAIN mSessionID = Client /\ DOMAIN mIsConnected = Client
  BY DEF Base, Threads, Table, Links
<1>1. ASSUME NEW c \in Client, ChooseClient(w, c) PROVE LeavesTheTable(w)
  BY <1>0, <1>1 DEF ChooseClient, Goto, LeavesTheTable, Handling, AcceptSteps
<1>2. CASE PrepareClient(w)
  BY <1>0, <1>2 DEF PrepareClient, ClearClient, InitClient, SetSocket, Goto,
                    LeavesTheTable, Handling, AcceptSteps
<1>3. CASE PostReceive(w)
  BY <1>0, <1>3 DEF PostReceive, Goto, Finish, LeavesTheTable, Handling, AcceptSteps
<1>4. ASSUME NEW a \in accepted, TakeAcceptError(w, a) PROVE LeavesTheTable(w)
  BY <1>0, <1>4 DEF TakeAcceptError, Goto, LeavesTheTable, Handling, AcceptSteps
<1>5. ASSUME NEW s \in Socket, TakeFailedRecv(w, s) \/ TakeFailedSend(w, s)
      PROVE  LeavesTheTable(w)
  BY <1>0, <1>5 DEF TakeFailedRecv, TakeFailedSend, Goto, LeavesTheTable,
                    Handling, AcceptSteps
<1>6. CASE FindClient(w)
  BY <1>0, <1>6 DEF FindClient, Goto, Finish, LeavesTheTable, Handling, AcceptSteps
<1>7. CASE CloseSocket(w)
  BY <1>0, <1>7 DEF CloseSocket, Goto, LeavesTheTable, Handling, AcceptSteps
<1>8. CASE InvalidateSocket(w)
  BY <1>0, <1>8 DEF InvalidateSocket, Goto, LeavesTheTable, Handling, AcceptSteps
<1>9. CASE ResetClient(w)
  BY <1>0, <1>9 DEF ResetClient, Goto, LeavesTheTable, Handling, AcceptSteps
<1>10. CASE PoolClient(w)
  BY <1>0, <1>10 DEF PoolClient, Goto, Finish, LeavesTheTable, Handling, AcceptSteps
<1> QED
  BY <1>1, <1>2, <1>3, <1>4, <1>5, <1>6, <1>7, <1>8, <1>9, <1>10
  DEF OtherStep, Remove

LEMMA OtherStepsKeep ==
  ASSUME SessionInv, NEW w \in Worker, LeavesTheTable(w)
  PROVE  OneStep' /\ ListedNext' /\ RegisteredUnderItsID'
<1>1. OneStep'
  BY DEF SessionInv, OneStep, LeavesTheTable, Handling
<1>2. \A v \in Worker : /\ pc'[v] = "list" <=> pc[v] = "list"
                        /\ pc[v] = "list" => cur'[v] = cur[v]
  BY DEF LeavesTheTable
<1>3. \A v \in Worker : pc[v] = "list" => cur[v] \in Client
  BY DEF SessionInv, Base, Held, Holding, Objects
<1>4. ListedNext'
  BY <1>2, <1>3 DEF SessionInv, ListedNext, LeavesTheTable
<1>5. RegisteredUnderItsID'
  <2> SUFFICES ASSUME NEW c \in Client, mIsConnected'[c], mSessionID'[c] # 0,
                      \A v \in Worker : ~(pc'[v] = "list" /\ cur'[v] = c)
               PROVE  /\ mSessionID'[c] < Len(mClientList')
                      /\ mClientList'[mSessionID'[c] + 1] = c
    BY DEF RegisteredUnderItsID
  <2>1. mSessionID'[c] = mSessionID[c] /\ mIsConnected'[c] = mIsConnected[c]
    BY DEF LeavesTheTable
  <2>2. \A v \in Worker : ~(pc[v] = "list" /\ cur[v] = c)
    BY <1>2
  <2> QED BY <2>1, <2>2 DEF SessionInv, RegisteredUnderItsID, LeavesTheTable
<1> QED BY <1>1, <1>4, <1>5

LEMMA InitSession == Init => SessionInv
<1> SUFFICES ASSUME Init PROVE SessionInv
  OBVIOUS
<1>1. OneStep /\ ListedNext /\ RegisteredUnderItsID
  BY DEF Init, OneStep, Handling, AcceptSteps, ListedNext, RegisteredUnderItsID
<1> QED BY <1>1, InitBase DEF SessionInv

LEMMA NextSession == SessionInv /\ [Next]_vars => SessionInv'
<1> SUFFICES ASSUME SessionInv, [Next]_vars PROVE SessionInv'
  OBVIOUS
<1> USE DEF tableVars, clientVars, ioVars, acceptVars, histVars, threadVars
<1>0. Base /\ OneStep /\ ListedNext /\ RegisteredUnderItsID /\ Base'
  BY NextBase DEF SessionInv
<1>p. /\ pc \in [Worker -> Steps] /\ cur \in [Worker -> Client \cup {None}]
      /\ mSessionID \in [Client -> 0..Len(mClientList)] /\ Len(mClientList) \in Nat
      /\ mClientList \in Seq(made)
      /\ \A v \in Worker : pc[v] = "list" => cur[v] \in Client
  BY <1>0 DEF Base, Threads, Table, Held, Holding, Objects
<1> SUFFICES OneStep' /\ ListedNext' /\ RegisteredUnderItsID'
  BY <1>0 DEF SessionInv
<1>1. ASSUME NEW s \in Socket, NEW ok \in BOOLEAN, CompleteAccept(s, ok)
      PROVE  OneStep' /\ ListedNext' /\ RegisteredUnderItsID'
  <2>1. OneStep'
    BY <1>0, <1>1 DEF CompleteAccept, OneStep, Handling
  <2> QED BY <1>0, <1>1, <2>1 DEF CompleteAccept, ListedNext, RegisteredUnderItsID
<1>2. ASSUME NEW s \in Socket, PeerClose(s)
      PROVE  OneStep' /\ ListedNext' /\ RegisteredUnderItsID'
  BY <1>0, <1>2 DEF PeerClose, OneStep, Handling, ListedNext, RegisteredUnderItsID
<1>3. ASSUME NEW c \in Client, ToggleSend(c)
      PROVE  OneStep' /\ ListedNext' /\ RegisteredUnderItsID'
  BY <1>0, <1>3 DEF ToggleSend, OneStep, Handling, ListedNext, RegisteredUnderItsID
<1>4. ASSUME NEW w \in Worker, NEW a \in accepted, TakeAccept(w, a)
      PROVE  OneStep' /\ ListedNext' /\ RegisteredUnderItsID'
  <2>1. /\ pc[w] = "idle" /\ pc'[w] \in {"choose", "idle"} /\ cur' = cur
        /\ \A v \in Worker : v # w => pc'[v] = pc[v]
        /\ accepted' = accepted \ {a} /\ accepting' = accepting
    BY <1>p, <1>4 DEF TakeAccept, Goto
  <2>2. OneStep'
    BY <1>0, <2>1 DEF OneStep, Handling, AcceptSteps
  <2>3. \A v \in Worker : pc'[v] = "list" <=> pc[v] = "list"
    BY <2>1
  <2> QED BY <1>0, <1>4, <2>1, <2>2, <2>3
          DEF TakeAccept, ListedNext, RegisteredUnderItsID
<1>5. ASSUME NEW w \in Worker, SetSessionID(w)
      PROVE  OneStep' /\ ListedNext' /\ RegisteredUnderItsID'
  <2>1. /\ pc[w] = "setid" /\ pc'[w] \in {"repost", "list"}
        /\ cur' = cur /\ UNCHANGED <<mClientList, mIsConnected, accepting, accepted>>
        /\ \A v \in Worker : v # w => pc'[v] = pc[v]
    BY <1>p, <1>5 DEF SetSessionID, Goto
  <2>2. cur[w] \in Client
    BY <1>0, <2>1 DEF Base, Held, Holding, Objects
  <2>3. OneStep'
    BY <1>0, <2>1 DEF OneStep, Handling, AcceptSteps
  <2>4. \A v \in Worker : v # w => pc[v] # "list" /\ pc'[v] # "list"
    BY <1>0, <2>1 DEF OneStep, Handling, AcceptSteps
  <2>5. CASE Goto(w, "repost") /\ UNCHANGED mSessionID
    <3>1. pc'[w] = "repost"
      BY <1>p, <2>5 DEF Goto
    <3> QED BY <1>0, <2>1, <2>3, <2>4, <2>5, <3>1 DEF ListedNext, RegisteredUnderItsID
  <2>6. CASE /\ mSessionID' = [mSessionID EXCEPT ![cur[w]] = Len(mClientList)]
             /\ Goto(w, "list")
    <3>1. pc'[w] = "list" /\ mSessionID'[cur[w]] = Len(mClientList)
      BY <1>p, <2>2, <2>6 DEF Goto
    <3>2. \A c \in Client : c # cur[w] => mSessionID'[c] = mSessionID[c]
      BY <1>p, <2>6
    <3>3. ListedNext'
      BY <2>1, <2>4, <3>1 DEF ListedNext
    <3>4. RegisteredUnderItsID'
      BY <1>0, <2>1, <2>4, <3>1, <3>2 DEF RegisteredUnderItsID
    <3> QED BY <2>3, <3>3, <3>4
  <2> QED BY <1>5, <2>5, <2>6 DEF SetSessionID
<1>6. ASSUME NEW w \in Worker, PushBack(w)
      PROVE  OneStep' /\ ListedNext' /\ RegisteredUnderItsID'
  <2>1. /\ pc[w] = "list" /\ pc'[w] = "repost"
        /\ cur' = cur /\ UNCHANGED <<mSessionID, mIsConnected, accepting, accepted>>
        /\ \A v \in Worker : v # w => pc'[v] = pc[v]
        /\ mClientList' = Append(mClientList, cur[w])
    BY <1>p, <1>6 DEF PushBack, Goto
  <2>2. OneStep'
    BY <1>0, <2>1 DEF OneStep, Handling, AcceptSteps
  <2>3. \A v \in Worker : v # w => pc[v] # "list" /\ pc'[v] # "list"
    BY <1>0, <2>1 DEF OneStep, Handling, AcceptSteps
  <2>4. ListedNext'
    BY <2>1, <2>3 DEF ListedNext
  <2>5. /\ cur[w] \in made /\ Len(mClientList') = Len(mClientList) + 1
        /\ mClientList'[Len(mClientList) + 1] = cur[w]
        /\ \A i \in 1..Len(mClientList) : mClientList'[i] = mClientList[i]
    BY <1>0, <1>p, <2>1, AppendProperties DEF Base, Held, Holding
  <2>6. RegisteredUnderItsID'
    <3> SUFFICES ASSUME NEW c \in Client, mIsConnected[c], mSessionID[c] # 0
                 PROVE  /\ mSessionID[c] < Len(mClientList')
                        /\ mClientList'[mSessionID[c] + 1] = c
      BY <2>1 DEF RegisteredUnderItsID
    <3>1. CASE c = cur[w]
      <4>1. mSessionID[c] = Len(mClientList)
        BY <1>0, <2>1, <3>1 DEF ListedNext
      <4> QED BY <1>p, <2>5, <3>1, <4>1
    <3>2. CASE c # cur[w]
      <4>1. \A v \in Worker : ~(pc[v] = "list" /\ cur[v] = c)
        BY <2>3, <3>2
      <4>2. /\ mSessionID[c] < Len(mClientList)
            /\ mClientList[mSessionID[c] + 1] = c
        BY <1>0, <4>1 DEF RegisteredUnderItsID
      <4>3. mSessionID[c] \in Nat /\ mSessionID[c] + 1 \in 1..Len(mClientList)
        BY <1>p, <4>2
      <4> QED BY <1>p, <2>5, <4>2, <4>3
    <3> QED BY <3>1, <3>2
  <2> QED BY <2>2, <2>4, <2>6
<1>7. ASSUME NEW w \in Worker, PostAccept(w)
      PROVE  OneStep' /\ ListedNext' /\ RegisteredUnderItsID'
  <2>1. /\ pc[w] = "repost" /\ pc'[w] = "idle" /\ accepted' = accepted
        /\ \A v \in Worker : v # w => pc'[v] = pc[v] /\ cur'[v] = cur[v]
        /\ UNCHANGED <<mClientList, mSessionID, mIsConnected>>
    BY <1>p, <1>7 DEF PostAccept, Finish, Goto
  <2>2. \A v \in Worker : ~Handling(v)'
    BY <1>0, <2>1 DEF OneStep, Handling, AcceptSteps
  <2>3. OneStep'
    <3>1. accepting = {} /\ accepted = {}
      BY <1>0, <2>1 DEF OneStep, Handling, AcceptSteps
    <3>2. accepting' = accepting \/ \E s : accepting' = accepting \cup {s}
      BY <1>7 DEF PostAccept, MakeAccept
    <3> QED BY <2>1, <2>2, <3>1, <3>2 DEF OneStep
  <2>4. \A v \in Worker : /\ pc'[v] = "list" <=> pc[v] = "list"
                          /\ pc[v] = "list" => cur'[v] = cur[v]
    BY <2>1
  <2> QED BY <1>0, <2>1, <2>3, <2>4 DEF ListedNext, RegisteredUnderItsID
<1>8. ASSUME NEW w \in Worker, OtherStep(w)
      PROVE  OneStep' /\ ListedNext' /\ RegisteredUnderItsID'
  BY <1>0, <1>8, OtherStepsLeave, OtherStepsKeep
<1>9. CASE UNCHANGED vars
  BY <1>0, <1>9 DEF vars, OneStep, Handling, ListedNext, RegisteredUnderItsID
<1> QED
  BY <1>1, <1>2, <1>3, <1>4, <1>5, <1>6, <1>7, <1>8, <1>9
  DEF Next, Accept, OtherStep

LEMMA AtMostOne ==
  ASSUME NEW S, \A x, y \in S : x = y
  PROVE  Cardinality(S) \in {0, 1} /\ (S = {} => Cardinality(S) = 0)
<1>1. CASE S = {}
  BY <1>1, FS_EmptySet
<1>2. CASE S # {}
  <2>1. PICK x \in S : TRUE
    BY <1>2
  <2>2. S = {x}
    BY <2>1
  <2> QED BY <1>2, <2>2, FS_Singleton
<1> QED BY <1>1, <1>2

LEMMA OneStepIsOneAccept == OneStep => OneAccept
<1> SUFFICES ASSUME OneStep PROVE OneAccept
  OBVIOUS
<1> DEFINE H == {w \in Worker : pc[w] \in AcceptSteps}
<1>1. /\ Cardinality(accepting) \in {0, 1}
      /\ accepting = {} => Cardinality(accepting) = 0
  BY AtMostOne DEF OneStep
<1>2. /\ Cardinality(accepted) \in {0, 1}
      /\ accepted = {} => Cardinality(accepted) = 0
  BY AtMostOne DEF OneStep
<1>3. Cardinality(H) \in {0, 1} /\ (H = {} => Cardinality(H) = 0)
  <2>1. \A v, w \in H : v = w
    BY DEF OneStep, Handling
  <2> QED BY <2>1, AtMostOne
<1>4. /\ accepting = {} \/ accepted = {}
      /\ H # {} => accepting = {} /\ accepted = {}
  BY DEF OneStep, Handling
<1>5. Cardinality(accepting) + Cardinality(accepted) + Cardinality(H) <= 1
  <2> HIDE DEF H
  <2> QED BY <1>1, <1>2, <1>3, <1>4
<1> QED BY <1>5 DEF OneAccept

LEMMA SessionAlways == Spec => []SessionInv
BY InitSession, NextSession, PTL DEF Spec

(* The AcceptEx that is outstanding, its completion and the handling of it     *)
(* are never more than one: _HandleAccept needs no lock.                     *)
THEOREM AcceptsNeverOverlap == Spec => []OneAccept
<1>1. SessionInv => OneAccept
  BY OneStepIsOneAccept DEF SessionInv
<1> QED BY <1>1, SessionAlways, PTL

(* A connected client with a session ID stands in mClientList at that ID,      *)
(* however many workers remove clients and whichever are used again.         *)
THEOREM FoundUnderItsID == Spec => []RegisteredUnderItsID
<1>1. SessionInv => RegisteredUnderItsID
  BY DEF SessionInv
<1> QED BY <1>1, SessionAlways, PTL

-----------------------------------------------------------------------------
(* What a removal closes.  The argument is for as long as no accept has failed *)
(* and no failure has crossed another, as the property is.                   *)

Live(s) == key[s] # None /\ s \notin gone
Fresh(s) == key[s] = None /\ s \notin gone /\ s \notin unused
Removing(w, c) == pc[w] \in RemoveSteps /\ cur[w] = c

(* No connection of c is still to fail; nobody removes it and it is not pooled. *)
Free(c) == \A s \in Socket : Live(s) => key[s] # c
Alone(c) == c \notin Range(mClientPool) /\ \A w \in Worker : ~Removing(w, c)

ListedAt(c) ==
  mSessionID[c] < Len(mClientList) /\ mClientList[mSessionID[c] + 1] = c
BeingListed(c) == \E w \in Worker : pc[w] \in {"setid", "list"} /\ cur[w] = c

(* The socket that is accepted has no past. *)
FreshSockets ==
  /\ \A s \in unused : key[s] = None /\ s \notin gone
  /\ \A s \in accepting : Fresh(s)
  /\ \A a \in accepted : Fresh(a.sock) /\ a.ok
  /\ \A w \in Worker :
       /\ pc[w] \in {"choose", "prepare", "init", "socket"} => acc[w] \in Socket /\ Fresh(acc[w])
       /\ pc[w] = "receive" => mSocket[cur[w]] \in Socket /\ Fresh(mSocket[cur[w]])

(* A connection that is still to fail is that of its client, which is listed  *)
(* at its ID, or about to be, and which nobody removes.                      *)
LiveOnes ==
  \A s \in Socket :
    /\ Live(s) => /\ key[s] \in made /\ mSocket[key[s]] = s /\ Alone(key[s])
                  /\ BeingListed(key[s]) \/ ListedAt(key[s])
    /\ recv[s] # "none" \/ send[s] = "failed" \/ s \in gone => key[s] # None

NoDup(q) == \A i, j \in DOMAIN q : q[i] = q[j] => i = j
Pooled == NoDup(mClientPool) /\ \A c \in Range(mClientPool) : Free(c)

(* A client is removed by one worker, for the failure of the socket it has,    *)
(* and the ID that is looked up is its own.                                 *)
Removed ==
  \A w \in Worker : pc[w] \in RemoveSteps =>
    /\ cur[w] \in made /\ cur[w] \notin Range(mClientPool) /\ Free(cur[w])
    /\ \A v \in Worker : Removing(v, cur[w]) => v = w
    /\ pc[w] \in {"remove", "close"} => mSocket[cur[w]] \in gone
    /\ pc[w] = "remove" => ListedAt(cur[w])

(* The client that is prepared has no past either. *)
Preparing ==
  \A w \in Worker :
    /\ pc[w] \in {"prepare", "init", "socket", "receive", "setid", "list"} => Alone(cur[w])
    /\ pc[w] \in {"prepare", "init", "socket", "receive"} => Free(cur[w])
    /\ pc[w] \in {"init", "socket", "receive", "setid"} => mSessionID[cur[w]] = 0
    /\ pc[w] = "list" => mSessionID[cur[w]] = Len(mClientList)

Orderly == FreshSockets /\ LiveOnes /\ Pooled /\ Removed /\ Preparing

(* Nothing is received where a failure was taken: a send fails with the        *)
(* receive, or is ended on a closed socket.  (In Answers it is not so.)       *)
Silent ==
  \A s \in Socket : /\ s \in gone => recv[s] # "posted"
                    /\ send[s] = "failed" => s \in gone \/ recv[s] = "failed"

FailedInv == SessionInv /\ (~acceptFailed /\ ~crossed => Orderly /\ Silent)

-----------------------------------------------------------------------------
(* Lemmas on the pool *)

LEMMA PoolTail ==
  ASSUME NEW S, NEW q \in Seq(S), q # <<>>, NoDup(q)
  PROVE  /\ Tail(q) \in Seq(S) /\ Head(q) \in S /\ Head(q) \in Range(q)
         /\ Range(Tail(q)) \subseteq Range(q)
         /\ Head(q) \notin Range(Tail(q)) /\ NoDup(Tail(q))
<1>1. /\ Len(q) \in Nat /\ Len(q) > 0 /\ DOMAIN q = 1..Len(q) /\ Head(q) = q[1]
      /\ Tail(q) \in Seq(S) /\ Head(q) \in S
      /\ DOMAIN Tail(q) = 1..(Len(q) - 1)
      /\ \A i \in 1..(Len(q) - 1) : Tail(q)[i] = q[i + 1]
  BY EmptySeq
<1>2. \A i \in DOMAIN Tail(q) : i + 1 \in DOMAIN q /\ i + 1 # 1 /\ i \in Nat
  BY <1>1
<1>3. 1 \in DOMAIN q
  BY <1>1
<1>4. NoDup(Tail(q))
  <2> SUFFICES ASSUME NEW i \in DOMAIN Tail(q), NEW j \in DOMAIN Tail(q),
                      Tail(q)[i] = Tail(q)[j]
               PROVE  i = j
    BY DEF NoDup
  <2>1. i + 1 = j + 1
    BY <1>1, <1>2 DEF NoDup
  <2> QED BY <1>2, <2>1
<1>5. Range(Tail(q)) \subseteq Range(q)
  BY <1>1, <1>2 DEF Range
<1>6. Head(q) \notin Range(Tail(q))
  BY <1>1, <1>2, <1>3 DEF Range, NoDup
<1>7. Head(q) \in Range(q)
  BY <1>1, <1>3 DEF Range
<1> QED BY <1>1, <1>4, <1>5, <1>6, <1>7

LEMMA PoolAppend ==
  ASSUME NEW S, NEW q \in Seq(S), NEW x \in S, NoDup(q), x \notin Range(q)
  PROVE  Range(Append(q, x)) \subseteq Range(q) \cup {x} /\ NoDup(Append(q, x))
<1>1. /\ Len(q) \in Nat /\ DOMAIN q = 1..Len(q)
      /\ DOMAIN Append(q, x) = 1..(Len(q) + 1)
      /\ \A i \in 1..Len(q) : Append(q, x)[i] = q[i]
      /\ Append(q, x)[Len(q) + 1] = x
  OBVIOUS
<1>2. \A i \in DOMAIN Append(q, x) : i \in DOMAIN q \/ i = Len(q) + 1
  BY <1>1
<1>3. \A i \in DOMAIN q : Append(q, x)[i] = q[i] /\ q[i] # x
  BY <1>1 DEF Range
<1>4. Range(Append(q, x)) \subseteq Range(q) \cup {x}
  BY <1>1, <1>2, <1>3 DEF Range
<1>5. NoDup(Append(q, x))
  BY <1>1, <1>2, <1>3 DEF NoDup
<1> QED BY <1>4, <1>5

-----------------------------------------------------------------------------
(* Steps *)

(* What the steps below start from. *)
LEMMA Known ==
  ASSUME SessionInv
  PROVE  /\ made \subseteq Client /\ unused \subseteq Socket /\ gone \subseteq Socket
         /\ accepting \subseteq Socket /\ accepted \subseteq [sock : Socket, ok : BOOLEAN]
         /\ pc \in [Worker -> Steps] /\ cur \in [Worker -> Client \cup {None}]
         /\ acc \in [Worker -> Sockets] /\ mSocket \in [Client -> Sockets]
         /\ key \in [Socket -> Client \cup {None}]
         /\ recv \in [Socket -> IOState] /\ send \in [Socket -> IOState]
         /\ mClientList \in Seq(made) /\ mClientPool \in Seq(made)
         /\ mSessionID \in [Client -> 0..Len(mClientList)]
         /\ \A w \in Worker : pc[w] \in Holding => cur[w] \in made
         /\ \A v, w \in Worker : pc[v] \in AcceptSteps /\ pc[w] \in AcceptSteps => v = w
         /\ \A w \in Worker : pc[w] \in AcceptSteps => accepting = {} /\ accepted = {}
BY DEF SessionInv, Base, Objects, Table, Links, Threads, Held, OneStep, Handling

(* A step of the peers and the kernel. *)
LEMMA OutsideOrderly ==
  ASSUME SessionInv, Orderly, ~acceptFailed', ~crossed',
         \E s \in Socket : \/ \E ok \in BOOLEAN : CompleteAccept(s, ok)
                           \/ PeerClose(s)
                           \/ \E c \in Client : ToggleSend(c)
  PROVE  Orderly'
<1> USE DEF tableVars, clientVars, ioVars, acceptVars, histVars, threadVars
<1>0. recv \in [Socket -> IOState] /\ send \in [Socket -> IOState]
  BY Known
<1>1. /\ UNCHANGED <<made, unused, gone, pc, cur, acc, key, mSocket, mClientList,
                    mClientPool, mSessionID>>
      /\ \A s \in Socket : recv'[s] # "none" => recv[s] # "none"
      /\ \A s \in Socket : send'[s] = "failed" => send[s] = "failed" \/ recv[s] = "posted"
  BY <1>0 DEF CompleteAccept, PeerClose, ToggleSend, IOState
<1>2. (\A s \in accepting' : s \in accepting)
      /\ \A a \in accepted' : a \in accepted \/ (a.sock \in accepting /\ a.ok)
  <2>1. ASSUME NEW s \in Socket, NEW ok \in BOOLEAN, CompleteAccept(s, ok)
        PROVE  /\ \A t \in accepting' : t \in accepting
               /\ \A a \in accepted' : a \in accepted \/ (a.sock \in accepting /\ a.ok)
    <3> DEFINE b == [sock |-> s, ok |-> ok]
    <3>1. ok
      BY <2>1 DEF CompleteAccept
    <3>2. b.sock = s /\ b.ok = ok
      OBVIOUS
    <3>3. s \in accepting /\ accepting' = accepting \ {s} /\ accepted' = accepted \cup {b}
      BY <2>1 DEF CompleteAccept
    <3> HIDE DEF b
    <3> QED BY <3>1, <3>2, <3>3
  <2>2. ASSUME UNCHANGED <<accepting, accepted>>
        PROVE  /\ \A t \in accepting' : t \in accepting
               /\ \A a \in accepted' : a \in accepted \/ (a.sock \in accepting /\ a.ok)
    BY <2>2
  <2> QED BY <2>1, <2>2 DEF PeerClose, ToggleSend
<1>3. /\ \A s \in Socket : (Live(s)' <=> Live(s)) /\ (Fresh(s)' <=> Fresh(s))
      /\ unused \subseteq Socket /\ accepting \subseteq Socket
      /\ \A a \in accepted : a.sock \in Socket
  BY <1>1, Known DEF Live, Fresh
<1>4. \A c : (Free(c)' <=> Free(c)) /\ (Alone(c)' <=> Alone(c))
             /\ (ListedAt(c)' <=> ListedAt(c)) /\ (BeingListed(c)' <=> BeingListed(c))
  BY <1>1, <1>3 DEF Free, Alone, ListedAt, BeingListed, Removing
<1>5. FreshSockets'
  BY <1>1, <1>2, <1>3 DEF Orderly, FreshSockets
<1>6. LiveOnes'
  BY <1>1, <1>3, <1>4 DEF Orderly, LiveOnes
<1>7. Pooled' /\ Removed' /\ Preparing'
  BY <1>1, <1>4 DEF Orderly, Pooled, Removed, Preparing, Removing, NoDup
<1> QED BY <1>5, <1>6, <1>7 DEF Orderly

(* A step of accepting. *)
LEMMA AcceptOrderly ==
  ASSUME SessionInv, Orderly, ~acceptFailed', ~crossed', NEW w \in Worker, Accept(w)
  PROVE  Orderly'
<1> USE DEF tableVars, clientVars, ioVars, acceptVars, histVars, threadVars
<1>0. /\ made \subseteq Client /\ unused \subseteq Socket
      /\ pc \in [Worker -> Steps] /\ cur \in [Worker -> Client \cup {None}]
      /\ acc \in [Worker -> Sockets] /\ mSocket \in [Client -> Sockets]
      /\ key \in [Socket -> Client \cup {None}] /\ recv \in [Socket -> IOState]
      /\ mClientList \in Seq(made) /\ mClientPool \in Seq(made)
      /\ mSessionID \in [Client -> 0..Len(mClientList)]
      /\ \A v \in Worker : pc[v] \in Holding => cur[v] \in made
      /\ accepted \subseteq [sock : Socket, ok : BOOLEAN]
  BY Known
<1>c. PICK c : c = cur[w]
  OBVIOUS
<1>1. \A v, u \in Worker : pc[v] \in AcceptSteps /\ pc[u] \in AcceptSteps => v = u
  BY Known
<1>2. FreshSockets /\ LiveOnes /\ Pooled /\ Removed /\ Preparing
  BY DEF Orderly
<1>3. ASSUME NEW from, NEW to, from \notin RemoveSteps, to \notin RemoveSteps,
             pc[w] = from, pc' = [pc EXCEPT ![w] = to],
             \A v \in Worker : v # w => cur'[v] = cur[v]
      PROVE  /\ pc'[w] = to /\ \A v \in Worker : v # w => pc'[v] = pc[v]
             /\ \A v \in Worker : \A d : Removing(v, d)' <=> Removing(v, d)
  <2>1. pc'[w] = to /\ \A v \in Worker : v # w => pc'[v] = pc[v]
    BY <1>0, <1>3
  <2> QED BY <1>3, <2>1 DEF Removing
<1>4. ASSUME NEW a \in accepted, TakeAccept(w, a) PROVE Orderly'
  <2>1. /\ pc[w] = "idle" /\ pc' = [pc EXCEPT ![w] = "choose"] /\ acc'[w] = a.sock
        /\ \A v \in Worker : v # w => acc'[v] = acc[v]
        /\ accepted' \subseteq accepted
        /\ UNCHANGED <<made, unused, tableVars, clientVars, ioVars, accepting, cur,
                       histVars>>
    BY <1>0, <1>4 DEF TakeAccept, Goto
  <2>2. /\ pc'[w] = "choose" /\ \A v \in Worker : v # w => pc'[v] = pc[v]
        /\ \A v \in Worker : \A d : Removing(v, d)' <=> Removing(v, d)
    BY <1>3, <2>1 DEF RemoveSteps
  <2>3. /\ \A s : (Live(s)' <=> Live(s)) /\ (Fresh(s)' <=> Fresh(s))
        /\ \A d : (Free(d)' <=> Free(d)) /\ (Alone(d)' <=> Alone(d))
                  /\ (ListedAt(d)' <=> ListedAt(d)) /\ (BeingListed(d)' <=> BeingListed(d))
    BY <2>1, <2>2 DEF Live, Fresh, Free, Alone, ListedAt, BeingListed
  <2>4. FreshSockets'
    BY <1>0, <1>2, <2>1, <2>2, <2>3 DEF FreshSockets
  <2>5. LiveOnes'
    BY <1>2, <2>1, <2>3 DEF LiveOnes
  <2>6. Pooled' /\ Removed' /\ Preparing'
    BY <1>2, <2>1, <2>2, <2>3 DEF Pooled, Removed, Preparing, RemoveSteps
  <2> QED BY <2>4, <2>5, <2>6 DEF Orderly
<1>5. ASSUME NEW n \in Client, ChooseClient(w, n) PROVE Orderly'
  <2>1. /\ pc[w] = "choose" /\ pc' = [pc EXCEPT ![w] = "prepare"] /\ cur'[w] = n
        /\ \A v \in Worker : v # w => cur'[v] = cur[v]
        /\ UNCHANGED <<unused, mClientList, clientVars, ioVars, acceptVars, acc, histVars>>
    BY <1>0, <1>5 DEF ChooseClient, Goto
  <2>2. /\ pc'[w] = "prepare" /\ \A v \in Worker : v # w => pc'[v] = pc[v]
        /\ \A v \in Worker : \A d : Removing(v, d)' <=> Removing(v, d)
    BY <1>3, <2>1 DEF RemoveSteps
  <2>m. \A s \in Socket : Live(s) => key[s] \in made
    BY <1>2 DEF LiveOnes
  <2>r. \A v \in Worker : pc[v] \in RemoveSteps => cur[v] \in made
    BY <1>2 DEF Removed
  <2>p. Range(mClientPool) \subseteq made
    BY <1>0 DEF Range
  <2>3. /\ made \subseteq made' /\ Range(mClientPool') \subseteq Range(mClientPool)
        /\ NoDup(mClientPool') /\ n \notin Range(mClientPool')
        /\ Free(n) /\ \A v \in Worker : ~Removing(v, n)
    <3>1. ASSUME NewClient(n)
          PROVE  /\ made \subseteq made' /\ n \notin made
                 /\ Free(n) /\ \A v \in Worker : ~Removing(v, n)
      <4>1. made' = made \cup {n} /\ n = New(Client \ made) /\ Client \ made # {}
        BY <1>0, <3>1 DEF NewClient
      <4>2. n \in Client \ made
        BY <4>1, NewIsMember
      <4> QED BY <2>m, <2>r, <4>1, <4>2 DEF Free, Removing
    <3>2. CASE mClientPool = <<>> /\ NewClient(n) /\ UNCHANGED mClientPool
      BY <1>2, <2>p, <3>1, <3>2 DEF Pooled
    <3>3. ASSUME mClientPool # <<>>
          PROVE  /\ Tail(mClientPool) \in Seq(made) /\ Head(mClientPool) \in made
                 /\ Head(mClientPool) \in Range(mClientPool)
                 /\ Range(Tail(mClientPool)) \subseteq Range(mClientPool)
                 /\ Head(mClientPool) \notin Range(Tail(mClientPool))
                 /\ NoDup(Tail(mClientPool))
      BY <1>0, <1>2, <3>3, PoolTail DEF Pooled
    <3>4. CASE /\ mClientPool # <<>> /\ n = Head(mClientPool)
               /\ mClientPool' = Tail(mClientPool) /\ UNCHANGED made
      <4>1. n \in Range(mClientPool)
        BY <3>3, <3>4
      <4>2. Free(n) /\ \A v \in Worker : ~Removing(v, n)
        BY <1>2, <4>1 DEF Pooled, Removed, Removing
      <4> QED BY <3>3, <3>4, <4>2
    <3>5. CASE /\ mClientPool # <<>> /\ NewClient(n)
               /\ mClientPool' = Append(Tail(mClientPool), Head(mClientPool))
      <4>1. /\ Range(mClientPool') \subseteq Range(mClientPool) /\ NoDup(mClientPool')
        <5> DEFINE t == Tail(mClientPool)
                   h == Head(mClientPool)
        <5>1. /\ t \in Seq(made) /\ h \in made /\ h \in Range(mClientPool)
              /\ Range(t) \subseteq Range(mClientPool) /\ h \notin Range(t) /\ NoDup(t)
              /\ mClientPool' = Append(t, h)
          BY <3>3, <3>5
        <5> HIDE DEF t, h
        <5>2. Range(Append(t, h)) \subseteq Range(t) \cup {h} /\ NoDup(Append(t, h))
          BY <5>1, PoolAppend
        <5> QED BY <5>1, <5>2
      <4> QED BY <2>p, <3>1, <3>5, <4>1
    <3> QED BY <1>5, <3>2, <3>4, <3>5 DEF ChooseClient
  <2>4. /\ \A s : (Live(s)' <=> Live(s)) /\ (Fresh(s)' <=> Fresh(s))
        /\ \A d : (Free(d)' <=> Free(d)) /\ (Alone(d) => Alone(d)')
                  /\ (ListedAt(d)' <=> ListedAt(d)) /\ (BeingListed(d)' <=> BeingListed(d))
    BY <2>1, <2>2, <2>3 DEF Live, Fresh, Free, Alone, ListedAt, BeingListed
  <2>5. Alone(n)' /\ Free(n)'
    BY <2>2, <2>3, <2>4 DEF Alone
  <2>6. FreshSockets'
    BY <1>2, <2>1, <2>2, <2>4 DEF FreshSockets
  <2>7. LiveOnes'
    BY <1>2, <2>1, <2>3, <2>4 DEF LiveOnes
  <2>8. Pooled'
    BY <1>2, <2>3, <2>4 DEF Pooled
  <2>9. Removed'
    <3> SUFFICES ASSUME NEW v \in Worker, pc'[v] \in RemoveSteps
                 PROVE  /\ cur'[v] \in made' /\ cur'[v] \notin Range(mClientPool')
                        /\ Free(cur[v])'
                        /\ \A u \in Worker : Removing(u, cur[v])' => u = v
                        /\ pc'[v] \in {"remove", "close"} => mSocket'[cur'[v]] \in gone'
                        /\ pc'[v] = "remove" => ListedAt(cur[v])'
      BY DEF Removed
    <3>1. v # w /\ cur'[v] = cur[v] /\ pc'[v] = pc[v]
      BY <2>1, <2>2 DEF RemoveSteps
    <3>2. /\ cur[v] \in made /\ cur[v] \notin Range(mClientPool) /\ Free(cur[v])
          /\ \A u \in Worker : Removing(u, cur[v]) => u = v
          /\ pc[v] \in {"remove", "close"} => mSocket[cur[v]] \in gone
          /\ pc[v] = "remove" => ListedAt(cur[v])
      BY <1>2, <3>1 DEF Removed
    <3>3. \A u \in Worker : Removing(u, cur[v])' => u = v
      BY <2>1, <2>2, <3>1, <3>2 DEF Removing, RemoveSteps
    <3> QED BY <2>1, <2>2, <2>3, <2>4, <3>1, <3>2, <3>3
                DEF Free, ListedAt, Live
  <2>10. Preparing'
    <3>1. \A v \in Worker : v # w => pc'[v] \notin AcceptSteps
      BY <1>1, <2>1, <2>2 DEF AcceptSteps
    <3> QED BY <2>1, <2>2, <2>5, <3>1 DEF Preparing, AcceptSteps, Alone, Free, Removing, Live
  <2> QED BY <2>6, <2>7, <2>8, <2>9, <2>10 DEF Orderly
<1>6. CASE PrepareClient(w)
  <2>1. /\ pc[w] \in {"prepare", "init", "socket"} /\ c \in Client
        /\ pc'[w] \in {"init", "socket", "receive"}
        /\ \A v \in Worker : v # w => pc'[v] = pc[v] /\ acc'[v] = acc[v]
        /\ \A d \in Client : d # c => mSessionID'[d] = mSessionID[d] /\ mSocket'[d] = mSocket[d]
        /\ UNCHANGED <<made, unused, tableVars, ioVars, acceptVars, cur, histVars>>
    BY <1>0, <1>c, <1>6 DEF PrepareClient, ClearClient, InitClient, SetSocket, Goto, Holding
  <2>2. \A v \in Worker : \A d : Removing(v, d)' <=> Removing(v, d)
    <3>1. \A v \in Worker : \/ pc'[v] = pc[v]
                            \/ pc[v] \notin RemoveSteps /\ pc'[v] \notin RemoveSteps
      BY <2>1 DEF RemoveSteps
    <3>2. cur' = cur
      BY <2>1
    <3> QED BY <3>1, <3>2 DEF Removing
  <2>3. /\ \A s : (Live(s)' <=> Live(s)) /\ (Fresh(s)' <=> Fresh(s))
        /\ \A d : (Free(d)' <=> Free(d)) /\ (Alone(d)' <=> Alone(d))
                  /\ (BeingListed(d)' <=> BeingListed(d))
        /\ \A d \in Client : d # c => (ListedAt(d)' <=> ListedAt(d))
    BY <2>1, <2>2 DEF Live, Fresh, Free, Alone, ListedAt, BeingListed
  <2>4. Alone(c) /\ Free(c) /\ cur[w] = c
    BY <1>2, <1>c, <2>1 DEF Preparing
  <2>5. \A v \in Worker : v # w => pc[v] \notin AcceptSteps /\ pc'[v] \notin AcceptSteps
    BY <1>1, <2>1 DEF AcceptSteps
  <2>s. mSessionID'[c] = 0
    <3>1. pc[w] = "socket" => mSessionID[c] = 0
      BY <1>2, <1>c DEF Preparing
    <3> QED BY <1>0, <1>c, <1>6, <2>1, <3>1 DEF PrepareClient, ClearClient, InitClient, SetSocket
  <2>f. /\ pc'[w] \in {"init", "socket"} => acc'[w] = acc[w]
        /\ pc'[w] = "receive" => mSocket'[c] = acc[w]
    <3>1. CASE ClearClient(w) \/ InitClient(w)
      BY <1>0, <3>1 DEF ClearClient, InitClient, Goto
    <3>2. CASE SetSocket(w)
      BY <1>0, <1>c, <2>1, <3>2 DEF SetSocket, Goto
    <3> QED BY <1>6, <3>1, <3>2 DEF PrepareClient
  <2>6. FreshSockets'
    <3>1. acc[w] \in Socket /\ Fresh(acc[w])
      BY <1>2, <2>1 DEF FreshSockets
    <3> QED BY <1>2, <2>1, <2>3, <2>4, <2>5, <2>f, <3>1 DEF FreshSockets, AcceptSteps
  <2>7. LiveOnes'
    <3>1. \A s \in Socket : Live(s) => key[s] # c /\ key[s] \in Client
      BY <1>0, <1>2, <2>4 DEF Free, LiveOnes
    <3> QED BY <1>2, <2>1, <2>3, <3>1 DEF LiveOnes
  <2>8. Pooled'
    BY <1>2, <2>1, <2>3 DEF Pooled
  <2>9. Removed'
    <3>1. \A v \in Worker : pc[v] \in RemoveSteps => cur[v] # c /\ cur[v] \in Client
      BY <1>0, <1>2, <2>4 DEF Alone, Removing, Removed
    <3> QED BY <1>2, <2>1, <2>2, <2>3, <3>1 DEF Removed, RemoveSteps
  <2>10. Preparing'
    BY <2>1, <2>3, <2>4, <2>5, <2>s DEF Preparing, AcceptSteps
  <2> QED BY <2>6, <2>7, <2>8, <2>9, <2>10 DEF Orderly
<1>7. CASE PostReceive(w)
  <2>0. PICK s : s = mSocket[c]
    OBVIOUS
  <2>1. /\ pc[w] = "receive" /\ pc' = [pc EXCEPT ![w] = "setid"] /\ c \in made
        /\ key' = [key EXCEPT ![s] = c] /\ recv' = [recv EXCEPT ![s] = "posted"]
        /\ UNCHANGED <<made, unused, tableVars, clientVars, send, accepting, accepted,
                       cur, acc, histVars>>
    BY <1>0, <1>c, <1>7, <2>0 DEF PostReceive, Goto, Holding
  <2>2. s \in Socket /\ Fresh(s) /\ Alone(c) /\ Free(c) /\ mSessionID[c] = 0
    BY <1>2, <1>c, <2>0, <2>1 DEF FreshSockets, Preparing
  <2>3. /\ key'[s] = c /\ recv'[s] = "posted"
        /\ \A t \in Socket : t # s => key'[t] = key[t] /\ recv'[t] = recv[t]
    BY <1>0, <2>1, <2>2
  <2>4. /\ pc'[w] = "setid" /\ \A v \in Worker : v # w => pc'[v] = pc[v]
        /\ \A v \in Worker : \A d : Removing(v, d)' <=> Removing(v, d)
    BY <1>3, <2>1 DEF RemoveSteps
  <2>5. \A v \in Worker : v # w => pc[v] \notin AcceptSteps /\ pc'[v] \notin AcceptSteps
    BY <1>1, <2>1, <2>4 DEF AcceptSteps
  <2>6. /\ \A t \in Socket : t # s => (Live(t)' <=> Live(t)) /\ (Fresh(t)' <=> Fresh(t))
        /\ \A d : (Alone(d)' <=> Alone(d)) /\ (ListedAt(d)' <=> ListedAt(d))
                  /\ (BeingListed(d) => BeingListed(d)')
        /\ BeingListed(c)'
    <3>1. \A t \in Socket : t # s => (Live(t)' <=> Live(t)) /\ (Fresh(t)' <=> Fresh(t))
      BY <2>1, <2>3 DEF Live, Fresh
    <3>2. \A d : (Alone(d)' <=> Alone(d)) /\ (ListedAt(d)' <=> ListedAt(d))
      BY <2>1, <2>4 DEF Alone, ListedAt
    <3>3. \A d : BeingListed(d) => BeingListed(d)'
      BY <2>1, <2>4 DEF BeingListed
    <3>4. BeingListed(c)'
      BY <2>1, <1>c, <2>0, <2>4 DEF BeingListed
    <3> QED BY <3>1, <3>2, <3>3, <3>4
  <2>7. \A d : d # c /\ Free(d) => Free(d)'
    BY <2>3, <2>6 DEF Free
  <2>8. FreshSockets'
    <3>1. accepting = {} /\ accepted = {}
      BY <2>1, Known DEF AcceptSteps
    <3>2. \A t \in unused : t # s /\ recv'[t] = recv[t]
      BY <1>0, <2>2, <2>3 DEF Fresh
    <3>3. \A v \in Worker : pc'[v] \notin {"choose", "prepare", "init", "socket", "receive"}
      BY <2>4, <2>5 DEF AcceptSteps
    <3> QED BY <1>2, <2>1, <3>1, <3>2, <3>3 DEF FreshSockets
  <2>9. LiveOnes'
    <3>1. ASSUME NEW t \in Socket, t # s
          PROVE  /\ Live(t)' => /\ key'[t] \in made' /\ mSocket'[key'[t]] = t
                                /\ Alone(key[t])'
                                /\ BeingListed(key[t])' \/ ListedAt(key[t])'
                 /\ recv'[t] # "none" \/ send'[t] = "failed" \/ t \in gone'
                      => key'[t] # None
      <4>1. /\ Live(t) => /\ key[t] \in made /\ mSocket[key[t]] = t /\ Alone(key[t])
                          /\ BeingListed(key[t]) \/ ListedAt(key[t])
            /\ recv[t] # "none" \/ send[t] = "failed" \/ t \in gone => key[t] # None
        BY <1>2 DEF LiveOnes
      <4>2. key'[t] = key[t] /\ recv'[t] = recv[t]
        BY <2>3, <3>1
      <4>3. Live(t)' <=> Live(t)
        BY <2>6, <3>1
      <4>4. Alone(key[t]) => Alone(key[t])'
        BY <2>1, <2>4, <4>2 DEF Alone, Removing, RemoveSteps
      <4>5. ListedAt(key[t]) => ListedAt(key[t])'
        BY <2>1, <4>2 DEF ListedAt
      <4>6. BeingListed(key[t]) => BeingListed(key[t])'
        BY <2>1, <2>4, <4>2 DEF BeingListed
      <4> QED BY <2>1, <4>1, <4>2, <4>3, <4>4, <4>5, <4>6
    <3>2. /\ key'[s] \in made' /\ mSocket'[key'[s]] = s
          /\ Alone(key[s])' /\ BeingListed(key[s])'
      <4>1. Alone(key[s])'
        BY <2>1, <2>2, <2>3, <2>4 DEF Alone, Removing, RemoveSteps
      <4>2. BeingListed(key[s])'
        BY <1>c, <2>0, <2>1, <2>3, <2>4 DEF BeingListed
      <4> QED BY <1>c, <2>0, <2>1, <2>3, <4>1, <4>2
    <3>3. key'[s] # None
      BY <1>0, <2>1, <2>3, SessionAssumption
    <3>4. \A t \in Socket :
            /\ Live(t)' => /\ key'[t] \in made' /\ mSocket'[key'[t]] = t
                           /\ Alone(key[t])'
                           /\ BeingListed(key[t])' \/ ListedAt(key[t])'
            /\ recv'[t] # "none" \/ send'[t] = "failed" \/ t \in gone'
                 => key'[t] # None
      BY <3>1, <3>2, <3>3
    <3> QED BY <3>4 DEF LiveOnes
  <2>10. Pooled'
    <3>1. \A d \in Range(mClientPool) : d # c
      BY <2>2 DEF Alone
    <3> QED BY <1>2, <2>1, <2>7, <3>1 DEF Pooled
  <2>11. Removed'
    <3> SUFFICES ASSUME NEW v \in Worker, pc'[v] \in RemoveSteps
                 PROVE  /\ cur'[v] \in made' /\ cur'[v] \notin Range(mClientPool')
                        /\ Free(cur[v])'
                        /\ \A u \in Worker : Removing(u, cur[v])' => u = v
                        /\ pc'[v] \in {"remove", "close"} => mSocket'[cur'[v]] \in gone'
                        /\ pc'[v] = "remove" => ListedAt(cur[v])'
      BY DEF Removed
    <3>1. v # w /\ pc[v] \in RemoveSteps /\ cur[v] # c
      BY <2>2, <2>4 DEF RemoveSteps, Alone, Removing
    <3>2. /\ cur[v] \in made /\ cur[v] \notin Range(mClientPool) /\ Free(cur[v])
          /\ \A u \in Worker : Removing(u, cur[v]) => u = v
          /\ pc[v] \in {"remove", "close"} => mSocket[cur[v]] \in gone
          /\ pc[v] = "remove" => ListedAt(cur[v])
      BY <1>2, <3>1 DEF Removed
    <3>3. Free(cur[v])'
      BY <2>1, <2>3, <2>6, <3>1, <3>2 DEF Free
    <3>4. \A u \in Worker : Removing(u, cur[v])' => u = v
      BY <2>1, <2>4, <3>1, <3>2 DEF Removing, RemoveSteps
    <3> QED BY <2>1, <2>4, <3>1, <3>2, <3>3, <3>4 DEF ListedAt
  <2>12. Preparing'
    <3>1. \A v \in Worker : pc'[v] \in AcceptSteps => v = w
      BY <2>5
    <3>2. cur'[w] = c /\ Alone(cur[w])' /\ mSessionID'[c] = 0
      BY <1>c, <2>0, <2>1, <2>2, <2>4 DEF Alone
    <3> QED BY <2>4, <3>1, <3>2 DEF Preparing, AcceptSteps
  <2> QED BY <2>8, <2>9, <2>10, <2>11, <2>12 DEF Orderly
<1>8. CASE SetSessionID(w)
  <2>1. pc[w] = "setid" /\ c \in made /\ Alone(c) /\ mSessionID[c] = 0
    BY <1>0, <1>2, <1>c, <1>8 DEF SetSessionID, Holding, Preparing
  <2>2. /\ mSessionID' = [mSessionID EXCEPT ![c] = Len(mClientList)]
        /\ pc' = [pc EXCEPT ![w] = "list"]
        /\ UNCHANGED <<made, unused, tableVars, mSocket, ioVars, acceptVars, cur, acc,
                       histVars>>
    BY <1>c, <1>8, <2>1 DEF SetSessionID, Goto
  <2>3. /\ mSessionID'[c] = Len(mClientList)
        /\ \A d \in Client : d # c => mSessionID'[d] = mSessionID[d]
    BY <1>0, <2>1, <2>2
  <2>4. /\ pc'[w] = "list" /\ \A v \in Worker : v # w => pc'[v] = pc[v]
        /\ \A v \in Worker : \A d : Removing(v, d)' <=> Removing(v, d)
    BY <1>3, <2>1, <2>2 DEF RemoveSteps
  <2>5. \A v \in Worker : v # w => pc[v] \notin AcceptSteps /\ pc'[v] \notin AcceptSteps
    BY <1>1, <2>1, <2>4 DEF AcceptSteps
  <2>6. /\ \A s : (Live(s)' <=> Live(s)) /\ (Fresh(s)' <=> Fresh(s))
        /\ \A d : (Free(d)' <=> Free(d)) /\ (Alone(d)' <=> Alone(d))
    BY <2>2, <2>4 DEF Live, Fresh, Free, Alone
  <2>7. \A d : BeingListed(d)' <=> BeingListed(d)
    BY <2>1, <2>2, <2>4 DEF BeingListed
  <2>8. \A d \in Client : d # c => (ListedAt(d)' <=> ListedAt(d))
    BY <2>2, <2>3 DEF ListedAt
  <2>9. FreshSockets'
    BY <1>2, <2>2, <2>4, <2>5, <2>6 DEF FreshSockets, AcceptSteps
  <2>10. LiveOnes'
    <3>1. BeingListed(c)'
      BY <1>c, <2>2, <2>4 DEF BeingListed
    <3>2. \A s \in Socket : Live(s) => key[s] \in Client
      BY <1>0, <1>2 DEF LiveOnes
    <3> QED BY <1>2, <2>2, <2>6, <2>7, <2>8, <3>1, <3>2 DEF LiveOnes
  <2>11. Pooled'
    BY <1>2, <2>2, <2>6 DEF Pooled
  <2>12. Removed'
    <3>1. \A v \in Worker : pc[v] \in RemoveSteps => cur[v] # c /\ cur[v] \in Client
      BY <1>0, <1>2, <2>1 DEF Alone, Removing, Removed
    <3> QED BY <1>2, <2>2, <2>4, <2>6, <2>8, <3>1 DEF Removed, RemoveSteps
  <2>13. Preparing'
    BY <1>c, <2>1, <2>2, <2>3, <2>4, <2>5, <2>6 DEF Preparing, AcceptSteps
  <2> QED BY <2>9, <2>10, <2>11, <2>12, <2>13 DEF Orderly
<1>9. CASE PushBack(w)
  <2>1. pc[w] = "list" /\ c \in made /\ Alone(c) /\ mSessionID[c] = Len(mClientList)
    BY <1>0, <1>2, <1>c, <1>9 DEF PushBack, Holding, Preparing
  <2>2. /\ mClientList' = Append(mClientList, c) /\ pc' = [pc EXCEPT ![w] = "repost"]
        /\ UNCHANGED <<made, unused, mClientPool, clientVars, ioVars, acceptVars, cur, acc,
                       histVars>>
    BY <1>c, <1>9 DEF PushBack, Goto
  <2>3. /\ Len(mClientList) \in Nat /\ Len(mClientList') = Len(mClientList) + 1
        /\ mClientList'[Len(mClientList) + 1] = c
        /\ \A i \in 1..Len(mClientList) : mClientList'[i] = mClientList[i]
    BY <1>0, <2>1, <2>2, AppendProperties
  <2>4. /\ pc'[w] = "repost" /\ \A v \in Worker : v # w => pc'[v] = pc[v]
        /\ \A v \in Worker : \A d : Removing(v, d)' <=> Removing(v, d)
    BY <1>3, <2>1, <2>2 DEF RemoveSteps
  <2>5. \A v \in Worker : v # w => pc[v] \notin AcceptSteps /\ pc'[v] \notin AcceptSteps
    BY <1>1, <2>1, <2>4 DEF AcceptSteps
  <2>6. /\ \A s : (Live(s)' <=> Live(s)) /\ (Fresh(s)' <=> Fresh(s))
        /\ \A d : (Free(d)' <=> Free(d)) /\ (Alone(d)' <=> Alone(d))
    BY <2>2, <2>4 DEF Live, Fresh, Free, Alone
  <2>7. \A d : BeingListed(d) => d = c
    BY <1>c, <2>5 DEF BeingListed, AcceptSteps
  <2>8. ListedAt(c)' /\ \A d \in Client : ListedAt(d) => ListedAt(d)'
    <3>1. ListedAt(c)'
      BY <2>1, <2>2, <2>3 DEF ListedAt
    <3>2. ASSUME NEW d \in Client, ListedAt(d) PROVE ListedAt(d)'
      <4>1. mSessionID[d] \in Nat /\ mSessionID[d] < Len(mClientList)
        BY <1>0, <3>2 DEF ListedAt
      <4>2. mSessionID[d] + 1 \in 1..Len(mClientList)
        BY <2>3, <4>1
      <4>3. mClientList'[mSessionID[d] + 1] = d
        BY <2>3, <3>2, <4>2 DEF ListedAt
      <4>4. mSessionID[d] < Len(mClientList')
        BY <2>3, <4>1
      <4> QED BY <2>2, <4>3, <4>4 DEF ListedAt
    <3> QED BY <3>1, <3>2
  <2>9. FreshSockets'
    BY <1>2, <2>2, <2>4, <2>5, <2>6 DEF FreshSockets, AcceptSteps
  <2>10. LiveOnes'
    <3>1. \A s \in Socket : Live(s) => key[s] \in Client
      BY <1>0, <1>2 DEF LiveOnes
    <3> QED BY <1>2, <2>2, <2>6, <2>7, <2>8, <3>1 DEF LiveOnes
  <2>11. Pooled'
    BY <1>2, <2>2, <2>6 DEF Pooled
  <2>12. Removed'
    <3>1. \A v \in Worker : pc[v] \in RemoveSteps => cur[v] \in Client
      BY <1>0, <1>2 DEF Removed
    <3> QED BY <1>2, <2>2, <2>4, <2>6, <2>8, <3>1 DEF Removed, RemoveSteps
  <2>13. Preparing'
    BY <2>4, <2>5 DEF Preparing, AcceptSteps
  <2> QED BY <2>9, <2>10, <2>11, <2>12, <2>13 DEF Orderly
<1>10. CASE PostAccept(w)
  <2>0. PICK s : s = New(unused)
    OBVIOUS
  <2>1. /\ pc[w] = "repost" /\ pc' = [pc EXCEPT ![w] = "idle"]
        /\ cur' = [cur EXCEPT ![w] = None]
        /\ s \in unused /\ unused' = unused \ {s} /\ accepting' = accepting \cup {s}
        /\ UNCHANGED <<made, tableVars, clientVars, ioVars, accepted, acc, histVars>>
    BY <1>10, <2>0, NewIsMember DEF PostAccept, MakeAccept, Finish, Goto
  <2>2. \A v \in Worker : v # w => cur'[v] = cur[v]
    BY <1>0, <2>1
  <2>3. /\ pc'[w] = "idle" /\ \A v \in Worker : v # w => pc'[v] = pc[v]
        /\ \A v \in Worker : \A d : Removing(v, d)' <=> Removing(v, d)
    BY <1>3, <2>1, <2>2 DEF RemoveSteps
  <2>4. \A v \in Worker : pc'[v] \notin AcceptSteps
    BY <1>1, <2>1, <2>3 DEF AcceptSteps
  <2>5. /\ \A t : (Live(t)' <=> Live(t)) /\ (Fresh(t) => Fresh(t)')
        /\ \A d : (Free(d)' <=> Free(d)) /\ (Alone(d)' <=> Alone(d))
                  /\ (ListedAt(d)' <=> ListedAt(d))
    BY <2>1, <2>3 DEF Live, Fresh, Free, Alone, ListedAt
  <2>6. \A d : BeingListed(d) => BeingListed(d)'
    BY <2>1, <2>2, <2>3 DEF BeingListed
  <2>7. FreshSockets'
    <3>1. Fresh(s)'
      BY <1>2, <2>1 DEF FreshSockets, Fresh
    <3> QED BY <1>2, <2>1, <2>4, <2>5, <3>1 DEF FreshSockets, AcceptSteps
  <2>8. LiveOnes'
    BY <1>2, <2>1, <2>5, <2>6 DEF LiveOnes
  <2>9. Pooled'
    BY <1>2, <2>1, <2>5 DEF Pooled
  <2>10. Removed'
    <3> SUFFICES ASSUME NEW v \in Worker, pc'[v] \in RemoveSteps
                 PROVE  /\ cur'[v] \in made' /\ cur'[v] \notin Range(mClientPool')
                        /\ Free(cur[v])'
                        /\ \A u \in Worker : Removing(u, cur[v])' => u = v
                        /\ pc'[v] \in {"remove", "close"} => mSocket'[cur'[v]] \in gone'
                        /\ pc'[v] = "remove" => ListedAt(cur[v])'
      BY DEF Removed
    <3>1. v # w /\ pc[v] = pc'[v] /\ cur[v] = cur'[v]
      BY <2>2, <2>3 DEF RemoveSteps
    <3>2. /\ cur[v] \in made /\ cur[v] \notin Range(mClientPool) /\ Free(cur[v])
          /\ \A u \in Worker : Removing(u, cur[v]) => u = v
          /\ pc[v] \in {"remove", "close"} => mSocket[cur[v]] \in gone
          /\ pc[v] = "remove" => ListedAt(cur[v])
      BY <1>2, <3>1 DEF Removed
    <3>3. \A u \in Worker : Removing(u, cur[v])' => u = v
      BY <2>2, <2>3, <3>1, <3>2 DEF Removing, RemoveSteps
    <3>4. Free(cur[v])' /\ (ListedAt(cur[v]) => ListedAt(cur[v])')
      BY <2>1, <3>1, <3>2 DEF Free, Live, ListedAt
    <3> QED BY <2>1, <3>1, <3>2, <3>3, <3>4
  <2>11. Preparing'
    BY <2>4 DEF Preparing, AcceptSteps
  <2> QED BY <2>7, <2>8, <2>9, <2>10, <2>11 DEF Orderly
<1> QED BY <1>4, <1>5, <1>6, <1>7, <1>8, <1>9, <1>10 DEF Accept

(* A removal goes on: it may touch its own client, and end the I/O on a socket  *)
(* whose failure was taken.                                                  *)
LEMMA RemovalGoesOn ==
  ASSUME SessionInv, Orderly, NEW w \in Worker, NEW to, NEW c, c = cur[w],
         pc[w] \in RemoveSteps, to \in {"close", "invalid", "reset", "pool"},
         pc' = [pc EXCEPT ![w] = to], to = "close" => pc[w] = "remove",
         \A d \in Client : d # c => mSocket'[d] = mSocket[d] /\ mSessionID'[d] = mSessionID[d],
         to = "close" => mSocket' = mSocket,
         \A t \in Socket : recv'[t] # "none" => recv[t] # "none",
         \A t \in Socket : send'[t] = "failed" => send[t] = "failed" \/ t \in gone,
         UNCHANGED <<made, unused, mClientList, mClientPool, key, accepting,
                     accepted, cur, acc, gone>>
  PROVE  Orderly'
<1>0. made \subseteq Client /\ pc \in [Worker -> Steps]
      /\ \A v \in Worker : pc[v] \in Holding => cur[v] \in made
  BY Known
<1>1. FreshSockets /\ LiveOnes /\ Pooled /\ Removed /\ Preparing
  BY DEF Orderly
<1>2. /\ pc'[w] = to /\ \A v \in Worker : v # w => pc'[v] = pc[v]
  BY <1>0
<1>3. /\ c \in made /\ c \notin Range(mClientPool) /\ Free(c)
      /\ \A v \in Worker : Removing(v, c) => v = w
  BY <1>1 DEF Removed
<1>4. \A v \in Worker : \A d : Removing(v, d)' <=> Removing(v, d)
  BY <1>2 DEF Removing, RemoveSteps
<1>5. /\ \A s : (Live(s)' <=> Live(s)) /\ (Fresh(s)' <=> Fresh(s))
      /\ \A d : (Free(d)' <=> Free(d)) /\ (Alone(d)' <=> Alone(d))
  BY <1>4 DEF Live, Fresh, Free, Alone
<1>6. \A d : BeingListed(d) => BeingListed(d)'
  BY <1>2 DEF BeingListed, RemoveSteps
<1>7. \A d \in Client : d # c => (ListedAt(d)' <=> ListedAt(d))
  BY DEF ListedAt
<1>8. \A v \in Worker :
        pc'[v] \in {"choose", "prepare", "init", "socket", "receive", "setid", "list"} =>
          v # w /\ pc[v] = pc'[v]
  BY <1>2
<1>9. FreshSockets'
  <2>1. \A v \in Worker : pc[v] = "receive" => cur[v] # c /\ cur[v] \in Client
    BY <1>0, <1>1 DEF Preparing, Alone, Removing, Holding
  <2> QED BY <1>1, <1>5, <1>8, <2>1 DEF FreshSockets
<1>10. LiveOnes'
  <2>1. \A s \in Socket : Live(s) => key[s] # c /\ key[s] \in Client
    BY <1>0, <1>1, <1>3 DEF Free, LiveOnes
  <2> QED BY <1>1, <1>5, <1>6, <1>7, <2>1 DEF LiveOnes
<1>11. Pooled'
  BY <1>1, <1>5 DEF Pooled
<1>12. Removed'
  <2>1. \A v \in Worker : v # w /\ pc[v] \in RemoveSteps => cur[v] # c /\ cur[v] \in Client
    BY <1>0, <1>1, <1>3 DEF Removed, Removing
  <2> QED BY <1>1, <1>2, <1>3, <1>4, <1>5, <1>7, <2>1 DEF Removed, RemoveSteps
<1>13. Preparing'
  <2>1. \A v \in Worker : pc[v] \in {"prepare", "init", "socket", "receive", "setid", "list"} =>
          cur[v] # c /\ cur[v] \in Client
    BY <1>0, <1>1 DEF Preparing, Alone, Removing, Holding
  <2> QED BY <1>1, <1>5, <1>8, <2>1 DEF Preparing
<1> QED BY <1>9, <1>10, <1>11, <1>12, <1>13 DEF Orderly

(* A step of removing. *)
LEMMA RemoveOrderly ==
  ASSUME SessionInv, Orderly, ~acceptFailed', ~crossed', NEW w \in Worker, Remove(w)
  PROVE  Orderly'
<1> USE DEF tableVars, clientVars, ioVars, acceptVars, histVars, threadVars
<1>0. /\ made \subseteq Client /\ unused \subseteq Socket /\ None \notin Client
      /\ pc \in [Worker -> Steps] /\ cur \in [Worker -> Client \cup {None}]
      /\ mSocket \in [Client -> Sockets]
      /\ recv \in [Socket -> IOState] /\ send \in [Socket -> IOState]
      /\ mClientList \in Seq(made) /\ mClientPool \in Seq(made)
      /\ mSessionID \in [Client -> 0..Len(mClientList)]
      /\ \A v \in Worker : pc[v] \in Holding => cur[v] \in made
      /\ gone \subseteq Socket /\ accepting \subseteq Socket
      /\ \A a \in accepted : a.sock \in Socket
  BY Known, SessionAssumption
<1>2. FreshSockets /\ LiveOnes /\ Pooled /\ Removed /\ Preparing
  BY DEF Orderly
<1>c. PICK c : c = cur[w]
  OBVIOUS
<1>4. ASSUME NEW a \in accepted, TakeAcceptError(w, a) PROVE FALSE
  BY <1>2, <1>4 DEF TakeAcceptError, FreshSockets
<1>5. ASSUME NEW s \in Socket, TakeFailedRecv(w, s) \/ TakeFailedSend(w, s)
      PROVE  Orderly'
  <2>k. PICK k : k = key[s]
    OBVIOUS
  <2>1. /\ pc[w] = "idle" /\ pc' = [pc EXCEPT ![w] = "remove"]
        /\ cur' = [cur EXCEPT ![w] = k] /\ gone' = gone \cup {s} /\ s \notin gone
        /\ \A v \in Worker : ~(cur[v] = k /\ pc[v] \in {"setid", "list"})
        /\ recv[s] = "failed" \/ send[s] = "failed"
        /\ UNCHANGED <<made, unused, tableVars, clientVars, key, acceptVars, acc>>
    BY <1>5, <2>k DEF TakeFailedRecv, TakeFailedSend, NoteFailure, Goto
  <2>2. /\ \A t \in Socket : t # s => recv'[t] = recv[t] /\ send'[t] = send[t]
        /\ recv'[s] \in {recv[s], "none"} /\ send'[s] \in {send[s], "none"}
    BY <1>0, <1>5 DEF TakeFailedRecv, TakeFailedSend
  <2>3. Live(s)
    BY <1>2, <2>1 DEF LiveOnes, Live
  <2>4. k \in made /\ mSocket[k] = s /\ Alone(k) /\ ListedAt(k)
    BY <1>2, <2>1, <2>3, <2>k DEF LiveOnes, BeingListed
  <2>5. /\ pc'[w] = "remove" /\ \A v \in Worker : v # w => pc'[v] = pc[v]
        /\ cur'[w] = k /\ \A v \in Worker : v # w => cur'[v] = cur[v]
    BY <1>0, <2>1
  <2>6. \A t \in Socket : Live(t)' <=> (t # s /\ Live(t))
    BY <2>1, <2>2 DEF Live
  <2>7. \A t \in Socket : Fresh(t) => t # s /\ Fresh(t)'
    BY <2>1, <2>3 DEF Fresh, Live
  <2>8. \A d : (Free(d) => Free(d)') /\ (ListedAt(d)' <=> ListedAt(d))
               /\ (BeingListed(d) => BeingListed(d)')
               /\ (d # k /\ Alone(d) => Alone(d)')
    <3>1. \A d : Free(d) => Free(d)'
      BY <2>1, <2>6 DEF Free
    <3>2. \A d : ListedAt(d)' <=> ListedAt(d)
      BY <2>1 DEF ListedAt
    <3>3. \A d : BeingListed(d) => BeingListed(d)'
      BY <2>1, <2>5 DEF BeingListed
    <3>4. \A d : d # k /\ Alone(d) => Alone(d)'
      BY <2>1, <2>5 DEF Alone, Removing
    <3> QED BY <3>1, <3>2, <3>3, <3>4
  <2>9. \A t \in Socket : Live(t)' => key[t] # k
    BY <1>2, <2>4, <2>6 DEF LiveOnes
  <2>10. FreshSockets'
    <3>1. \A t \in unused : key[t] = None /\ t \notin gone'
      BY <1>2, <2>1, <2>3 DEF FreshSockets, Live
    <3>2. \A v \in Worker : pc'[v] \in {"choose", "prepare", "init", "socket", "receive"} =>
            v # w /\ pc[v] = pc'[v] /\ cur[v] = cur'[v]
      BY <2>5
    <3> QED BY <1>0, <1>2, <2>1, <2>7, <3>1, <3>2 DEF FreshSockets
  <2>11. LiveOnes'
    BY <1>2, <2>1, <2>2, <2>3, <2>6, <2>8, <2>9 DEF LiveOnes
  <2>12. Pooled'
    BY <1>2, <2>1, <2>8 DEF Pooled
  <2>13. Removed'
    <3> SUFFICES ASSUME NEW v \in Worker, pc'[v] \in RemoveSteps
                 PROVE  /\ cur'[v] \in made' /\ cur'[v] \notin Range(mClientPool')
                        /\ Free(cur[v])'
                        /\ \A u \in Worker : Removing(u, cur[v])' => u = v
                        /\ pc'[v] \in {"remove", "close"} => mSocket'[cur'[v]] \in gone'
                        /\ pc'[v] = "remove" => ListedAt(cur[v])'
      BY DEF Removed
    <3>1. CASE v = w
      <4>1. k \notin Range(mClientPool) /\ \A u \in Worker : pc[u] \in RemoveSteps => cur[u] # k
        BY <2>4 DEF Alone, Removing
      <4>2. Free(cur[v])'
        BY <2>1, <2>5, <2>6, <2>9, <3>1 DEF Free
      <4>3. ListedAt(cur[v])'
        BY <2>1, <2>4, <2>5, <3>1 DEF ListedAt
      <4>4. \A u \in Worker : Removing(u, cur[v])' => u = v
        BY <2>5, <3>1, <4>1 DEF Removing
      <4> QED BY <2>1, <2>4, <2>5, <3>1, <4>1, <4>2, <4>3, <4>4
    <3>2. CASE v # w
      <4>1. pc[v] = pc'[v] /\ cur[v] = cur'[v]
        BY <2>5, <3>2
      <4>2. /\ cur[v] \in made /\ cur[v] \notin Range(mClientPool) /\ Free(cur[v])
            /\ \A u \in Worker : Removing(u, cur[v]) => u = v
            /\ pc[v] \in {"remove", "close"} => mSocket[cur[v]] \in gone
            /\ pc[v] = "remove" => ListedAt(cur[v])
        BY <1>2, <4>1 DEF Removed
      <4>3. cur[v] # k
        BY <2>4, <4>1 DEF Alone, Removing
      <4>4. \A u \in Worker : Removing(u, cur[v])' => u = v
        BY <2>5, <4>1, <4>2, <4>3 DEF Removing
      <4>5. Free(cur[v])' /\ (ListedAt(cur[v]) => ListedAt(cur[v])')
        BY <2>1, <2>6, <4>1, <4>2 DEF Free, ListedAt
      <4> QED BY <2>1, <4>1, <4>2, <4>4, <4>5
    <3> QED BY <3>1, <3>2
  <2>14. Preparing'
    <3> SUFFICES ASSUME NEW v \in Worker,
                        pc'[v] \in {"prepare", "init", "socket", "receive", "setid", "list"}
                 PROVE  /\ Alone(cur[v])'
                        /\ pc'[v] \in {"prepare", "init", "socket", "receive"} => Free(cur[v])'
                        /\ pc'[v] \in {"init", "socket", "receive", "setid"}
                             => mSessionID'[cur'[v]] = 0
                        /\ pc'[v] = "list" => mSessionID'[cur'[v]] = Len(mClientList')
      BY DEF Preparing
    <3>1. v # w /\ pc[v] = pc'[v] /\ cur[v] = cur'[v]
      BY <2>5
    <3>2. /\ Alone(cur[v]) /\ (pc[v] \in {"prepare", "init", "socket", "receive"} => Free(cur[v]))
          /\ pc[v] \in {"init", "socket", "receive", "setid"} => mSessionID[cur[v]] = 0
          /\ pc[v] = "list" => mSessionID[cur[v]] = Len(mClientList)
      BY <1>2, <3>1 DEF Preparing
    <3>3. cur[v] # k
      <4>1. CASE pc[v] \in {"setid", "list"}
        BY <2>1, <4>1
      <4>2. CASE pc[v] \in {"prepare", "init", "socket", "receive"}
        BY <2>3, <2>k, <3>2, <4>2 DEF Free
      <4> QED BY <3>1, <4>1, <4>2
    <3>4. Alone(cur[v])'
      BY <2>1, <2>5, <3>1, <3>2, <3>3 DEF Alone, Removing
    <3>5. Free(cur[v]) => Free(cur[v])'
      BY <2>1, <2>6, <3>1 DEF Free
    <3> QED BY <2>1, <3>1, <3>2, <3>4, <3>5
  <2> QED BY <2>10, <2>11, <2>12, <2>13, <2>14 DEF Orderly
<1>6. CASE FindClient(w)
  <2>1. pc[w] = "remove" /\ ListedAt(c) /\ c \in Client
    BY <1>0, <1>2, <1>c, <1>6 DEF FindClient, Removed, RemoveSteps
  <2>2. cur' = [cur EXCEPT ![w] = c] /\ pc' = [pc EXCEPT ![w] = "close"]
    BY <1>0, <1>c, <1>6, <2>1 DEF FindClient, ListedAt, Goto
  <2>3. cur' = cur
    BY <1>0, <1>c, <2>2
  <2> QED BY <1>c, <1>6, <2>1, <2>2, <2>3, RemovalGoesOn DEF FindClient, RemoveSteps
<1>7. CASE CloseSocket(w)
  <2>0. PICK s : s = mSocket[c]
    OBVIOUS
  <2>1. pc[w] = "close" /\ s \in gone /\ s \in Socket
    BY <1>0, <1>2, <1>c, <1>7, <2>0 DEF CloseSocket, Removed, RemoveSteps
  <2>3. \A t \in Socket : recv'[t] # "none" => recv[t] # "none"
    BY <1>0, <1>c, <1>7, <2>0, <2>1 DEF CloseSocket
  <2>4. \A t \in Socket : send'[t] = "failed" => send[t] = "failed" \/ t \in gone
    BY <1>0, <1>c, <1>7, <2>0, <2>1 DEF CloseSocket
  <2>5. pc' = [pc EXCEPT ![w] = "invalid"]
    BY <1>7 DEF CloseSocket, Goto
  <2> QED BY <1>c, <1>7, <2>1, <2>3, <2>4, <2>5, RemovalGoesOn
          DEF CloseSocket, RemoveSteps
<1>8. CASE InvalidateSocket(w)
  <2>1. /\ pc[w] = "invalid" /\ pc' = [pc EXCEPT ![w] = "reset"]
        /\ \A d \in Client : d # c => mSocket'[d] = mSocket[d]
    BY <1>0, <1>c, <1>8 DEF InvalidateSocket, Goto
  <2> QED BY <1>c, <1>8, <2>1, RemovalGoesOn DEF InvalidateSocket, RemoveSteps
<1>9. CASE ResetClient(w)
  <2>1. /\ pc[w] = "reset" /\ pc' = [pc EXCEPT ![w] = "pool"]
        /\ \A d \in Client : d # c => mSessionID'[d] = mSessionID[d]
    BY <1>0, <1>c, <1>9 DEF ResetClient, Goto
  <2> QED BY <1>c, <1>9, <2>1, RemovalGoesOn DEF ResetClient, RemoveSteps
<1>10. CASE PoolClient(w)
  <2>1. /\ pc[w] = "pool" /\ pc' = [pc EXCEPT ![w] = "idle"]
        /\ cur' = [cur EXCEPT ![w] = None] /\ mClientPool' = Append(mClientPool, c)
        /\ UNCHANGED <<made, unused, mClientList, clientVars, ioVars, acceptVars, acc,
                       histVars>>
    BY <1>c, <1>10 DEF PoolClient, Finish, Goto
  <2>2. /\ c \in made /\ c \notin Range(mClientPool) /\ Free(c)
        /\ \A v \in Worker : pc[v] \in RemoveSteps /\ cur[v] = c => v = w
    BY <1>2, <1>c, <2>1 DEF Removed, RemoveSteps, Removing
  <2>3. Range(mClientPool') \subseteq Range(mClientPool) \cup {c} /\ NoDup(mClientPool')
    BY <1>0, <1>2, <2>1, <2>2, PoolAppend DEF Pooled
  <2>4. /\ pc'[w] = "idle" /\ \A v \in Worker : v # w => pc'[v] = pc[v] /\ cur'[v] = cur[v]
    BY <1>0, <2>1
  <2>5. /\ \A s : (Live(s)' <=> Live(s)) /\ (Fresh(s)' <=> Fresh(s))
        /\ \A d : (Free(d)' <=> Free(d)) /\ (ListedAt(d)' <=> ListedAt(d))
    BY <2>1 DEF Live, Fresh, Free, ListedAt
  <2>6. \A d : BeingListed(d) => BeingListed(d)'
    BY <2>1, <2>4 DEF BeingListed
  <2>7. \A d : d # c /\ Alone(d) => Alone(d)'
    BY <2>3, <2>4 DEF Alone, Removing, RemoveSteps
  <2>8. FreshSockets'
    <3>1. \A v \in Worker : pc'[v] \in {"choose", "prepare", "init", "socket", "receive"} =>
            pc[v] = pc'[v] /\ cur[v] = cur'[v]
      BY <2>4
    <3> QED BY <1>2, <2>1, <2>5, <3>1 DEF FreshSockets
  <2>9. LiveOnes'
    <3>1. \A s \in Socket : Live(s) => key[s] # c
      BY <2>2 DEF Free
    <3> QED BY <1>2, <2>1, <2>5, <2>6, <2>7, <3>1 DEF LiveOnes
  <2>10. Pooled'
    BY <1>2, <2>2, <2>3, <2>5 DEF Pooled
  <2>11. Removed'
    <3> SUFFICES ASSUME NEW v \in Worker, pc'[v] \in RemoveSteps
                 PROVE  /\ cur'[v] \in made' /\ cur'[v] \notin Range(mClientPool')
                        /\ Free(cur[v])'
                        /\ \A u \in Worker : Removing(u, cur[v])' => u = v
                        /\ pc'[v] \in {"remove", "close"} => mSocket'[cur'[v]] \in gone'
                        /\ pc'[v] = "remove" => ListedAt(cur[v])'
      BY DEF Removed
    <3>1. v # w /\ pc[v] = pc'[v] /\ cur[v] = cur'[v]
      BY <2>4 DEF RemoveSteps
    <3>2. /\ cur[v] \in made /\ cur[v] \notin Range(mClientPool) /\ Free(cur[v])
          /\ \A u \in Worker : Removing(u, cur[v]) => u = v
          /\ pc[v] \in {"remove", "close"} => mSocket[cur[v]] \in gone
          /\ pc[v] = "remove" => ListedAt(cur[v])
      BY <1>2, <3>1 DEF Removed
    <3>3. cur[v] # c
      BY <2>2, <3>1
    <3>4. \A u \in Worker : Removing(u, cur[v])' => u = v
      BY <2>4, <3>1, <3>2 DEF Removing, RemoveSteps
    <3>5. Free(cur[v])' /\ (ListedAt(cur[v]) => ListedAt(cur[v])')
      BY <2>1, <3>1, <3>2 DEF Free, Live, ListedAt
    <3> QED BY <2>1, <2>3, <3>1, <3>2, <3>3, <3>4, <3>5
  <2>12. Preparing'
    <3> SUFFICES ASSUME NEW v \in Worker,
                        pc'[v] \in {"prepare", "init", "socket", "receive", "setid", "list"}
                 PROVE  /\ Alone(cur[v])'
                        /\ pc'[v] \in {"prepare", "init", "socket", "receive"} => Free(cur[v])'
                        /\ pc'[v] \in {"init", "socket", "receive", "setid"}
                             => mSessionID'[cur'[v]] = 0
                        /\ pc'[v] = "list" => mSessionID'[cur'[v]] = Len(mClientList')
      BY DEF Preparing
    <3>1. v # w /\ pc[v] = pc'[v] /\ cur[v] = cur'[v]
      BY <2>4
    <3>2. /\ Alone(cur[v]) /\ (pc[v] \in {"prepare", "init", "socket", "receive"} => Free(cur[v]))
          /\ pc[v] \in {"init", "socket", "receive", "setid"} => mSessionID[cur[v]] = 0
          /\ pc[v] = "list" => mSessionID[cur[v]] = Len(mClientList)
      BY <1>2, <3>1 DEF Preparing
    <3>3. cur[v] # c
      BY <1>c, <2>1, <3>2 DEF Alone, Removing, RemoveSteps
    <3>4. Alone(cur[v])'
      BY <2>3, <2>4, <3>1, <3>2, <3>3 DEF Alone, Removing, RemoveSteps
    <3>5. Free(cur[v]) => Free(cur[v])'
      BY <2>1, <3>1 DEF Free, Live
    <3> QED BY <2>1, <3>1, <3>2, <3>4, <3>5
  <2> QED BY <2>8, <2>9, <2>10, <2>11, <2>12 DEF Orderly
<1> QED BY <1>4, <1>5, <1>6, <1>7, <1>8, <1>9, <1>10 DEF Remove

LEMMA InitFailed == Init => FailedInv
<1> SUFFICES ASSUME Init PROVE FailedInv
  OBVIOUS
<1>1. SessionInv
  BY InitSession
<1>2. open \subseteq Socket /\ \A w \in Worker : pc[w] = "idle"
  BY NewIsMember, SessionAssumption DEF Init
<1>3. FreshSockets
  BY <1>2 DEF Init, FreshSockets, Fresh
<1>4. LiveOnes
  BY DEF Init, LiveOnes, Live
<1>5. Pooled
  BY DEF Init, Pooled, NoDup, Range
<1>6. Removed /\ Preparing
  BY <1>2 DEF Removed, Preparing, RemoveSteps
<1>7. Silent
  BY DEF Init, Silent
<1> QED BY <1>1, <1>3, <1>4, <1>5, <1>6, <1>7 DEF FailedInv, Orderly

LEMMA NextSilent ==
  ASSUME SessionInv, Orderly, Silent, ~acceptFailed', ~crossed', Next
  PROVE  Silent'
<1> USE DEF tableVars, clientVars, ioVars, acceptVars, histVars, threadVars
<1>1. /\ recv \in [Socket -> IOState] /\ send \in [Socket -> IOState]
      /\ gone \subseteq Socket
  BY Known
<1>2. ASSUME UNCHANGED <<recv, send, gone>> PROVE Silent'
  BY <1>2 DEF Silent
<1>3. ASSUME NEW w \in Worker, PostReceive(w) PROVE Silent'
  <2>1. mSocket[cur[w]] \in Socket /\ mSocket[cur[w]] \notin gone /\ gone' = gone
        /\ send' = send /\ recv' = [recv EXCEPT ![mSocket[cur[w]]] = "posted"]
        /\ key[mSocket[cur[w]]] = None
    BY <1>3 DEF PostReceive, Orderly, FreshSockets, Fresh
  <2>2. send[mSocket[cur[w]]] # "failed"
    BY <2>1 DEF Orderly, LiveOnes
  <2> QED BY <1>1, <2>1, <2>2 DEF Silent
<1>4. ASSUME NEW w \in Worker, NEW s \in Socket, TakeFailedRecv(w, s) PROVE Silent'
  BY <1>1, <1>4 DEF Silent, TakeFailedRecv, NoteFailure
<1>5. ASSUME NEW w \in Worker, NEW s \in Socket, TakeFailedSend(w, s) PROVE Silent'
  <2>1. recv[s] # "posted"
    BY <1>5 DEF Silent, TakeFailedSend
  <2> QED BY <1>1, <1>5, <2>1 DEF Silent, TakeFailedSend, NoteFailure
<1>6. ASSUME NEW w \in Worker, CloseSocket(w) PROVE Silent'
  <2>1. mSocket[cur[w]] \in gone
    BY <1>6 DEF CloseSocket, Orderly, Removed, RemoveSteps
  <2> QED BY <1>1, <1>6, <2>1 DEF Silent, CloseSocket
<1>7. ASSUME NEW s \in Socket, PeerClose(s) PROVE Silent'
  BY <1>1, <1>7 DEF Silent, PeerClose
<1>8. ASSUME NEW c \in Client, ToggleSend(c) PROVE Silent'
  BY <1>1, <1>8 DEF Silent, ToggleSend
<1>9. ASSUME NEW w \in Worker, Accept(w), ~PostReceive(w) PROVE Silent'
  BY <1>2, <1>9 DEF Accept, TakeAccept, ChooseClient, PrepareClient, ClearClient,
                    InitClient, SetSocket, SetSessionID,
                    PushBack, PostAccept
<1>10. ASSUME NEW w \in Worker, Remove(w), ~CloseSocket(w),
              \A s \in Socket : ~TakeFailedRecv(w, s) /\ ~TakeFailedSend(w, s)
       PROVE  Silent'
  BY <1>2, <1>10 DEF Remove, TakeAcceptError, FindClient, InvalidateSocket, ResetClient,
                     PoolClient
<1>11. ASSUME NEW s \in Socket, NEW ok \in BOOLEAN, CompleteAccept(s, ok) PROVE Silent'
  BY <1>2, <1>11 DEF CompleteAccept
<1> QED BY <1>3, <1>4, <1>5, <1>6, <1>7, <1>8, <1>9, <1>10, <1>11 DEF Next

LEMMA NextFailed == FailedInv /\ [Next]_vars => FailedInv'
<1> SUFFICES ASSUME FailedInv, [Next]_vars PROVE FailedInv'
  OBVIOUS
<1> USE DEF tableVars, clientVars, ioVars, acceptVars, histVars, threadVars
<1>1. SessionInv /\ SessionInv'
  BY NextSession DEF FailedInv
<1>2. (acceptFailed => acceptFailed') /\ (crossed => crossed')
  <2>1. ASSUME NEW w \in Worker, Accept(w)
        PROVE  (acceptFailed => acceptFailed') /\ (crossed => crossed')
    BY <2>1 DEF Accept, TakeAccept, ChooseClient, PrepareClient, ClearClient,
                InitClient, SetSocket, PostReceive,
                SetSessionID, PushBack, PostAccept
  <2>2. ASSUME NEW w \in Worker, Remove(w)
        PROVE  (acceptFailed => acceptFailed') /\ (crossed => crossed')
    <3>1. acceptFailed' = acceptFailed
      BY <2>2 DEF Remove, TakeAcceptError, TakeFailedRecv, TakeFailedSend, FindClient,
                  CloseSocket, InvalidateSocket, ResetClient, PoolClient
    <3>2. crossed => crossed'
      BY <2>2 DEF Remove, TakeAcceptError, TakeFailedRecv, TakeFailedSend, NoteFailure,
                  FindClient, CloseSocket, InvalidateSocket, ResetClient, PoolClient
    <3> QED BY <3>1, <3>2
  <2>3. ASSUME NEW s \in Socket, NEW ok \in BOOLEAN, CompleteAccept(s, ok)
        PROVE  (acceptFailed => acceptFailed') /\ (crossed => crossed')
    <3>1. (acceptFailed => acceptFailed') /\ crossed' = crossed
      BY <2>3 DEF CompleteAccept
    <3> QED BY <3>1
  <2>4. ASSUME \/ \E s \in Socket : PeerClose(s)
               \/ \E c \in Client : ToggleSend(c)
               \/ UNCHANGED vars
        PROVE  acceptFailed' = acceptFailed /\ crossed' = crossed
    BY <2>4 DEF PeerClose, ToggleSend, vars
  <2> QED BY <2>1, <2>2, <2>3, <2>4 DEF Next
<1>3. ASSUME ~acceptFailed', ~crossed' PROVE Orderly' /\ Silent'
  <2>1. Orderly /\ Silent
    BY <1>2, <1>3 DEF FailedInv
  <2> SUFFICES Orderly'
    <3>1. CASE Next
      BY <1>1, <1>3, <2>1, <3>1, NextSilent
    <3>2. CASE UNCHANGED vars
      BY <2>1, <3>2 DEF vars, Silent
    <3> QED BY <3>1, <3>2
  <2>2. CASE \E s \in Socket : \/ \E ok \in BOOLEAN : CompleteAccept(s, ok)
                               \/ PeerClose(s)
    BY <1>1, <1>3, <2>1, <2>2, OutsideOrderly
  <2>3. CASE \E c \in Client : ToggleSend(c)
    BY <1>1, <1>3, <2>1, <2>3, OutsideOrderly, SessionAssumption
  <2>4. ASSUME NEW w \in Worker, Accept(w) \/ Remove(w) PROVE Orderly'
    BY <1>1, <1>3, <2>1, <2>4, AcceptOrderly, RemoveOrderly
  <2>5. CASE UNCHANGED vars
    BY <2>1, <2>5 DEF vars, Orderly, FreshSockets, LiveOnes, Pooled, Removed, Preparing,
                      Live, Fresh, Free, Alone, Removing, ListedAt, BeingListed, NoDup
  <2> QED BY <2>2, <2>3, <2>4, <2>5 DEF Next
<1> QED BY <1>1, <1>3 DEF FailedInv

(* RemoveClient closes a connection that has failed, whichever client its session *)
(* ID names when it looks: no client is removed twice or used again before its    *)
(* removal is over (unless an accept failed or a failure crossed another).       *)
THEOREM FailedAreClosed == Spec => []ClosesTheFailed
<1>1. FailedInv => ClosesTheFailed
  <2> SUFFICES ASSUME FailedInv, ~acceptFailed, ~crossed, NEW w \in Worker,
                      pc[w] = "close"
               PROVE  mSocket[cur[w]] # None /\ recv[mSocket[cur[w]]] # "posted"
    BY DEF ClosesTheFailed
  <2>1. mSocket[cur[w]] \in gone /\ gone \subseteq Socket
    BY Known DEF FailedInv, Orderly, Removed, RemoveSteps
  <2> QED BY <2>1, SessionAssumption DEF FailedInv, Silent
<1> QED BY <1>1, InitFailed, NextFailed, PTL DEF Spec
=============================================================================
