------------------------------ MODULE Answers_proofs ------------------------------
(***************************************************************************)
(* Proofs about Answers, for any workers, clients, sockets and packets.      *)
(* Its steps are the steps of SessionTable without ToggleSend, for which     *)
(* SessionTable_proofs has the lemmas, and steps of its own.                *)
(***************************************************************************)
EXTENDS Answers, SessionTable_proofs

(* The types of what Answers adds, in parts. *)
Queues ==
  /\ requests \in Seq(Answered) /\ asked \in 0..MaxRequests
  /\ mSendQueue \in [Client -> Seq(Answered)]
  /\ mSending \in [Client -> BOOLEAN]
  /\ \A c \in Client : mSendContext[c] \in Seq(Answered) /\ Len(mSendContext[c]) <= 1
  /\ DOMAIN mSendContext = Client
  /\ \A s \in Socket : wire[s] \in Seq(Answered)
  /\ DOMAIN wire = Socket
  /\ wsaBuf \in Seq(Answered)

(* The dispatch thread answers a client when it is not idle; it holds the one  *)
(* packet it is about to queue, and takes one only when one is queued.       *)
Dispatching ==
  /\ dpc \in {"idle", "enqueue", "fill", "load", "send"}
  /\ dcur \in Client \cup {None}
  /\ dpc # "idle" => dcur \in Client
  /\ dpc = "enqueue" => wsaBuf # <<>>
  /\ dpc \in {"idle", "fill", "load"} => wsaBuf = <<>>
  /\ dpc = "fill" => mSendQueue[dcur] # <<>>

(* A worker handles a completion for the client of the socket it came on; only *)
(* a socket that is tied to a client has completions.                       *)
Tied == \A s \in Socket : recv[s] # "none" \/ send[s] # "none" => key[s] # None
Handlers ==
  \A w \in Worker :
    /\ pc[w] \in {"push", "again"} => acc[w] \in Socket /\ cur[w] = key[acc[w]]
    /\ pc[w] \in HandleSteps => cur[w] \in Client

(* A socket belongs to one client, the one its completions are for; one that  *)
(* is not yet made, or not yet given to a client, belongs to none.          *)
Untied(s) == key[s] = None /\ \A c \in Client : mSocket[c] # s
Unclaimed(s) == s \in Socket /\ s \notin unused /\ Untied(s)
Ties ==
  /\ \A s \in unused : Untied(s)
  /\ \A s \in accepting : Unclaimed(s)
  /\ \A a \in accepted : Unclaimed(a.sock)
  /\ \A w \in Worker : pc[w] \in {"choose", "prepare", "init", "socket"} => Unclaimed(acc[w])
  /\ \A c, d \in Client : mSocket[c] = mSocket[d] /\ mSocket[c] # None => c = d
  /\ \A c \in Client : mSocket[c] # None => key[mSocket[c]] \in {c, None}

(* An answer that is still its connection's is on the way of the client that   *)
(* the connection's socket is tied to, which has no other socket and is not  *)
(* about to get one.                                                       *)
Kept(a, c) ==
  a.own => key[a.from] = c /\ mSocket[c] \in {a.from, None} /\ ~InPreparation(c)
Found(a) ==
  a.own => /\ key[a.from] \in Client /\ Kept(a, key[a.from])
           /\ a.id + 1 \in DOMAIN mClientList
           /\ mClientList[a.id + 1] = key[a.from]
OnTheirWay ==
  /\ \A i \in DOMAIN requests : Found(requests[i])
  /\ \A i \in DOMAIN wsaBuf : Kept(wsaBuf[i], dcur)
  /\ \A c \in Client : /\ \A i \in DOMAIN mSendQueue[c] : Kept(mSendQueue[c][i], c)
                       /\ \A i \in DOMAIN mSendContext[c] : Kept(mSendContext[c][i], c)

AnswersInv ==
  /\ SessionInv /\ (~acceptFailed /\ ~crossed => Orderly)
  /\ Queues /\ Dispatching /\ Tied /\ Handlers /\ Ties
  /\ OnTheirWay /\ OwnAnswers

-----------------------------------------------------------------------------
(* Initial states *)

LEMMA InitAnswers == AInit => AnswersInv
<1> SUFFICES ASSUME AInit PROVE AnswersInv
  OBVIOUS
<1>1. Init /\ FailedInv
  BY InitFailed DEF AInit
<1>2. Queues
  <2>1. <<>> \in Seq(Answered) /\ Len(<<>>) = 0
    OBVIOUS
  <2>2. 0 \in 0..MaxRequests
    BY AnswersAssumption
  <2> QED BY <2>1, <2>2 DEF AInit, Queues
<1>3. Dispatching /\ Tied /\ Handlers
  BY <1>1 DEF AInit, Init, Dispatching, Tied, Handlers, HandleSteps
<1>4. Ties
  <2>1. open \subseteq Socket /\ accepting = open /\ unused = Socket \ open
    BY <1>1, NewIsMember, SessionAssumption DEF Init
  <2>2. \A s \in Socket : Untied(s)
    BY <1>1, SessionAssumption DEF Init, Untied
  <2> QED BY <1>1, <2>1, <2>2 DEF Init, Ties, Unclaimed
<1>5. OnTheirWay /\ OwnAnswers
  BY DEF AInit, OnTheirWay, OwnAnswers
<1> QED BY <1>1, <1>2, <1>3, <1>4, <1>5 DEF FailedInv, AnswersInv

-----------------------------------------------------------------------------
(* The steps of SessionTable *)

(* Sockets stay tied and the list grows. *)
Steady ==
  /\ \A s \in Socket : key[s] # None => key'[s] = key[s]
  /\ \A i \in DOMAIN mClientList : /\ i \in DOMAIN mClientList'
                                   /\ mClientList'[i] = mClientList[i]

(* No client is given a socket but one in preparation, and none begins to be.  *)
Undisturbed ==
  \A c \in Client : \/ InPreparation(c)
                    \/ mSocket'[c] \in {mSocket[c], None} /\ ~InPreparation(c)'

(* A worker's step of Next is its own, and not one of Answers's. *)
LEMMA NextMoves ==
  ASSUME SessionInv, NEW w \in Worker, Accept(w) \/ Remove(w)
  PROVE  /\ \A v \in Worker : v # w => pc'[v] = pc[v] /\ cur'[v] = cur[v] /\ acc'[v] = acc[v]
         /\ pc[w] \notin HandleSteps /\ pc'[w] \notin HandleSteps
<1> USE DEF tableVars, clientVars, ioVars, acceptVars, histVars, threadVars
<1>1. /\ pc \in [Worker -> Steps] /\ cur \in [Worker -> Client \cup {None}]
      /\ acc \in [Worker -> Sockets]
  BY Known
<1>2. CASE Accept(w)
  BY <1>1, <1>2 DEF Accept, TakeAccept, ChooseClient, PrepareClient, ClearClient, InitClient,
                    SetSocket, PostReceive,
                    SetSessionID, PushBack, PostAccept, Goto, Finish, HandleSteps
<1>3. CASE Remove(w)
  BY <1>1, <1>3 DEF Remove, TakeAcceptError, TakeFailedRecv, TakeFailedSend, FindClient,
                    CloseSocket, InvalidateSocket, ResetClient, PoolClient, Goto, Finish,
                    HandleSteps
<1> QED BY <1>2, <1>3

LEMMA NextSteady ==
  ASSUME SessionInv, Ties, Next
  PROVE  Steady
<1> USE DEF tableVars, clientVars, ioVars, acceptVars, histVars, threadVars
<1>1. /\ key \in [Socket -> Client \cup {None}] /\ mSocket \in [Client -> Sockets]
      /\ mClientList \in Seq(made) /\ made \subseteq Client
      /\ \A w \in Worker : pc[w] \in Holding => cur[w] \in made
  BY Known
<1>2. ASSUME UNCHANGED <<key, mClientList>> PROVE Steady
  BY <1>2 DEF Steady
<1>3. ASSUME NEW w \in Worker, PostReceive(w) PROVE Steady
  <2> DEFINE c == cur[w]
             s == mSocket[c]
  <2>1. c \in Client /\ s \in Sockets
    BY <1>1, <1>3 DEF PostReceive, Holding
  <2>2. CASE key' = [key EXCEPT ![s] = c]
    <3>1. key[s] # None /\ s \in Socket => key[s] = c
      BY <2>1, SessionAssumption DEF Ties
    <3>2. mClientList' = mClientList
      BY <1>3 DEF PostReceive
    <3> QED BY <1>1, <2>1, <2>2, <3>1, <3>2 DEF Steady
  <2>3. CASE UNCHANGED key
    BY <1>2, <1>3, <2>3 DEF PostReceive
  <2> QED BY <1>3, <2>2, <2>3 DEF PostReceive
<1>4. ASSUME NEW w \in Worker, PushBack(w) PROVE Steady
  <2>1. cur[w] \in made /\ mClientList' = Append(mClientList, cur[w]) /\ key' = key
    BY <1>1, <1>4 DEF PushBack, Holding
  <2>2. \A i \in DOMAIN mClientList : /\ i \in DOMAIN mClientList'
                                      /\ mClientList'[i] = mClientList[i]
    BY <1>1, <2>1, AppendProperties
  <2> QED BY <2>1, <2>2 DEF Steady
<1>5. ASSUME NEW w \in Worker, Accept(w), ~PostReceive(w), ~PushBack(w) PROVE Steady
  BY <1>2, <1>5 DEF Accept, TakeAccept, ChooseClient, PrepareClient, ClearClient, InitClient,
                    SetSocket, SetSessionID,
                    PostAccept
<1>6. ASSUME NEW w \in Worker, Remove(w) PROVE Steady
  BY <1>2, <1>6 DEF Remove, TakeAcceptError, TakeFailedRecv, TakeFailedSend, FindClient,
                    CloseSocket, InvalidateSocket, ResetClient, PoolClient
<1> QED BY <1>2, <1>3, <1>4, <1>5, <1>6 DEF Next, CompleteAccept, PeerClose, ToggleSend

LEMMA NextUndisturbed ==
  ASSUME SessionInv, Next, \A w \in Worker : ~ClearClient(w)
  PROVE  Undisturbed
<1> USE DEF tableVars, clientVars, ioVars, acceptVars, histVars, threadVars
<1>1. /\ mSocket \in [Client -> Sockets] /\ pc \in [Worker -> Steps]
      /\ cur \in [Worker -> Client \cup {None}]
  BY Known
<1> DEFINE Begins(v) == /\ pc'[v] \in {"init", "socket"}
                        /\ ~(pc[v] \in {"init", "socket"} /\ cur'[v] = cur[v])
<1>2. ASSUME \A c \in Client : mSocket'[c] \in {mSocket[c], None} \/ InPreparation(c),
             \A v \in Worker : ~Begins(v)
      PROVE  Undisturbed
  BY <1>2 DEF Undisturbed, InPreparation
<1>3. ASSUME NEW w \in Worker, InvalidateSocket(w) PROVE Undisturbed
  <2>1. \A c \in Client : mSocket'[c] \in {mSocket[c], None}
    BY <1>1, <1>3 DEF InvalidateSocket
  <2>2. \A v \in Worker : ~Begins(v)
    BY <1>1, <1>3 DEF InvalidateSocket, Goto
  <2> QED BY <1>2, <2>1, <2>2
<1>4. ASSUME NEW w \in Worker, SetSocket(w) PROVE Undisturbed
  <2>1. \A c \in Client : c # cur[w] => mSocket'[c] = mSocket[c]
    BY <1>1, <1>4 DEF SetSocket
  <2>2. InPreparation(cur[w])
    BY <1>4 DEF SetSocket, InPreparation
  <2>3. \A v \in Worker : ~Begins(v)
    BY <1>1, <1>4 DEF SetSocket, Goto
  <2> QED BY <1>2, <2>1, <2>2, <2>3
<1>5. ASSUME NEW w \in Worker, Accept(w), ~SetSocket(w) PROVE Undisturbed
  <2>1. mSocket' = mSocket
    BY <1>5 DEF Accept, TakeAccept, ChooseClient, PrepareClient, ClearClient,
                InitClient, PostReceive, SetSessionID, PushBack, PostAccept
  <2>2. \A v \in Worker : ~Begins(v)
    BY <1>1, <1>5 DEF Accept, TakeAccept, ChooseClient, PrepareClient, InitClient,
                      PostReceive, SetSessionID, PushBack, PostAccept, Goto, Finish
  <2> QED BY <1>2, <2>1, <2>2
<1>6. ASSUME NEW w \in Worker, Remove(w), ~InvalidateSocket(w) PROVE Undisturbed
  <2>1. mSocket' = mSocket
    BY <1>6 DEF Remove, TakeAcceptError, TakeFailedRecv, TakeFailedSend, FindClient,
                CloseSocket, ResetClient, PoolClient
  <2>2. \A v \in Worker : ~Begins(v)
    BY <1>1, <1>6 DEF Remove, TakeAcceptError, TakeFailedRecv, TakeFailedSend, FindClient,
                      CloseSocket, ResetClient, PoolClient, Goto, Finish
  <2> QED BY <1>2, <2>1, <2>2
<1>7. ASSUME UNCHANGED <<mSocket, pc, cur>> PROVE Undisturbed
  BY <1>2, <1>7
<1> QED BY <1>3, <1>4, <1>5, <1>6, <1>7 DEF Next, CompleteAccept, PeerClose, ToggleSend

LEMMA NextTies ==
  ASSUME SessionInv, Ties, Next
  PROVE  Ties'
<1> USE DEF tableVars, clientVars, ioVars, acceptVars, histVars, threadVars
<1>1. /\ unused \subseteq Socket /\ made \subseteq Client /\ None \notin Client
      /\ None \notin Socket
      /\ key \in [Socket -> Client \cup {None}] /\ mSocket \in [Client -> Sockets]
      /\ pc \in [Worker -> Steps] /\ acc \in [Worker -> Sockets]
      /\ \A w \in Worker : pc[w] \in Holding => cur[w] \in made
      /\ \A v, w \in Worker : pc[v] \in AcceptSteps /\ pc[w] \in AcceptSteps => v = w
      /\ \A w \in Worker : pc[w] \in AcceptSteps => accepting = {} /\ accepted = {}
  BY Known, SessionAssumption
<1>2. ASSUME UNCHANGED <<key, unused, mSocket>>, accepting' \subseteq accepting,
             accepted' \subseteq accepted,
             \A v \in Worker : pc'[v] \in {"choose", "prepare", "init", "socket"}
               => pc[v] \in {"choose", "prepare", "init", "socket"} /\ acc'[v] = acc[v]
      PROVE  Ties'
  BY <1>2 DEF Ties, Unclaimed, Untied
<1>3. ASSUME NEW s \in Socket, NEW ok \in BOOLEAN, CompleteAccept(s, ok) PROVE Ties'
  <2>1. /\ s \in accepting /\ accepting' \subseteq accepting
        /\ \A a \in accepted' : a \in accepted \/ a.sock = s
        /\ UNCHANGED <<key, unused, mSocket, pc, acc>>
    BY <1>3 DEF CompleteAccept
  <2> QED BY <2>1 DEF Ties, Unclaimed, Untied
<1>4. ASSUME NEW w \in Worker, NEW a \in accepted, TakeAccept(w, a) PROVE Ties'
  <2>1. /\ \A v \in Worker : v # w => pc'[v] = pc[v] /\ acc'[v] = acc[v]
        /\ acc'[w] = a.sock /\ accepted' \subseteq accepted
        /\ UNCHANGED <<key, unused, mSocket, accepting>>
    BY <1>1, <1>4 DEF TakeAccept, Goto
  <2> QED BY <2>1 DEF Ties, Unclaimed, Untied
<1>5. ASSUME NEW w \in Worker, NEW c \in Client, ChooseClient(w, c) PROVE Ties'
  <2>1. /\ pc[w] = "choose" /\ \A v \in Worker : v # w => pc'[v] = pc[v]
        /\ UNCHANGED <<key, unused, mSocket, accepting, accepted, acc>>
    BY <1>1, <1>5 DEF ChooseClient, Goto
  <2> QED BY <1>2, <2>1
<1>5a. ASSUME NEW w \in Worker, ClearClient(w) \/ InitClient(w) PROVE Ties'
  <2>1. /\ pc[w] \in {"prepare", "init"} /\ \A v \in Worker : v # w => pc'[v] = pc[v]
        /\ UNCHANGED <<key, unused, mSocket, accepting, accepted, acc>>
    BY <1>1, <1>5a DEF ClearClient, InitClient, Goto
  <2> QED BY <1>2, <2>1
<1>6. ASSUME NEW w \in Worker, SetSocket(w) PROVE Ties'
  <2>0. PICK c, s : c = cur[w] /\ s = acc[w]
    OBVIOUS
  <2>1. /\ c \in Client /\ pc[w] = "socket" /\ pc'[w] = "receive"
        /\ mSocket' = [mSocket EXCEPT ![c] = s]
        /\ \A v \in Worker : v # w => pc'[v] = pc[v]
        /\ UNCHANGED <<key, unused, accepting, accepted>>
    BY <1>1, <1>6, <2>0 DEF SetSocket, Goto, Holding
  <2>2. /\ accepting = {} /\ accepted = {}
        /\ \A v \in Worker : pc'[v] \notin {"choose", "prepare", "init", "socket"}
    BY <1>1, <2>1 DEF AcceptSteps
  <2>3. s \in Socket /\ s \notin unused /\ key[s] = None /\ \A d \in Client : mSocket[d] # s
    BY <2>0, <2>1 DEF Ties, Unclaimed, Untied
  <2>4. mSocket'[c] = s /\ \A d \in Client : d # c => mSocket'[d] = mSocket[d]
    BY <1>1, <2>1
  <2>5. \A t \in unused : Untied(t)'
    BY <2>1, <2>3, <2>4 DEF Ties, Untied
  <2>6. \A d, e \in Client : mSocket'[d] = mSocket'[e] /\ mSocket'[d] # None => d = e
    BY <2>3, <2>4 DEF Ties
  <2>7. \A d \in Client : mSocket'[d] # None => key'[mSocket'[d]] \in {d, None}
    BY <2>1, <2>3, <2>4 DEF Ties
  <2> QED BY <2>1, <2>2, <2>5, <2>6, <2>7 DEF Ties
<1>7. ASSUME NEW w \in Worker, PostReceive(w) PROVE Ties'
  <2>0. PICK c, s : c = cur[w] /\ s = mSocket[c]
    OBVIOUS
  <2>1. /\ c \in Client /\ pc[w] = "receive" /\ pc'[w] \in {"setid", "idle"}
        /\ \A v \in Worker : v # w => pc'[v] = pc[v]
        /\ UNCHANGED <<mSocket, unused, accepting, accepted, acc>>
    BY <1>1, <1>7, <2>0 DEF PostReceive, Goto, Finish, Holding
  <2>2. CASE key' = [key EXCEPT ![s] = c]
    <3>1. /\ accepting = {} /\ accepted = {}
          /\ \A v \in Worker : pc'[v] \notin {"choose", "prepare", "init", "socket"}
      BY <1>1, <2>1 DEF AcceptSteps
    <3>2. \A t \in Socket : t # s => key'[t] = key[t]
      BY <1>1, <2>2
    <3>3. s \in Socket => key'[s] = c
      BY <1>1, <2>2
    <3>4. \A t \in unused : Untied(t)'
      BY <1>1, <2>0, <2>1, <3>2 DEF Ties, Untied
    <3>5. \A d \in Client : mSocket[d] # None => key'[mSocket[d]] \in {d, None}
      <4> SUFFICES ASSUME NEW d \in Client, mSocket[d] # None
                   PROVE  key'[mSocket[d]] \in {d, None}
        OBVIOUS
      <4>1. mSocket[d] \in Socket
        BY <1>1 DEF Sockets
      <4>2. CASE mSocket[d] = s
        BY <2>0, <2>1, <3>3, <4>1, <4>2 DEF Ties
      <4>3. CASE mSocket[d] # s
        BY <3>2, <4>1, <4>3 DEF Ties
      <4> QED BY <4>2, <4>3
    <3> QED BY <2>1, <3>1, <3>4, <3>5 DEF Ties
  <2>3. CASE UNCHANGED key
    BY <1>2, <2>1, <2>3
  <2> QED BY <1>7, <2>0, <2>2, <2>3 DEF PostReceive
<1>8. ASSUME NEW w \in Worker, PostAccept(w) PROVE Ties'
  <2>1. /\ \A v \in Worker : v # w => pc'[v] = pc[v]
        /\ pc'[w] = "idle" /\ UNCHANGED <<key, mSocket, accepted, acc>>
    BY <1>1, <1>8 DEF PostAccept, Finish, Goto
  <2>2. CASE UNCHANGED <<unused, accepting>>
    BY <1>2, <2>1, <2>2
  <2>3. CASE MakeAccept
    <3>1. PICK s \in unused : unused' = unused \ {s} /\ accepting' = accepting \cup {s}
      BY <2>3, NewIsMember DEF MakeAccept
    <3> QED BY <1>1, <2>1, <3>1 DEF Ties, Unclaimed, Untied
  <2> QED BY <1>8, <2>2, <2>3 DEF PostAccept
<1>9. ASSUME NEW w \in Worker, InvalidateSocket(w) PROVE Ties'
  <2>1. /\ cur[w] \in Client /\ mSocket' = [mSocket EXCEPT ![cur[w]] = None]
        /\ \A v \in Worker : v # w => pc'[v] = pc[v]
        /\ pc'[w] = "reset" /\ UNCHANGED <<key, unused, accepting, accepted, acc>>
    BY <1>1, <1>9 DEF InvalidateSocket, Goto, Holding
  <2>2. \A c \in Client : mSocket'[c] = mSocket[c] \/ mSocket'[c] = None
    BY <1>1, <2>1
  <2>3. \A s \in Socket : Untied(s) => Untied(s)'
    BY <1>1, <2>1, <2>2 DEF Untied
  <2> QED BY <1>1, <2>1, <2>2, <2>3 DEF Ties, Unclaimed
<1>10. ASSUME NEW w \in Worker, SetSessionID(w) \/ PushBack(w) PROVE Ties'
  <2>1. /\ \A v \in Worker : pc'[v] \in {"choose", "prepare", "init", "socket"} => pc'[v] = pc[v]
        /\ UNCHANGED <<key, unused, mSocket, accepting, accepted, acc>>
    BY <1>1, <1>10 DEF SetSessionID, PushBack, Goto
  <2> QED BY <1>2, <2>1
<1>11. ASSUME NEW w \in Worker, Remove(w), ~InvalidateSocket(w) PROVE Ties'
  <2>1. /\ \A v \in Worker : pc'[v] \in {"choose", "prepare", "init", "socket"} => pc'[v] = pc[v]
        /\ accepted' \subseteq accepted
        /\ UNCHANGED <<key, unused, mSocket, accepting, acc>>
    BY <1>1, <1>11 DEF Remove, TakeAcceptError, TakeFailedRecv, TakeFailedSend, FindClient,
                       CloseSocket, ResetClient, PoolClient, Goto, Finish
  <2> QED BY <1>2, <2>1
<1>12. ASSUME UNCHANGED <<key, unused, mSocket, accepting, accepted, pc, acc>> PROVE Ties'
  BY <1>2, <1>12
<1> QED
  BY <1>3, <1>4, <1>5, <1>5a, <1>6, <1>7, <1>8, <1>9, <1>10, <1>11, <1>12
  DEF Next, Accept, PrepareClient, PeerClose, ToggleSend

(* The steps that Answers has in common with SessionTable. *)
TableStep ==
  \/ \E s \in Socket : (\E ok \in BOOLEAN : CompleteAccept(s, ok)) \/ PeerClose(s)
  \/ \E w \in Worker : Accept(w) \/ Remove(w)

LEMMA TableStepIsNext == TableStep => Next
BY DEF TableStep, Next

LEMMA TableTied ==
  ASSUME SessionInv, Ties, Tied, TableStep
  PROVE  Tied'
<1> USE DEF tableVars, clientVars, ioVars, acceptVars, histVars, threadVars
<1>1. /\ recv \in [Socket -> IOState] /\ send \in [Socket -> IOState]
      /\ key \in [Socket -> Client \cup {None}] /\ made \subseteq Client
      /\ \A w \in Worker : pc[w] \in Holding => cur[w] \in made
  BY Known
<1>2. \A s \in Socket : key[s] # None => key'[s] # None
  BY TableStepIsNext, NextSteady DEF Steady
<1>3. ASSUME \A s \in Socket : /\ recv'[s] # "none" => recv[s] # "none"
                               /\ send'[s] # "none" => send[s] # "none"
      PROVE  Tied'
  BY <1>2, <1>3 DEF Tied
<1>4. ASSUME NEW s \in Socket, PeerClose(s) PROVE Tied'
  <2>1. \A t \in Socket : /\ recv'[t] # "none" => recv[t] # "none"
                          /\ send'[t] # "none" => send[t] # "none"
    BY <1>1, <1>4 DEF PeerClose
  <2> QED BY <1>3, <2>1
<1>5. ASSUME NEW w \in Worker, PostReceive(w) PROVE Tied'
  <2> DEFINE s == mSocket[cur[w]]
  <2>1. cur[w] \in Client /\ send' = send
    BY <1>1, <1>5 DEF PostReceive, Holding
  <2>2. CASE /\ key' = [key EXCEPT ![s] = cur[w]]
             /\ recv' = [recv EXCEPT ![s] = "posted"]
    BY <1>1, <2>1, <2>2, SessionAssumption DEF Tied
  <2>3. CASE UNCHANGED <<key, recv>>
    BY <1>3, <2>1, <2>3
  <2> QED BY <1>5, <2>2, <2>3 DEF PostReceive
<1>6. ASSUME NEW w \in Worker, CloseSocket(w) PROVE Tied'
  <2>1. \A t \in Socket : /\ recv'[t] # "none" => recv[t] # "none"
                          /\ send'[t] # "none" => send[t] # "none"
    BY <1>1, <1>6 DEF CloseSocket
  <2> QED BY <1>3, <2>1
<1>7. ASSUME NEW w \in Worker, NEW s \in Socket, TakeFailedRecv(w, s) \/ TakeFailedSend(w, s)
      PROVE  Tied'
  <2>1. \A t \in Socket : /\ recv'[t] # "none" => recv[t] # "none"
                          /\ send'[t] # "none" => send[t] # "none"
    BY <1>1, <1>7 DEF TakeFailedRecv, TakeFailedSend
  <2> QED BY <1>3, <2>1
<1>8. ASSUME NEW w \in Worker, Accept(w), ~PostReceive(w) PROVE Tied'
  <2>1. UNCHANGED <<recv, send>>
    BY <1>8 DEF Accept, TakeAccept, ChooseClient, PrepareClient, ClearClient, InitClient,
                SetSocket, SetSessionID, PushBack,
                PostAccept
  <2> QED BY <1>3, <2>1
<1>9. ASSUME NEW w \in Worker, Remove(w), ~CloseSocket(w),
             \A s \in Socket : ~TakeFailedRecv(w, s) /\ ~TakeFailedSend(w, s)
      PROVE  Tied'
  <2>1. UNCHANGED <<recv, send>>
    BY <1>9 DEF Remove, TakeAcceptError, FindClient, InvalidateSocket, ResetClient,
                PoolClient
  <2> QED BY <1>3, <2>1
<1>10. ASSUME NEW s \in Socket, NEW ok \in BOOLEAN, CompleteAccept(s, ok) PROVE Tied'
  BY <1>3, <1>10 DEF CompleteAccept
<1> QED BY <1>4, <1>5, <1>6, <1>7, <1>8, <1>9, <1>10 DEF TableStep

LEMMA TableHandlers ==
  ASSUME SessionInv, Ties, Handlers, TableStep
  PROVE  Handlers'
<1>1. \A v \in Worker : pc'[v] \in HandleSteps
        => pc'[v] = pc[v] /\ cur'[v] = cur[v] /\ acc'[v] = acc[v]
  <2>1. ASSUME NEW w \in Worker, Accept(w) \/ Remove(w), NEW v \in Worker,
               pc'[v] \in HandleSteps
        PROVE  pc'[v] = pc[v] /\ cur'[v] = cur[v] /\ acc'[v] = acc[v]
    BY <2>1, NextMoves
  <2>2. ASSUME NEW s \in Socket,
               (\E ok \in BOOLEAN : CompleteAccept(s, ok)) \/ PeerClose(s)
        PROVE  UNCHANGED <<pc, cur, acc>>
    BY <2>2 DEF CompleteAccept, PeerClose, threadVars
  <2> QED BY <2>1, <2>2 DEF TableStep
<1>2. Steady
  BY TableStepIsNext, NextSteady
<1>3. ASSUME NEW v \in Worker, pc'[v] \in HandleSteps
      PROVE  /\ pc'[v] \in {"push", "again"} => acc'[v] \in Socket /\ cur'[v] = key'[acc'[v]]
             /\ cur'[v] \in Client
  <2>1. pc'[v] = pc[v] /\ cur'[v] = cur[v] /\ acc'[v] = acc[v]
    BY <1>1, <1>3
  <2>2. cur[v] \in Client
    BY <1>3, <2>1 DEF Handlers
  <2>3. pc[v] \in {"push", "again"} => acc[v] \in Socket /\ cur[v] = key[acc[v]]
    BY DEF Handlers
  <2>4. pc[v] \in {"push", "again"} => key'[acc[v]] = key[acc[v]]
    BY <1>2, <2>2, <2>3, SessionAssumption DEF Steady
  <2> QED BY <2>1, <2>2, <2>3, <2>4
<1> QED BY <1>3 DEF Handlers, HandleSteps

-----------------------------------------------------------------------------
(* Answers on their way *)

LEMMA KeptStays ==
  ASSUME Steady, Undisturbed, NEW c \in Client, NEW a \in Answered, Kept(a, c)
  PROVE  Kept(a, c)'
<1> SUFFICES ASSUME a.own
             PROVE  /\ key'[a.from] = c /\ mSocket'[c] \in {a.from, None}
                    /\ ~InPreparation(c)'
  BY DEF Kept
<1>1. /\ key[a.from] = c /\ mSocket[c] \in {a.from, None} /\ a.from \in Socket
      /\ ~InPreparation(c)
  BY DEF Kept, Answered
<1> QED BY <1>1, SessionAssumption DEF Steady, Undisturbed

LEMMA FoundStays ==
  ASSUME Steady, Undisturbed, NEW a \in Answered, Found(a)
  PROVE  Found(a)'
<1> SUFFICES ASSUME a.own
             PROVE  /\ key'[a.from] \in Client /\ Kept(a, key[a.from])'
                    /\ a.id + 1 \in DOMAIN mClientList'
                    /\ mClientList'[a.id + 1] = key'[a.from]
  BY DEF Found
<1>1. /\ key[a.from] \in Client /\ Kept(a, key[a.from]) /\ a.from \in Socket
      /\ a.id + 1 \in DOMAIN mClientList /\ mClientList[a.id + 1] = key[a.from]
  BY DEF Found, Answered
<1>2. PICK c \in Client : c = key[a.from]
  BY <1>1
<1>3. key'[a.from] = c
  BY <1>1, <1>2, SessionAssumption DEF Steady
<1>4. Kept(a, c)'
  <2>1. Kept(a, c)
    BY <1>1, <1>2
  <2> QED BY <2>1, KeptStays
<1>5. /\ a.id + 1 \in DOMAIN mClientList' /\ mClientList'[a.id + 1] = c
  BY <1>1, <1>2 DEF Steady
<1>6. Kept(a, key[a.from])'
  BY <1>3, <1>4 DEF Kept, InPreparation
<1> QED BY <1>3, <1>5, <1>6

(* What does not move stays with its connection. *)
LEMMA AnswersStay ==
  ASSUME Steady, Undisturbed
  PROVE  /\ \A q \in Seq(Answered) :
              (\A i \in DOMAIN q : Found(q[i])) => \A i \in DOMAIN q : Found(q[i])'
         /\ \A c \in Client : \A q \in Seq(Answered) :
              (\A i \in DOMAIN q : Kept(q[i], c)) => \A i \in DOMAIN q : Kept(q[i], c)'
<1>1. \A q \in Seq(Answered) : \A i \in DOMAIN q : q[i] \in Answered
  OBVIOUS
<1>2. ASSUME NEW q \in Seq(Answered), \A i \in DOMAIN q : Found(q[i]), NEW i \in DOMAIN q
      PROVE  Found(q[i])'
  <2>1. PICK a \in Answered : a = q[i]
    BY <1>1
  <2>2. Found(a)
    BY <1>2, <2>1
  <2> QED BY <2>1, <2>2, FoundStays
<1>3. ASSUME NEW c \in Client, NEW q \in Seq(Answered), \A i \in DOMAIN q : Kept(q[i], c),
             NEW i \in DOMAIN q
      PROVE  Kept(q[i], c)'
  <2>1. PICK a \in Answered : a = q[i]
    BY <1>1
  <2>2. Kept(a, c)
    BY <1>3, <2>1
  <2> QED BY <2>1, <2>2, KeptStays
<1> QED BY <1>2, <1>3

LEMMA Disowned ==
  ASSUME NEW c \in Client, NEW q \in Seq(Answered)
  PROVE  /\ Disown(c, q) \in Seq(Answered) /\ Len(Disown(c, q)) = Len(q)
         /\ DOMAIN Disown(c, q) = DOMAIN q
         /\ \A i \in DOMAIN q : /\ Disown(c, q)[i].from = q[i].from
                                /\ Disown(c, q)[i].id = q[i].id
                                /\ Disown(c, q)[i].own => q[i].own /\ key[q[i].from] # c
<1>1. Len(q) \in Nat /\ DOMAIN q = 1..Len(q) /\ \A i \in DOMAIN q : q[i] \in Answered
  OBVIOUS
<1>2. ASSUME NEW i \in DOMAIN q
      PROVE  /\ Disown(c, q)[i] \in Answered
             /\ Disown(c, q)[i].from = q[i].from /\ Disown(c, q)[i].id = q[i].id
             /\ Disown(c, q)[i].own => q[i].own /\ key[q[i].from] # c
  <2>1. PICK a \in Answered : a = q[i]
    BY <1>1
  <2>2. Disown(c, q)[i] = [a EXCEPT !.own = a.own /\ key[a.from] # c]
    BY <2>1 DEF Disown
  <2>3. a = [from |-> a.from, id |-> a.id, own |-> a.own]
        /\ a.from \in Socket /\ a.id \in Nat /\ a.own \in BOOLEAN
    BY DEF Answered
  <2>4. [a EXCEPT !.own = a.own /\ key[a.from] # c]
          = [from |-> a.from, id |-> a.id, own |-> a.own /\ key[a.from] # c]
    BY <2>3
  <2>5. /\ Disown(c, q)[i].from = a.from /\ Disown(c, q)[i].id = a.id
        /\ Disown(c, q)[i].own = (a.own /\ key[a.from] # c)
    BY <2>2, <2>4
  <2>6. Disown(c, q)[i] \in Answered
    BY <2>2, <2>3, <2>4 DEF Answered
  <2> QED BY <2>1, <2>5, <2>6
<1>3. DOMAIN Disown(c, q) = 1..Len(q)
  BY <1>1 DEF Disown
<1>4. Disown(c, q) \in [1..Len(q) -> Answered]
  BY <1>1, <1>2, <1>3 DEF Disown
<1> QED BY <1>1, <1>2, <1>3, <1>4, SeqDef, LenProperties

(* A reset takes from the answers of the client's connection what keeps them:  *)
(* those that are left belong to other clients, which nobody prepares.       *)
LEMMA ResetKeeps ==
  ASSUME Queues, Dispatching, OnTheirWay, OwnAnswers, NEW c \in Client, ResetSend(c),
         UNCHANGED <<key, mClientList, mSocket>>,
         \A d \in Client : d # c /\ InPreparation(d)' => InPreparation(d)
  PROVE  Queues' /\ Dispatching' /\ OnTheirWay' /\ OwnAnswers'
<1>1. /\ requests \in Seq(Answered) /\ wsaBuf \in Seq(Answered)
      /\ mSendQueue \in [Client -> Seq(Answered)] /\ mSendQueue[c] \in Seq(Answered)
  BY DEF Queues
<1>2. /\ requests' = Disown(c, requests) /\ wsaBuf' = Disown(c, wsaBuf)
      /\ mSendQueue' = [mSendQueue EXCEPT ![c] = Disown(c, mSendQueue[c])]
      /\ mSendContext' = [mSendContext EXCEPT ![c] = <<>>]
      /\ mSending' = [mSending EXCEPT ![c] = FALSE]
      /\ UNCHANGED <<asked, dpc, dcur, wire>>
  BY DEF ResetSend
<1>3. /\ mSendQueue' \in [Client -> Seq(Answered)]
      /\ Len(mSendQueue'[c]) = Len(mSendQueue[c])
      /\ \A d \in Client : d # c => mSendQueue'[d] = mSendQueue[d]
  BY <1>1, <1>2, Disowned
<1>4. Queues'
  <2>1. <<>> \in Seq(Answered) /\ Len(<<>>) = 0
    OBVIOUS
  <2>2. /\ \A d \in Client : mSendContext'[d] \in Seq(Answered) /\ Len(mSendContext'[d]) <= 1
        /\ DOMAIN mSendContext' = Client
    BY <1>2, <2>1 DEF Queues
  <2>3. requests' \in Seq(Answered) /\ wsaBuf' \in Seq(Answered)
    BY <1>1, <1>2, Disowned
  <2>4. mSending' \in [Client -> BOOLEAN]
    BY <1>2 DEF Queues
  <2> QED BY <1>2, <1>3, <2>2, <2>3, <2>4 DEF Queues
<1>5. Dispatching'
  <2>1. \A q \in Seq(Answered) : Disown(c, q) = <<>> <=> q = <<>>
    BY Disowned, EmptySeq
  <2>2. wsaBuf' = <<>> <=> wsaBuf = <<>>
    BY <1>1, <1>2, <2>1
  <2>3. \A d \in Client : mSendQueue'[d] = <<>> <=> mSendQueue[d] = <<>>
    BY <1>1, <1>2, <1>3, <2>1
  <2> QED BY <1>2, <2>2, <2>3 DEF Dispatching
<1>6. ASSUME NEW a, NEW b, NEW d \in Client, Kept(a, d), b.from = a.from,
             b.own => a.own /\ key[a.from] # c
      PROVE  Kept(b, d)'
  BY <1>6 DEF Kept
<1>7. ASSUME NEW q \in Seq(Answered), NEW d \in Client, \A i \in DOMAIN q : Kept(q[i], d),
             NEW p, p = Disown(c, q), NEW i \in DOMAIN p
      PROVE  Kept(p[i], d)'
  BY <1>6, <1>7, Disowned
<1>8. ASSUME NEW i \in DOMAIN requests' PROVE Found(requests[i])'
  <2>1. PICK a, b : a = requests[i] /\ b = requests'[i]
    OBVIOUS
  <2>2. /\ Found(a) /\ b.from = a.from /\ b.id = a.id
        /\ b.own => a.own /\ key[a.from] # c
    BY <1>1, <1>2, <1>8, <2>1, Disowned DEF OnTheirWay
  <2>3. ASSUME b.own
        PROVE  /\ key'[b.from] \in Client /\ Kept(b, key[b.from])'
               /\ b.id + 1 \in DOMAIN mClientList'
               /\ mClientList'[b.id + 1] = key'[b.from]
    BY <1>6, <2>2, <2>3 DEF Found
  <2>4. requests[i]' = b
    BY <2>1
  <2> QED BY <2>3, <2>4 DEF Found
<1>9. ASSUME NEW i \in DOMAIN wsaBuf' PROVE Kept(wsaBuf[i], dcur)'
  <2>1. wsaBuf # <<>>
    BY <1>1, <1>2, <1>9, Disowned
  <2>2. dcur \in Client
    BY <2>1 DEF Dispatching
  <2>3. PICK d \in Client : d = dcur
    BY <2>2
  <2>4. \A j \in DOMAIN wsaBuf : Kept(wsaBuf[j], d)
    BY <2>3 DEF OnTheirWay
  <2>5. PICK p : p = wsaBuf'
    OBVIOUS
  <2>6. Kept(p[i], d)'
    BY <1>1, <1>2, <1>7, <1>9, <2>4, <2>5
  <2> QED BY <1>2, <2>3, <2>5, <2>6 DEF Kept
<1>10. ASSUME NEW d \in Client, NEW i \in DOMAIN mSendQueue'[d]
       PROVE  Kept(mSendQueue[d][i], d)'
  <2>1. \A j \in DOMAIN mSendQueue[d] : Kept(mSendQueue[d][j], d)
    BY DEF OnTheirWay
  <2>2. PICK p : p = mSendQueue'[d]
    OBVIOUS
  <2>3. Kept(p[i], d)'
    <3>1. CASE d = c
      <4>1. p = Disown(c, mSendQueue[c])
        BY <1>1, <1>2, <2>2, <3>1
      <4> QED BY <1>1, <1>7, <1>10, <2>1, <2>2, <3>1, <4>1
    <3>2. CASE d # c
      <4>1. p = mSendQueue[d] /\ Kept(p[i], d)
        BY <1>3, <1>10, <2>1, <2>2, <3>2
      <4> QED BY <3>2, <4>1 DEF Kept
    <3> QED BY <3>1, <3>2
  <2> QED BY <2>2, <2>3 DEF Kept
<1>11. ASSUME NEW d \in Client, NEW i \in DOMAIN mSendContext'[d]
       PROVE  Kept(mSendContext[d][i], d)'
  <2>1. d # c /\ mSendContext'[d] = mSendContext[d]
    BY <1>2, <1>11 DEF Queues
  <2>2. Kept(mSendContext[d][i], d)
    BY <1>11, <2>1 DEF OnTheirWay
  <2> QED BY <2>1, <2>2 DEF Kept
<1>12. OnTheirWay'
  BY <1>8, <1>9, <1>10, <1>11 DEF OnTheirWay
<1>13. OwnAnswers'
  BY <1>2 DEF OwnAnswers
<1> QED BY <1>4, <1>5, <1>12, <1>13

LEMMA NothingSent ==
  ASSUME Queues, Dispatching, OnTheirWay, OwnAnswers, Steady, Undisturbed,
         UNCHANGED answerVars
  PROVE  Queues' /\ Dispatching' /\ OnTheirWay' /\ OwnAnswers'
<1> USE DEF answerVars, dispatchVars, clientSendVars
<1>1. Queues' /\ Dispatching' /\ OwnAnswers'
  BY DEF Queues, Dispatching, OwnAnswers
<1>2. \A i \in DOMAIN requests : Found(requests[i])'
  BY AnswersStay DEF Queues, OnTheirWay
<1>3. \A i \in DOMAIN wsaBuf : Kept(wsaBuf[i], dcur)'
  <2>1. CASE wsaBuf = <<>>
    BY <2>1
  <2>2. CASE wsaBuf # <<>>
    <3>1. PICK d \in Client : d = dcur
      BY <2>2 DEF Dispatching
    <3>2. \A i \in DOMAIN wsaBuf : Kept(wsaBuf[i], d)'
      BY <3>1, AnswersStay DEF Queues, OnTheirWay
    <3> QED BY <3>1, <3>2 DEF Kept
  <2> QED BY <2>1, <2>2
<1>4. \A c \in Client : /\ \A i \in DOMAIN mSendQueue[c] : Kept(mSendQueue[c][i], c)'
                        /\ \A i \in DOMAIN mSendContext[c] : Kept(mSendContext[c][i], c)'
  BY AnswersStay DEF Queues, OnTheirWay
<1>5. OnTheirWay'
  BY <1>2, <1>3, <1>4 DEF OnTheirWay, Found, Kept
<1> QED BY <1>1, <1>5

LEMMA TableOrderly ==
  ASSUME SessionInv, ~acceptFailed /\ ~crossed => Orderly, TableStep,
         ~acceptFailed', ~crossed'
  PROVE  Orderly'
<1> USE DEF tableVars, clientVars, ioVars, acceptVars, histVars, threadVars
<1>1. acceptFailed => acceptFailed'
  BY DEF TableStep, Accept, Remove, CompleteAccept, PeerClose, TakeAccept, ChooseClient,
         PrepareClient, ClearClient, InitClient,
         SetSocket, PostReceive, SetSessionID, PushBack, PostAccept, TakeAcceptError,
         TakeFailedRecv, TakeFailedSend, FindClient, CloseSocket, InvalidateSocket,
         ResetClient, PoolClient
<1>2. crossed => crossed'
  BY DEF TableStep, Accept, Remove, CompleteAccept, PeerClose, TakeAccept, ChooseClient,
         PrepareClient, ClearClient, InitClient,
         SetSocket, PostReceive, SetSessionID, PushBack, PostAccept, TakeAcceptError,
         TakeFailedRecv, TakeFailedSend, NoteFailure, FindClient, CloseSocket,
         InvalidateSocket, ResetClient, PoolClient
<1>3. Orderly
  BY <1>1, <1>2
<1>4. CASE \E s \in Socket : (\E ok \in BOOLEAN : CompleteAccept(s, ok)) \/ PeerClose(s)
  BY <1>3, <1>4, OutsideOrderly
<1>5. ASSUME NEW w \in Worker, Accept(w) \/ Remove(w) PROVE Orderly'
  BY <1>3, <1>5, AcceptOrderly, RemoveOrderly
<1> QED BY <1>4, <1>5 DEF TableStep

(* The steps of SessionTable, with what they do to the answers. *)
AnswersReset(w) ==
  (ClearClient(w) \/ InitClient(w) \/ ResetClient(w)) /\ ResetSend(cur[w])

LEMMA TableAnswers ==
  ASSUME AnswersInv, TableStep,
         \/ (\E w \in Worker : AnswersReset(w))
         \/ (UNCHANGED answerVars /\ \A w \in Worker : ~ClearClient(w))
  PROVE  AnswersInv'
<1>1. /\ SessionInv /\ Tied /\ Handlers /\ Ties
      /\ Queues /\ Dispatching /\ OnTheirWay /\ OwnAnswers
      /\ ~acceptFailed /\ ~crossed => Orderly
  BY DEF AnswersInv
<1>2. Next
  BY TableStepIsNext
<1>3. SessionInv' /\ Tied' /\ Handlers' /\ Ties'
  BY <1>1, <1>2, NextSession, NextTies, TableTied, TableHandlers
<1>4. ~acceptFailed' /\ ~crossed' => Orderly'
  BY <1>1, TableOrderly
<1>5. Queues' /\ Dispatching' /\ OnTheirWay' /\ OwnAnswers'
  <2>1. ASSUME NEW w \in Worker, AnswersReset(w)
        PROVE  Queues' /\ Dispatching' /\ OnTheirWay' /\ OwnAnswers'
    <3>1. /\ cur[w] \in Client /\ pc \in [Worker -> Steps]
      BY <1>1, <2>1, Known DEF AnswersReset, ClearClient, InitClient, ResetClient, Holding
    <3>2. UNCHANGED <<key, mClientList, mSocket, cur>>
      BY <2>1 DEF AnswersReset, ClearClient, InitClient, ResetClient, tableVars, ioVars
    <3>3. \A v \in Worker : v # w => pc'[v] = pc[v]
      BY <2>1, <3>1 DEF AnswersReset, ClearClient, InitClient, ResetClient, Goto
    <3>4. \A d \in Client : d # cur[w] /\ InPreparation(d)' => InPreparation(d)
      BY <3>2, <3>3 DEF InPreparation
    <3> QED BY <1>1, <2>1, <3>1, <3>2, <3>4, ResetKeeps DEF AnswersReset
  <2>2. ASSUME UNCHANGED answerVars, \A w \in Worker : ~ClearClient(w)
        PROVE  Queues' /\ Dispatching' /\ OnTheirWay' /\ OwnAnswers'
    BY <1>1, <1>2, <2>2, NextSteady, NextUndisturbed, NothingSent
  <2> QED BY <2>1, <2>2
<1> QED BY <1>3, <1>4, <1>5 DEF AnswersInv

-----------------------------------------------------------------------------
(* The steps of Answers *)

(* They leave the table, the clients and what the sockets are tied to, and the *)
(* worker that moves is not at a step of SessionTable.                       *)
Quiet == {"idle"} \cup HandleSteps
Leaves ==
  /\ UNCHANGED <<tableOnly, clientVars, key>>
  /\ recv' \in [Socket -> IOState] /\ send' \in [Socket -> IOState] /\ Tied'
  /\ pc' \in [Worker -> Steps] /\ cur' \in [Worker -> Client \cup {None}]
  /\ acc' \in [Worker -> Sockets]
  /\ \A w \in Worker : \/ pc'[w] = pc[w] /\ cur'[w] = cur[w] /\ acc'[w] = acc[w]
                       \/ pc[w] \in Quiet /\ pc'[w] \in Quiet

LEMMA LeavesSession ==
  ASSUME SessionInv, Leaves
  PROVE  SessionInv'
<1> USE DEF tableOnly, tableVars, clientVars, acceptVars, histVars
<1>1. Base /\ OneStep /\ ListedNext /\ RegisteredUnderItsID
  BY DEF SessionInv
<1>2. UNCHANGED <<made, unused, open, mClientList, mClientPool, mSessionID, mIsConnected,
                  mSocket, key, accepting, accepted, acceptFailed, gone, crossed>>
  BY DEF Leaves
<1>3. \A w \in Worker :
        /\ pc'[w] \in AcceptSteps \cup RemoveSteps \/ pc[w] \in AcceptSteps \cup RemoveSteps
           => pc'[w] = pc[w] /\ cur'[w] = cur[w]
  BY DEF Leaves, Quiet, AcceptSteps, RemoveSteps, HandleSteps
<1>4. Base'
  <2>1. Objects' /\ Links' /\ Threads'
    BY <1>1, <1>2 DEF Leaves, Base, Objects, Links, Threads
  <2>2. Table'
    BY <1>1, <1>2, <1>3, TableStays DEF Base, Table, AcceptSteps
  <2>3. Held'
    BY <1>1, <1>2, <1>3 DEF Base, Held, Holding, AcceptSteps, RemoveSteps
  <2> QED BY <2>1, <2>2, <2>3 DEF Base
<1>5. OneStep'
  BY <1>1, <1>2, <1>3 DEF OneStep, Handling
<1>6. \A w \in Worker : /\ pc'[w] = "list" <=> pc[w] = "list"
                        /\ pc[w] = "list" => cur'[w] = cur[w]
  BY <1>3 DEF AcceptSteps
<1>7. ListedNext' /\ RegisteredUnderItsID'
  BY <1>1, <1>2, <1>6 DEF ListedNext, RegisteredUnderItsID
<1> QED BY <1>4, <1>5, <1>7 DEF SessionInv

LEMMA LeavesOrderly ==
  ASSUME Orderly, Leaves
  PROVE  Orderly'
<1> USE DEF tableOnly, tableVars, clientVars, acceptVars, histVars
<1>1. UNCHANGED <<made, unused, mClientList, mClientPool, mSessionID, mSocket, key,
                  accepting, accepted, gone>>
  BY DEF Leaves
<1>2. \A w \in Worker :
        /\ pc'[w] \in AcceptSteps \cup RemoveSteps \/ pc[w] \in AcceptSteps \cup RemoveSteps
           => pc'[w] = pc[w] /\ cur'[w] = cur[w] /\ acc'[w] = acc[w]
  BY DEF Leaves, Quiet, AcceptSteps, RemoveSteps, HandleSteps
<1>3. /\ \A s : (Live(s)' <=> Live(s)) /\ (Fresh(s)' <=> Fresh(s))
      /\ \A w \in Worker : \A c : Removing(w, c)' <=> Removing(w, c)
  BY <1>1, <1>2 DEF Live, Fresh, Removing
<1>4. \A c : /\ (Free(c)' <=> Free(c)) /\ (Alone(c)' <=> Alone(c))
             /\ (ListedAt(c)' <=> ListedAt(c)) /\ (BeingListed(c)' <=> BeingListed(c))
  BY <1>1, <1>2, <1>3 DEF Free, Alone, ListedAt, BeingListed, AcceptSteps
<1>5. FreshSockets'
  BY <1>1, <1>2, <1>3 DEF Orderly, FreshSockets, AcceptSteps
<1>6. LiveOnes'
  <2>1. \A s \in Socket : recv'[s] # "none" \/ send'[s] = "failed" => key[s] # None
    BY <1>1 DEF Leaves, Tied
  <2> QED BY <1>1, <1>3, <1>4, <2>1 DEF Orderly, LiveOnes
<1>7. Pooled'
  BY <1>1, <1>4 DEF Orderly, Pooled, NoDup
<1>8. Removed'
  BY <1>1, <1>2, <1>3, <1>4 DEF Orderly, Removed
<1>9. Preparing'
  BY <1>1, <1>2, <1>4 DEF Orderly, Preparing, AcceptSteps
<1> QED BY <1>5, <1>6, <1>7, <1>8, <1>9 DEF Orderly

LEMMA LeavesPreparation ==
  ASSUME Leaves
  PROVE  \A c : InPreparation(c)' <=> InPreparation(c)
<1>1. \A w \in Worker : pc'[w] \in {"init", "socket"} \/ pc[w] \in {"init", "socket"}
        => pc'[w] = pc[w] /\ cur'[w] = cur[w]
  BY DEF Leaves, Quiet, HandleSteps
<1> QED BY <1>1 DEF InPreparation

LEMMA LeavesTies ==
  ASSUME Ties, SessionInv, Leaves
  PROVE  Ties' /\ Steady /\ Undisturbed
<1> USE DEF tableOnly, tableVars, clientVars, acceptVars, histVars
<1>1. UNCHANGED <<unused, mClientList, mSocket, key, accepting, accepted>>
  BY DEF Leaves
<1>2. \A w \in Worker : pc'[w] \in {"choose", "prepare", "init", "socket"}
        => pc'[w] = pc[w] /\ acc'[w] = acc[w]
  BY DEF Leaves, Quiet, HandleSteps
<1>3. Ties'
  BY <1>1, <1>2 DEF Ties, Unclaimed, Untied
<1>4. Undisturbed
  BY <1>1, LeavesPreparation DEF Undisturbed
<1> QED BY <1>1, <1>3, <1>4 DEF Steady

LEMMA LeavesKeeps ==
  ASSUME AnswersInv, Leaves, Handlers', Queues', Dispatching', OnTheirWay', OwnAnswers'
  PROVE  AnswersInv'
<1>1. SessionInv' /\ Ties'
  BY LeavesSession, LeavesTies DEF AnswersInv
<1>2. ~acceptFailed' /\ ~crossed' => Orderly'
  BY LeavesOrderly DEF AnswersInv, Leaves, tableOnly, acceptVars, histVars
<1> QED BY <1>1, <1>2 DEF AnswersInv, Leaves

(* What the steps below start from. *)
LEMMA AnswersKnown ==
  ASSUME AnswersInv
  PROVE  /\ SessionInv /\ Tied /\ Handlers /\ Ties /\ Queues /\ Dispatching
         /\ OnTheirWay /\ OwnAnswers
         /\ pc \in [Worker -> Steps] /\ cur \in [Worker -> Client \cup {None}]
         /\ acc \in [Worker -> Sockets] /\ mSocket \in [Client -> Sockets]
         /\ key \in [Socket -> Client \cup {None}]
         /\ recv \in [Socket -> IOState] /\ send \in [Socket -> IOState]
         /\ mClientList \in Seq(made) /\ made \subseteq Client
         /\ mSessionID \in [Client -> 0..Len(mClientList)]
BY Known DEF AnswersInv

LEMMA TakeRequestKeeps ==
  ASSUME AnswersInv, NEW w \in Worker, NEW s \in Socket, TakeRequest(w, s)
  PROVE  AnswersInv'
<1> USE DEF tableOnly, tableVars, clientVars, acceptVars, histVars, threadVars,
            dispatchVars, clientSendVars, answerVars
<1>0. /\ Tied /\ Handlers /\ Queues /\ Dispatching /\ OnTheirWay /\ OwnAnswers
      /\ pc \in [Worker -> Steps] /\ cur \in [Worker -> Client \cup {None}]
      /\ acc \in [Worker -> Sockets] /\ key \in [Socket -> Client \cup {None}]
      /\ recv \in [Socket -> IOState] /\ send \in [Socket -> IOState]
  BY AnswersKnown
<1>1. /\ pc[w] = "idle" /\ pc' = [pc EXCEPT ![w] = "push"] /\ recv[s] = "posted"
      /\ cur' = [cur EXCEPT ![w] = key[s]] /\ acc' = [acc EXCEPT ![w] = s]
      /\ recv' = [recv EXCEPT ![s] = "none"]
      /\ asked < MaxRequests /\ asked' = asked + 1
      /\ UNCHANGED <<tableOnly, clientVars, key, send, requests, dispatchVars,
                     clientSendVars, wire>>
  BY DEF TakeRequest, Goto
<1>2. key[s] # None
  BY <1>0, <1>1 DEF Tied
<1>3. Leaves
  <2>1. recv' \in [Socket -> IOState] /\ send' \in [Socket -> IOState] /\ Tied'
    BY <1>0, <1>1 DEF Tied, IOState
  <2>2. /\ pc' \in [Worker -> Steps] /\ cur' \in [Worker -> Client \cup {None}]
        /\ acc' \in [Worker -> Sockets]
    BY <1>0, <1>1 DEF Steps, HandleSteps, Sockets
  <2>3. \A v \in Worker : \/ pc'[v] = pc[v] /\ cur'[v] = cur[v] /\ acc'[v] = acc[v]
                          \/ pc[v] \in Quiet /\ pc'[v] \in Quiet
    BY <1>0, <1>1 DEF Quiet, HandleSteps
  <2> QED BY <1>1, <2>1, <2>2, <2>3 DEF Leaves
<1>4. Handlers'
  <2>1. pc'[w] = "push" /\ cur'[w] = key[s] /\ acc'[w] = s
    BY <1>0, <1>1
  <2>2. \A v \in Worker : v # w => pc'[v] = pc[v] /\ cur'[v] = cur[v] /\ acc'[v] = acc[v]
    BY <1>0, <1>1
  <2> QED BY <1>0, <1>1, <1>2, <2>1, <2>2 DEF Handlers
<1>5. Queues'
  BY <1>0, <1>1, AnswersAssumption DEF Queues
<1>p. \A d : InPreparation(d)' <=> InPreparation(d)
  BY <1>3, LeavesPreparation
<1>6. Dispatching' /\ OnTheirWay' /\ OwnAnswers'
  BY <1>0, <1>1, <1>p DEF Dispatching, OnTheirWay, Found, Kept, OwnAnswers
<1> QED BY <1>3, <1>4, <1>5, <1>6, LeavesKeeps

LEMMA PushPacketKeeps ==
  ASSUME AnswersInv, NEW w \in Worker, PushPacket(w)
  PROVE  AnswersInv'
<1> USE DEF tableOnly, tableVars, clientVars, ioVars, acceptVars, histVars, threadVars,
            dispatchVars, clientSendVars, answerVars
<1>0. /\ Tied /\ Handlers /\ Queues /\ Dispatching /\ OnTheirWay /\ OwnAnswers
      /\ pc \in [Worker -> Steps] /\ cur \in [Worker -> Client \cup {None}]
      /\ acc \in [Worker -> Sockets] /\ key \in [Socket -> Client \cup {None}]
      /\ recv \in [Socket -> IOState] /\ send \in [Socket -> IOState]
      /\ mClientList \in Seq(made) /\ mSessionID \in [Client -> 0..Len(mClientList)]
  BY AnswersKnown
<1> DEFINE c == cur[w]
           own == mSocket[c] = acc[w] /\ ~InPreparation(c)
                  /\ \E i \in DOMAIN mClientList :
                       mClientList[i] = c /\ mSessionID[c] = i - 1
           a == Answer(acc[w], mSessionID[c], own)
<1>1. /\ pc[w] = "push" /\ pc' = [pc EXCEPT ![w] = "again"]
      /\ requests' = Append(requests, a)
      /\ UNCHANGED <<tableOnly, clientVars, ioVars, cur, acc, asked, dispatchVars,
                     clientSendVars, wire>>
  BY DEF PushPacket, Goto
<1>2. acc[w] \in Socket /\ c = key[acc[w]] /\ c \in Client
  BY <1>0, <1>1 DEF Handlers, HandleSteps
<1>3. mSessionID[c] \in Nat
  BY <1>0, <1>2
<1>4. a \in Answered /\ a.from = acc[w] /\ a.id = mSessionID[c] /\ a.own = own
  <2>1. own \in BOOLEAN
    OBVIOUS
  <2> HIDE DEF own
  <2> QED BY <1>2, <1>3, <2>1 DEF Answer, Answered
<1>5. Found(a)
  <2>1. ASSUME own
        PROVE  /\ mSocket[c] = acc[w] /\ ~InPreparation(c)
               /\ mSessionID[c] + 1 \in DOMAIN mClientList
               /\ mClientList[mSessionID[c] + 1] = c
    <3>1. PICK i \in DOMAIN mClientList : mClientList[i] = c /\ mSessionID[c] = i - 1
      BY <2>1
    <3>2. i \in Nat
      BY <1>0
    <3>3. mSessionID[c] + 1 = i
      BY <3>1, <3>2
    <3> QED BY <2>1, <3>1, <3>3
  <2> HIDE DEF own, a, c
  <2> QED BY <1>2, <1>4, <2>1 DEF Found, Kept
<1> HIDE DEF a, own
<1>6. Leaves
  <2>1. pc' \in [Worker -> Steps]
    BY <1>0, <1>1 DEF Steps, HandleSteps
  <2>2. \A v \in Worker : \/ pc'[v] = pc[v] /\ cur'[v] = cur[v] /\ acc'[v] = acc[v]
                          \/ pc[v] \in Quiet /\ pc'[v] \in Quiet
    BY <1>0, <1>1 DEF Quiet, HandleSteps
  <2> QED BY <1>0, <1>1, <2>1, <2>2 DEF Leaves, Tied
<1>7. Handlers'
  BY <1>0, <1>1, <1>2 DEF Handlers, HandleSteps
<1>8. Queues' /\ Dispatching' /\ OwnAnswers'
  <2>1. requests' \in Seq(Answered)
    BY <1>0, <1>1, <1>4, AppendProperties DEF Queues
  <2> QED BY <1>0, <1>1, <2>1 DEF Queues, Dispatching, OwnAnswers
<1>p. \A d : InPreparation(d)' <=> InPreparation(d)
  BY <1>6, LeavesPreparation
<1>9. OnTheirWay'
  <2>1. \A i \in DOMAIN requests' : requests'[i] = a \/ (i \in DOMAIN requests
                                      /\ requests'[i] = requests[i])
    BY <1>0, <1>1, <1>4, AppendProperties DEF Queues
  <2>2. \A i \in DOMAIN requests' : Found(requests'[i])
    BY <1>0, <1>5, <2>1 DEF OnTheirWay
  <2> QED BY <1>0, <1>1, <1>p, <2>2 DEF OnTheirWay, Found, Kept
<1> QED BY <1>6, <1>7, <1>8, <1>9, LeavesKeeps

LEMMA ReceiveAgainKeeps ==
  ASSUME AnswersInv, NEW w \in Worker, ReceiveAgain(w)
  PROVE  AnswersInv'
<1> USE DEF tableOnly, tableVars, clientVars, acceptVars, histVars, threadVars,
            dispatchVars, clientSendVars, answerVars
<1>0. /\ Tied /\ Handlers /\ Queues /\ Dispatching /\ OnTheirWay /\ OwnAnswers
      /\ pc \in [Worker -> Steps] /\ cur \in [Worker -> Client \cup {None}]
      /\ acc \in [Worker -> Sockets] /\ key \in [Socket -> Client \cup {None}]
      /\ recv \in [Socket -> IOState] /\ send \in [Socket -> IOState]
  BY AnswersKnown
<1>1. /\ pc[w] = "again" /\ pc' = [pc EXCEPT ![w] = "idle"]
      /\ cur' = [cur EXCEPT ![w] = None] /\ acc' = [acc EXCEPT ![w] = None]
      /\ UNCHANGED <<tableOnly, clientVars, key, send, answerVars>>
  BY DEF ReceiveAgain, Finish, Goto
<1>2. recv' \in [Socket -> IOState] /\ \A s \in Socket : recv'[s] # "none" => key[s] # None
  <2>1. CASE UNCHANGED recv
    BY <1>0, <2>1 DEF Tied
  <2>2. CASE /\ key[mSocket[cur[w]]] # None
             /\ recv' = [recv EXCEPT ![mSocket[cur[w]]] = "posted"]
    BY <1>0, <2>2 DEF Tied, IOState
  <2> QED BY <2>1, <2>2 DEF ReceiveAgain
<1>3. Leaves
  <2>1. /\ pc' \in [Worker -> Steps] /\ cur' \in [Worker -> Client \cup {None}]
        /\ acc' \in [Worker -> Sockets]
    BY <1>0, <1>1 DEF Steps, Sockets
  <2>2. \A v \in Worker : \/ pc'[v] = pc[v] /\ cur'[v] = cur[v] /\ acc'[v] = acc[v]
                          \/ pc[v] \in Quiet /\ pc'[v] \in Quiet
    BY <1>0, <1>1 DEF Quiet, HandleSteps
  <2> QED BY <1>0, <1>1, <1>2, <2>1, <2>2 DEF Leaves, Tied
<1>4. Handlers'
  BY <1>0, <1>1 DEF Handlers, HandleSteps
<1>p. \A d : InPreparation(d)' <=> InPreparation(d)
  BY <1>3, LeavesPreparation
<1>5. Queues' /\ Dispatching' /\ OnTheirWay' /\ OwnAnswers'
  BY <1>0, <1>1, <1>p DEF Queues, Dispatching, OnTheirWay, Found, Kept, OwnAnswers
<1> QED BY <1>3, <1>4, <1>5, LeavesKeeps

LEMMA DispatcherLeaves ==
  ASSUME AnswersInv, UNCHANGED vars
  PROVE  Leaves /\ Handlers'
<1> USE DEF vars, tableOnly, tableVars, clientVars, ioVars, acceptVars, histVars, threadVars
<1>1. /\ Tied /\ Handlers
      /\ pc \in [Worker -> Steps] /\ cur \in [Worker -> Client \cup {None}]
      /\ acc \in [Worker -> Sockets]
      /\ recv \in [Socket -> IOState] /\ send \in [Socket -> IOState]
  BY AnswersKnown
<1> QED BY <1>1 DEF Leaves, Tied, Handlers

LEMMA DispatchKeeps ==
  ASSUME AnswersInv, Dispatch
  PROVE  AnswersInv'
<1> USE DEF dispatchVars, clientSendVars
<1>0. /\ Queues /\ Dispatching /\ OnTheirWay /\ OwnAnswers
      /\ mClientList \in Seq(made) /\ made \subseteq Client
  BY AnswersKnown
<1>1. Leaves /\ Handlers'
  BY DispatcherLeaves DEF Dispatch
<1> DEFINE a == Head(requests)
           c == mClientList[a.id + 1]
<1>2. /\ dpc = "idle" /\ requests # <<>> /\ requests' = Tail(requests)
      /\ UNCHANGED <<vars, asked, mSendQueue, mSending, mSendContext, wire>>
      /\ \/ /\ a.id < Len(mClientList)
            /\ dpc' = "enqueue" /\ dcur' = c /\ wsaBuf' = <<a>>
         \/ UNCHANGED <<dpc, dcur, wsaBuf>>
  BY DEF Dispatch
<1>3. /\ a \in Answered /\ a = requests[1] /\ 1 \in DOMAIN requests
      /\ requests' \in Seq(Answered)
      /\ \A i \in DOMAIN requests' : /\ i + 1 \in DOMAIN requests
                                     /\ requests'[i] = requests[i + 1]
  BY <1>0, <1>2, HeadTailProperties DEF Queues
<1>4. Found(a) /\ \A i \in DOMAIN requests' : Found(requests'[i])
  BY <1>0, <1>3 DEF OnTheirWay
<1>5. a.id < Len(mClientList) => c \in Client /\ Kept(a, c)
  <2> SUFFICES ASSUME a.id < Len(mClientList) PROVE c \in Client /\ Kept(a, c)
    OBVIOUS
  <2>1. a.id \in Nat /\ Len(mClientList) \in Nat
    BY <1>0, <1>3 DEF Answered
  <2>2. a.id + 1 \in 1..Len(mClientList)
    BY <2>1
  <2>3. c \in made
    BY <1>0, <2>2, ElementOfSeq
  <2>4. a.own => key[a.from] = c /\ Kept(a, key[a.from])
    BY <1>4 DEF Found
  <2> HIDE DEF a, c
  <2> QED BY <1>0, <2>3, <2>4 DEF Kept
<1> HIDE DEF a, c
<1>6. vars' = vars /\ key' = key /\ mSocket' = mSocket /\ mClientList' = mClientList
  BY <1>2 DEF vars, tableVars, clientVars, ioVars
<1>p. \A d : InPreparation(d)' <=> InPreparation(d)
  BY <1>1, LeavesPreparation
<1>7. \A i \in DOMAIN requests' : Found(requests[i])'
  BY <1>4, <1>6, <1>p DEF Found, Kept
<1>8. CASE a.id < Len(mClientList) /\ dpc' = "enqueue" /\ dcur' = c /\ wsaBuf' = <<a>>
  <2>1. wsaBuf' \in Seq(Answered) /\ wsaBuf' # <<>> /\ \A i \in DOMAIN wsaBuf' : wsaBuf'[i] = a
    BY <1>3, <1>8
  <2>2. Queues' /\ Dispatching' /\ OwnAnswers'
    BY <1>0, <1>2, <1>3, <1>5, <1>8, <2>1 DEF Queues, Dispatching, OwnAnswers
  <2>3. \A i \in DOMAIN wsaBuf' : Kept(wsaBuf[i], dcur)'
    BY <1>5, <1>6, <1>8, <1>p, <2>1 DEF Kept
  <2>4. OnTheirWay'
    BY <1>0, <1>2, <1>6, <1>7, <1>p, <2>3 DEF OnTheirWay, Kept
  <2> QED BY <1>1, <2>2, <2>4, LeavesKeeps
<1>9. CASE UNCHANGED <<dpc, dcur, wsaBuf>>
  <2>1. Queues' /\ Dispatching' /\ OwnAnswers'
    BY <1>0, <1>2, <1>3, <1>9 DEF Queues, Dispatching, OwnAnswers
  <2>2. OnTheirWay'
    BY <1>0, <1>2, <1>6, <1>7, <1>9, <1>p DEF OnTheirWay, Kept
  <2> QED BY <1>1, <2>1, <2>2, LeavesKeeps
<1> QED BY <1>2, <1>8, <1>9

LEMMA EnqueuePacketKeeps ==
  ASSUME AnswersInv, EnqueuePacket
  PROVE  AnswersInv'
<1>0. /\ Queues /\ Dispatching /\ OnTheirWay /\ OwnAnswers
  BY AnswersKnown
<1>1. Leaves /\ Handlers'
  BY DispatcherLeaves DEF EnqueuePacket
<1>2. PICK c \in Client : c = dcur
  BY <1>0 DEF EnqueuePacket, Dispatching
<1>3. /\ dpc = "enqueue" /\ wsaBuf # <<>> /\ wsaBuf' = <<>>
      /\ mSendQueue' = [mSendQueue EXCEPT ![c] = mSendQueue[c] \o wsaBuf]
      /\ mSending' = [mSending EXCEPT ![c] = TRUE]
      /\ \/ dpc' = "idle" /\ dcur' = None
         \/ dpc' = "fill" /\ dcur' = c
      /\ UNCHANGED <<vars, requests, asked, mSendContext, wire>>
  BY <1>0, <1>2 DEF EnqueuePacket, Dispatching
<1>4. /\ mSendQueue[c] \in Seq(Answered) /\ wsaBuf \in Seq(Answered)
      /\ mSendQueue \in [Client -> Seq(Answered)]
  BY <1>0 DEF Queues
<1> DEFINE q == mSendQueue[c] \o wsaBuf
<1>5. /\ q \in Seq(Answered) /\ q # <<>>
      /\ \A i \in DOMAIN q : \/ i \in DOMAIN mSendQueue[c] /\ q[i] = mSendQueue[c][i]
                             \/ \E j \in DOMAIN wsaBuf : q[i] = wsaBuf[j]
  <2>1. /\ q \in Seq(Answered) /\ Len(q) = Len(mSendQueue[c]) + Len(wsaBuf)
        /\ Len(mSendQueue[c]) \in Nat /\ Len(wsaBuf) \in Nat /\ Len(wsaBuf) # 0
        /\ DOMAIN q = 1..Len(q) /\ DOMAIN wsaBuf = 1..Len(wsaBuf)
        /\ DOMAIN mSendQueue[c] = 1..Len(mSendQueue[c])
    BY <1>3, <1>4, ConcatProperties, EmptySeq
  <2>2. ASSUME NEW i \in DOMAIN q
        PROVE  \/ i \in DOMAIN mSendQueue[c] /\ q[i] = mSendQueue[c][i]
               \/ \E j \in DOMAIN wsaBuf : q[i] = wsaBuf[j]
    <3>1. CASE i <= Len(mSendQueue[c])
      BY <1>4, <2>1, <3>1
    <3>2. CASE ~(i <= Len(mSendQueue[c]))
      <4>1. i - Len(mSendQueue[c]) \in DOMAIN wsaBuf
        BY <2>1, <3>2
      <4>2. q[i] = wsaBuf[i - Len(mSendQueue[c])]
        BY <1>4, <2>1, <3>2
      <4> QED BY <4>1, <4>2
    <3> QED BY <3>1, <3>2
  <2>3. q # <<>>
    <3>1. Len(q) # 0
      BY <2>1
    <3> QED BY <2>1, <3>1, EmptySeq
  <2> QED BY <2>1, <2>2, <2>3
<1>6. \A i \in DOMAIN q : Kept(q[i], c)
  BY <1>0, <1>2, <1>5 DEF OnTheirWay
<1>7. mSendQueue'[c] = q /\ \A d \in Client : d # c => mSendQueue'[d] = mSendQueue[d]
  BY <1>3, <1>4
<1> HIDE DEF q
<1>8. Queues' /\ Dispatching' /\ OwnAnswers'
  <2>1. mSendQueue' \in [Client -> Seq(Answered)]
    BY <1>3, <1>4, <1>5 DEF q
  <2>2. mSending' \in [Client -> BOOLEAN]
    BY <1>0, <1>3 DEF Queues
  <2>3. wsaBuf' \in Seq(Answered)
    BY <1>3
  <2>4. Queues'
    BY <1>0, <1>3, <2>1, <2>2, <2>3 DEF Queues
  <2> QED BY <1>0, <1>3, <1>5, <1>7, <2>4 DEF Dispatching, OwnAnswers
<1>p. \A d : InPreparation(d)' <=> InPreparation(d)
  BY <1>1, LeavesPreparation
<1>9. OnTheirWay'
  <2>1. key' = key /\ mSocket' = mSocket /\ mClientList' = mClientList
    BY <1>3 DEF vars, tableVars, clientVars, ioVars
  <2>2. \A i \in DOMAIN wsaBuf' : Kept(wsaBuf[i], dcur)'
    BY <1>3
  <2>3. \A d \in Client : \A i \in DOMAIN mSendQueue'[d] : Kept(mSendQueue'[d][i], d)
    BY <1>0, <1>6, <1>7 DEF OnTheirWay
  <2> QED BY <1>0, <1>3, <1>p, <2>1, <2>2, <2>3 DEF OnTheirWay, Found, Kept
<1> QED BY <1>1, <1>8, <1>9, LeavesKeeps

LEMMA FillContextKeeps ==
  ASSUME AnswersInv, FillContext
  PROVE  AnswersInv'
<1>0. /\ Queues /\ Dispatching /\ OnTheirWay /\ OwnAnswers
  BY AnswersKnown
<1>1. Leaves /\ Handlers'
  BY DispatcherLeaves DEF FillContext
<1>2. PICK c \in Client : c = dcur
  BY <1>0 DEF FillContext, Dispatching
<1>3. /\ dpc = "fill" /\ dpc' = "load" /\ wsaBuf = <<>> /\ mSendQueue[c] # <<>>
      /\ UNCHANGED <<vars, requests, asked, dcur, wsaBuf, mSending, wire>>
      /\ \/ UNCHANGED <<mSendQueue, mSendContext>>
         \/ /\ mSendContext' = [mSendContext EXCEPT ![c] = <<Head(mSendQueue[c])>>]
            /\ mSendQueue' = [mSendQueue EXCEPT ![c] = Tail(mSendQueue[c])]
  BY <1>0, <1>2 DEF FillContext, Dispatching
<1>4. key' = key /\ mSocket' = mSocket /\ mClientList' = mClientList
  BY <1>3 DEF vars, tableVars, clientVars, ioVars
<1>p. \A d : InPreparation(d)' <=> InPreparation(d)
  BY <1>1, LeavesPreparation
<1>5. CASE UNCHANGED <<mSendQueue, mSendContext>>
  <2>1. Queues' /\ Dispatching' /\ OwnAnswers'
    BY <1>0, <1>3, <1>5 DEF Queues, Dispatching, OwnAnswers
  <2>2. OnTheirWay'
    BY <1>0, <1>3, <1>4, <1>5, <1>p DEF OnTheirWay, Found, Kept
  <2> QED BY <1>1, <2>1, <2>2, LeavesKeeps
<1>6. CASE /\ mSendContext' = [mSendContext EXCEPT ![c] = <<Head(mSendQueue[c])>>]
           /\ mSendQueue' = [mSendQueue EXCEPT ![c] = Tail(mSendQueue[c])]
  <2>1. mSendQueue \in [Client -> Seq(Answered)] /\ mSendQueue[c] \in Seq(Answered)
        /\ DOMAIN mSendContext = Client
    BY <1>0 DEF Queues
  <2>2. PICK a : a = Head(mSendQueue[c])
    OBVIOUS
  <2>3. /\ a \in Answered /\ a = mSendQueue[c][1] /\ 1 \in DOMAIN mSendQueue[c]
        /\ Tail(mSendQueue[c]) \in Seq(Answered)
        /\ \A i \in DOMAIN Tail(mSendQueue[c]) :
             /\ i + 1 \in DOMAIN mSendQueue[c]
             /\ Tail(mSendQueue[c])[i] = mSendQueue[c][i + 1]
    BY <1>3, <2>1, <2>2, HeadTailProperties
  <2>4. /\ Kept(a, c)
        /\ \A i \in DOMAIN Tail(mSendQueue[c]) : Kept(Tail(mSendQueue[c])[i], c)
    BY <1>0, <2>3 DEF OnTheirWay
  <2>5. /\ mSendContext'[c] = <<a>> /\ mSendQueue'[c] = Tail(mSendQueue[c])
        /\ \A d \in Client : d # c => /\ mSendContext'[d] = mSendContext[d]
                                      /\ mSendQueue'[d] = mSendQueue[d]
    BY <1>6, <2>1, <2>2
  <2>6. <<a>> \in Seq(Answered) /\ Len(<<a>>) = 1 /\ \A i \in DOMAIN <<a>> : <<a>>[i] = a
    BY <2>3
  <2>7. Queues'
    <3>1. mSendQueue' \in [Client -> Seq(Answered)]
      BY <1>6, <2>1, <2>3
    <3>2. /\ \A d \in Client : mSendContext'[d] \in Seq(Answered)
                               /\ Len(mSendContext'[d]) <= 1
          /\ DOMAIN mSendContext' = Client
      BY <1>0, <1>6, <2>1, <2>5, <2>6 DEF Queues
    <3> QED BY <1>0, <1>3, <3>1, <3>2 DEF Queues
  <2>8. Dispatching' /\ OwnAnswers'
    BY <1>0, <1>3 DEF Dispatching, OwnAnswers
  <2>9. OnTheirWay'
    <3>1. \A d \in Client :
            /\ \A i \in DOMAIN mSendQueue'[d] : Kept(mSendQueue'[d][i], d)
            /\ \A i \in DOMAIN mSendContext'[d] : Kept(mSendContext'[d][i], d)
      BY <1>0, <2>4, <2>5, <2>6 DEF OnTheirWay
    <3> QED BY <1>0, <1>3, <1>4, <1>p, <3>1 DEF OnTheirWay, Found, Kept
  <2> QED BY <1>1, <2>7, <2>8, <2>9, LeavesKeeps
<1> QED BY <1>3, <1>5, <1>6

LEMMA LoadBufferKeeps ==
  ASSUME AnswersInv, LoadBuffer
  PROVE  AnswersInv'
<1>0. /\ Queues /\ Dispatching /\ OnTheirWay /\ OwnAnswers
  BY AnswersKnown
<1>1. Leaves /\ Handlers'
  BY DispatcherLeaves DEF LoadBuffer
<1>2. /\ dcur \in Client /\ wsaBuf' = mSendContext[dcur] /\ dpc' = "send"
      /\ UNCHANGED <<vars, requests, asked, dcur, mSendQueue, mSending, mSendContext, wire>>
  BY <1>0 DEF LoadBuffer, Dispatching, clientSendVars
<1>3. Queues' /\ Dispatching' /\ OwnAnswers'
  BY <1>0, <1>2 DEF Queues, Dispatching, OwnAnswers
<1>p. \A d : InPreparation(d)' <=> InPreparation(d)
  BY <1>1, LeavesPreparation
<1>4. OnTheirWay'
  <2>1. key' = key /\ mSocket' = mSocket /\ mClientList' = mClientList
    BY <1>2 DEF vars, tableVars, clientVars, ioVars
  <2>2. \A i \in DOMAIN wsaBuf' : Kept(wsaBuf'[i], dcur)
    BY <1>0, <1>2 DEF OnTheirWay
  <2> QED BY <1>0, <1>2, <1>p, <2>1, <2>2 DEF OnTheirWay, Found, Kept
<1> QED BY <1>1, <1>3, <1>4, LeavesKeeps

(* WSASend takes the answers of the client's own connection: the socket of an  *)
(* open one is that of the packets that have kept it.                       *)
LEMMA PostSendKeeps ==
  ASSUME AnswersInv, PostSend
  PROVE  AnswersInv'
<1> USE DEF tableOnly, tableVars, clientVars, acceptVars, histVars, threadVars
<1>0. /\ Tied /\ Handlers /\ Queues /\ Dispatching /\ OnTheirWay /\ OwnAnswers
      /\ pc \in [Worker -> Steps] /\ cur \in [Worker -> Client \cup {None}]
      /\ acc \in [Worker -> Sockets] /\ mSocket \in [Client -> Sockets]
      /\ recv \in [Socket -> IOState] /\ send \in [Socket -> IOState]
      /\ open \subseteq Socket
  BY AnswersKnown DEF SessionInv, Base, Objects
<1>1. PICK c \in Client, s \in Sockets : c = dcur /\ s = mSocket[c]
  BY <1>0 DEF PostSend, Dispatching
<1>2. /\ dpc' = "idle" /\ dcur' = None /\ wsaBuf' = <<>>
      /\ UNCHANGED <<tableOnly, clientVars, key, recv, threadVars, requests, asked,
                     mSendQueue, mSending, mSendContext>>
      /\ \/ /\ s \in open /\ wire' = [wire EXCEPT ![s] = wsaBuf]
            /\ \/ send' = [send EXCEPT ![s] = send[s]]
               \/ /\ key[s] # None
                  /\ \/ send' = [send EXCEPT ![s] = "failed"]
                     \/ send' = [send EXCEPT ![s] = "posted"]
         \/ UNCHANGED <<send, wire>>
  BY <1>1 DEF PostSend, clientSendVars
<1>3. send' \in [Socket -> IOState] /\ \A t \in Socket : send'[t] # "none" => key[t] # None
  BY <1>0, <1>2 DEF Tied, IOState
<1>4. Leaves
  BY <1>0, <1>2, <1>3 DEF Leaves, Tied
<1>5. Handlers'
  BY <1>0, <1>2 DEF Handlers
<1>6. Queues' /\ Dispatching'
  <2>1. /\ \A t \in Socket : wire'[t] \in Seq(Answered)
        /\ DOMAIN wire' = Socket
    BY <1>0, <1>2 DEF Queues
  <2>2. Queues'
    BY <1>0, <1>2, <2>1 DEF Queues
  <2> QED BY <1>2, <2>2 DEF Dispatching
<1>p. \A d : InPreparation(d)' <=> InPreparation(d)
  BY <1>4, LeavesPreparation
<1>7. OnTheirWay'
  BY <1>0, <1>2, <1>p DEF OnTheirWay, Found, Kept
<1>8. OwnAnswers'
  <2>1. CASE UNCHANGED wire
    BY <1>0, <2>1 DEF OwnAnswers
  <2>2. CASE s \in open /\ wire' = [wire EXCEPT ![s] = wsaBuf]
    <3>1. s \in Socket /\ s # None
      BY <1>0, <2>2, SessionAssumption
    <3>2. \A i \in DOMAIN wsaBuf : wsaBuf[i].own => wsaBuf[i].from = s
      BY <1>0, <1>1, <3>1 DEF OnTheirWay, Kept
    <3>3. wire'[s] = wsaBuf /\ \A t \in Socket : t # s => wire'[t] = wire[t]
      BY <1>0, <2>2, <3>1 DEF Queues
    <3> QED BY <1>0, <3>2, <3>3 DEF OwnAnswers
  <2> QED BY <1>2, <2>1, <2>2
<1> QED BY <1>4, <1>5, <1>6, <1>7, <1>8, LeavesKeeps

LEMMA AbortSendKeeps ==
  ASSUME AnswersInv, NEW s \in Socket, AbortSend(s)
  PROVE  AnswersInv'
<1> USE DEF tableOnly, tableVars, clientVars, acceptVars, histVars, threadVars
<1>0. /\ Tied /\ Handlers /\ Queues /\ Dispatching /\ OnTheirWay /\ OwnAnswers
      /\ pc \in [Worker -> Steps] /\ cur \in [Worker -> Client \cup {None}]
      /\ acc \in [Worker -> Sockets]
      /\ recv \in [Socket -> IOState] /\ send \in [Socket -> IOState]
  BY AnswersKnown
<1>1. /\ send[s] = "posted" /\ send' = [send EXCEPT ![s] = "failed"]
      /\ wire' = [wire EXCEPT ![s] = <<>>]
      /\ UNCHANGED <<tableOnly, clientVars, key, recv, threadVars, requests, asked,
                     dpc, dcur, wsaBuf, mSendQueue, mSending, mSendContext>>
  BY DEF AbortSend, dispatchVars, clientSendVars
<1>2. Leaves
  BY <1>0, <1>1 DEF Leaves, Tied, IOState
<1>p. \A d : InPreparation(d)' <=> InPreparation(d)
  BY <1>2, LeavesPreparation
<1>3. Handlers' /\ Dispatching' /\ OnTheirWay'
  BY <1>0, <1>1, <1>p DEF Handlers, Dispatching, OnTheirWay, Found, Kept
<1>4. Queues' /\ OwnAnswers'
  BY <1>0, <1>1 DEF Queues, OwnAnswers
<1> QED BY <1>2, <1>3, <1>4, LeavesKeeps

LEMMA TakeSentKeeps ==
  ASSUME AnswersInv, NEW w \in Worker, NEW s \in Socket, TakeSent(w, s)
  PROVE  AnswersInv'
<1> USE DEF tableOnly, tableVars, clientVars, acceptVars, histVars
<1>0. /\ Tied /\ Handlers /\ Queues /\ Dispatching /\ OnTheirWay /\ OwnAnswers
      /\ pc \in [Worker -> Steps] /\ cur \in [Worker -> Client \cup {None}]
      /\ acc \in [Worker -> Sockets] /\ key \in [Socket -> Client \cup {None}]
      /\ recv \in [Socket -> IOState] /\ send \in [Socket -> IOState]
  BY AnswersKnown
<1>1. /\ pc[w] = "idle" /\ pc' = [pc EXCEPT ![w] = "read"] /\ send[s] = "posted"
      /\ cur' = [cur EXCEPT ![w] = key[s]]
      /\ send' = [send EXCEPT ![s] = "none"] /\ wire' = [wire EXCEPT ![s] = <<>>]
      /\ UNCHANGED <<tableOnly, clientVars, key, recv, acc, requests, asked,
                     dpc, dcur, wsaBuf, mSendQueue, mSending, mSendContext>>
  BY DEF TakeSent, Goto, dispatchVars, clientSendVars
<1>2. key[s] \in Client
  BY <1>0, <1>1 DEF Tied
<1>3. Leaves
  <2>1. /\ pc' \in [Worker -> Steps] /\ cur' \in [Worker -> Client \cup {None}]
    BY <1>0, <1>1 DEF Steps, HandleSteps
  <2>2. \A v \in Worker : \/ pc'[v] = pc[v] /\ cur'[v] = cur[v] /\ acc'[v] = acc[v]
                          \/ pc[v] \in Quiet /\ pc'[v] \in Quiet
    BY <1>0, <1>1 DEF Quiet, HandleSteps
  <2>3. send' \in [Socket -> IOState] /\ Tied'
    BY <1>0, <1>1 DEF Tied, IOState
  <2> QED BY <1>0, <1>1, <2>1, <2>2, <2>3 DEF Leaves
<1>4. Handlers'
  BY <1>0, <1>1, <1>2 DEF Handlers
<1>p. \A d : InPreparation(d)' <=> InPreparation(d)
  BY <1>3, LeavesPreparation
<1>5. Dispatching' /\ OnTheirWay'
  BY <1>0, <1>1, <1>p DEF Dispatching, OnTheirWay, Found, Kept
<1>6. Queues' /\ OwnAnswers'
  BY <1>0, <1>1 DEF Queues, OwnAnswers
<1> QED BY <1>3, <1>4, <1>5, <1>6, LeavesKeeps

LEMMA SentKeeps ==
  ASSUME AnswersInv, NEW w \in Worker, ReadSent(w) \/ StoreSending(w)
  PROVE  AnswersInv'
<1> USE DEF tableOnly, tableVars, clientVars, ioVars, acceptVars, histVars
<1>0. /\ Tied /\ Handlers /\ Queues /\ Dispatching /\ OnTheirWay /\ OwnAnswers
      /\ pc \in [Worker -> Steps] /\ cur \in [Worker -> Client \cup {None}]
      /\ acc \in [Worker -> Sockets]
      /\ recv \in [Socket -> IOState] /\ send \in [Socket -> IOState]
  BY AnswersKnown
<1>1. PICK c \in Client : c = cur[w]
  BY <1>0 DEF ReadSent, StoreSending, Handlers, HandleSteps
<1>2. /\ pc[w] \in {"read", "unset"}
      /\ \/ pc' = [pc EXCEPT ![w] = "unset"] /\ cur' = cur
         \/ pc' = [pc EXCEPT ![w] = "idle"] /\ cur' = [cur EXCEPT ![w] = None]
      /\ \/ mSendContext' = [mSendContext EXCEPT ![c] = <<>>] /\ mSending' = mSending
         \/ mSending' = [mSending EXCEPT ![c] = FALSE] /\ mSendContext' = mSendContext
      /\ UNCHANGED <<tableOnly, clientVars, ioVars, acc, requests, asked, dpc, dcur,
                     wsaBuf, mSendQueue, wire>>
  <2>1. CASE ReadSent(w)
    <3>1. \/ pc' = [pc EXCEPT ![w] = "unset"] /\ cur' = cur
          \/ pc' = [pc EXCEPT ![w] = "idle"] /\ cur' = [cur EXCEPT ![w] = None]
      BY <2>1 DEF ReadSent, Goto, Finish
    <3> QED BY <1>1, <2>1, <3>1 DEF ReadSent, dispatchVars
  <2>2. CASE StoreSending(w)
    BY <1>1, <2>2 DEF StoreSending, Goto, Finish, dispatchVars
  <2> QED BY <2>1, <2>2
<1>3. Leaves
  <2>1. /\ pc' \in [Worker -> Steps] /\ cur' \in [Worker -> Client \cup {None}]
    BY <1>0, <1>2 DEF Steps, HandleSteps
  <2>2. \A v \in Worker : \/ pc'[v] = pc[v] /\ cur'[v] = cur[v] /\ acc'[v] = acc[v]
                          \/ pc[v] \in Quiet /\ pc'[v] \in Quiet
    BY <1>0, <1>2 DEF Quiet, HandleSteps
  <2> QED BY <1>0, <1>2, <2>1, <2>2 DEF Leaves, Tied
<1>4. Handlers'
  BY <1>0, <1>1, <1>2 DEF Handlers, HandleSteps
<1>5. /\ \A d \in Client : mSendContext'[d] = mSendContext[d] \/ mSendContext'[d] = <<>>
      /\ DOMAIN mSendContext' = Client /\ mSending' \in [Client -> BOOLEAN]
  BY <1>0, <1>2 DEF Queues
<1>6. Queues'
  <2>1. <<>> \in Seq(Answered) /\ Len(<<>>) = 0
    OBVIOUS
  <2>2. \A d \in Client : mSendContext'[d] \in Seq(Answered) /\ Len(mSendContext'[d]) <= 1
    <3>1. \A d \in Client : mSendContext[d] \in Seq(Answered) /\ Len(mSendContext[d]) <= 1
      BY <1>0 DEF Queues
    <3>2. 0 <= 1
      OBVIOUS
    <3> QED BY <1>5, <2>1, <3>1, <3>2
  <2>3. UNCHANGED <<requests, asked, mSendQueue, wire, wsaBuf>>
    BY <1>2
  <2> QED BY <1>0, <1>5, <2>2, <2>3 DEF Queues
<1>7. Dispatching' /\ OwnAnswers'
  BY <1>0, <1>2 DEF Dispatching, OwnAnswers
<1>p. \A d : InPreparation(d)' <=> InPreparation(d)
  BY <1>3, LeavesPreparation
<1>8. OnTheirWay'
  <2>1. \A d \in Client : \A i \in DOMAIN mSendContext'[d] : Kept(mSendContext'[d][i], d)
    BY <1>0, <1>5 DEF OnTheirWay
  <2> QED BY <1>0, <1>2, <1>p, <2>1 DEF OnTheirWay, Found, Kept
<1> QED BY <1>3, <1>4, <1>6, <1>7, <1>8, LeavesKeeps

LEMMA NextAnswers == AnswersInv /\ [ANext]_allVars => AnswersInv'
<1> SUFFICES ASSUME AnswersInv, [ANext]_allVars PROVE AnswersInv'
  OBVIOUS
<1>1. ASSUME NEW s \in Socket,
             (\E ok \in BOOLEAN : CompleteAccept(s, ok)) \/ PeerClose(s),
             UNCHANGED answerVars
      PROVE  AnswersInv'
  <2>1. \A w \in Worker : ~ClearClient(w)
    <3>1. UNCHANGED pc
      BY <1>1 DEF CompleteAccept, PeerClose, threadVars
    <3>2. pc \in [Worker -> Steps]
      BY AnswersKnown
    <3> QED BY <3>1, <3>2 DEF ClearClient, Goto
  <2> QED BY <1>1, <2>1, TableAnswers DEF TableStep
<1>2. ASSUME NEW w \in Worker, AAccept(w) \/ ARemove(w) PROVE AnswersInv'
  <2>1. TableStep
    BY <1>2 DEF AAccept, ARemove, Accept, PrepareClient, Remove, TableStep
  <2>2. ASSUME AnswersReset(w) PROVE AnswersInv'
    BY <2>1, <2>2, TableAnswers
  <2>3. ASSUME UNCHANGED answerVars,
               \/ \E a \in accepted : TakeAccept(w, a) \/ TakeAcceptError(w, a)
               \/ \E c \in Client : ChooseClient(w, c)
               \/ SetSocket(w) \/ PostReceive(w) \/ SetSessionID(w) \/ PushBack(w)
               \/ PostAccept(w)
               \/ \E s \in Socket : TakeFailedRecv(w, s) \/ TakeFailedSend(w, s)
               \/ FindClient(w) \/ CloseSocket(w) \/ InvalidateSocket(w) \/ PoolClient(w)
        PROVE  AnswersInv'
    <3>1. pc \in [Worker -> Steps]
      BY AnswersKnown
    <3>2. ASSUME NEW v \in Worker, ClearClient(v) PROVE FALSE
      <4>1. pc[v] = "prepare" /\ pc'[v] = "init"
        BY <3>1, <3>2 DEF ClearClient, Goto
      <4>2. pc[w] # "prepare" /\ (v = w => pc'[w] # "init")
        BY <2>3, <4>1 DEF TakeAccept, TakeAcceptError, ChooseClient, SetSocket, PostReceive,
             SetSessionID, PushBack, PostAccept, TakeFailedRecv, TakeFailedSend,
             FindClient, CloseSocket, InvalidateSocket, PoolClient
      <4>3. v # w => pc'[v] = pc[v]
        BY <1>2, <3>1, NextMoves DEF AAccept, ARemove, Accept, PrepareClient, Remove, AnswersInv
      <4> QED BY <4>1, <4>2, <4>3
    <3> QED BY <2>1, <2>3, <3>2, TableAnswers
  <2>4. AAccept(w) => \/ (ClearClient(w) \/ InitClient(w)) /\ ResetSend(cur[w])
                      \/ /\ UNCHANGED answerVars
                         /\ \/ \E a \in accepted : TakeAccept(w, a)
                            \/ \E c \in Client : ChooseClient(w, c)
                            \/ SetSocket(w) \/ PostReceive(w) \/ SetSessionID(w)
                            \/ PushBack(w) \/ PostAccept(w)
    BY DEF AAccept
  <2>5. ARemove(w) => \/ ResetClient(w) /\ ResetSend(cur[w])
                      \/ /\ UNCHANGED answerVars
                         /\ \/ \E a \in accepted : TakeAcceptError(w, a)
                            \/ \E s \in Socket : TakeFailedRecv(w, s) \/ TakeFailedSend(w, s)
                            \/ FindClient(w) \/ CloseSocket(w) \/ InvalidateSocket(w)
                            \/ PoolClient(w)
    BY DEF ARemove
  <2> QED BY <1>2, <2>2, <2>3, <2>4, <2>5 DEF AnswersReset
<1>3. ASSUME NEW w \in Worker, Handle(w) PROVE AnswersInv'
  BY <1>3, PushPacketKeeps, ReceiveAgainKeeps, SentKeeps DEF Handle
<1>4. CASE DispatchThread
  BY <1>4, DispatchKeeps, EnqueuePacketKeeps, FillContextKeeps, LoadBufferKeeps,
     PostSendKeeps DEF DispatchThread
<1>5. CASE UNCHANGED allVars
  <2>1. UNCHANGED vars /\ UNCHANGED answerVars
    BY <1>5 DEF allVars
  <2>2. Leaves /\ Handlers'
    BY <2>1, DispatcherLeaves
  <2>3. Steady /\ Undisturbed
    BY <2>2, AnswersKnown, LeavesTies
  <2> QED BY <2>1, <2>2, <2>3, AnswersKnown, NothingSent, LeavesKeeps
<1>6. ASSUME NEW s \in Socket, AbortSend(s) PROVE AnswersInv'
  BY <1>6, AbortSendKeeps
<1>7. ASSUME NEW w \in Worker, NEW s \in Socket, TakeRequest(w, s) \/ TakeSent(w, s)
      PROVE  AnswersInv'
  BY <1>7, TakeRequestKeeps, TakeSentKeeps
<1> QED BY <1>1, <1>2, <1>3, <1>4, <1>5, <1>6, <1>7 DEF ANext

LEMMA AnswersAlways == ASpec => []AnswersInv
BY InitAnswers, NextAnswers, PTL DEF ASpec

(* Types; and Send finds a packet in the queue it takes from, though clients   *)
(* are reset and used again under the dispatch thread.                      *)
THEOREM AnswersTyped == ASpec => []ATypeOK
<1>1. AnswersInv => ATypeOK
  BY DEF AnswersInv, Queues, Dispatching, ATypeOK
<1> QED BY <1>1, AnswersAlways, PTL

(* What goes out on a connection as the answer to one of its packets is that,  *)
(* however clients are removed, reset and given new connections meanwhile,    *)
(* and whether or not accepts fail or failures cross.                       *)
THEOREM AnswersGoHome == ASpec => []OwnAnswers
<1>1. AnswersInv => OwnAnswers
  BY DEF AnswersInv
<1> QED BY <1>1, AnswersAlways, PTL

(* As long as no accept fails and no failure crosses another, a worker that    *)
(* has handled a packet receives again on the packet's own connection, unless *)
(* that one has been removed.                                               *)
THEOREM ReceivesHome == ASpec => []ReceivesOnItsOwn
<1>1. AnswersInv => ReceivesOnItsOwn
  <2> SUFFICES ASSUME AnswersInv, ~acceptFailed, ~crossed, NEW w \in Worker,
                      pc[w] = "again"
               PROVE  mSocket[cur[w]] = acc[w] \/ acc[w] \in gone
    BY DEF ReceivesOnItsOwn
  <2>1. acc[w] \in Socket /\ cur[w] = key[acc[w]] /\ cur[w] # None
    BY SessionAssumption DEF AnswersInv, Handlers, HandleSteps
  <2>2. Live(acc[w]) => mSocket[key[acc[w]]] = acc[w]
    BY <2>1 DEF AnswersInv, Orderly, LiveOnes
  <2> QED BY <2>1, <2>2 DEF Live
<1> QED BY <1>1, AnswersAlways, PTL
=============================================================================
