------------------------------- MODULE Answers -------------------------------
(***************************************************************************)
(* Packets and their answers while connections come and go: SessionTable     *)
(* with _HandleReceive, the dispatch thread's PushSendPacket and Send, and   *)
(* _HandleSend, which find a client by its session ID or by its address and  *)
(* may do so after the client has been used again.                          *)
(*                                                                         *)
(* A receive brings one packet and a send takes one whole; ReceivePath and    *)
(* SendPath have the bytes.                                                *)
(***************************************************************************)
EXTENDS SessionTable

CONSTANT MaxRequests      \* bound: the packets the peers send

ASSUME AnswersAssumption == MaxRequests \in Nat

VARIABLES requests,       \* the dispatcher's two queues
          asked,          \* packets taken so far
          dpc, dcur,      \* the dispatch thread's step, the client it answers
          wsaBuf,         \* what its WSASend is about to send
          mSendQueue, mSending, mSendContext,   \* by client
          wire            \* by socket: the last WSASend's answer

dispatchVars == <<dpc, dcur, wsaBuf>>
clientSendVars == <<mSendQueue, mSending, mSendContext>>
answerVars == <<requests, asked, dispatchVars, clientSendVars, wire>>
tableOnly == <<made, unused, open, tableVars, acceptVars, histVars>>
allVars == <<vars, answerVars>>

(* An answer: the socket its packet came on and the session ID the packet    *)
(* got.  History: own until the client is reset with the answer on its way,  *)
(* or when the ID was no longer, or not yet, the connection's.              *)
Answer(s, i, o) == [from |-> s, id |-> i, own |-> o]

AInit ==
  /\ Init
  /\ requests = <<>> /\ asked = 0
  /\ dpc = "idle" /\ dcur = None /\ wsaBuf = <<>>
  /\ mSendQueue = [c \in Client |-> <<>>]
  /\ mSending = [c \in Client |-> TRUE]
  /\ mSendContext = [c \in Client |-> <<>>]
  /\ wire = [s \in Socket |-> <<>>]

-----------------------------------------------------------------------------
(* _HandleReceive *)

TakeRequest(w, s) ==
  /\ pc[w] = "idle" /\ recv[s] = "posted" /\ asked < MaxRequests
  /\ recv' = [recv EXCEPT ![s] = "none"]
  /\ cur' = [cur EXCEPT ![w] = key[s]] /\ acc' = [acc EXCEPT ![w] = s]
  /\ asked' = asked + 1
  /\ Goto(w, "push")
  /\ UNCHANGED <<tableOnly, clientVars, key, send, requests, dispatchVars,
                 clientSendVars, wire>>

(* An accept has reset the client and gives it a socket next. *)
InPreparation(c) == \E w \in Worker : pc[w] \in {"init", "socket"} /\ cur[w] = c

(* The packet gets the session ID its client has now. *)
PushPacket(w) ==
  LET c == cur[w]
      own == mSocket[c] = acc[w] /\ ~InPreparation(c)
             /\ \E i \in DOMAIN mClientList :
                  mClientList[i] = c /\ mSessionID[c] = i - 1 IN
  /\ pc[w] = "push"
  /\ requests' = Append(requests, Answer(acc[w], mSessionID[c], own))
  /\ Goto(w, "again")
  /\ UNCHANGED <<tableOnly, clientVars, ioVars, cur, acc, asked, dispatchVars,
                 clientSendVars, wire>>

(* Receive, on the socket the client has now.  If it fails, so be it.  A      *)
(* second receive on a socket is not counted.                              *)
ReceiveAgain(w) ==
  LET s == mSocket[cur[w]] IN
  /\ pc[w] = "again"
  /\ \/ s \in open /\ key[s] # None /\ recv' = [recv EXCEPT ![s] = "posted"]
     \/ UNCHANGED recv
  /\ Finish(w) /\ acc' = [acc EXCEPT ![w] = None]
  /\ UNCHANGED <<tableOnly, clientVars, key, send, answerVars>>

-----------------------------------------------------------------------------
(* The dispatch thread *)

(* Echo and PushSendPacket's tests. *)
Dispatch ==
  LET id == Head(requests).id
      c == mClientList[id + 1] IN
  /\ dpc = "idle" /\ requests # <<>>
  /\ IF id < Len(mClientList) /\ mIsConnected[c]
     THEN /\ dpc' = "enqueue" /\ dcur' = c
          /\ wsaBuf' = <<Head(requests)>>
     ELSE UNCHANGED dispatchVars
  /\ requests' = Tail(requests)
  /\ UNCHANGED <<vars, asked, clientSendVars, wire>>

(* EnqueuePacket, whose queue no other thread looks at, and the exchange.    *)
EnqueuePacket ==
  /\ dpc = "enqueue"
  /\ mSendQueue' = [mSendQueue EXCEPT ![dcur] = @ \o wsaBuf]
  /\ mSending' = [mSending EXCEPT ![dcur] = TRUE]
  /\ wsaBuf' = <<>>
  /\ IF mSending[dcur] THEN dpc' = "idle" /\ dcur' = None
     ELSE dpc' = "fill" /\ UNCHANGED dcur
  /\ UNCHANGED <<vars, requests, asked, mSendContext, wire>>

(* Mutant: Send does not test whether the context has data. *)
FillAlways ==
  /\ dpc = "fill"
  /\ mSendContext' = [mSendContext EXCEPT ![dcur] = Append(@, Head(mSendQueue[dcur]))]
  /\ mSendQueue' = [mSendQueue EXCEPT ![dcur] = Tail(@)]
  /\ dpc' = "load"
  /\ UNCHANGED <<vars, requests, asked, dcur, wsaBuf, mSending, wire>>

(* Send: an empty context takes the front of the queue. *)
FillContext ==
  /\ dpc = "fill"
  /\ IF mSendContext[dcur] # <<>>
     THEN UNCHANGED <<mSendQueue, mSendContext>>
     ELSE /\ mSendContext' = [mSendContext EXCEPT ![dcur] = <<Head(mSendQueue[dcur])>>]
          /\ mSendQueue' = [mSendQueue EXCEPT ![dcur] = Tail(@)]
  /\ dpc' = "load"
  /\ UNCHANGED <<vars, requests, asked, dcur, wsaBuf, mSending, wire>>

(* The buffer's address and length; a Reset may have emptied it.             *)
LoadBuffer ==
  /\ dpc = "load"
  /\ wsaBuf' = mSendContext[dcur] /\ dpc' = "send"
  /\ UNCHANGED <<vars, requests, asked, dcur, clientSendVars, wire>>

(* WSASend on the socket the client has now.  One of 0 bytes completes like   *)
(* a closed connection.  On a closed socket it fails, and mSending stays.    *)
(* A socket that is not tied to the port yet gives no completion.           *)
PostSend ==
  LET s == mSocket[dcur] IN
  /\ dpc = "send"
  /\ IF s \in open
     THEN /\ send' = [send EXCEPT ![s] = IF key[s] = None THEN @
                                         ELSE IF wsaBuf = <<>> THEN "failed"
                                         ELSE "posted"]
          /\ wire' = [wire EXCEPT ![s] = wsaBuf]
     ELSE UNCHANGED <<send, wire>>
  /\ dpc' = "idle" /\ dcur' = None /\ wsaBuf' = <<>>
  /\ UNCHANGED <<tableOnly, clientVars, key, recv, threadVars, requests, asked,
                 clientSendVars>>

DispatchThread == Dispatch \/ EnqueuePacket \/ FillContext \/ LoadBuffer \/ PostSend

-----------------------------------------------------------------------------
(* _HandleSend *)

(* The peer resets the connection, whether a receive is posted or not. *)
AbortSend(s) ==
  /\ send[s] = "posted"
  /\ send' = [send EXCEPT ![s] = "failed"] /\ wire' = [wire EXCEPT ![s] = <<>>]
  /\ UNCHANGED <<tableOnly, clientVars, key, recv, threadVars, requests, asked,
                 dispatchVars, clientSendVars>>

TakeSent(w, s) ==
  /\ pc[w] = "idle" /\ send[s] = "posted"
  /\ send' = [send EXCEPT ![s] = "none"] /\ wire' = [wire EXCEPT ![s] = <<>>]
  /\ cur' = [cur EXCEPT ![w] = key[s]]
  /\ Goto(w, "read")
  /\ UNCHANGED <<tableOnly, clientVars, key, recv, acc, requests, asked,
                 dispatchVars, clientSendVars>>

(* Read fails when a Reset has emptied the context. *)
ReadSent(w) ==
  LET c == cur[w] IN
  /\ pc[w] = "read"
  /\ mSendContext' = [mSendContext EXCEPT ![c] = <<>>]
  /\ IF mSendContext[c] = <<>> THEN Finish(w) ELSE Goto(w, "unset") /\ UNCHANGED cur
  /\ UNCHANGED <<tableOnly, clientVars, ioVars, acc, requests, asked,
                 dispatchVars, mSendQueue, mSending, wire>>

StoreSending(w) ==
  /\ pc[w] = "unset"
  /\ mSending' = [mSending EXCEPT ![cur[w]] = FALSE]
  /\ Finish(w)
  /\ UNCHANGED <<tableOnly, clientVars, ioVars, acc, requests, asked,
                 dispatchVars, mSendQueue, mSendContext, wire>>

-----------------------------------------------------------------------------
(* Reset, in the accept handler and in RemoveClient *)

(* What was on its way to an answer of c's connection is no longer its own.   *)
Disown(c, q) ==
  [i \in DOMAIN q |-> [q[i] EXCEPT !.own = @ /\ key[q[i].from] # c]]

(* Mutant: Reset leaves mSendContext alone. *)
ResetFlagOnly(c) ==
  /\ mSending' = [mSending EXCEPT ![c] = FALSE]
  /\ requests' = Disown(c, requests) /\ wsaBuf' = Disown(c, wsaBuf)
  /\ mSendQueue' = [mSendQueue EXCEPT ![c] = Disown(c, @)]
  /\ UNCHANGED <<asked, dpc, dcur, mSendContext, wire>>

(* mSendQueue keeps its packets. *)
ResetSend(c) ==
  /\ mSending' = [mSending EXCEPT ![c] = FALSE]
  /\ mSendContext' = [mSendContext EXCEPT ![c] = <<>>]
  /\ requests' = Disown(c, requests) /\ wsaBuf' = Disown(c, wsaBuf)
  /\ mSendQueue' = [mSendQueue EXCEPT ![c] = Disown(c, @)]
  /\ UNCHANGED <<asked, dpc, dcur, wire>>

AAccept(w) ==
  \/ (ClearClient(w) \/ InitClient(w)) /\ ResetSend(cur[w])
  \/ /\ \/ \E a \in accepted : TakeAccept(w, a)
        \/ \E c \in Client : ChooseClient(w, c)
        \/ SetSocket(w) \/ PostReceive(w) \/ SetSessionID(w) \/ PushBack(w)
        \/ PostAccept(w)
     /\ UNCHANGED answerVars

ARemove(w) ==
  \/ ResetClient(w) /\ ResetSend(cur[w])
  \/ /\ \/ \E a \in accepted : TakeAcceptError(w, a)
        \/ \E s \in Socket : TakeFailedRecv(w, s) \/ TakeFailedSend(w, s)
        \/ FindClient(w) \/ CloseSocket(w) \/ InvalidateSocket(w) \/ PoolClient(w)
     /\ UNCHANGED answerVars

Handle(w) == PushPacket(w) \/ ReceiveAgain(w) \/ ReadSent(w) \/ StoreSending(w)

ANext ==
  \/ \E s \in Socket : /\ (\E ok \in BOOLEAN : CompleteAccept(s, ok)) \/ PeerClose(s)
                       /\ UNCHANGED answerVars
  \/ \E s \in Socket : AbortSend(s)
  \/ \E w \in Worker, s \in Socket : TakeRequest(w, s) \/ TakeSent(w, s)
  \/ \E w \in Worker : AAccept(w) \/ ARemove(w) \/ Handle(w)
  \/ DispatchThread

ASpec == AInit /\ [][ANext]_allVars

(* Workers take completed accepts and failures and finish what they begin.   *)
AFairness ==
  \A w \in Worker : /\ WF_allVars(AAccept(w)) /\ WF_allVars(ARemove(w))
                    /\ WF_allVars(Handle(w))

AFairSpec == ASpec /\ AFairness

-----------------------------------------------------------------------------

Answered == [from : Socket, id : Nat, own : BOOLEAN]

(* Types; one packet at a time in a context, and the queue that Send takes    *)
(* from is not empty.                                                      *)
ATypeOK ==
  /\ requests \in Seq(Answered) /\ asked \in 0..MaxRequests
  /\ dpc \in {"idle", "enqueue", "fill", "load", "send"}
  /\ dcur \in Client \cup {None}
  /\ mSendQueue \in [Client -> Seq(Answered)]
  /\ dpc = "fill" => mSendQueue[dcur] # <<>>
  /\ mSending \in [Client -> BOOLEAN]
  /\ \A c \in Client : mSendContext[c] \in Seq(Answered) /\ Len(mSendContext[c]) <= 1
  /\ \A s \in Socket : wire[s] \in Seq(Answered)
  /\ wsaBuf \in Seq(Answered)

(* An answer goes out on the connection its packet came on, though it passes  *)
(* through a session ID and a client that is reset and used again: unless it *)
(* was waiting in the dispatcher, its thread or mSendQueue when the client   *)
(* was reset, or its ID was read too early or too late.                      *)
OwnAnswers ==
  \A s \in Socket : \A i \in DOMAIN wire[s] :
    wire[s][i].own => wire[s][i].from = s

(* A worker that has handled a packet posts the next receive on the packet's  *)
(* own connection, unless that connection has been removed.                 *)
ReceivesOnItsOwn ==
  ~acceptFailed /\ ~crossed =>
    \A w \in Worker : pc[w] = "again" =>
      mSocket[cur[w]] = acc[w] \/ acc[w] \in gone
=============================================================================
