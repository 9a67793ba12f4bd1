----------------------------- MODULE SessionTable -----------------------------
(***************************************************************************)
(* The connection life cycle of StudyServer: ListenClient::PostAccept,       *)
(* WorkerThread's dispatch of completions, _HandleAccept, AddClient,        *)
(* RemoveClient, NetworkClient::Close, Init and Reset, with mClientList and *)
(* mClientPool.                                                            *)
(*                                                                         *)
(* Workers run without a lock, so every step that reads or writes what      *)
(* another worker may touch is an action of its own.  A session ID is an    *)
(* index from 0; mClientList is a sequence from 1.                          *)
(***************************************************************************)
EXTENDS Integers, Sequences, FiniteSets, Functions

CONSTANTS Worker,       \* the I/O threads
          Client,       \* bound: the NetworkClient objects ever made
          Socket,       \* bound: the sockets ever made; none is used twice
          None          \* no client, no socket (INVALID_SOCKET)

ASSUME SessionAssumption == None \notin Client \cup Socket /\ Socket # {}

VARIABLES made, unused, open,      \* clients made, sockets not made, open
          mClientList, mClientPool,
          mSessionID, mIsConnected, mSocket,   \* by client
          key,          \* the client a socket's completions are for
          recv, send,   \* by socket: the WSARecv and the WSASend on it:
                        \* "none", "posted", or "failed": completed with an
                        \* error, or with 0 bytes, and not yet taken
          accepting,    \* the sockets of the outstanding AcceptEx calls
          accepted,     \* completions of AcceptEx: [sock, ok]
          acceptFailed, \* history: a step of accepting has failed
          gone, crossed,   \* history: the sockets whose failure was taken; a
                        \* failure was taken twice, or before the session ID
          pc, cur,      \* by worker: its step, the client it works on
          acc           \* by worker: the accepted socket it handles

tableVars == <<mClientList, mClientPool>>
clientVars == <<mSessionID, mIsConnected, mSocket>>
ioVars == <<key, recv, send>>
acceptVars == <<accepting, accepted, acceptFailed>>
histVars == <<gone, crossed>>
threadVars == <<pc, cur, acc>>
vars == <<made, unused, open, tableVars, clientVars, ioVars, acceptVars,
          histVars, threadVars>>

Goto(w, step) == pc' = [pc EXCEPT ![w] = step]
Finish(w) == Goto(w, "idle") /\ cur' = [cur EXCEPT ![w] = None]

(* Which object a new one is does not matter: it is the next one. *)
New(set) == CHOOSE x \in set : TRUE

(* AddListener's PostAccept has been done; the listener's session ID is 0.  *)
Init ==
  /\ made = {}
  /\ open = {New(Socket)} /\ unused = Socket \ open /\ accepting = open
  /\ mClientList = <<>> /\ mClientPool = <<>>
  /\ mSessionID = [c \in Client |-> 0]
  /\ mIsConnected = [c \in Client |-> FALSE]
  /\ mSocket = [c \in Client |-> None]
  /\ key = [s \in Socket |-> None]
  /\ recv = [s \in Socket |-> "none"] /\ send = [s \in Socket |-> "none"]
  /\ accepted = {} /\ acceptFailed = FALSE
  /\ gone = {} /\ crossed = FALSE
  /\ pc = [w \in Worker |-> "idle"]
  /\ cur = [w \in Worker |-> None] /\ acc = [w \in Worker |-> None]

-----------------------------------------------------------------------------
(* Peers and the kernel *)

(* An AcceptEx completes: a peer has connected, or it failed. *)
CompleteAccept(s, ok) ==
  /\ s \in accepting
  /\ accepting' = accepting \ {s}
  /\ accepted' = accepted \cup {[sock |-> s, ok |-> ok]}
  /\ acceptFailed' = (acceptFailed \/ ~ok)
  /\ UNCHANGED <<made, unused, tableVars, clientVars, ioVars, threadVars,
                open, histVars>>

(* The dispatch thread has a WSASend posted on a connected client's socket;  *)
(* or it completes, which changes nothing here.                            *)
ToggleSend(c) ==
  LET s == mSocket[c] IN
  /\ c \in Range(mClientList) /\ mIsConnected[c]
  /\ s \in open /\ send[s] # "failed"
  /\ send' = [send EXCEPT ![s] = IF @ = "none" THEN "posted" ELSE "none"]
  /\ UNCHANGED <<made, unused, tableVars, clientVars, key, recv, acceptVars,
                threadVars, open, histVars>>

(* The peer closes (the receive ends) or resets (the send fails as well).    *)
PeerClose(s) ==
  /\ recv[s] = "posted"
  /\ recv' = [recv EXCEPT ![s] = "failed"]
  /\ \/ UNCHANGED send
     \/ send[s] = "posted" /\ send' = [send EXCEPT ![s] = "failed"]
  /\ UNCHANGED <<made, unused, tableVars, clientVars, key, acceptVars,
                threadVars, open, histVars>>

-----------------------------------------------------------------------------
(* WorkerThread takes a completion *)

(* A new socket is made and AcceptEx posted with it. *)
MakeAccept ==
  LET s == New(unused) IN
  /\ unused # {} /\ unused' = unused \ {s}
  /\ open' = open \cup {s} /\ accepting' = accepting \cup {s}

(* Mutant of TakeAccept: the next accept is posted before this one is        *)
(* handled.                                                                *)
TakeAcceptEarly(w, a) ==
  /\ pc[w] = "idle" /\ a \in accepted /\ a.ok
  /\ accepted' = accepted \ {a}
  /\ acc' = [acc EXCEPT ![w] = a.sock]
  /\ Goto(w, "choose")
  /\ \/ MakeAccept
     \/ unused = {} /\ UNCHANGED <<unused, open, accepting>>
  /\ UNCHANGED <<made, tableVars, clientVars, ioVars, acceptFailed, cur,
                histVars>>

TakeAccept(w, a) ==
  /\ pc[w] = "idle" /\ a \in accepted /\ a.ok
  /\ accepted' = accepted \ {a}
  /\ acc' = [acc EXCEPT ![w] = a.sock]
  /\ \/ Goto(w, "choose") /\ UNCHANGED acceptFailed
     \/ Goto(w, "idle") /\ acceptFailed' = TRUE    \* ListenClient::Accept fails
  /\ UNCHANGED <<made, unused, tableVars, clientVars, ioVars, accepting, cur,
                open, histVars>>

(* A failed AcceptEx has the listener as its key: RemoveClient is called on  *)
(* it, with the listener's session ID 0, and no accept is posted again.     *)
TakeAcceptError(w, a) ==
  /\ pc[w] = "idle" /\ a \in accepted /\ ~a.ok
  /\ accepted' = accepted \ {a}
  /\ cur' = [cur EXCEPT ![w] = None]
  /\ Goto(w, "remove")
  /\ UNCHANGED <<made, unused, tableVars, clientVars, ioVars, accepting,
                acceptFailed, acc, open, histVars>>

(* History of a failed receive or send on a socket being taken. *)
NoteFailure(s) ==
  /\ gone' = gone \cup {s}
  /\ crossed' = \/ crossed \/ s \in gone
                \/ \E v \in Worker : cur[v] = key[s] /\ pc[v] \in {"setid", "list"}

TakeFailedRecv(w, s) ==
  /\ pc[w] = "idle" /\ recv[s] = "failed"
  /\ recv' = [recv EXCEPT ![s] = "none"]
  /\ cur' = [cur EXCEPT ![w] = key[s]]
  /\ NoteFailure(s)
  /\ Goto(w, "remove")
  /\ UNCHANGED <<made, unused, tableVars, clientVars, key, send, acceptVars,
                acc, open>>

TakeFailedSend(w, s) ==
  /\ pc[w] = "idle" /\ send[s] = "failed"
  /\ send' = [send EXCEPT ![s] = "none"]
  /\ cur' = [cur EXCEPT ![w] = key[s]]
  /\ NoteFailure(s)
  /\ Goto(w, "remove")
  /\ UNCHANGED <<made, unused, tableVars, clientVars, key, recv, acceptVars,
                acc, open>>

-----------------------------------------------------------------------------
(* _HandleAccept *)

NewClient(c) ==
  made # Client /\ c = New(Client \ made) /\ made' = made \cup {c}

(* A pooled client that was closed REUSE_SESSION_TIME seconds ago or less is  *)
(* used again; an older one goes back to the pool.                          *)
ChooseClient(w, c) ==
  /\ pc[w] = "choose"
  /\ \/ mClientPool = <<>> /\ NewClient(c) /\ UNCHANGED mClientPool
     \/ /\ mClientPool # <<>> /\ c = Head(mClientPool)
        /\ mClientPool' = Tail(mClientPool) /\ UNCHANGED made
     \/ /\ mClientPool # <<>> /\ NewClient(c)
        /\ mClientPool' = Append(Tail(mClientPool), Head(mClientPool))
  /\ cur' = [cur EXCEPT ![w] = c]
  /\ Goto(w, "prepare")
  /\ UNCHANGED <<unused, mClientList, clientVars, ioVars, acceptVars, acc,
                open, histVars>>

(* Reset: the client may still be one that others look up and write to.      *)
ClearClient(w) ==
  /\ pc[w] = "prepare"
  /\ mSessionID' = [mSessionID EXCEPT ![cur[w]] = 0]
  /\ mIsConnected' = [mIsConnected EXCEPT ![cur[w]] = FALSE]
  /\ Goto(w, "init")
  /\ UNCHANGED <<made, unused, tableVars, mSocket, ioVars, acceptVars, cur,
                acc, open, histVars>>

(* NetworkClient::Init resets it again; it is connected, with no socket yet.  *)
InitClient(w) ==
  /\ pc[w] = "init"
  /\ mSessionID' = [mSessionID EXCEPT ![cur[w]] = 0]
  /\ mIsConnected' = [mIsConnected EXCEPT ![cur[w]] = TRUE]
  /\ Goto(w, "socket")
  /\ UNCHANGED <<made, unused, tableVars, mSocket, ioVars, acceptVars, cur,
                acc, open, histVars>>

SetSocket(w) ==
  /\ pc[w] = "socket"
  /\ mSocket' = [mSocket EXCEPT ![cur[w]] = acc[w]]
  /\ acc' = [acc EXCEPT ![w] = None]
  /\ Goto(w, "receive")
  /\ UNCHANGED <<made, unused, tableVars, mSessionID, mIsConnected, ioVars,
                acceptVars, cur, open, histVars>>

PrepareClient(w) == ClearClient(w) \/ InitClient(w) \/ SetSocket(w)

(* AddClient ties the socket to the client and posts the first receive,      *)
(* before the client has its session ID.  It may fail, and does on a socket  *)
(* that a removal has closed meanwhile.                                     *)
PostReceive(w) ==
  LET s == mSocket[cur[w]] IN
  /\ pc[w] = "receive"
  /\ \/ /\ s \in open
        /\ key' = [key EXCEPT ![s] = cur[w]]
        /\ recv' = [recv EXCEPT ![s] = "posted"]
        /\ Goto(w, "setid") /\ UNCHANGED <<cur, acceptFailed>>
     \/ /\ Finish(w) /\ acceptFailed' = TRUE
        /\ UNCHANGED <<key, recv>>
  /\ UNCHANGED <<made, unused, tableVars, clientVars, send, accepting,
                accepted, acc, open, histVars>>

(* Mutants of SetSessionID: the index is one too high; a client that is used *)
(* again keeps the ID that Reset left it.                                   *)
SetNextID(w) ==
  /\ pc[w] = "setid"
  /\ mSessionID' = [mSessionID EXCEPT ![cur[w]] = Len(mClientList) + 1]
  /\ Goto(w, "list")
  /\ UNCHANGED <<made, unused, tableVars, mIsConnected, mSocket, ioVars,
                acceptVars, cur, acc, open, histVars>>

KeepID(w) ==
  /\ pc[w] = "setid"
  /\ mSessionID' = [mSessionID EXCEPT ![cur[w]] =
                      IF cur[w] \in Range(mClientList) THEN @ ELSE Len(mClientList)]
  /\ Goto(w, "list")
  /\ UNCHANGED <<made, unused, tableVars, mIsConnected, mSocket, ioVars,
                acceptVars, cur, acc, open, histVars>>

(* The test for a client "reused from the pool" wants a session ID above 0,  *)
(* which Reset has taken away: a reused client gets a new ID as well.        *)
SetSessionID(w) ==
  LET c == cur[w] IN
  /\ pc[w] = "setid"
  /\ IF mSessionID[c] > 0 /\ mSessionID[c] < Len(mClientList)
     THEN Goto(w, "repost") /\ UNCHANGED mSessionID
     ELSE /\ mSessionID' = [mSessionID EXCEPT ![c] = Len(mClientList)]
          /\ Goto(w, "list")
  /\ UNCHANGED <<made, unused, tableVars, mIsConnected, mSocket, ioVars,
                acceptVars, cur, acc, open, histVars>>

(* Mutant of PushBack: the handler ends without posting the next accept.     *)
PushBackOnly(w) ==
  /\ pc[w] = "list"
  /\ mClientList' = Append(mClientList, cur[w])
  /\ Finish(w)
  /\ UNCHANGED <<made, unused, mClientPool, clientVars, ioVars, acceptVars,
                acc, open, histVars>>

(* Mutant of PushBack: a listed client is in the pool as well. *)
PushBackAndPool(w) ==
  /\ pc[w] = "list"
  /\ mClientList' = Append(mClientList, cur[w])
  /\ mClientPool' = Append(mClientPool, cur[w])
  /\ Goto(w, "repost")
  /\ UNCHANGED <<made, unused, clientVars, ioVars, acceptVars, cur, acc, open,
                histVars>>

PushBack(w) ==
  /\ pc[w] = "list"
  /\ mClientList' = Append(mClientList, cur[w])
  /\ Goto(w, "repost")
  /\ UNCHANGED <<made, unused, mClientPool, clientVars, ioVars, acceptVars,
                cur, acc, open, histVars>>

(* PostAccept makes the next socket and posts AcceptEx with it, or fails.    *)
PostAccept(w) ==
  /\ pc[w] = "repost"
  /\ \/ MakeAccept /\ UNCHANGED acceptFailed
     \/ acceptFailed' = TRUE /\ UNCHANGED <<unused, open, accepting>>
  /\ Finish(w)
  /\ UNCHANGED <<made, tableVars, clientVars, ioVars, accepted, acc,
                histVars>>

-----------------------------------------------------------------------------
(* RemoveClient *)

(* The client that is removed is the one its session ID names now. *)
FindClient(w) ==
  LET id == IF cur[w] = None THEN 0 ELSE mSessionID[cur[w]] IN
  /\ pc[w] = "remove"
  /\ IF id < Len(mClientList)
     THEN cur' = [cur EXCEPT ![w] = mClientList[id + 1]] /\ Goto(w, "close")
     ELSE Finish(w)
  /\ UNCHANGED <<made, unused, tableVars, clientVars, ioVars, acceptVars, acc,
                open, histVars>>

(* Close ends the I/O on the socket the client has now. *)
CloseSocket(w) ==
  LET s == mSocket[cur[w]]
      Fail(io) == IF s = None \/ io[s] # "posted" THEN io
                  ELSE [io EXCEPT ![s] = "failed"] IN
  /\ pc[w] = "close"
  /\ recv' = Fail(recv) /\ send' = Fail(send)
  /\ open' = open \ {s}
  /\ Goto(w, "invalid")
  /\ UNCHANGED <<made, unused, tableVars, clientVars, key, acceptVars, cur,
                acc, histVars>>

InvalidateSocket(w) ==
  /\ pc[w] = "invalid"
  /\ mSocket' = [mSocket EXCEPT ![cur[w]] = None]
  /\ Goto(w, "reset")
  /\ UNCHANGED <<made, unused, tableVars, mSessionID, mIsConnected, ioVars,
                acceptVars, cur, acc, open, histVars>>

ResetClient(w) ==
  /\ pc[w] = "reset"
  /\ mIsConnected' = [mIsConnected EXCEPT ![cur[w]] = FALSE]
  /\ mSessionID' = [mSessionID EXCEPT ![cur[w]] = 0]
  /\ Goto(w, "pool")
  /\ UNCHANGED <<made, unused, tableVars, mSocket, ioVars, acceptVars, cur,
                acc, open, histVars>>

PoolClient(w) ==
  /\ pc[w] = "pool"
  /\ mClientPool' = Append(mClientPool, cur[w])
  /\ Finish(w)
  /\ UNCHANGED <<made, unused, mClientList, clientVars, ioVars, acceptVars,
                acc, open, histVars>>

-----------------------------------------------------------------------------

Accept(w) ==
  \/ \E a \in accepted : TakeAccept(w, a)
  \/ \E c \in Client : ChooseClient(w, c)
  \/ PrepareClient(w) \/ PostReceive(w) \/ SetSessionID(w) \/ PushBack(w)
  \/ PostAccept(w)

Remove(w) ==
  \/ \E a \in accepted : TakeAcceptError(w, a)
  \/ \E s \in Socket : TakeFailedRecv(w, s) \/ TakeFailedSend(w, s)
  \/ FindClient(w) \/ CloseSocket(w) \/ InvalidateSocket(w) \/ ResetClient(w)
  \/ PoolClient(w)

Next ==
  \/ \E s \in Socket : \/ \E ok \in BOOLEAN : CompleteAccept(s, ok)
                       \/ PeerClose(s)
  \/ \E c \in Client : ToggleSend(c)
  \/ \E w \in Worker : Accept(w) \/ Remove(w)

Spec == Init /\ [][Next]_vars

-----------------------------------------------------------------------------

AcceptSteps == {"choose", "prepare", "init", "socket", "receive", "setid",
                "list", "repost"}
RemoveSteps == {"remove", "close", "invalid", "reset", "pool"}

(* Types; and a session ID is an index of mClientList, or the one after the   *)
(* last until its client is listed: mClientList.at never throws.            *)
TypeOK ==
  /\ made \subseteq Client /\ unused \subseteq Socket /\ open \subseteq Socket
  /\ mClientList \in Seq(made) /\ mClientPool \in Seq(made)
  /\ mSessionID \in [Client -> 0..Len(mClientList)]
  /\ \A c \in Client : mSessionID[c] = Len(mClientList) /\ mClientList # <<>>
                         => \E w \in Worker : pc[w] = "list" /\ cur[w] = c
  /\ mIsConnected \in [Client -> BOOLEAN]
  /\ mSocket \in [Client -> Socket \cup {None}]
  /\ key \in [Socket -> Client \cup {None}]
  /\ recv \in [Socket -> {"none", "posted", "failed"}]
  /\ send \in [Socket -> {"none", "posted", "failed"}]
  /\ accepting \subseteq Socket
  /\ accepted \subseteq [sock : Socket, ok : BOOLEAN]
  /\ acceptFailed \in BOOLEAN /\ gone \subseteq Socket /\ crossed \in BOOLEAN
  /\ pc \in [Worker -> {"idle"} \cup AcceptSteps \cup RemoveSteps]
  /\ cur \in [Worker -> Client \cup {None}]
  /\ acc \in [Worker -> Socket \cup {None}]

(* Handling an accept, its completion and the next AcceptEx never overlap:    *)
(* the accept context is one buffer with one mSocket, and the ID a client    *)
(* gets is the length of a list only one worker makes longer.               *)
OneAccept ==
  Cardinality(accepting) + Cardinality(accepted)
    + Cardinality({w \in Worker : pc[w] \in AcceptSteps}) <= 1

(* However removals and reuse interleave with accepting, a connected client   *)
(* is in mClientList at its session ID: what is sent to the ID a packet came  *)
(* with goes to the client it came from.  (ID 0 is also that of no session.) *)
RegisteredUnderItsID ==
  \A c \in Client :
    /\ mIsConnected[c] /\ mSessionID[c] # 0
    /\ \A w \in Worker : ~(pc[w] = "list" /\ cur[w] = c)
    => /\ mSessionID[c] < Len(mClientList)
       /\ mClientList[mSessionID[c] + 1] = c

(* RemoveClient closes a connection that has failed, never one that still     *)
(* receives - unless an accept failed (RemoveClient is then called for        *)
(* session 0), or a failure was taken after the same connection's first, or  *)
(* before it had its ID: the ID the removal looks up is then not its own.    *)
ClosesTheFailed ==
  ~acceptFailed /\ ~crossed =>
    \A w \in Worker : pc[w] = "close" =>
      LET s == mSocket[cur[w]] IN s # None /\ recv[s] # "posted"

(* As long as no step of accepting fails, an accept is always posted again.   *)
AcceptRearmed == accepting = {} ~> (accepting # {} \/ acceptFailed)
=============================================================================
