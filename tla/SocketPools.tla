----------------------------- MODULE SocketPools -----------------------------
(***************************************************************************)
(* SBServer's IOCPHandler: the acceptor thread takes a client and a context  *)
(* from two pools of indices and posts the client's first receive; the I/O   *)
(* threads take what completes.                                            *)
(*                                                                         *)
(* A client knows its index, which is its place in mClients plus one; the    *)
(* acceptor uses the index as the place.  The index past the last place ends *)
(* the model (strayed): what follows is undefined.                         *)
(*                                                                         *)
(* NetworkContext has virtual functions and OVERLAPPED has none, so the base *)
(* lies behind the pointer to the virtual table.  The receive is posted with *)
(* the address of the base; IOThread casts it back with reinterpret_cast,    *)
(* which moves nothing, and looks for the type past the end of the object.   *)
(* What IOThread does with a receive, and with it PushPacket, the second     *)
(* Receive and the releases, is reached only through that test.            *)
(***************************************************************************)
EXTENDS Integers, Sequences, FiniteSets, Functions

CONSTANTS Clients,     \* 110: indices 1..Clients, places 0..Clients-1
          Contexts,    \* 1000: indices 0..Contexts-1
          MaxConn      \* bound: connections accepted, 1..MaxConn

ASSUME PoolsAssumption ==
  Clients \in Nat \ {0} /\ Contexts \in Nat /\ Contexts >= Clients /\ MaxConn \in Nat

VARIABLES mClientIndexPool, mNetworkContextIndexPool,
          mSocket,       \* by place: a connection, or 0 (INVALID_SOCKET)
          open,          \* the sockets that are not closed
          mContextType,  \* by context
          io,            \* WSARecv calls: [place, ctx, st], where st is "posted",
                         \* "done" or "failed" in the port, or "taken"
          apc, conn, clientIndex, contextIndex,    \* the acceptor thread
          made, strayed

poolVars == <<mClientIndexPool, mNetworkContextIndexPool>>
sockVars == <<mSocket, open>>
acceptVars == <<apc, conn, clientIndex, contextIndex, made, strayed>>
vars == <<poolVars, sockVars, mContextType, io, acceptVars>>

Place == 0..Clients-1
Ctx == 0..Contexts-1
States == {"posted", "done", "failed", "taken"}
Call(p, k, st) == [place |-> p, ctx |-> k, st |-> st]

Init ==
  /\ mClientIndexPool = [i \in 1..Clients |-> i]
  /\ mNetworkContextIndexPool = [i \in 1..Contexts |-> i - 1]
  /\ mSocket = [p \in Place |-> 0] /\ open = {}
  /\ mContextType = [k \in Ctx |-> "NONE"]
  /\ io = {}
  /\ apc = "accept" /\ conn = 0 /\ clientIndex = 0 /\ contextIndex = 0
  /\ made = 0 /\ strayed = FALSE

-----------------------------------------------------------------------------
(* mNetworkContexts in memory, in words: a context is its virtual table's     *)
(* pointer, the four words of OVERLAPPED, Index, mBuffer and mContextType.   *)

ContextSize == 8
TypeOffset == 7

(* Mutant of OverlappedOf: the context's own address is passed. *)
ContextOf(k) == k * ContextSize

(* (LPWSAOVERLAPPED)&context, the address of the base. *)
OverlappedOf(k) == k * ContextSize + 1

(* The word at an address, as far as the type test tells it.                 *)
WordAt(a) ==
  LET k == a \div ContextSize IN
  IF k \notin Ctx THEN "beyond"
  ELSE IF a % ContextSize = 0 THEN "table"
  ELSE IF a % ContextSize = TypeOffset THEN mContextType[k]
  ELSE "other"

(* reinterpret_cast<NetworkContext*>(overlapped)->GetContextType()           *)
GetContextType(overlapped) == WordAt(overlapped + TypeOffset)

-----------------------------------------------------------------------------
(* The kernel: a receive completes, or fails with its connection.            *)
Complete(x, st) ==
  /\ x.st = "posted"
  /\ io' = (io \ {x}) \cup {Call(x.place, x.ctx, st)}
  /\ UNCHANGED <<poolVars, sockVars, mContextType, acceptVars>>

-----------------------------------------------------------------------------
(* _AcceptThread *)

Accept ==
  /\ apc = "accept" /\ made < MaxConn
  /\ made' = made + 1 /\ conn' = made + 1 /\ open' = open \cup {made + 1}
  /\ apc' = "client"
  /\ UNCHANGED <<poolVars, mSocket, mContextType, io, clientIndex,
                 contextIndex, strayed>>

(* try_pop of both pools: -1 when one is empty. *)
AllocClient ==
  /\ apc = "client"
  /\ IF mClientIndexPool = <<>>
     THEN clientIndex' = -1 /\ UNCHANGED mClientIndexPool
     ELSE /\ clientIndex' = Head(mClientIndexPool)
          /\ mClientIndexPool' = Tail(mClientIndexPool)
  /\ apc' = "context"
  /\ UNCHANGED <<mNetworkContextIndexPool, sockVars, mContextType, io,
                 conn, contextIndex, made, strayed>>

(* Without either, the connection is closed, and the other one is not given   *)
(* back.                                                                   *)
AllocNetworkContext ==
  LET none == mNetworkContextIndexPool = <<>>
      k == IF none THEN -1 ELSE Head(mNetworkContextIndexPool)
      refused == clientIndex < 0 \/ k < 0 IN
  /\ apc = "context"
  /\ contextIndex' = k
  /\ mNetworkContextIndexPool' =
       IF none THEN <<>> ELSE Tail(mNetworkContextIndexPool)
  /\ open' = IF refused THEN open \ {conn} ELSE open
  /\ apc' = IF refused THEN "accept" ELSE "init"
  /\ UNCHANGED <<mClientIndexPool, mSocket, mContextType, io, conn,
                 clientIndex, made, strayed>>

(* Mutant of At: the index is made a place. *)
AtPlace(i) == i - 1

(* mClients[clientIndex] *)
At(i) == i

(* Mutant of ReleaseClient: the place is given back. *)
ReleasePlace(i) == mClientIndexPool' = Append(mClientIndexPool, i - 1)

ReleaseClient(i) == mClientIndexPool' = Append(mClientIndexPool, i)

(* Mutant of InitClient: a client that is not connected is given back here,   *)
(* and again by the receive that then fails.                               *)
InitClientGivesBack ==
  LET p == At(clientIndex) IN
  /\ apc = "init" /\ p \in Place
  /\ \/ /\ mSocket' = [mSocket EXCEPT ![p] = conn]
        /\ UNCHANGED <<open, mClientIndexPool>>
     \/ /\ mSocket' = [mSocket EXCEPT ![p] = 0] /\ open' = open \ {conn}
        /\ ReleaseClient(clientIndex)
  /\ apc' = "receive"
  /\ UNCHANGED <<mNetworkContextIndexPool, mContextType, io, conn, clientIndex,
                 contextIndex, made, strayed>>

(* When Register or OnConnect fails the socket is closed, InitClient returns  *)
(* true all the same, and the accept goes on.                              *)
InitClient ==
  LET p == At(clientIndex) IN
  /\ apc = "init"
  /\ IF p \in Place
     THEN /\ \E ok \in BOOLEAN :
               /\ mSocket' = [mSocket EXCEPT ![p] = IF ok THEN conn ELSE 0]
               /\ open' = IF ok THEN open ELSE open \ {conn}
          /\ apc' = "receive" /\ UNCHANGED strayed
     ELSE strayed' = TRUE /\ apc' = "strayed" /\ UNCHANGED sockVars
  /\ UNCHANGED <<poolVars, mContextType, io, conn, clientIndex, contextIndex,
                 made>>

(* Receive works on an open socket only, and may fail there. *)
FirstReceive ==
  LET p == At(clientIndex) IN
  /\ apc = "receive"
  /\ mContextType' = [mContextType EXCEPT ![contextIndex] = "RECEIVE"]
  /\ \/ /\ mSocket[p] \in open
        /\ io' = io \cup {Call(p, contextIndex, "posted")}
        /\ UNCHANGED <<poolVars, open>>
     \/ /\ open' = open \ {conn}
        /\ ReleaseClient(clientIndex)
        /\ mNetworkContextIndexPool' =
             Append(mNetworkContextIndexPool, contextIndex)
        /\ UNCHANGED io
  /\ apc' = "accept"
  /\ UNCHANGED <<mSocket, conn, clientIndex, contextIndex, made, strayed>>

Acceptor ==
  Accept \/ AllocClient \/ AllocNetworkContext \/ InitClient \/ FirstReceive

-----------------------------------------------------------------------------
(* IOThread.  The threads share nothing but the port.  A failed completion is *)
(* passed over, and so is one that is not of a receive: nothing is closed,   *)
(* given back or posted again.                                             *)
IOThread(x) ==
  /\ \/ x.st = "failed"
     \/ x.st = "done" /\ GetContextType(OverlappedOf(x.ctx)) # "RECEIVE"
  /\ io' = (io \ {x}) \cup {Call(x.place, x.ctx, "taken")}
  /\ UNCHANGED <<poolVars, sockVars, mContextType, acceptVars>>

-----------------------------------------------------------------------------

Next ==
  /\ ~strayed
  /\ \/ \E x \in io, st \in {"done", "failed"} : Complete(x, st)
     \/ Acceptor
     \/ \E x \in io : IOThread(x)

Spec == Init /\ [][Next]_vars

-----------------------------------------------------------------------------
(* Properties *)

(* The pools hold indices they were made with, and a receive is of a client   *)
(* and a context that exist.                                               *)
TypeOK ==
  /\ mClientIndexPool \in Seq(1..Clients)
  /\ mNetworkContextIndexPool \in Seq(Ctx)
  /\ mSocket \in [Place -> 0..MaxConn] /\ open \subseteq 1..MaxConn
  /\ mContextType \in [Ctx -> {"NONE", "RECEIVE"}]
  /\ io \subseteq [place : Place, ctx : Ctx, st : States]
  /\ apc \in {"accept", "client", "context", "init", "receive", "strayed"}
  /\ clientIndex \in -1..Clients /\ contextIndex \in -1..Contexts-1
  /\ made \in 0..MaxConn /\ strayed \in BOOLEAN

(* The index taken from a pool and neither spent nor given back yet.         *)
ClientInHand ==
  IF apc \in {"context", "init", "receive", "strayed"} THEN {clientIndex} ELSE {}
ContextInHand ==
  IF apc \in {"init", "receive", "strayed"} THEN {contextIndex} ELSE {}

(* An index is in its pool once, in the acceptor's hands, or spent for good   *)
(* on the one connection that got a receive with it: through every failure   *)
(* of InitClient and Receive none is given back twice, lost, or given back   *)
(* while a receive uses it.                                                *)
IndicesConserved ==
  LET clients == {x.place : x \in io}
      contexts == {x.ctx : x \in io} IN
  /\ IsInjective(mClientIndexPool) /\ IsInjective(mNetworkContextIndexPool)
  /\ Range(mClientIndexPool) = (1..Clients) \ (ClientInHand \cup clients)
  /\ Range(mNetworkContextIndexPool) = Ctx \ (ContextInHand \cup contexts)
  /\ ClientInHand \cap clients = {} /\ ContextInHand \cap contexts = {}
  /\ \A x, y \in io : x.place = y.place \/ x.ctx = y.ctx => x = y

(* No completed receive is taken for one: what IOThread reads as its type is  *)
(* the virtual table's pointer of the context behind, and there always is    *)
(* one behind, since the run ends before the last context is used.  So the   *)
(* server never sees a byte, and never gives an index back for an end.       *)
ReceivesUnseen ==
  \A x \in io : GetContextType(OverlappedOf(x.ctx)) = "table"

(* The server accepts Clients - 1 connections in its whole life, however many *)
(* of them got no receive and gave their indices back; the next one is       *)
(* looked up past the end of mClients.                                     *)
LastConnection == made <= Clients /\ (strayed => made = Clients)
=============================================================================
