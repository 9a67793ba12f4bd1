-------------------------- MODULE SocketPools_proofs --------------------------
(***************************************************************************)
(* Proofs about SocketPools, for any number of clients, at least as many      *)
(* contexts, and any number of connections.                                *)
(***************************************************************************)
EXTENDS SocketPools, SequenceTheorems, TLAPS

(* The indices taken from the two pools: one for each connection made, but    *)
(* for the one that the acceptor is about to take.                         *)
Taken == IF apc = "client" THEN made - 1 ELSE made
TakenContexts == IF apc \in {"client", "context"} THEN made - 1 ELSE made

(* The acceptor takes the clients and the contexts in their first order: what *)
(* is left of it stands at the head of the pools, before all that was given   *)
(* back.                                                                   *)
InOrder ==
  /\ made <= Clients /\ (apc \in {"accept", "receive"} => made < Clients)
  /\ apc # "accept" => made >= 1 /\ conn \in 1..MaxConn
  /\ apc \in {"context", "init", "receive", "strayed"} => clientIndex = made
  /\ apc \in {"init", "receive", "strayed"} => contextIndex = made - 1
  /\ strayed => made = Clients
  /\ Clients - Taken <= Len(mClientIndexPool)
  /\ \A i \in 1..(Clients - Taken) : mClientIndexPool[i] = Taken + i
  /\ Contexts - TakenContexts <= Len(mNetworkContextIndexPool)
  /\ \A i \in 1..(Contexts - TakenContexts) :
       mNetworkContextIndexPool[i] = TakenContexts + i - 1
  /\ \A x \in io : x.ctx + 1 \in Ctx

Base == TypeOK /\ InOrder

-----------------------------------------------------------------------------

LEMMA Numbers == /\ Clients \in Nat \ {0} /\ Contexts \in Nat \ {0}
                 /\ 0 \in Place /\ 0 \in Ctx /\ Contexts >= Clients
                 /\ MaxConn \in Nat
BY PoolsAssumption DEF Place, Ctx

LEMMA InitBase == Init => Base
<1> SUFFICES ASSUME Init PROVE Base
  OBVIOUS
<1> USE Numbers
<1>1. /\ mClientIndexPool \in Seq(1..Clients)
      /\ Len(mClientIndexPool) = Clients
      /\ \A i \in 1..Clients : mClientIndexPool[i] = i
  BY DEF Init
<1>2. /\ mNetworkContextIndexPool \in Seq(Ctx)
      /\ Len(mNetworkContextIndexPool) = Contexts
      /\ \A i \in 1..Contexts : mNetworkContextIndexPool[i] = i - 1
  BY DEF Init, Ctx
<1>3. InOrder
  BY <1>1, <1>2 DEF Init, InOrder, Taken, TakenContexts
<1>4. TypeOK
  <2>1. mSocket \in [Place -> 0..MaxConn] /\ open \subseteq 1..MaxConn
    BY DEF Init
  <2>2. mContextType \in [Ctx -> {"NONE", "RECEIVE"}] /\ io = {}
    BY DEF Init
  <2>3. /\ apc = "accept" /\ strayed = FALSE /\ made \in 0..MaxConn
        /\ clientIndex \in -1..Clients /\ contextIndex \in -1..Contexts-1
    BY DEF Init
  <2> QED BY <1>1, <1>2, <2>1, <2>2, <2>3 DEF TypeOK
<1> QED BY <1>3, <1>4 DEF Base

(* What is given back goes to the end of its pool: types and order stay.      *)
LEMMA GiveBack ==
  ASSUME NEW S, NEW q \in Seq(S), NEW e \in S
  PROVE  /\ Append(q, e) \in Seq(S) /\ Len(Append(q, e)) = Len(q) + 1
         /\ \A i \in 1..Len(q) : Append(q, e)[i] = q[i]
BY AppendProperties

(* What is left of a pool when its head is taken. *)
LEMMA Remainder ==
  ASSUME NEW S, NEW q \in Seq(S), q # <<>>
  PROVE  /\ Head(q) = q[1] /\ Head(q) \in S /\ Len(q) \in Nat \ {0}
         /\ Tail(q) \in Seq(S) /\ Len(Tail(q)) = Len(q) - 1
         /\ \A i \in 1..(Len(q) - 1) : Tail(q)[i] = q[i + 1]
BY HeadTailProperties, EmptySeq

LEMMA NextBase == Base /\ [Next]_vars => Base'
<1> SUFFICES ASSUME Base, [Next]_vars PROVE Base'
  OBVIOUS
<1> USE Numbers DEF Base
<1> USE DEF poolVars, sockVars, acceptVars
<1>0. /\ made \in Nat /\ Clients \in Nat /\ Contexts \in Nat
      /\ Len(mClientIndexPool) \in Nat /\ Len(mNetworkContextIndexPool) \in Nat
  BY DEF TypeOK
<1>1. ASSUME NEW x \in io, NEW st \in States \ {"posted"},
             io' = (io \ {x}) \cup {Call(x.place, x.ctx, st)},
             UNCHANGED <<poolVars, sockVars, mContextType, acceptVars>>
      PROVE  Base'
  <2>1. io' \subseteq [place : Place, ctx : Ctx, st : States]
    BY <1>1 DEF Call, TypeOK
  <2>2. \A y \in io' : y.ctx + 1 \in Ctx
    BY <1>1 DEF Call, InOrder
  <2>3. TypeOK'
    BY <1>1, <2>1 DEF TypeOK
  <2>4. InOrder'
    BY <1>1, <2>2 DEF InOrder, Taken, TakenContexts
  <2> QED BY <2>3, <2>4
<1>2. ASSUME NEW x \in io, NEW st \in {"done", "failed"}, Complete(x, st)
      PROVE  Base'
  BY <1>1, <1>2 DEF Complete, States
<1>3. ASSUME NEW x \in io, IOThread(x) PROVE Base'
  BY <1>1, <1>3 DEF IOThread, States
<1>4. CASE Accept
  <2>1. made' = made + 1 /\ made' \in 0..MaxConn /\ conn' \in 1..MaxConn
    BY <1>4 DEF Accept, TypeOK
  <2>2. Taken' = Taken /\ TakenContexts' = TakenContexts
    BY <1>0, <1>4, <2>1 DEF Accept, Taken, TakenContexts
  <2>3. InOrder'
    BY <1>0, <1>4, <2>1, <2>2 DEF Accept, InOrder
  <2>4. open' \subseteq 1..MaxConn
    BY <1>4, <2>1 DEF Accept, TypeOK
  <2>5. TypeOK'
    BY <1>4, <2>1, <2>4 DEF Accept, TypeOK
  <2> QED BY <2>3, <2>5
<1>5. CASE AllocClient
  <2> DEFINE q == mClientIndexPool
  <2>1. /\ Taken = made - 1 /\ 1 <= made /\ made <= Clients
        /\ TakenContexts' = TakenContexts /\ Taken' = made
    BY <1>5 DEF AllocClient, Taken, TakenContexts, InOrder
  <2>2. q # <<>> /\ q \in Seq(1..Clients)
    BY <1>0, <2>1 DEF InOrder, TypeOK
  <2>3. /\ Head(q) = q[1] /\ Tail(q) \in Seq(1..Clients)
        /\ Len(Tail(q)) = Len(q) - 1
        /\ \A i \in 1..(Len(q) - 1) : Tail(q)[i] = q[i + 1]
    BY <2>2, Remainder
  <2>4. clientIndex' = made /\ q' = Tail(q)
    BY <1>0, <1>5, <2>1, <2>2, <2>3 DEF AllocClient, InOrder
  <2>5. \A i \in 1..(Clients - made) : q'[i] = made + i
    <3> SUFFICES ASSUME NEW i \in 1..(Clients - made)
                 PROVE  q'[i] = made + i
      OBVIOUS
    <3>1. i \in 1..(Len(q) - 1) /\ i + 1 \in 1..(Clients - Taken)
      BY <1>0, <2>1 DEF InOrder
    <3> QED BY <1>0, <2>1, <2>3, <2>4, <3>1 DEF InOrder
  <2>6. Clients - made <= Len(q')
    BY <1>0, <2>1, <2>3, <2>4 DEF InOrder
  <2>7. InOrder'
    BY <1>5, <2>1, <2>4, <2>5, <2>6 DEF AllocClient, InOrder
  <2>8. clientIndex' \in -1..Clients /\ q' \in Seq(1..Clients)
    BY <1>0, <2>1, <2>3, <2>4
  <2>9. TypeOK'
    BY <1>5, <2>8 DEF AllocClient, TypeOK
  <2> QED BY <2>7, <2>9
<1>6. CASE AllocNetworkContext
  <2> DEFINE q == mNetworkContextIndexPool
  <2>1. /\ TakenContexts = made - 1 /\ 1 <= made /\ made <= Clients
        /\ Taken' = Taken /\ Taken = made /\ clientIndex = made
    BY <1>6 DEF AllocNetworkContext, Taken, TakenContexts, InOrder
  <2>2. q # <<>> /\ q \in Seq(Ctx)
    BY <1>0, <2>1 DEF InOrder, TypeOK
  <2>3. /\ Head(q) = q[1] /\ Head(q) \in Ctx /\ Tail(q) \in Seq(Ctx)
        /\ Len(Tail(q)) = Len(q) - 1
        /\ \A i \in 1..(Len(q) - 1) : Tail(q)[i] = q[i + 1]
    BY <2>2, Remainder
  <2>4. q[1] = made - 1
    BY <1>0, <2>1 DEF InOrder
  <2>5. contextIndex' = made - 1 /\ apc' = "init" /\ open' = open /\ q' = Tail(q)
    BY <1>0, <1>6, <2>1, <2>2, <2>3, <2>4 DEF AllocNetworkContext
  <2>6. \A i \in 1..(Contexts - made) : q'[i] = made + i - 1
    <3> SUFFICES ASSUME NEW i \in 1..(Contexts - made)
                 PROVE  q'[i] = made + i - 1
      OBVIOUS
    <3>1. i \in 1..(Len(q) - 1) /\ i + 1 \in 1..(Contexts - TakenContexts)
      BY <1>0, <2>1 DEF InOrder
    <3>2. q[i + 1] = TakenContexts + (i + 1) - 1
      BY <3>1 DEF InOrder
    <3> QED BY <1>0, <2>1, <2>3, <2>5, <3>1, <3>2
  <2>7. Contexts - made <= Len(q') /\ TakenContexts' = made
    BY <1>0, <1>6, <2>1, <2>3, <2>5
       DEF InOrder, TakenContexts, AllocNetworkContext
  <2>8. InOrder'
    <3>1. UNCHANGED <<mClientIndexPool, clientIndex, io, made, strayed, conn>>
      BY <1>6 DEF AllocNetworkContext
    <3>2. /\ \A i \in 1..(Contexts - TakenContexts') : q'[i] = TakenContexts' + i - 1
          /\ Contexts - TakenContexts' <= Len(q')
      BY <2>6, <2>7
    <3>3. /\ Clients - Taken' <= Len(mClientIndexPool')
          /\ \A i \in 1..(Clients - Taken') : mClientIndexPool'[i] = Taken' + i
      BY <2>1, <3>1 DEF InOrder
    <3>4. apc = "context" /\ conn \in 1..MaxConn
      BY <1>6 DEF AllocNetworkContext, InOrder
    <3>5. /\ made' <= Clients /\ made' >= 1 /\ conn' \in 1..MaxConn
          /\ clientIndex' = made' /\ contextIndex' = made' - 1
          /\ apc' = "init" /\ (strayed' => made' = Clients)
          /\ \A x \in io' : x.ctx + 1 \in Ctx
      BY <2>1, <2>5, <3>1, <3>4 DEF InOrder
    <3> QED BY <3>2, <3>3, <3>5 DEF InOrder
  <2>9. contextIndex' \in -1..Contexts-1
    BY <1>0, <2>1, <2>5
  <2>10. TypeOK'
    BY <1>6, <2>3, <2>5, <2>9 DEF AllocNetworkContext, TypeOK
  <2> QED BY <2>8, <2>10
<1>7. CASE InitClient
  <2>1. /\ At(clientIndex) = made /\ 1 <= made /\ made <= Clients
        /\ Taken' = Taken /\ TakenContexts' = TakenContexts
        /\ conn \in 1..MaxConn /\ apc = "init"
    BY <1>7 DEF InitClient, At, Taken, TakenContexts, InOrder
  <2>2. /\ \/ mSocket' = mSocket
           \/ \E c \in {conn, 0} : mSocket' = [mSocket EXCEPT ![made] = c]
        /\ open' \subseteq open /\ apc' \in {"receive", "strayed"}
    BY <1>7, <2>1 DEF InitClient
  <2>3. mSocket' \in [Place -> 0..MaxConn]
    <3>1. mSocket \in [Place -> 0..MaxConn] /\ conn \in 0..MaxConn /\ 0 \in 0..MaxConn
      BY <2>1 DEF TypeOK
    <3> QED BY <2>2, <3>1
  <2>4. /\ apc' = "receive" => made < Clients /\ strayed' = strayed
        /\ apc' = "strayed" => made = Clients /\ strayed' = TRUE
    BY <1>0, <1>7, <2>1 DEF InitClient, Place
  <2>5. InOrder'
    BY <1>7, <2>1, <2>2, <2>4 DEF InitClient, InOrder
  <2>6. TypeOK'
    <3>1. open' \subseteq 1..MaxConn /\ strayed' \in BOOLEAN
      BY <2>2, <2>4 DEF TypeOK
    <3> QED BY <1>7, <2>2, <2>3, <3>1 DEF InitClient, TypeOK
  <2> QED BY <2>5, <2>6
<1>8. CASE FirstReceive
  <2>1. /\ clientIndex = made /\ contextIndex = made - 1
        /\ 1 <= made /\ made < Clients
        /\ made \in Place /\ made \in 1..Clients
        /\ contextIndex \in Ctx /\ contextIndex + 1 \in Ctx
    BY <1>0, <1>8 DEF FirstReceive, InOrder, Place, Ctx
  <2>2. /\ Taken' = Taken /\ TakenContexts' = TakenContexts
        /\ Taken = made /\ TakenContexts = made
    BY <1>8 DEF FirstReceive, Taken, TakenContexts
  <2>3. /\ io' \subseteq [place : Place, ctx : Ctx, st : States]
        /\ \A x \in io' : x.ctx + 1 \in Ctx
    BY <1>8, <2>1 DEF FirstReceive, At, Call, States, TypeOK, InOrder
  <2>4. /\ mClientIndexPool' \in Seq(1..Clients)
        /\ Len(mClientIndexPool') >= Len(mClientIndexPool)
        /\ \A i \in 1..Len(mClientIndexPool) :
             mClientIndexPool'[i] = mClientIndexPool[i]
    <3>1. mClientIndexPool \in Seq(1..Clients)
      BY DEF TypeOK
    <3>2. CASE mClientIndexPool' = mClientIndexPool
      BY <1>0, <3>1, <3>2
    <3>3. CASE mClientIndexPool' = Append(mClientIndexPool, clientIndex)
      BY <1>0, <2>1, <3>1, <3>3, GiveBack
    <3> QED BY <1>8, <3>2, <3>3 DEF FirstReceive, ReleaseClient
  <2>5. /\ mNetworkContextIndexPool' \in Seq(Ctx)
        /\ Len(mNetworkContextIndexPool') >= Len(mNetworkContextIndexPool)
        /\ \A i \in 1..Len(mNetworkContextIndexPool) :
             mNetworkContextIndexPool'[i] = mNetworkContextIndexPool[i]
    <3>1. mNetworkContextIndexPool \in Seq(Ctx)
      BY DEF TypeOK
    <3>2. CASE mNetworkContextIndexPool' = mNetworkContextIndexPool
      BY <1>0, <3>1, <3>2
    <3>3. CASE mNetworkContextIndexPool' =
                 Append(mNetworkContextIndexPool, contextIndex)
      BY <1>0, <2>1, <3>1, <3>3, GiveBack
    <3> QED BY <1>8, <3>2, <3>3 DEF FirstReceive
  <2>6. InOrder'
    <3>1. /\ Len(mClientIndexPool') \in Nat
          /\ Len(mNetworkContextIndexPool') \in Nat
      BY <2>4, <2>5
    <3>2. /\ \A i \in 1..(Clients - made) : i \in 1..Len(mClientIndexPool)
          /\ \A i \in 1..(Contexts - made) :
               i \in 1..Len(mNetworkContextIndexPool)
      BY <1>0, <2>2 DEF InOrder
    <3>3. made' = made /\ clientIndex' = clientIndex /\ apc' = "accept"
          /\ strayed' = strayed
      BY <1>8 DEF FirstReceive
    <3>4. /\ Clients - made <= Len(mClientIndexPool')
          /\ Contexts - made <= Len(mNetworkContextIndexPool')
      BY <1>0, <2>2, <2>4, <2>5, <3>1 DEF InOrder
    <3>5. /\ \A i \in 1..(Clients - made) : mClientIndexPool'[i] = made + i
          /\ \A i \in 1..(Contexts - made) :
               mNetworkContextIndexPool'[i] = made + i - 1
      BY <2>2, <2>4, <2>5, <3>2 DEF InOrder
    <3> QED BY <2>1, <2>2, <2>3, <3>3, <3>4, <3>5 DEF InOrder
  <2>7. TypeOK'
    <3>1. open' \subseteq 1..MaxConn
      BY <1>8 DEF FirstReceive, TypeOK
    <3>2. mContextType' \in [Ctx -> {"NONE", "RECEIVE"}]
      BY <1>8, <2>1 DEF FirstReceive, TypeOK
    <3> QED BY <1>8, <2>3, <2>4, <2>5, <3>1, <3>2 DEF FirstReceive, TypeOK
  <2> QED BY <2>6, <2>7
<1>9. CASE UNCHANGED vars
  BY <1>9 DEF vars, TypeOK, InOrder, Taken, TakenContexts
<1> QED BY <1>2, <1>3, <1>4, <1>5, <1>6, <1>7, <1>8, <1>9 DEF Next, Acceptor

LEMMA BaseAlways == Spec => []Base
BY InitBase, NextBase, PTL DEF Spec

(* Every variable keeps its type, whatever the numbers of clients, contexts   *)
(* and connections.                                                        *)
THEOREM TypeCorrect == Spec => []TypeOK
<1>1. Base => TypeOK
  BY DEF Base
<1> QED BY <1>1, BaseAlways, PTL

(* However many connections got no receive, the one with the number of the    *)
(* clients is looked up past the end of mClients, and no other is.         *)
THEOREM LastIsLast == Spec => []LastConnection
<1>1. Base => LastConnection
  BY DEF Base, InOrder, LastConnection
<1> QED BY <1>1, BaseAlways, PTL

(* No completed receive is ever handled, whatever is given back and in which  *)
(* order the receives complete: the type is read from the virtual table's    *)
(* pointer of the next context, which exists whenever a receive is posted.   *)
THEOREM NoReceiveIsSeen == Spec => []ReceivesUnseen
<1>1. Base => ReceivesUnseen
  <2> SUFFICES ASSUME Base, NEW x \in io
               PROVE  GetContextType(OverlappedOf(x.ctx)) = "table"
    BY DEF ReceivesUnseen
  <2>1. x.ctx \in Nat /\ x.ctx + 1 \in Ctx
    BY Numbers DEF Base, TypeOK, InOrder, Ctx
  <2> DEFINE k == x.ctx
             a == k * 8 + 1 + 7
  <2>2. a \div 8 = k + 1 /\ a % 8 = 0
    BY <2>1
  <2> QED BY <2>1, <2>2 DEF GetContextType, OverlappedOf, WordAt, ContextSize,
                            TypeOffset
<1> QED BY <1>1, BaseAlways, PTL

-----------------------------------------------------------------------------
(* Indices *)

(* An index given back to a pool that lacks it occurs there once.             *)
LEMMA PoolAppend ==
  ASSUME NEW S, NEW q \in Seq(S), NEW e \in S, IsInjective(q), e \notin Range(q)
  PROVE  IsInjective(Append(q, e)) /\ Range(Append(q, e)) = Range(q) \cup {e}
<1> DEFINE r == Append(q, e)
<1>1. /\ Len(q) \in Nat /\ DOMAIN q = 1..Len(q) /\ DOMAIN r = 1..(Len(q) + 1)
      /\ \A k \in 1..Len(q) : r[k] = q[k]
      /\ r[Len(q) + 1] = e
  BY AppendProperties
<1>2. \A k \in DOMAIN r : k \in DOMAIN q \/ k = Len(q) + 1
  BY <1>1
<1>3. \A k \in DOMAIN q : q[k] # e
  BY DEF Range
<1>4. IsInjective(r)
  BY <1>1, <1>2, <1>3 DEF IsInjective
<1>5. Range(r) \subseteq Range(q) \cup {e}
  BY <1>1, <1>2 DEF Range
<1>6. Range(q) \subseteq Range(r) /\ e \in Range(r)
  BY <1>1 DEF Range
<1> QED BY <1>4, <1>5, <1>6

(* The head of a pool without repetition does not occur in its tail.         *)
LEMMA PoolTail ==
  ASSUME NEW S, NEW q \in Seq(S), q # <<>>, IsInjective(q)
  PROVE  /\ IsInjective(Tail(q)) /\ Head(q) \in Range(q)
         /\ Range(Tail(q)) = Range(q) \ {Head(q)}
<1> DEFINE t == Tail(q)
<1>1. /\ Len(q) \in Nat \ {0} /\ DOMAIN q = 1..Len(q)
      /\ DOMAIN t = 1..(Len(q) - 1)
      /\ \A k \in 1..(Len(q) - 1) : t[k] = q[k + 1]
      /\ Head(q) = q[1]
  BY HeadTailProperties, EmptySeq
<1>2. IsInjective(t)
  BY <1>1 DEF IsInjective
<1>3. Head(q) \in Range(q)
  BY <1>1 DEF Range
<1>4. ASSUME NEW x \in Range(t) PROVE x \in Range(q) \ {Head(q)}
  BY <1>1 DEF Range, IsInjective
<1>5. ASSUME NEW x \in Range(q) \ {Head(q)} PROVE x \in Range(t)
  <2>1. PICK k \in 1..Len(q) : x = q[k]
    BY <1>1 DEF Range
  <2>2. k - 1 \in 1..(Len(q) - 1) /\ x = t[k - 1]
    BY <1>1, <2>1
  <2> QED BY <1>1, <2>2 DEF Range
<1> QED BY <1>2, <1>3, <1>4, <1>5

LEMMA NextConserved == Base /\ IndicesConserved /\ [Next]_vars => IndicesConserved'
<1> SUFFICES ASSUME Base, IndicesConserved, [Next]_vars PROVE IndicesConserved'
  OBVIOUS
<1> USE DEF poolVars, sockVars, acceptVars
<1> DEFINE clients == {x.place : x \in io}
           contexts == {x.ctx : x \in io}
           Kept == UNCHANGED <<poolVars, io, ClientInHand, ContextInHand>>
<1>0. /\ mClientIndexPool \in Seq(1..Clients)
      /\ mNetworkContextIndexPool \in Seq(Ctx)
      /\ io \subseteq [place : Place, ctx : Ctx, st : States]
  BY DEF Base, TypeOK
<1>1. Kept => IndicesConserved'
  BY DEF IndicesConserved
<1>2. ASSUME NEW x \in io, NEW st, io' = (io \ {x}) \cup {Call(x.place, x.ctx, st)},
             UNCHANGED <<poolVars, acceptVars>>
      PROVE  IndicesConserved'
  <2> DEFINE new == Call(x.place, x.ctx, st)
  <2>1. new.place = x.place /\ new.ctx = x.ctx
    BY DEF Call
  <2>2. clients' = clients /\ contexts' = contexts
    BY <1>2, <2>1
  <2>3. UNCHANGED <<ClientInHand, ContextInHand, poolVars>>
    BY <1>2 DEF ClientInHand, ContextInHand
  <2>4. \A y, z \in io' : y.place = z.place \/ y.ctx = z.ctx => y = z
    <3>1. \A y \in io' : y = new \/ (y \in io /\ y # x)
      BY <1>2
    <3>2. \A y, z \in io : y.place = z.place \/ y.ctx = z.ctx => y = z
      BY DEF IndicesConserved
    <3> QED BY <2>1, <3>1, <3>2
  <2> QED BY <2>2, <2>3, <2>4 DEF IndicesConserved
<1>3. ASSUME NEW x \in io, NEW st, Complete(x, st) PROVE IndicesConserved'
  BY <1>2, <1>3 DEF Complete
<1>4. ASSUME NEW x \in io, IOThread(x) PROVE IndicesConserved'
  BY <1>2, <1>4 DEF IOThread
<1>5. CASE Accept
  <2>1. Kept
    BY <1>5 DEF Accept, ClientInHand, ContextInHand
  <2> QED BY <1>1, <2>1
<1>6. CASE AllocClient
  <2> DEFINE q == mClientIndexPool
  <2>1. q # <<>>
    <3>1. Taken = made - 1 /\ made \in Nat /\ made <= Clients /\ Clients \in Nat
      BY <1>6, Numbers DEF AllocClient, Taken, Base, InOrder, TypeOK
    <3> QED BY <1>0, <3>1 DEF Base, InOrder
  <2>2. /\ q' = Tail(q) /\ clientIndex' = Head(q)
        /\ apc = "client" /\ apc' = "context"
        /\ UNCHANGED <<mNetworkContextIndexPool, io>>
    BY <1>6, <2>1 DEF AllocClient
  <2>3. /\ ClientInHand = {} /\ ClientInHand' = {Head(q)}
        /\ ContextInHand = {} /\ ContextInHand' = {}
    BY <2>2 DEF ClientInHand, ContextInHand
  <2>4. /\ IsInjective(q') /\ Head(q) \in Range(q)
        /\ Range(q') = Range(q) \ {Head(q)}
    BY <1>0, <2>1, <2>2, PoolTail DEF IndicesConserved
  <2> QED BY <2>2, <2>3, <2>4 DEF IndicesConserved
<1>7. CASE AllocNetworkContext
  <2> DEFINE q == mNetworkContextIndexPool
  <2>1. /\ q # <<>> /\ clientIndex = made /\ made >= 1
    <3>1. /\ TakenContexts = made - 1 /\ made \in Nat /\ made <= Contexts
          /\ Contexts \in Nat /\ clientIndex = made /\ made >= 1
      BY <1>7, Numbers
         DEF AllocNetworkContext, TakenContexts, Base, InOrder, TypeOK
    <3> QED BY <1>0, <3>1 DEF Base, InOrder
  <2>2. Head(q) \in Ctx /\ Head(q) >= 0 /\ made \in Nat
    BY <1>0, <2>1, Remainder, Numbers DEF Ctx, Base, TypeOK
  <2>3. /\ q' = Tail(q) /\ contextIndex' = Head(q)
        /\ apc = "context" /\ apc' = "init"
        /\ UNCHANGED <<mClientIndexPool, io, clientIndex>>
    BY <1>7, <2>1, <2>2 DEF AllocNetworkContext
  <2>4. /\ ClientInHand' = ClientInHand
        /\ ContextInHand = {} /\ ContextInHand' = {Head(q)}
    BY <2>3 DEF ClientInHand, ContextInHand
  <2>5. /\ IsInjective(q') /\ Head(q) \in Range(q)
        /\ Range(q') = Range(q) \ {Head(q)}
    BY <1>0, <2>1, <2>3, PoolTail DEF IndicesConserved
  <2> QED BY <2>3, <2>4, <2>5 DEF IndicesConserved
<1>8. CASE InitClient
  <2>1. Kept
    BY <1>8 DEF InitClient, ClientInHand, ContextInHand
  <2> QED BY <1>1, <2>1
<1>9. CASE FirstReceive
  <2> DEFINE new == Call(clientIndex, contextIndex, "posted")
  <2>1. /\ ClientInHand = {clientIndex} /\ ClientInHand' = {}
        /\ ContextInHand = {contextIndex} /\ ContextInHand' = {}
        /\ clientIndex \in 1..Clients /\ contextIndex \in Ctx
    BY <1>9, Numbers DEF FirstReceive, ClientInHand, ContextInHand, Base, InOrder,
                         TypeOK, Ctx
  <2>2. CASE io' = io \cup {new} /\ UNCHANGED poolVars
    <3>1. new.place = clientIndex /\ new.ctx = contextIndex
      BY DEF Call
    <3>2. clients' = clients \cup {clientIndex} /\ contexts' = contexts \cup {contextIndex}
      BY <2>2, <3>1
    <3>3. clientIndex \notin clients /\ contextIndex \notin contexts
      BY <2>1 DEF IndicesConserved
    <3>4. \A y, z \in io' : y.place = z.place \/ y.ctx = z.ctx => y = z
      <4>1. \A y \in io : y.place # new.place /\ y.ctx # new.ctx
        BY <3>1, <3>3
      <4> QED BY <2>2, <4>1 DEF IndicesConserved
    <3> QED BY <2>1, <2>2, <3>2, <3>4 DEF IndicesConserved
  <2>3. CASE /\ io' = io
             /\ mClientIndexPool' = Append(mClientIndexPool, clientIndex)
             /\ mNetworkContextIndexPool' =
                  Append(mNetworkContextIndexPool, contextIndex)
    <3>1. /\ clientIndex \notin Range(mClientIndexPool)
          /\ contextIndex \notin Range(mNetworkContextIndexPool)
          /\ clientIndex \notin clients /\ contextIndex \notin contexts
          /\ IsInjective(mClientIndexPool) /\ IsInjective(mNetworkContextIndexPool)
      BY <2>1 DEF IndicesConserved
    <3>2. /\ IsInjective(mClientIndexPool')
          /\ Range(mClientIndexPool') = Range(mClientIndexPool) \cup {clientIndex}
      <4> DEFINE S == 1..Clients
      <4>1. mClientIndexPool \in Seq(S) /\ clientIndex \in S
        BY <1>0, <2>1
      <4> HIDE DEF S
      <4>2. /\ IsInjective(Append(mClientIndexPool, clientIndex))
            /\ Range(Append(mClientIndexPool, clientIndex))
                 = Range(mClientIndexPool) \cup {clientIndex}
        BY <3>1, <4>1, PoolAppend
      <4> QED BY <2>3, <4>2
    <3>3. /\ IsInjective(mNetworkContextIndexPool')
          /\ Range(mNetworkContextIndexPool') =
               Range(mNetworkContextIndexPool) \cup {contextIndex}
      BY <1>0, <2>1, <2>3, <3>1, PoolAppend
    <3>4. /\ Range(mClientIndexPool) = (1..Clients) \ ({clientIndex} \cup clients)
          /\ Range(mNetworkContextIndexPool) = Ctx \ ({contextIndex} \cup contexts)
          /\ \A x, y \in io : x.place = y.place \/ x.ctx = y.ctx => x = y
      BY <2>1 DEF IndicesConserved
    <3>5. clients' = clients /\ contexts' = contexts
      BY <2>3
    <3>6. /\ Range(mClientIndexPool') = (1..Clients) \ clients'
          /\ Range(mNetworkContextIndexPool') = Ctx \ contexts'
      BY <2>1, <3>1, <3>2, <3>3, <3>4, <3>5
    <3> QED BY <2>1, <2>3, <3>2, <3>3, <3>4, <3>6 DEF IndicesConserved
  <2> QED BY <1>9, <2>2, <2>3 DEF FirstReceive, At, ReleaseClient
<1>10. CASE UNCHANGED vars
  <2>1. Kept
    BY <1>10 DEF vars, ClientInHand, ContextInHand
  <2> QED BY <1>1, <2>1
<1> QED BY <1>3, <1>4, <1>5, <1>6, <1>7, <1>8, <1>9, <1>10 DEF Next, Acceptor

(* Through every failure of the acceptor an index is in its pool once, in the *)
(* acceptor's hands, or spent on one connection: none is lost or given twice. *)
THEOREM IndicesAlwaysConserved == Spec => []IndicesConserved
<1>1. Init => IndicesConserved
  <2> SUFFICES ASSUME Init PROVE IndicesConserved
    OBVIOUS
  <2>1. /\ IsInjective(mClientIndexPool) /\ IsInjective(mNetworkContextIndexPool)
    BY Numbers DEF Init, IsInjective
  <2>2. Range(mClientIndexPool) = 1..Clients
    BY Numbers DEF Init, Range
  <2>3. Range(mNetworkContextIndexPool) = Ctx
    <3>1. \A k \in Ctx : k + 1 \in 1..Contexts /\ (k + 1) - 1 = k
      BY Numbers DEF Ctx
    <3>2. \A k \in 1..Contexts : k - 1 \in Ctx
      BY Numbers DEF Ctx
    <3> QED BY <3>1, <3>2 DEF Init, Range
  <2>4. ClientInHand = {} /\ ContextInHand = {} /\ io = {}
    BY DEF Init, ClientInHand, ContextInHand
  <2> QED BY <2>1, <2>2, <2>3, <2>4 DEF IndicesConserved
<1> QED BY <1>1, NextConserved, BaseAlways, PTL DEF Spec
=============================================================================
