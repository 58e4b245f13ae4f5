---------------------------- MODULE ThreadsProofs ---------------------------
(***************************************************************************)
(* Server, for every number of connections, loops and descriptors and      *)
(* every MAXCONNECTION: types, the table of connections, its counter, and  *)
(* the edge triggered listener.                                            *)
(*                                                                         *)
(* ProxyRelay, for every number of pieces: no piece is doubled, and none   *)
(* is lost unless a send was cut short or another thread has read the      *)
(* client.                                                                 *)
(*                                                                         *)
(* MCThreads: what is proved of a component holds beside the others.       *)
(***************************************************************************)
EXTENDS MCThreads, TimerManagerProofs, FiniteSetTheorems, SequenceTheorems,
        WellFoundedInduction, TLAPS

\* A set of natural numbers has a least element: the first free slot of a
\* vector and the lowest free descriptor exist.  From the well-foundedness of <.
LEMMA Minimum ==
    ASSUME NEW S, S \subseteq Nat, S # {}
    PROVE  \E m \in S : \A n \in S : m <= n
<1> DEFINE R == OpToRel(<, Nat)
<1>1. IsWellFoundedOn(R, Nat)
  BY NatLessThanWellFounded
<1>2. \A x, y \in Nat : <<x, y>> \in R <=> x < y
  BY DEF OpToRel
<1> HIDE DEF R
<1>3. PICK m \in S : \A n \in S : ~(<<n, m>> \in R)
  BY <1>1, WFMin
<1>4. \A n \in S : ~(n < m)
  BY <1>2, <1>3, Zenon
<1>5. QED
  BY <1>4

\* A connection owns a descriptor from accept to close.
HoldsDescriptor(c) == client[c].at \in {"accepted", "live", "removing", "removed", "leaked"}

DescriptorInv ==
    /\ \A c \in Clients : client[c].fd # 0 <=> HoldsDescriptor(c)
    /\ \A c, d \in Clients : client[c].fd = client[d].fd /\ client[c].fd # 0 => c = d

\* The kernel's queue holds each waiting connection once.
BacklogInv ==
    /\ \A i \in 1 .. Len(backlog) : client[backlog[i]].at = "waiting"
    /\ \A i, j \in 1 .. Len(backlog) : backlog[i] = backlog[j] => i = j

\* One connection is between accept and the table: the accepting thread's.
HasClient == acceptor.at \in {"read", "write", "register"}
AcceptorInv ==
    /\ HasClient => /\ acceptor.client \in Clients
                    /\ client[acceptor.client].at = "accepted"
                    /\ clientfd = client[acceptor.client].fd

\* What the counter stands for; the accepting thread has counted the connection
\* that it is about to register, and has found a place for it.
Registering == IF acceptor.at = "register" THEN 1 ELSE 0
CountInv == (~raced /\ ~Crashed) =>
    /\ connCount = Cardinality(InService) + Cardinality(Refused) + Registering
    /\ acceptor.at = "register" => Cardinality(InService) + 1 < MaxConnection
    /\ InService = {} \/ Cardinality(InService) < MaxConnection

ServerInv == /\ ServerTypeOK /\ DescriptorInv /\ BacklogInv /\ AcceptorInv
             /\ RegistryMatches /\ CountInv

-----------------------------------------------------------------------------

ClientRecord == [at : ClientStages, fd : Descriptors \cup {0}, loop : Loops, count : Int]

\* What an assignment to two fields of a connection leaves.
LEMMA ClientFields ==
    ASSUME ServerTypeOK, NEW c \in Clients, NEW at \in ClientStages, NEW fd \in Descriptors \cup {0},
           NEW next, next = [client EXCEPT ![c].at = at, ![c].fd = fd]
    PROVE  /\ next \in [Clients -> ClientRecord]
           /\ \A d \in Clients : /\ next[d].at = IF d = c THEN at ELSE client[d].at
                                 /\ next[d].fd = IF d = c THEN fd ELSE client[d].fd
                                 /\ next[d].count = client[d].count /\ next[d].loop = client[d].loop
<1>1. client \in [Clients -> ClientRecord]
  BY DEF ServerTypeOK, ClientRecord
<1>2. QED
  BY <1>1 DEF ClientRecord

LEMMA ServerInitInv == ServerInit => ServerInv
<1>1. SUFFICES ASSUME ServerInit PROVE ServerInv
  OBVIOUS
<1>2. ThreadNum \in Nat /\ ThreadNum > 0 /\ ClientNum \in Nat /\ MaxAcceptErrors \in Nat /\ 0 \in Loops
  BY ThreadNumAssumption, ClientNumAssumption, MaxConnectionAssumption DEF Loops
<1>3. ServerTypeOK
  <2>1. client \in [Clients -> ClientRecord]
    BY <1>1, <1>2 DEF ServerInit, ClientStages, ClientRecord
  <2>2. loopThread \in [Loops -> [at : {"created", "set", "looping", "ended"}, quit : BOOLEAN]]
    BY <1>1 DEF ServerInit
  <2>3. acceptor \in [at : {"idle", "accept", "read", "write", "register"},
                     client : Clients \cup {0}, count : Int]
    BY <1>1 DEF ServerInit
  <2>4. owner \in [at : {"serving", "quit", "early", "join", "destroyed", "crashed"}, loop : Loops]
    BY <1>1, <1>2 DEF ServerInit
  <2>5. backlog \in Seq(Clients) /\ acceptErrors \in 0 .. MaxAcceptErrors
    BY <1>1, <1>2 DEF ServerInit
  <2>6. QED
    BY <1>1, <1>2, <2>1, <2>2, <2>3, <2>4, <2>5 DEF ServerInit, ServerTypeOK, ClientRecord
<1>4. \A c \in Clients : client[c].at = "absent" /\ client[c].fd = 0
  BY <1>1 DEF ServerInit
<1>5. DescriptorInv /\ BacklogInv /\ AcceptorInv
  BY <1>1, <1>4 DEF ServerInit, DescriptorInv, HoldsDescriptor, BacklogInv, AcceptorInv, HasClient
<1>6. InService = {} /\ Refused = {}
  BY <1>4 DEF InService, Refused
<1>7. RegistryMatches
  BY <1>1, <1>6 DEF ServerInit, RegistryMatches, Descriptors, Clients
<1>8. CountInv
  BY <1>1, <1>6, FS_EmptySet DEF ServerInit, CountInv, Registering
<1>9. QED
  BY <1>3, <1>5, <1>7, <1>8 DEF ServerInv

\* A connection in the backlog has no descriptor, so that one is free, and the
\* lowest of them is.
LEMMA LowestIsFree ==
    ASSUME ServerTypeOK, DescriptorInv, NEW c \in Clients, client[c].fd = 0
    PROVE  LowestFree \in Descriptors /\ \A d \in Clients : client[d].fd # LowestFree
<1>1. FreeDescriptors # {}
  <2>1. SUFFICES ASSUME \A d \in Descriptors : \E e \in Clients : client[e].fd = d PROVE FALSE
    BY DEF FreeDescriptors
  <2> DEFINE holder == [d \in Descriptors |-> CHOOSE e \in Clients : client[e].fd = d]
  <2>2. \A d \in Descriptors : holder[d] \in Clients /\ client[holder[d]].fd = d
    BY <2>1
  <2>3. 0 \notin Descriptors
    BY ClientNumAssumption DEF Descriptors
  <2>4. holder \in [Descriptors -> Clients \ {c}]
    BY <2>2, <2>3
  <2>5. holder \in Injection(Descriptors, Clients \ {c})
    <3>1. \A d, e \in Descriptors : holder[d] = holder[e] => d = e
      BY <2>2
    <3> HIDE DEF holder
    <3>2. QED
      BY <2>4, <3>1 DEF Injection, IsInjective
  <2>6. IsFiniteSet(Clients) /\ Cardinality(Clients) = ClientNum /\ Cardinality(Descriptors) = ClientNum
    BY ClientNumAssumption, FS_Interval DEF Clients, Descriptors
  <2>7. IsFiniteSet(Clients \ {c}) /\ Cardinality(Clients \ {c}) = ClientNum - 1
    BY <2>6, FS_RemoveElement
  <2> HIDE DEF holder
  <2>8. ClientNum <= ClientNum - 1
    BY <2>5, <2>6, <2>7, FS_Injection
  <2>9. QED
    BY <2>8, ClientNumAssumption
<1>2. FreeDescriptors \subseteq Nat
  BY ClientNumAssumption DEF FreeDescriptors, Descriptors
<1>3. \E d \in FreeDescriptors : \A e \in FreeDescriptors : d <= e
  BY <1>1, <1>2, Minimum
<1>4. LowestFree \in FreeDescriptors
  BY <1>3, Zenon DEF LowestFree
<1>5. QED
  BY <1>4 DEF FreeDescriptors

LEMMA BacklogNames == ServerTypeOK => \A i \in 1 .. Len(backlog) : backlog[i] \in Clients
  BY ElementOfSeq DEF ServerTypeOK

LEMMA SetsFinite ==
    /\ IsFiniteSet(InService) /\ Cardinality(InService) \in Nat
    /\ IsFiniteSet(Refused) /\ Cardinality(Refused) \in Nat
<1>1. IsFiniteSet(Clients)
  BY ClientNumAssumption, FS_Interval DEF Clients
<1>2. InService \in SUBSET Clients /\ Refused \in SUBSET Clients
  BY DEF InService, Refused
<1>3. QED
  BY <1>1, <1>2, FS_Subset, FS_CardinalityType

-----------------------------------------------------------------------------
(* Steps that leave the table alone.                                       *)

LEMMA ThreadsTypes ==
    ASSUME ServerTypeOK, (\E l \in Loops : LoopStep(l)) \/ Destroy \/ DestroyStep
    PROVE  ServerTypeOK' /\ UNCHANGED <<acceptVars, tableVars>> /\ ~Crashed
<1>1. ThreadNum \in Nat /\ ThreadNum > 0 /\ 0 \in Loops /\ owner.loop \in Loops
  BY ThreadNumAssumption DEF ServerTypeOK, Loops
<1>2. ASSUME NEW l \in Loops, LoopStep(l)
      PROVE  ServerTypeOK' /\ UNCHANGED <<acceptVars, tableVars>> /\ ~Crashed
  <2>1. PICK to \in [at : {"created", "set", "looping", "ended"}, quit : BOOLEAN] :
             loopThread' = [loopThread EXCEPT ![l] = to] /\ UNCHANGED <<acceptVars, tableVars, owner>>
    BY <1>2 DEF LoopStep, LoopSet, LoopEnter, LoopEnd, LoopMoves
  <2>2. ~Crashed
    BY <1>2 DEF LoopStep, LoopSet, LoopEnter, LoopEnd, LoopMoves
  <2>3. QED
    BY <2>1, <2>2 DEF ServerTypeOK, acceptVars, tableVars
<1>3. CASE Destroy
  BY <1>1, <1>3 DEF Destroy, Owner, Crashed, ServerTypeOK, acceptVars, tableVars
<1>4. CASE DestroyQuit
  <2>1. UNCHANGED <<acceptVars, tableVars>> /\ owner.at = "quit"
    BY <1>4 DEF DestroyQuit, Owner
  <2>2. owner' \in [at : {"serving", "quit", "early", "join", "destroyed", "crashed"}, loop : Loops]
    BY <1>1, <1>4 DEF DestroyQuit, ServerTypeOK
  <2>3. loopThread' \in [Loops -> [at : {"created", "set", "looping", "ended"}, quit : BOOLEAN]]
    <3>1. [loopThread[owner.loop] EXCEPT !.quit = TRUE]
              \in [at : {"created", "set", "looping", "ended"}, quit : BOOLEAN]
      <4>1. PICK r : r = loopThread[owner.loop]
        OBVIOUS
      <4>2. r \in [at : {"created", "set", "looping", "ended"}, quit : BOOLEAN]
        BY <1>1, <4>1 DEF ServerTypeOK
      <4>3. [r EXCEPT !.quit = TRUE] \in [at : {"created", "set", "looping", "ended"}, quit : BOOLEAN]
        BY <4>2
      <4>4. QED
        BY <4>1, <4>3
    <3>2. \/ loopThread' = loopThread
          \/ loopThread' = [loopThread EXCEPT ![owner.loop].quit = TRUE]
      BY <1>4, Zenon DEF DestroyQuit
    <3>3. QED
      BY <1>1, <3>1, <3>2 DEF ServerTypeOK
  <2>4. QED
    BY <2>1, <2>2, <2>3 DEF ServerTypeOK, acceptVars, tableVars, Crashed
<1>5. CASE DestroyJoin
  <2>1. UNCHANGED <<acceptVars, tableVars, loopThread>> /\ owner.at \in {"early", "join"}
    BY <1>5 DEF DestroyJoin, Joining, Owner
  <2>2. owner.loop + 1 = ThreadNum \/ owner.loop + 1 \in Loops
    BY <1>1 DEF Loops
  <2>3. owner' \in [at : {"serving", "quit", "early", "join", "destroyed", "crashed"}, loop : Loops]
    BY <1>5, <2>2 DEF DestroyJoin, ServerTypeOK
  <2>4. QED
    BY <2>1, <2>3 DEF ServerTypeOK, acceptVars, tableVars, Crashed
<1>6. QED
  BY <1>2, <1>3, <1>4, <1>5 DEF DestroyStep

LEMMA ThreadsMove ==
    ASSUME ServerInv,
           (\E l \in Loops : LoopStep(l)) \/ Destroy \/ DestroyStep \/ UNCHANGED serverVars
    PROVE  ServerInv'
<1>1. CASE UNCHANGED serverVars
  BY <1>1 DEF serverVars, acceptVars, tableVars, threadLifeVars, ServerInv, ServerTypeOK, DescriptorInv,
              HoldsDescriptor, BacklogInv, AcceptorInv, HasClient, RegistryMatches, CountInv, Registering,
              InService, Refused, Crashed
<1>2. CASE (\E l \in Loops : LoopStep(l)) \/ Destroy \/ DestroyStep
  <2>1. ServerTypeOK' /\ UNCHANGED <<acceptVars, tableVars>> /\ ~Crashed
    BY <1>2, ThreadsTypes DEF ServerInv
  <2>2. UNCHANGED <<InService, Refused, Registering, HasClient>>
    BY <2>1 DEF InService, Refused, Registering, HasClient, acceptVars, tableVars
  <2>3. QED
    BY <2>1, <2>2 DEF ServerInv, DescriptorInv, HoldsDescriptor, BacklogInv, AcceptorInv,
                      RegistryMatches, CountInv, acceptVars, tableVars
<1>3. QED
  BY <1>1, <1>2

LEMMA AcceptorMoves ==
    ASSUME ServerInv, ListenEvent \/ AcceptNone \/ AcceptFails \/ CountRead
    PROVE  ServerInv'
<1>1. ServerTypeOK
  BY DEF ServerInv
<1>2. UNCHANGED <<tableVars, loopThread, nextLoop, owner>> /\ ~Crashed
  BY DEF ListenEvent, AcceptNone, AcceptFails, CountRead, Acceptor
<1>3. /\ acceptor.at # "register" /\ acceptor'.at # "register"
      /\ acceptor' \in [at : {"idle", "accept", "read", "write", "register"},
                        client : Clients \cup {0}, count : Int]
      /\ HasClient' => HasClient /\ acceptor'.client = acceptor.client /\ clientfd' = clientfd
  BY <1>1 DEF ListenEvent, AcceptNone, AcceptFails, CountRead, Acceptor, ServerTypeOK, HasClient
<1>4. /\ clientfd' \in Descriptors \cup {0, -1} /\ backlog' = backlog /\ edge' \in BOOLEAN
      /\ acceptErrors' \in 0 .. MaxAcceptErrors
  <2>1. acceptErrors \in Nat /\ MaxAcceptErrors \in Nat /\ acceptErrors <= MaxAcceptErrors
    BY <1>1, MaxConnectionAssumption DEF ServerTypeOK
  <2>2. CASE AcceptFails
    BY <1>1, <2>1, <2>2 DEF AcceptFails, Acceptor, ServerTypeOK
  <2>3. CASE ListenEvent \/ AcceptNone \/ CountRead
    BY <1>1, <2>3 DEF ListenEvent, AcceptNone, CountRead, Acceptor, ServerTypeOK
  <2>4. QED
    BY <2>2, <2>3
<1>5. ServerTypeOK'
  BY <1>1, <1>2, <1>3, <1>4 DEF ServerTypeOK, tableVars
<1>6. AcceptorInv'
  BY <1>2, <1>3 DEF ServerInv, AcceptorInv, tableVars
<1>7. UNCHANGED <<InService, Refused, Registering, Crashed>>
  BY <1>2, <1>3 DEF InService, Refused, Registering, Crashed, tableVars
<1>8. QED
  BY <1>2, <1>3, <1>4, <1>5, <1>6, <1>7
     DEF ServerInv, DescriptorInv, HoldsDescriptor, BacklogInv, RegistryMatches, CountInv, tableVars

\* The connection at the head of the backlog gets a descriptor nobody has.
LEMMA AcceptOneStep == ASSUME ServerInv, AcceptOne PROVE ServerInv'
<1> DEFINE h == Head(backlog)
<1>1. /\ ServerTypeOK /\ DescriptorInv /\ BacklogInv /\ RegistryMatches /\ CountInv
      /\ backlog # <<>> /\ ~Crashed /\ acceptor.at = "accept"
  BY DEF ServerInv, AcceptOne, Acceptor
<1>2. /\ h \in Clients /\ h = backlog[1] /\ Len(backlog) \in Nat /\ Len(backlog) > 0
      /\ Tail(backlog) \in Seq(Clients) /\ Len(Tail(backlog)) = Len(backlog) - 1
      /\ \A i \in 1 .. Len(backlog) - 1 : Tail(backlog)[i] = backlog[i + 1]
  BY <1>1, HeadTailProperties DEF ServerTypeOK
<1>3. client[h].at = "waiting" /\ client[h].fd = 0
  BY <1>1, <1>2 DEF BacklogInv, DescriptorInv, HoldsDescriptor
<1>4. LowestFree \in Descriptors /\ \A d \in Clients : client[d].fd # LowestFree
  BY <1>1, <1>2, <1>3, LowestIsFree
<1> HIDE DEF h
<1>5. /\ client' = [client EXCEPT ![h].at = "accepted", ![h].fd = LowestFree]
      /\ acceptor' = [acceptor EXCEPT !.at = "read", !.client = h]
      /\ backlog' = Tail(backlog) /\ clientfd' = LowestFree
      /\ UNCHANGED <<edge, nextLoop, acceptErrors, tcpConnList, connCount, listMutex, raced,
                     owner, loopThread>>
  BY DEF AcceptOne, Acceptor, h
<1>6. /\ client' \in [Clients -> ClientRecord]
      /\ \A d \in Clients : /\ client'[d].at = IF d = h THEN "accepted" ELSE client[d].at
                            /\ client'[d].fd = IF d = h THEN LowestFree ELSE client[d].fd
  <2>1. "accepted" \in ClientStages
    BY DEF ClientStages
  <2>2. QED
    BY <1>1, <1>2, <1>4, <1>5, <2>1, ClientFields
<1>7. /\ acceptor' \in [at : {"idle", "accept", "read", "write", "register"},
                        client : Clients \cup {0}, count : Int]
      /\ acceptor'.at = "read" /\ acceptor'.client = h
  BY <1>1, <1>2, <1>5 DEF ServerTypeOK
<1>8. ServerTypeOK'
  BY <1>1, <1>2, <1>4, <1>5, <1>6, <1>7 DEF ServerTypeOK, ClientRecord
<1>9. 0 \notin Descriptors
  BY ClientNumAssumption DEF Descriptors
<1>10. DescriptorInv'
  BY <1>1, <1>3, <1>4, <1>6, <1>9 DEF DescriptorInv, HoldsDescriptor
<1>11. BacklogInv'
  <2>1. \A i \in 1 .. Len(backlog') : /\ backlog'[i] = backlog[i + 1] /\ i + 1 \in 1 .. Len(backlog)
                                      /\ backlog[i + 1] \in Clients /\ backlog[i + 1] # h
    <3>1. SUFFICES ASSUME NEW i \in 1 .. Len(backlog')
                   PROVE  /\ backlog'[i] = backlog[i + 1] /\ i + 1 \in 1 .. Len(backlog)
                          /\ backlog[i + 1] \in Clients /\ backlog[i + 1] # h
      OBVIOUS
    <3>2. /\ i \in 1 .. Len(backlog) - 1 /\ i + 1 \in 1 .. Len(backlog)
          /\ 1 \in 1 .. Len(backlog) /\ i + 1 # 1
      BY <1>2, <1>5, <3>1
    <3>3. backlog'[i] = backlog[i + 1]
      BY <1>2, <1>5, <3>2
    <3>4. backlog[i + 1] # backlog[1]
      BY <1>1, <3>2, Zenon DEF BacklogInv
    <3>5. backlog[i + 1] \in Clients
      BY <1>1, <3>2, ElementOfSeq DEF ServerTypeOK
    <3>6. QED
      BY <1>2, <3>2, <3>3, <3>4, <3>5
  <2>2. Len(backlog') \in Nat
    BY <1>2, <1>5
  <2>3. \A i \in 1 .. Len(backlog') : client'[backlog'[i]].at = "waiting"
    BY <1>1, <1>6, <2>1 DEF BacklogInv
  <2>4. \A i, j \in 1 .. Len(backlog') : backlog'[i] = backlog'[j] => i = j
    BY <1>1, <2>1, <2>2 DEF BacklogInv
  <2>5. QED
    BY <2>3, <2>4 DEF BacklogInv
<1>12. AcceptorInv'
  BY <1>2, <1>5, <1>6, <1>7 DEF AcceptorInv
<1>13. UNCHANGED <<InService, Refused, Registering, Crashed>>
  BY <1>1, <1>3, <1>5, <1>6, <1>7 DEF InService, Refused, Registering, Crashed
<1>14. RegistryMatches'
  BY <1>1, <1>3, <1>5, <1>6, <1>13 DEF RegistryMatches, InService
<1>15. CountInv'
  BY <1>1, <1>5, <1>7, <1>13 DEF CountInv
<1>16. QED
  BY <1>8, <1>10, <1>11, <1>12, <1>14, <1>15 DEF ServerInv

\* A connection is counted, and stays or is closed.
LEMMA CountWriteStep == ASSUME ServerInv, CountWrite PROVE ServerInv'
<1> DEFINE c == acceptor.client
           full == acceptor.count + 1 >= MaxConnection
<1>1. /\ ServerTypeOK /\ DescriptorInv /\ BacklogInv /\ AcceptorInv /\ RegistryMatches /\ CountInv
      /\ ~Crashed /\ acceptor.at = "write"
  BY DEF ServerInv, CountWrite, Acceptor
<1>2. c \in Clients /\ client[c].at = "accepted" /\ clientfd = client[c].fd
  BY <1>1 DEF AcceptorInv, HasClient
<1>3. /\ connCount' = acceptor.count + 1
      /\ raced' = (raced \/ connCount # acceptor.count)
      /\ client' = IF full THEN [client EXCEPT ![c].at = "refused", ![c].fd = 0] ELSE client
      /\ acceptor' = [acceptor EXCEPT !.at = IF full THEN "accept" ELSE "register"]
      /\ UNCHANGED <<clientfd, backlog, edge, nextLoop, acceptErrors, tcpConnList, listMutex,
                     owner, loopThread>>
  BY DEF CountWrite, Acceptor
<1>4. full \in BOOLEAN /\ acceptor.count \in Int
  BY <1>1 DEF ServerTypeOK
<1> HIDE DEF c, full
<1>5. /\ client' \in [Clients -> ClientRecord]
      /\ \A d \in Clients : /\ client'[d].at = IF d = c /\ full THEN "refused" ELSE client[d].at
                            /\ client'[d].fd = IF d = c /\ full THEN 0 ELSE client[d].fd
  <2>1. "refused" \in ClientStages
    BY DEF ClientStages
  <2>2. CASE full
    BY <1>1, <1>2, <1>3, <2>1, <2>2, ClientFields
  <2>3. CASE ~full
    BY <1>1, <1>3, <2>3 DEF ServerTypeOK, ClientRecord
  <2>4. QED
    BY <2>2, <2>3
<1>6. /\ acceptor' \in [at : {"idle", "accept", "read", "write", "register"},
                        client : Clients \cup {0}, count : Int]
      /\ acceptor'.at = (IF full THEN "accept" ELSE "register") /\ acceptor'.client = c
  BY <1>1, <1>3 DEF ServerTypeOK, c
<1>7. ServerTypeOK'
  BY <1>1, <1>3, <1>4, <1>5, <1>6 DEF ServerTypeOK, ClientRecord
<1>8. DescriptorInv'
  BY <1>1, <1>2, <1>5 DEF DescriptorInv, HoldsDescriptor
<1>9. BacklogInv'
  <2>1. \A i \in 1 .. Len(backlog) : backlog[i] \in Clients /\ backlog[i] # c
    BY <1>1, <1>2, BacklogNames DEF BacklogInv
  <2>2. QED
    BY <1>1, <1>3, <1>5, <2>1 DEF BacklogInv
<1>10. AcceptorInv'
  BY <1>2, <1>3, <1>5, <1>6 DEF AcceptorInv, HasClient
<1>11. InService' = InService /\ Crashed' = Crashed
  BY <1>2, <1>3, <1>5 DEF InService, Crashed
<1>12. RegistryMatches'
  BY <1>1, <1>2, <1>3, <1>5, <1>11 DEF RegistryMatches, InService
<1>13. CountInv'
  <2>1. SUFFICES ASSUME ~raced, connCount = acceptor.count PROVE CountInv'
    BY <1>3 DEF CountInv
  <2>2. /\ connCount = Cardinality(InService) + Cardinality(Refused)
        /\ InService = {} \/ Cardinality(InService) < MaxConnection
    BY <1>1, <2>1, SetsFinite DEF CountInv, Registering
  <2>3. CASE full
    <3>1. Refused' = Refused \cup {c} /\ c \notin Refused
      BY <1>2, <1>5, <2>3 DEF Refused
    <3>2. Cardinality(Refused') = Cardinality(Refused) + 1
      BY <3>1, SetsFinite, FS_AddElement
    <3>3. QED
      BY <1>3, <1>6, <1>11, <2>1, <2>2, <2>3, <3>2, SetsFinite DEF CountInv, Registering
  <2>4. CASE ~full
    <3>1. Refused' = Refused
      BY <1>5, <2>4 DEF Refused
    <3>2. acceptor.count + 1 < MaxConnection
      BY <1>1, <2>4, MaxConnectionAssumption DEF full, ServerTypeOK
    <3>3. QED
      BY <1>3, <1>6, <1>11, <2>1, <2>2, <2>4, <3>1, <3>2, SetsFinite, MaxConnectionAssumption
         DEF CountInv, Registering
  <2>5. QED
    BY <2>3, <2>4
<1>14. QED
  BY <1>7, <1>8, <1>9, <1>10, <1>12, <1>13 DEF ServerInv

\* The entry is made under a descriptor that no connection in service has.
LEMMA RegisterStep == ASSUME ServerInv, Register PROVE ServerInv'
<1> DEFINE c == acceptor.client
           crash == loopThread[nextLoop].at = "created"
<1>1. /\ ServerTypeOK /\ DescriptorInv /\ BacklogInv /\ AcceptorInv /\ RegistryMatches /\ CountInv
      /\ ~Crashed /\ acceptor.at = "register"
  BY DEF ServerInv, Register, Registered, Acceptor
<1>2. c \in Clients /\ client[c].at = "accepted" /\ clientfd = client[c].fd
  BY <1>1 DEF AcceptorInv, HasClient
<1>3. /\ tcpConnList' = [tcpConnList EXCEPT ![clientfd] = c]
      /\ nextLoop' = (nextLoop + 1) % ThreadNum
      /\ IF crash THEN owner' = [owner EXCEPT !.at = "crashed"] /\ UNCHANGED client
         ELSE UNCHANGED owner /\ client' = [client EXCEPT ![c].at = "live", ![c].loop = nextLoop]
      /\ acceptor' = [acceptor EXCEPT !.at = "accept"]
      /\ UNCHANGED <<clientfd, backlog, edge, acceptErrors, connCount, listMutex, raced, loopThread>>
  BY DEF Register, Registered, Acceptor
<1>4. crash \in BOOLEAN
  OBVIOUS
<1> HIDE DEF c, crash
<1>5. nextLoop' \in Loops
  <2>1. nextLoop' = (nextLoop + 1) % ThreadNum /\ nextLoop \in Nat
    BY <1>1, <1>3 DEF ServerTypeOK, Loops
  <2>2. QED
    BY <2>1, ThreadNumAssumption DEF Loops
<1>6. /\ client' \in [Clients -> ClientRecord]
      /\ \A d \in Clients : /\ client'[d].at = IF d = c /\ ~crash THEN "live" ELSE client[d].at
                            /\ client'[d].fd = client[d].fd
  <2>1. "live" \in ClientStages
    BY DEF ClientStages
  <2>2. client \in [Clients -> ClientRecord] /\ nextLoop \in Loops
    BY <1>1 DEF ServerTypeOK, ClientRecord
  <2>3. QED
    BY <1>2, <1>3, <2>1, <2>2 DEF ClientRecord
<1>7. /\ acceptor' \in [at : {"idle", "accept", "read", "write", "register"},
                        client : Clients \cup {0}, count : Int]
      /\ acceptor'.at = "accept"
  BY <1>1, <1>3 DEF ServerTypeOK
<1>8. owner' \in [at : {"serving", "quit", "early", "join", "destroyed", "crashed"}, loop : Loops]
      /\ (crash => owner'.at = "crashed") /\ (~crash => owner' = owner)
  BY <1>1, <1>3, <1>4 DEF ServerTypeOK
<1>9. client[c].fd # 0 /\ clientfd \in Descriptors
  BY <1>1, <1>2 DEF DescriptorInv, HoldsDescriptor, ServerTypeOK
<1>10. /\ tcpConnList' \in [Descriptors -> Clients \cup {0}]
       /\ \A d \in Descriptors : tcpConnList'[d] = IF d = clientfd THEN c ELSE tcpConnList[d]
  BY <1>1, <1>2, <1>3, <1>9 DEF ServerTypeOK
<1>11. ServerTypeOK'
  BY <1>1, <1>3, <1>5, <1>6, <1>7, <1>8, <1>10 DEF ServerTypeOK, ClientRecord
<1>12. DescriptorInv'
  BY <1>1, <1>2, <1>6 DEF DescriptorInv, HoldsDescriptor
<1>13. BacklogInv'
  <2>1. \A i \in 1 .. Len(backlog) : backlog[i] \in Clients /\ backlog[i] # c
    BY <1>1, <1>2, BacklogNames DEF BacklogInv
  <2>2. QED
    BY <1>1, <1>3, <1>6, <2>1 DEF BacklogInv
<1>14. AcceptorInv'
  BY <1>7 DEF AcceptorInv, HasClient
<1>15. ~crash => InService' = InService \cup {c} /\ c \notin InService
  BY <1>2, <1>6 DEF InService
<1>16. RegistryMatches'
  <2>1. SUFFICES ASSUME ~crash, NEW d \in Descriptors, NEW e \in Clients
                 PROVE  tcpConnList'[d] = e <=> e \in InService' /\ client'[e].fd = d
    BY <1>8 DEF RegistryMatches, Crashed
  <2>2. tcpConnList[d] = e <=> e \in InService /\ client[e].fd = d
    BY <1>1 DEF RegistryMatches
  <2>3. CASE d = clientfd
    BY <1>1, <1>2, <1>6, <1>9, <1>10, <1>15, <2>1, <2>3 DEF DescriptorInv
  <2>4. CASE d # clientfd
    BY <1>2, <1>6, <1>10, <1>15, <2>1, <2>2, <2>4
  <2>5. QED
    BY <2>3, <2>4
<1>17. CountInv'
  <2>1. SUFFICES ASSUME ~raced, ~crash PROVE CountInv'
    BY <1>3, <1>8 DEF CountInv, Crashed
  <2>2. Refused' = Refused
    BY <1>2, <1>6 DEF Refused
  <2>3. Cardinality(InService') = Cardinality(InService) + 1
    BY <1>15, <2>1, SetsFinite, FS_AddElement
  <2>4. QED
    BY <1>1, <1>3, <1>7, <2>1, <2>2, <2>3, SetsFinite DEF CountInv, Registering
<1>18. QED
  BY <1>11, <1>12, <1>13, <1>14, <1>16, <1>17 DEF ServerInv

\* A new connection waits in the backlog.
LEMMA ConnectStep == ASSUME ServerInv, NEW c \in Clients, Connect(c) PROVE ServerInv'
<1>1. /\ ServerTypeOK /\ DescriptorInv /\ BacklogInv /\ AcceptorInv /\ RegistryMatches /\ CountInv
      /\ client[c].at = "absent"
  BY DEF ServerInv, Connect
<1>2. /\ client' = [client EXCEPT ![c].at = "waiting"]
      /\ backlog' = Append(backlog, c) /\ edge' = TRUE
      /\ UNCHANGED <<acceptor, clientfd, nextLoop, acceptErrors, loopThread, owner,
                     tcpConnList, connCount, listMutex, raced>>
  BY DEF Connect, threadLifeVars
<1>3. /\ client' \in [Clients -> ClientRecord]
      /\ \A d \in Clients : /\ client'[d].at = IF d = c THEN "waiting" ELSE client[d].at
                            /\ client'[d].fd = client[d].fd
  <2>1. "waiting" \in ClientStages /\ client \in [Clients -> ClientRecord]
    BY <1>1 DEF ClientStages, ServerTypeOK, ClientRecord
  <2>2. QED
    BY <1>2, <2>1 DEF ClientRecord
<1>4. /\ backlog' \in Seq(Clients) /\ Len(backlog') = Len(backlog) + 1 /\ Len(backlog) \in Nat
      /\ \A i \in 1 .. Len(backlog) : backlog'[i] = backlog[i] /\ backlog[i] \in Clients
      /\ backlog'[Len(backlog) + 1] = c
  BY <1>1, <1>2, AppendProperties DEF ServerTypeOK
<1>5. ServerTypeOK'
  BY <1>1, <1>2, <1>3, <1>4 DEF ServerTypeOK, ClientRecord
<1>6. DescriptorInv'
  BY <1>1, <1>3 DEF DescriptorInv, HoldsDescriptor
<1>7. BacklogInv'
  <2>1. \A i \in 1 .. Len(backlog) : backlog[i] # c
    BY <1>1 DEF BacklogInv
  <2>2. \A i \in 1 .. Len(backlog') : i \in 1 .. Len(backlog) \/ i = Len(backlog) + 1
    BY <1>4
  <2>3. \A i \in 1 .. Len(backlog') : client'[backlog'[i]].at = "waiting"
    BY <1>1, <1>3, <1>4, <2>2 DEF BacklogInv
  <2>4. \A i, j \in 1 .. Len(backlog') : backlog'[i] = backlog'[j] => i = j
    BY <1>1, <1>4, <2>1, <2>2 DEF BacklogInv
  <2>5. QED
    BY <2>3, <2>4 DEF BacklogInv
<1>8. AcceptorInv'
  BY <1>1, <1>2, <1>3 DEF AcceptorInv, HasClient
<1>9. UNCHANGED <<InService, Refused, Registering, Crashed>>
  BY <1>1, <1>2, <1>3 DEF InService, Refused, Registering, Crashed
<1>10. RegistryMatches'
  BY <1>1, <1>2, <1>3, <1>9 DEF RegistryMatches
<1>11. CountInv'
  BY <1>1, <1>2, <1>9 DEF CountInv
<1>12. QED
  BY <1>5, <1>6, <1>7, <1>8, <1>10, <1>11 DEF ServerInv

\* What the three steps of a removal have in common.
LEMMA RemoverMoves ==
    ASSUME ServerInv, NEW c \in Clients, RemoveRead(c) \/ RemoveWrite(c) \/ CloseClient(c)
    PROVE  /\ UNCHANGED <<acceptVars, threadLifeVars>> /\ ~Crashed
           /\ client[c].at \in {"live", "removing", "removed"} /\ client'[c].at # "accepted"
           /\ client' \in [Clients -> ClientRecord]
           /\ \A d \in Clients \ {c} : client'[d] = client[d]
           /\ connCount' \in Int /\ listMutex' \in Clients \cup {0} /\ raced' \in BOOLEAN
           /\ AcceptorInv' /\ BacklogInv'
<1>1. ServerTypeOK /\ AcceptorInv /\ BacklogInv
  BY DEF ServerInv
<1>2. UNCHANGED <<acceptVars, threadLifeVars>> /\ ~Crashed
  BY DEF RemoveRead, RemoveWrite, CloseClient, Remover
<1>3. /\ client \in [Clients -> ClientRecord] /\ connCount \in Int
      /\ {"live", "removing", "removed", "leaked", "closed"} \subseteq ClientStages
  BY <1>1 DEF ServerTypeOK, ClientRecord, ClientStages
<1>4. /\ client' \in [Clients -> ClientRecord] /\ \A d \in Clients \ {c} : client'[d] = client[d]
      /\ client[c].at \in {"live", "removing", "removed"}
      /\ client'[c].at \in {"removing", "removed", "leaked", "closed"}
  BY <1>3 DEF RemoveRead, RemoveWrite, CloseClient, ClientRecord
<1>5. connCount' \in Int /\ listMutex' \in Clients \cup {0} /\ raced' \in BOOLEAN
  <2>1. client[c].count \in Int
    BY <1>3 DEF ClientRecord
  <2>2. QED
    <3>1. connCount \in Int /\ listMutex \in Clients \cup {0} /\ raced \in BOOLEAN
      BY <1>1 DEF ServerTypeOK
    <3>2. connCount' \in {connCount, client[c].count - 1} /\ listMutex' \in {listMutex, c, 0}
      BY DEF RemoveRead, RemoveWrite, CloseClient
    <3>3. raced' \in BOOLEAN
      BY <3>1 DEF RemoveRead, RemoveWrite, CloseClient
    <3>4. QED
      BY <2>1, <3>1, <3>2, <3>3
<1>6. AcceptorInv'
  BY <1>1, <1>2, <1>4 DEF AcceptorInv, HasClient, acceptVars
<1>7. BacklogInv'
  <2>1. \A i \in 1 .. Len(backlog) : backlog[i] \in Clients /\ backlog[i] # c
    BY <1>1, <1>4, BacklogNames DEF BacklogInv
  <2>2. QED
    BY <1>1, <1>2, <1>4, <2>1 DEF BacklogInv, acceptVars
<1>8. QED
  BY <1>2, <1>4, <1>5, <1>6, <1>7

LEMMA RemoveStep ==
    ASSUME ServerInv, NEW c \in Clients, RemoveRead(c) \/ RemoveWrite(c) \/ CloseClient(c)
    PROVE  ServerInv'
<1>1. /\ ServerTypeOK /\ DescriptorInv /\ RegistryMatches /\ CountInv
      /\ client \in [Clients -> ClientRecord]
  BY DEF ServerInv, ServerTypeOK, ClientRecord
<1>2. /\ UNCHANGED <<acceptVars, threadLifeVars>> /\ ~Crashed /\ ~Crashed'
      /\ client' \in [Clients -> ClientRecord]
      /\ \A d \in Clients \ {c} : client'[d] = client[d]
      /\ connCount' \in Int /\ listMutex' \in Clients \cup {0} /\ raced' \in BOOLEAN
      /\ AcceptorInv' /\ BacklogInv'
  BY RemoverMoves DEF Crashed, threadLifeVars
<1>3. Refused' = Refused /\ Registering' = Registering
  <2>1. client[c].at # "refused" /\ client'[c].at # "refused"
    BY <1>1 DEF RemoveRead, RemoveWrite, CloseClient, ClientRecord
  <2>2. QED
    BY <1>2, <2>1 DEF Refused, Registering, acceptVars
<1>4. CASE RemoveRead(c)
  <2>1. /\ client[c].at = "live" /\ client'[c].at = "removing" /\ client'[c].fd = client[c].fd
        /\ UNCHANGED <<tcpConnList, connCount, raced>>
    BY <1>1, <1>4 DEF RemoveRead, ClientRecord
  <2>2. ServerTypeOK'
    BY <1>1, <1>2, <2>1 DEF ServerTypeOK, ClientRecord, acceptVars, threadLifeVars
  <2>3. DescriptorInv'
    BY <1>1, <1>2, <2>1 DEF DescriptorInv, HoldsDescriptor
  <2>4. InService' = InService
    BY <1>2, <2>1 DEF InService
  <2>5. RegistryMatches'
    BY <1>1, <1>2, <2>1, <2>4 DEF RegistryMatches
  <2>6. CountInv'
    BY <1>1, <1>2, <1>3, <2>1, <2>4 DEF CountInv, acceptVars
  <2>7. QED
    BY <1>2, <2>2, <2>3, <2>5, <2>6 DEF ServerInv
<1>5. CASE RemoveWrite(c)
  <2>1. /\ client[c].at = "removing" /\ client'[c].at \in {"removed", "leaked"}
        /\ client'[c].fd = client[c].fd
        /\ tcpConnList' = [tcpConnList EXCEPT ![client[c].fd] = 0]
        /\ connCount' = client[c].count - 1
        /\ raced' = (raced \/ connCount # client[c].count)
    BY <1>1, <1>5 DEF RemoveWrite, ClientRecord
  <2>2. client[c].fd \in Descriptors
    BY <1>1, <2>1 DEF DescriptorInv, HoldsDescriptor, ClientRecord
  <2>3. /\ tcpConnList' \in [Descriptors -> Clients \cup {0}]
        /\ \A d \in Descriptors : tcpConnList'[d] = IF d = client[c].fd THEN 0 ELSE tcpConnList[d]
    BY <1>1, <2>1, <2>2 DEF ServerTypeOK
  <2>4. ServerTypeOK'
    BY <1>1, <1>2, <2>3 DEF ServerTypeOK, ClientRecord, acceptVars, threadLifeVars
  <2>5. DescriptorInv'
    BY <1>1, <1>2, <2>1 DEF DescriptorInv, HoldsDescriptor
  <2>6. InService' = InService \ {c} /\ c \in InService
    BY <1>2, <2>1 DEF InService
  <2>7. RegistryMatches'
    <3>1. SUFFICES ASSUME NEW d \in Descriptors, NEW e \in Clients
                   PROVE  tcpConnList'[d] = e <=> e \in InService' /\ client'[e].fd = d
      BY DEF RegistryMatches
    <3>2. tcpConnList[d] = e <=> e \in InService /\ client[e].fd = d
      BY <1>1, <1>2 DEF RegistryMatches
    <3>3. tcpConnList[client[c].fd] = c
      BY <1>1, <1>2, <2>2, <2>6 DEF RegistryMatches
    <3>4. e # 0
      BY ClientNumAssumption DEF Clients
    <3>5. QED
      BY <1>2, <2>3, <2>6, <3>2, <3>3, <3>4
  <2>8. CountInv'
    <3>1. SUFFICES ASSUME ~raced, connCount = client[c].count PROVE CountInv'
      BY <2>1 DEF CountInv
    <3>2. Cardinality(InService') = Cardinality(InService) - 1
      BY <2>6, SetsFinite, FS_RemoveElement
    <3>3. Cardinality(InService') \in Nat /\ acceptor' = acceptor
      BY <1>2, <3>2, <2>6, SetsFinite, FS_RemoveElement, FS_CardinalityType DEF acceptVars
    <3>4. InService # {}
      BY <2>6
    <3>5. QED
      BY <1>1, <1>2, <1>3, <2>1, <3>1, <3>2, <3>3, <3>4, SetsFinite, MaxConnectionAssumption
         DEF CountInv, Registering
  <2>9. QED
    BY <1>2, <2>4, <2>5, <2>7, <2>8 DEF ServerInv
<1>6. CASE CloseClient(c)
  <2>1. /\ client[c].at = "removed" /\ client'[c].at = "closed" /\ client'[c].fd = 0
        /\ UNCHANGED <<tcpConnList, connCount, listMutex, raced>>
    BY <1>1, <1>6 DEF CloseClient, ClientRecord
  <2>2. ServerTypeOK'
    BY <1>1, <1>2, <2>1 DEF ServerTypeOK, ClientRecord, acceptVars, threadLifeVars
  <2>3. DescriptorInv'
    BY <1>1, <1>2, <2>1 DEF DescriptorInv, HoldsDescriptor
  <2>4. InService' = InService /\ c \notin InService
    BY <1>2, <2>1 DEF InService
  <2>5. RegistryMatches'
    BY <1>1, <1>2, <2>1, <2>4 DEF RegistryMatches
  <2>6. CountInv'
    BY <1>1, <1>2, <1>3, <2>1, <2>4 DEF CountInv, acceptVars
  <2>7. QED
    BY <1>2, <2>2, <2>3, <2>5, <2>6 DEF ServerInv
<1>7. QED
  BY <1>4, <1>5, <1>6

LEMMA ServerStepInv == ServerInv /\ [ServerNext]_serverVars => ServerInv'
  BY ThreadsMove, AcceptorMoves, AcceptOneStep, CountWriteStep, RegisterStep, ConnectStep, RemoveStep
     DEF ServerNext, AcceptStep

LEMMA ServerAlways == ServerSpec => []ServerInv
  BY ServerInitInv, ServerStepInv, PTL DEF ServerSpec

-----------------------------------------------------------------------------

\* The types, with a descriptor for every connection that is accepted, for any
\* number of connections and loops.
THEOREM ServerTypeCorrect == ServerSpec => []ServerTypeOK
<1>1. ServerInv => ServerTypeOK
  BY DEF ServerInv
<1>2. QED
  BY <1>1, ServerAlways, PTL

\* tcpConnList_ names every connection in service under its own descriptor and
\* nothing else (Register and RemoveConnection, TcpServer.hpp:285,315).
THEOREM RegistryMatchesHolds == ServerSpec => []RegistryMatches
<1>1. ServerInv => RegistryMatches
  BY DEF ServerInv
<1>2. QED
  BY <1>1, ServerAlways, PTL

\* While no update of connCount_ is lost it counts the connections in service and
\* every refused one, and the table stays below MAXCONNECTION.
THEOREM CountLedgerHolds == ServerSpec => []CountLedger
<1>1. ServerInv => CountLedger
  BY DEF ServerInv, CountInv, CountLedger, Registering
<1>2. QED
  BY <1>1, ServerAlways, PTL

\* A connection is left in the backlog of the listener, with no event to come,
\* only behind an accept that failed (TcpServer.hpp:260).
THEOREM NoStrandedClientHolds == ServerSpec => []NoStrandedClient
<1>1. ServerInit => NoStrandedClient
  BY DEF ServerInit, NoStrandedClient
<1>2. ServerInv /\ NoStrandedClient /\ [ServerNext]_serverVars => NoStrandedClient'
  <2>1. SUFFICES ASSUME ServerInv, NoStrandedClient, [ServerNext]_serverVars PROVE NoStrandedClient'
    OBVIOUS
  <2>2. CASE AcceptStep
    <3>1. \E s : acceptor \in [at : s, client : Clients \cup {0}, count : Int]
      BY <2>1 DEF ServerInv, ServerTypeOK
    <3>2. CASE AcceptNone \/ AcceptFails
      BY <3>2 DEF AcceptNone, AcceptFails, NoStrandedClient
    <3>3. CASE ListenEvent \/ AcceptOne \/ CountRead
      BY <3>1, <3>3 DEF ListenEvent, AcceptOne, CountRead, NoStrandedClient
    <3>4. CASE CountWrite \/ Register
      BY <3>1, <3>4 DEF CountWrite, Register, Registered, NoStrandedClient
    <3>5. QED
      BY <2>2, <3>2, <3>3, <3>4 DEF AcceptStep
  <2>3. ASSUME NEW c \in Clients, Connect(c) PROVE NoStrandedClient'
    BY <2>3 DEF Connect, NoStrandedClient
  <2>4. ASSUME NEW c \in Clients, RemoveRead(c) \/ RemoveWrite(c) \/ CloseClient(c)
        PROVE  NoStrandedClient'
    BY <2>1, <2>4 DEF RemoveRead, RemoveWrite, CloseClient, Remover, acceptVars, NoStrandedClient
  <2>5. CASE Destroy \/ DestroyStep
    BY <2>1, <2>5 DEF Destroy, DestroyStep, DestroyQuit, DestroyJoin, Joining, Owner, acceptVars,
                      NoStrandedClient
  <2>6. ASSUME NEW l \in Loops, LoopStep(l) PROVE NoStrandedClient'
    <3>1. UNCHANGED acceptVars
      BY <2>6 DEF LoopStep, LoopSet, LoopEnter, LoopEnd, LoopMoves
    <3>2. QED
      BY <2>1, <3>1 DEF acceptVars, NoStrandedClient
  <2>7. CASE UNCHANGED serverVars
    BY <2>1, <2>7 DEF serverVars, acceptVars, NoStrandedClient
  <2>8. QED
    BY <2>1, <2>2, <2>3, <2>4, <2>5, <2>6, <2>7 DEF ServerNext
<1>3. QED
  BY <1>1, <1>2, ServerAlways, PTL DEF ServerSpec

-----------------------------------------------------------------------------
(* The relay.                                                              *)

Pieces == Seq(0 .. MaxPieces)

RelayTypes == /\ RelayTypeOK
              /\ incoming \in [Sides -> Seq(1 .. MaxPieces)]
              /\ delivered \in [Sides -> Pieces]

\* The relay holds data only between recv and send; before it begins nothing is delivered.
BufferInv == /\ buf # <<>> => relayAt = "send"
             /\ relayAt = "begin" => delivered = [s \in Sides |-> <<>>] /\ side = "client"

\* a comes before b, and each in order.
Rising(a) == \A i, j \in DOMAIN a : i < j => a[i] < a[j]
Before(a, b) == \A i \in DOMAIN a : \A j \in DOMAIN b : a[i] < b[j]

\* What was sent from s is delivered, in hand and incoming, in this order.
OrderOf(d, h, q, n) == /\ Rising(d) /\ Rising(h) /\ Rising(q)
                       /\ Before(d, h) /\ Before(d, q) /\ Before(h, q)
                       /\ \A i \in DOMAIN d : d[i] <= n
                       /\ \A i \in DOMAIN h : h[i] <= n
                       /\ \A i \in DOMAIN q : q[i] <= n

\* The request that the server has sent before the relay: a piece more.
Requests(s) == IF s = "client" /\ proxy # "single" /\ relayAt # "begin" THEN 1 ELSE 0

\* Each piece is in one of the three, at its place.
PlacesOf(d, h, q, n, k) == /\ Len(d) + Len(h) + Len(q) = n + k /\ Len(d) >= k
                           /\ \A i \in DOMAIN d : d[i] = i - k
                           /\ \A i \in DOMAIN h : h[i] = Len(d) + i - k
                           /\ \A i \in DOMAIN q : q[i] = Len(d) + Len(h) + i - k
Whole(s) == ~cut /\ ~(taken /\ s = "client")

StreamInv(s) ==
    /\ OrderOf(delivered[Other(s)], InHand(s), incoming[s], pieces[s])
    /\ Whole(s) => PlacesOf(delivered[Other(s)], InHand(s), incoming[s], pieces[s], Requests(s))

RelayInv == RelayTypes /\ BufferInv /\ \A s \in Sides : StreamInv(s)

LEMMA PieceSequences ==
    /\ \A q \in Seq(1 .. MaxPieces) : q \in Pieces
    /\ <<>> \in Seq(1 .. MaxPieces) /\ <<>> \in Pieces
    /\ \A q \in Pieces : /\ Len(q) \in Nat /\ DOMAIN q = 1 .. Len(q)
                         /\ \A i \in 1 .. Len(q) : q[i] \in Nat /\ q[i] <= MaxPieces
<1>1. ASSUME NEW q \in Seq(1 .. MaxPieces) PROVE q \in Pieces
  <2>1. 1 .. MaxPieces \subseteq 0 .. MaxPieces
    BY MaxPiecesAssumption
  <2>2. QED
    BY <2>1, SeqMonotonic DEF Pieces
<1>2. ASSUME NEW q \in Pieces
      PROVE  /\ Len(q) \in Nat /\ DOMAIN q = 1 .. Len(q)
             /\ \A i \in 1 .. Len(q) : q[i] \in Nat /\ q[i] <= MaxPieces
  BY MaxPiecesAssumption DEF Pieces
<1>3. QED
  BY <1>1, <1>2 DEF Pieces

LEMMA OrderSent ==
    ASSUME NEW d \in Pieces, NEW h \in Pieces, NEW q \in Pieces, NEW n \in Nat, n + 1 <= MaxPieces,
           OrderOf(d, h, q, n)
    PROVE  OrderOf(d, h, Append(q, n + 1), n + 1)
<1>1. /\ DOMAIN Append(q, n + 1) = 1 .. Len(q) + 1 /\ Append(q, n + 1)[Len(q) + 1] = n + 1
      /\ \A i \in 1 .. Len(q) : Append(q, n + 1)[i] = q[i]
  BY DEF Pieces
<1>2. /\ Len(q) \in Nat /\ DOMAIN q = 1 .. Len(q)
      /\ \A i \in DOMAIN d : d[i] \in Nat
      /\ \A i \in DOMAIN h : h[i] \in Nat
      /\ \A i \in DOMAIN q : q[i] \in Nat
  BY PieceSequences
<1>3. QED
  BY <1>1, <1>2 DEF OrderOf, Rising, Before

LEMMA OrderReceived ==
    ASSUME NEW d, NEW q, NEW n, OrderOf(d, <<>>, q, n)
    PROVE  OrderOf(d, q, <<>>, n)
BY DEF OrderOf, Rising, Before

LEMMA OrderLost ==
    ASSUME NEW d, NEW h, NEW q, NEW n, OrderOf(d, h, q, n)
    PROVE  OrderOf(d, <<>>, q, n) /\ OrderOf(d, h, <<>>, n)
BY DEF OrderOf, Rising, Before

LEMMA Joined ==
    ASSUME NEW d \in Pieces, NEW h \in Pieces, NEW m \in 0 .. Len(h)
    PROVE  LET e == d \o SubSeq(h, 1, m)
           IN  /\ e \in Pieces /\ Len(e) = Len(d) + m
               /\ \A i \in 1 .. Len(d) : e[i] = d[i]
               /\ \A i \in Len(d) + 1 .. Len(d) + m : e[i] = h[i - Len(d)]
<1> DEFINE p == SubSeq(h, 1, m)
           e == d \o p
<1>1. Len(h) \in Nat /\ Len(d) \in Nat /\ m \in Nat /\ m <= Len(h)
  BY PieceSequences
<1>2. p \in Pieces /\ Len(p) = m /\ \A i \in 1 .. m : p[i] = h[i]
  <2>1. \A i \in 1 .. m : h[i] \in 0 .. MaxPieces
    <3>1. \A i \in 1 .. m : i \in 1 .. Len(h)
      BY <1>1
    <3>2. QED
      BY <3>1, ElementOfSeq, Zenon DEF Pieces
  <2>2. /\ SubSeq(h, 1, m) \in Seq(0 .. MaxPieces)
        /\ Len(SubSeq(h, 1, m)) = IF 1 <= m THEN m - 1 + 1 ELSE 0
        /\ \A i \in 1 .. m - 1 + 1 : SubSeq(h, 1, m)[i] = h[1 + i - 1]
    BY <1>1, <2>1, SubSeqProperties
  <2>3. m - 1 + 1 = m /\ \A i \in 1 .. m : 1 + i - 1 = i
    BY <1>1
  <2>4. QED
    BY <1>1, <2>2, <2>3 DEF Pieces
<1> HIDE DEF p
<1>3. /\ e \in Pieces /\ Len(e) = Len(d) + m
      /\ \A i \in 1 .. Len(d) : e[i] = d[i]
      /\ \A i \in Len(d) + 1 .. Len(d) + m : e[i] = p[i - Len(d)]
  BY <1>1, <1>2 DEF Pieces
<1>4. \A i \in Len(d) + 1 .. Len(d) + m : i - Len(d) \in 1 .. m
  BY <1>1
<1>5. QED
  BY <1>2, <1>3, <1>4 DEF p

LEMMA OrderDelivered ==
    ASSUME NEW d \in Pieces, NEW h \in Pieces, NEW q \in Pieces, NEW n \in Nat, NEW m \in 0 .. Len(h),
           OrderOf(d, h, q, n)
    PROVE  OrderOf(d \o SubSeq(h, 1, m), <<>>, q, n)
<1> DEFINE e == d \o SubSeq(h, 1, m)
<1>1. /\ e \in Pieces /\ Len(e) = Len(d) + m
      /\ \A i \in 1 .. Len(d) : e[i] = d[i]
      /\ \A i \in Len(d) + 1 .. Len(d) + m : e[i] = h[i - Len(d)]
  BY Joined
<1>2. /\ Len(d) \in Nat /\ Len(h) \in Nat /\ DOMAIN d = 1 .. Len(d) /\ DOMAIN h = 1 .. Len(h)
      /\ DOMAIN e = 1 .. Len(d) + m /\ m \in Nat /\ m <= Len(h)
  BY <1>1, PieceSequences
<1> HIDE DEF e
<1>3. \A i \in DOMAIN e : \/ i \in DOMAIN d /\ e[i] = d[i]
                          \/ i > Len(d) /\ i - Len(d) \in DOMAIN h /\ e[i] = h[i - Len(d)]
  BY <1>1, <1>2
<1>4. Rising(e)
  <2>1. SUFFICES ASSUME NEW i \in DOMAIN e, NEW j \in DOMAIN e, i < j PROVE e[i] < e[j]
    BY DEF Rising
  <2>2. CASE j \in DOMAIN d
    <3>1. i \in DOMAIN d /\ e[i] = d[i] /\ e[j] = d[j]
      BY <1>1, <1>2, <2>1, <2>2
    <3>2. QED
      BY <2>1, <2>2, <3>1 DEF OrderOf, Rising
  <2>3. CASE i \in DOMAIN d /\ j > Len(d)
    <3>1. e[i] = d[i] /\ j - Len(d) \in DOMAIN h /\ e[j] = h[j - Len(d)]
      BY <1>1, <1>2, <1>3, <2>3
    <3>2. QED
      BY <2>3, <3>1 DEF OrderOf, Before
  <2>4. CASE i > Len(d)
    <3>1. /\ i - Len(d) \in DOMAIN h /\ e[i] = h[i - Len(d)] /\ i - Len(d) < j - Len(d)
          /\ j - Len(d) \in DOMAIN h /\ e[j] = h[j - Len(d)]
      BY <1>1, <1>2, <2>1, <2>4
    <3>2. QED
      BY <3>1 DEF OrderOf, Rising
  <2>5. QED
    BY <1>2, <2>2, <2>3, <2>4
<1>5. Before(e, <<>>) /\ Before(e, q) /\ \A i \in DOMAIN e : e[i] <= n
  BY <1>3 DEF OrderOf, Before
<1>6. Rising(<<>>) /\ Rising(q) /\ Before(<<>>, q) /\ \A i \in DOMAIN q : q[i] <= n
  BY DEF OrderOf, Rising, Before
<1>7. OrderOf(e, <<>>, q, n)
  BY <1>4, <1>5, <1>6 DEF OrderOf
<1>8. QED
  BY <1>7 DEF e

LEMMA PlacesSent ==
    ASSUME NEW d \in Pieces, NEW h \in Pieces, NEW q \in Pieces, NEW n \in Nat, NEW k \in {0, 1},
           PlacesOf(d, h, q, n, k)
    PROVE  PlacesOf(d, h, Append(q, n + 1), n + 1, k)
<1> DEFINE e == Append(q, n + 1)
<1>1. /\ Len(e) = Len(q) + 1 /\ DOMAIN e = 1 .. Len(q) + 1 /\ e[Len(q) + 1] = n + 1
      /\ \A i \in 1 .. Len(q) : e[i] = q[i]
  BY DEF Pieces
<1> HIDE DEF e
<1>2. /\ Len(q) \in Nat /\ DOMAIN q = 1 .. Len(q) /\ Len(d) \in Nat /\ Len(h) \in Nat
  BY PieceSequences
<1>3. \A i \in DOMAIN e : e[i] = Len(d) + Len(h) + i - k
  <2>1. Len(d) + Len(h) + Len(q) = n + k /\ \A i \in DOMAIN q : q[i] = Len(d) + Len(h) + i - k
    BY DEF PlacesOf
  <2>2. e[Len(q) + 1] = Len(d) + Len(h) + (Len(q) + 1) - k
    <3> DEFINE a == Len(d) + Len(h)
    <3> DEFINE m == Len(q)
    <3>1. a \in Nat /\ m \in Nat /\ a + m = n + k /\ e[m + 1] = n + 1
      BY <1>1, <1>2, <2>1
    <3> HIDE DEF a, m
    <3>2. n + 1 = a + (m + 1) - k
      BY <3>1
    <3>3. QED
      BY <3>1, <3>2 DEF a, m
  <2>3. \A i \in 1 .. Len(q) : e[i] = Len(d) + Len(h) + i - k
    BY <1>1, <1>2, <2>1
  <2>4. \A i \in DOMAIN e : i \in 1 .. Len(q) \/ i = Len(q) + 1
    BY <1>1, <1>2
  <2>5. QED
    BY <2>2, <2>3, <2>4
<1>4. PlacesOf(d, h, e, n + 1, k)
  <2>1. Len(d) + Len(h) + Len(e) = n + 1 + k
    <3>1. Len(d) + Len(h) + Len(q) = n + k /\ k \in Nat
      BY DEF PlacesOf
    <3> DEFINE total == Len(d) + Len(h)
    <3>2. total \in Nat
      BY <1>2
    <3> HIDE DEF total
    <3>3. total + Len(q) = n + k => total + (Len(q) + 1) = n + 1 + k
      BY <1>2, <3>1, <3>2
    <3>4. QED
      BY <1>1, <3>1, <3>3 DEF total
  <2>2. QED
    BY <1>3, <2>1, Zenon DEF PlacesOf
<1>5. QED
  BY <1>4 DEF e

LEMMA PlacesReceived ==
    ASSUME NEW d \in Pieces, NEW q \in Pieces, NEW n \in Nat, NEW k \in {0, 1},
           PlacesOf(d, <<>>, q, n, k)
    PROVE  PlacesOf(d, q, <<>>, n, k)
<1>1. Len(q) \in Nat /\ Len(d) \in Nat /\ Len(<<>>) = 0 /\ DOMAIN q = 1 .. Len(q)
  BY PieceSequences
<1>2. QED
  BY <1>1 DEF PlacesOf

LEMMA PlacesDelivered ==
    ASSUME NEW d \in Pieces, NEW h \in Pieces, NEW q \in Pieces, NEW n \in Nat, NEW k \in {0, 1},
           PlacesOf(d, h, q, n, k)
    PROVE  PlacesOf(d \o SubSeq(h, 1, Len(h)), <<>>, q, n, k)
<1> DEFINE e == d \o SubSeq(h, 1, Len(h))
<1>1. Len(h) \in Nat /\ Len(d) \in Nat /\ Len(q) \in Nat /\ DOMAIN d = 1 .. Len(d)
      /\ DOMAIN h = 1 .. Len(h) /\ DOMAIN q = 1 .. Len(q)
  BY PieceSequences
<1>2. /\ e \in Pieces /\ Len(e) = Len(d) + Len(h)
      /\ \A i \in 1 .. Len(d) : e[i] = d[i]
      /\ \A i \in Len(d) + 1 .. Len(d) + Len(h) : e[i] = h[i - Len(d)]
  <2>1. Len(h) \in 0 .. Len(h)
    BY <1>1
  <2>2. QED
    BY <2>1, Joined, Zenon
<1> HIDE DEF e
<1>3. DOMAIN e = 1 .. Len(d) + Len(h) /\ Len(<<>>) = 0
  BY <1>2, PieceSequences
<1>4. ASSUME NEW i \in DOMAIN e PROVE e[i] = i - k
  <2>1. CASE i \in DOMAIN d
    BY <1>1, <1>2, <2>1 DEF PlacesOf
  <2>2. CASE i > Len(d)
    <3>1. i - Len(d) \in DOMAIN h /\ e[i] = h[i - Len(d)]
      BY <1>1, <1>2, <1>3, <2>2
    <3>2. e[i] = Len(d) + (i - Len(d)) - k
      BY <3>1 DEF PlacesOf
    <3>3. QED
      BY <1>1, <1>3, <3>2
  <2>3. QED
    BY <1>1, <1>3, <2>1, <2>2
<1>5. PlacesOf(e, <<>>, q, n, k)
  BY <1>1, <1>2, <1>3, <1>4 DEF PlacesOf
<1>6. QED
  BY <1>5 DEF e

LEMMA OtherSide ==
    /\ Sides = {"client", "target"} /\ Other("client") = "target" /\ Other("target") = "client"
    /\ \A s \in Sides : Other(s) \in Sides /\ Other(s) # s /\ Other(Other(s)) = s
BY DEF Sides, Other

LEMMA TypesAre ==
    RelayTypes => /\ proxy \in Programs /\ side \in Sides /\ buf \in Seq(1 .. MaxPieces)
                  /\ relayAt \in {"begin", "poll", "recv", "send", "check", "end", "done", "killed"}
                  /\ incoming \in [Sides -> Seq(1 .. MaxPieces)] /\ delivered \in [Sides -> Pieces]
                  /\ pieces \in [Sides -> 0 .. MaxPieces] /\ fin \in [Sides -> BOOLEAN]
                  /\ cut \in BOOLEAN /\ taken \in BOOLEAN /\ targetOpen \in BOOLEAN
BY DEF RelayTypes, RelayTypeOK

LEMMA TypesWillBe ==
    ASSUME proxy' \in Programs, side' \in Sides, buf' \in Seq(1 .. MaxPieces),
           relayAt' \in {"begin", "poll", "recv", "send", "check", "end", "done", "killed"},
           incoming' \in [Sides -> Seq(1 .. MaxPieces)], delivered' \in [Sides -> Pieces],
           pieces' \in [Sides -> 0 .. MaxPieces], fin' \in [Sides -> BOOLEAN],
           cut' \in BOOLEAN, taken' \in BOOLEAN, targetOpen' \in BOOLEAN
    PROVE  RelayTypes'
<1>1. incoming'["client"] \in Seq(1 .. MaxPieces) /\ incoming'["target"] \in Seq(1 .. MaxPieces)
  BY OtherSide
<1>2. QED
  BY <1>1 DEF RelayTypes, RelayTypeOK

LEMMA StreamTypes ==
    ASSUME RelayTypes, NEW s \in Sides
    PROVE  /\ delivered[Other(s)] \in Pieces /\ InHand(s) \in Pieces /\ incoming[s] \in Pieces
           /\ pieces[s] \in Nat /\ Requests(s) \in {0, 1}
<1>1. /\ buf \in Seq(1 .. MaxPieces) /\ incoming[s] \in Seq(1 .. MaxPieces) /\ pieces[s] \in 0 .. MaxPieces
      /\ delivered[Other(s)] \in Pieces
  BY OtherSide DEF RelayTypes, RelayTypeOK
<1>2. QED
  BY <1>1, PieceSequences, MaxPiecesAssumption DEF InHand, Requests

\* A stream that a step does not touch.
LEMMA StreamKept ==
    ASSUME NEW s \in Sides, StreamInv(s), delivered'[Other(s)] = delivered[Other(s)],
           InHand(s)' = InHand(s), incoming'[s] = incoming[s], pieces'[s] = pieces[s],
           Requests(s)' = Requests(s), Whole(s)' => Whole(s)
    PROVE  StreamInv(s)'
BY DEF StreamInv

LEMMA RelayInitInv == RelayInit => RelayInv
<1>1. SUFFICES ASSUME RelayInit PROVE RelayInv
  OBVIOUS
<1>2. RelayTypes
  <2>1. <<>> \in Seq(1 .. MaxPieces) /\ <<>> \in Pieces /\ 0 \in 0 .. MaxPieces
    BY PieceSequences, MaxPiecesAssumption
  <2>2. /\ incoming \in [Sides -> Seq(1 .. MaxPieces)] /\ delivered \in [Sides -> Pieces]
        /\ pieces \in [Sides -> 0 .. MaxPieces] /\ fin \in [Sides -> BOOLEAN]
    BY <1>1, <2>1 DEF RelayInit
  <2>3. QED
    BY <1>1, <2>1, <2>2, OtherSide DEF RelayInit, RelayTypes, RelayTypeOK
<1>3. BufferInv
  BY <1>1 DEF RelayInit, BufferInv
<1>4. ASSUME NEW s \in Sides PROVE StreamInv(s)
  <2>1. /\ delivered[Other(s)] = <<>> /\ InHand(s) = <<>> /\ incoming[s] = <<>> /\ pieces[s] = 0
        /\ Requests(s) = 0
    BY <1>1, OtherSide DEF RelayInit, InHand, Requests
  <2>2. OrderOf(<<>>, <<>>, <<>>, 0) /\ PlacesOf(<<>>, <<>>, <<>>, 0, 0)
    BY DEF OrderOf, Rising, Before, PlacesOf
  <2>3. QED
    BY <2>1, <2>2 DEF StreamInv
<1>5. QED
  BY <1>2, <1>3, <1>4 DEF RelayInv

LEMMA PeerSendsInv == ASSUME RelayInv, NEW s \in Sides, PeerSends(s) PROVE RelayInv'
<1>1. /\ RelayTypes /\ BufferInv /\ pieces[s] \in 0 .. MaxPieces - 1
      /\ pieces' = [pieces EXCEPT ![s] = pieces[s] + 1]
      /\ incoming' = [incoming EXCEPT ![s] = Append(incoming[s], pieces[s] + 1)]
      /\ UNCHANGED <<proxy, relayAt, side, buf, fin, delivered, cut, taken, targetOpen>>
  BY MaxPiecesAssumption DEF RelayInv, RelayTypes, RelayTypeOK, PeerSends
<1>2. /\ pieces'[s] = pieces[s] + 1 /\ incoming'[s] = Append(incoming[s], pieces[s] + 1)
      /\ \A r \in Sides : r # s => pieces'[r] = pieces[r] /\ incoming'[r] = incoming[r]
      /\ pieces[s] + 1 \in 1 .. MaxPieces /\ pieces[s] + 1 <= MaxPieces
  BY <1>1, MaxPiecesAssumption DEF RelayTypes, RelayTypeOK
<1>3. RelayTypes'
  <2>1. incoming[s] \in Seq(1 .. MaxPieces)
    BY <1>1 DEF RelayTypes
  <2>2. Append(incoming[s], pieces[s] + 1) \in Seq(1 .. MaxPieces)
    BY <1>2, <2>1, AppendProperties
  <2>3. incoming' \in [Sides -> Seq(1 .. MaxPieces)] /\ pieces' \in [Sides -> 0 .. MaxPieces]
    BY <1>1, <1>2, <2>2 DEF RelayTypes, RelayTypeOK
  <2>4. QED
    BY <1>1, <2>3, TypesAre, TypesWillBe
<1>4. BufferInv'
  BY <1>1 DEF BufferInv
<1>5. ASSUME NEW r \in Sides PROVE StreamInv(r)'
  <2>1. /\ delivered'[Other(r)] = delivered[Other(r)] /\ InHand(r)' = InHand(r)
        /\ Requests(r)' = Requests(r) /\ (Whole(r)' <=> Whole(r))
    <3>1. Whole(r)' <=> Whole(r)
      BY <1>1, Zenon DEF Whole
    <3>2. InHand(r)' = InHand(r)
      BY <1>1 DEF InHand
    <3>3. Requests(r)' = Requests(r)
      BY <1>1 DEF Requests
    <3>4. delivered'[Other(r)] = delivered[Other(r)]
      BY <1>1
    <3>5. QED
      BY <3>1, <3>2, <3>3, <3>4
  <2>2. CASE r # s
    BY <1>2, <2>1, <2>2, StreamKept DEF RelayInv
  <2>3. CASE r = s
    <3>1. /\ delivered[Other(s)] \in Pieces /\ InHand(s) \in Pieces /\ incoming[s] \in Pieces
          /\ pieces[s] \in Nat /\ Requests(s) \in {0, 1}
      BY <1>1, StreamTypes
    <3>2. /\ OrderOf(delivered[Other(s)], InHand(s), incoming[s], pieces[s])
          /\ Whole(s) => PlacesOf(delivered[Other(s)], InHand(s), incoming[s], pieces[s], Requests(s))
      BY DEF RelayInv, StreamInv
    <3>3. OrderOf(delivered[Other(s)], InHand(s), incoming'[s], pieces'[s])
      BY <1>2, <3>1, <3>2, OrderSent
    <3>4. Whole(s) => PlacesOf(delivered[Other(s)], InHand(s), incoming'[s], pieces'[s], Requests(s))
      BY <1>2, <3>1, <3>2, PlacesSent
    <3>5. QED
      BY <2>1, <2>3, <3>3, <3>4 DEF StreamInv
  <2>4. QED
    BY <2>2, <2>3
<1>6. QED
  BY <1>3, <1>4, <1>5 DEF RelayInv

LEMMA PoolLoopReadsInv == ASSUME RelayInv, PoolLoopReads PROVE RelayInv'
<1>1. /\ RelayTypes /\ BufferInv
      /\ incoming' = [incoming EXCEPT !["client"] = <<>>] /\ taken'
      /\ UNCHANGED <<proxy, relayAt, side, buf, pieces, fin, delivered, cut, targetOpen>>
  BY DEF RelayInv, PoolLoopReads
<1>2. incoming' \in [Sides -> Seq(1 .. MaxPieces)] /\ incoming'["client"] = <<>>
      /\ incoming'["target"] = incoming["target"]
  BY <1>1, PieceSequences, OtherSide DEF RelayTypes
<1>3. taken' \in BOOLEAN
  BY DEF PoolLoopReads
<1>4. RelayTypes' /\ BufferInv'
  BY <1>1, <1>2, <1>3, TypesAre, TypesWillBe DEF BufferInv
<1>5. ASSUME NEW r \in Sides PROVE StreamInv(r)'
  <2>1. /\ delivered'[Other(r)] = delivered[Other(r)] /\ InHand(r)' = InHand(r)
        /\ Requests(r)' = Requests(r) /\ pieces'[r] = pieces[r]
    BY <1>1 DEF InHand, Requests
  <2>2. CASE r = "target"
    <3>1. Whole(r)' => Whole(r)
      BY <1>1, <2>2 DEF Whole
    <3>2. QED
      BY <1>2, <2>1, <2>2, <3>1, StreamKept DEF RelayInv
  <2>3. CASE r = "client"
    <3>1. OrderOf(delivered[Other(r)], InHand(r), incoming[r], pieces[r])
      BY DEF RelayInv, StreamInv
    <3>2. OrderOf(delivered[Other(r)], InHand(r), <<>>, pieces[r])
      BY <3>1, OrderLost
    <3>3. ~Whole(r)'
      BY <1>1, <2>3 DEF Whole
    <3>4. QED
      BY <1>2, <2>1, <2>3, <3>2, <3>3 DEF StreamInv
  <2>4. QED
    BY <2>2, <2>3, OtherSide
<1>6. QED
  BY <1>4, <1>5 DEF RelayInv

LEMMA BeginRelayInv == ASSUME RelayInv, BeginRelay PROVE RelayInv'
<1>1. /\ RelayTypes /\ BufferInv /\ relayAt = "begin" /\ relayAt' = "poll" /\ proxy # "single"
      /\ targetOpen' = TRUE /\ delivered' = [delivered EXCEPT !["target"] = <<0>>]
      /\ UNCHANGED <<proxy, pieces, fin, taken, side, buf, incoming, cut>>
  BY DEF RelayInv, BeginRelay, RelayAt
<1>2. buf = <<>> /\ delivered = [s \in Sides |-> <<>>] /\ side = "client"
  BY <1>1 DEF BufferInv
<1>3. <<0>> \in Pieces /\ Len(<<0>>) = 1 /\ <<0>>[1] = 0 /\ DOMAIN <<0>> = 1 .. 1
  BY MaxPiecesAssumption DEF Pieces
<1>4. /\ delivered' \in [Sides -> Pieces] /\ delivered'["target"] = <<0>>
      /\ delivered'["client"] = <<>> /\ delivered["target"] = <<>> /\ delivered["client"] = <<>>
  BY <1>1, <1>2, <1>3, OtherSide DEF RelayTypes
<1>5. RelayTypes' /\ BufferInv'
  BY <1>1, <1>2, <1>4, TypesAre, TypesWillBe DEF BufferInv
<1>6. StreamInv("target")'
  <2>1. /\ delivered'[Other("target")] = delivered[Other("target")] /\ InHand("target")' = InHand("target")
        /\ Requests("target")' = Requests("target")
    BY <1>1, <1>4, OtherSide DEF InHand, Requests
  <2>2. Whole("target")' => Whole("target")
    BY <1>1, Zenon DEF Whole
  <2>3. QED
    BY <1>1, <2>1, <2>2, OtherSide, StreamKept DEF RelayInv
<1>7. StreamInv("client")'
  <2> DEFINE q == incoming["client"]
             n == pieces["client"]
  <2>1. /\ delivered[Other("client")] = <<>> /\ InHand("client") = <<>> /\ Requests("client") = 0
        /\ delivered'[Other("client")] = <<0>> /\ InHand("client")' = <<>> /\ Requests("client")' = 1
        /\ incoming'["client"] = q /\ pieces'["client"] = n
    BY <1>1, <1>2, <1>4, OtherSide DEF InHand, Requests
  <2>2. OrderOf(<<>>, <<>>, q, n) /\ (Whole("client") => PlacesOf(<<>>, <<>>, q, n, 0))
    BY <2>1, OtherSide DEF RelayInv, StreamInv
  <2>3. q \in Seq(1 .. MaxPieces) /\ q \in Pieces /\ n \in Nat
    BY <1>1, OtherSide, PieceSequences, TypesAre, MaxPiecesAssumption
  <2> HIDE DEF q, n
  <2>4. DOMAIN q = 1 .. Len(q) /\ Len(q) \in Nat /\ \A i \in DOMAIN q : q[i] \in Nat /\ q[i] > 0
    BY <2>3, MaxPiecesAssumption
  <2>5. OrderOf(<<0>>, <<>>, q, n)
    BY <1>3, <2>2, <2>3, <2>4 DEF OrderOf, Rising, Before
  <2>6. PlacesOf(<<>>, <<>>, q, n, 0) => PlacesOf(<<0>>, <<>>, q, n, 1)
    <3>1. SUFFICES ASSUME PlacesOf(<<>>, <<>>, q, n, 0) PROVE PlacesOf(<<0>>, <<>>, q, n, 1)
      OBVIOUS
    <3>2. Len(<<>>) = 0
      OBVIOUS
    <3>3. Len(q) = n /\ \A i \in DOMAIN q : q[i] = i
      <4>1. /\ Len(<<>>) + Len(<<>>) + Len(q) = n + 0
            /\ \A i \in DOMAIN q : q[i] = Len(<<>>) + Len(<<>>) + i - 0
        BY <3>1, Zenon DEF PlacesOf
      <4>2. 0 + 0 + Len(q) = n + 0 /\ \A i \in DOMAIN q : q[i] = 0 + 0 + i - 0
        BY <3>2, <4>1, Zenon
      <4>3. \A i \in 1 .. Len(q) : 0 + 0 + i - 0 = i
        BY <2>4
      <4>4. 0 + 0 + Len(q) = Len(q) /\ n + 0 = n
        BY <2>3, <2>4
      <4>5. QED
        BY <2>4, <4>2, <4>3, <4>4, Zenon
    <3> DEFINE d == <<0>>
    <3> HIDE DEF d
    <3>4. Len(d) = 1 /\ DOMAIN d = 1 .. 1 /\ d[1] = 0
      BY DEF d
    <3>5. PlacesOf(d, <<>>, q, n, 1)
      BY <2>3, <2>4, <3>2, <3>3, <3>4 DEF PlacesOf
    <3>6. QED
      BY <3>5 DEF d
  <2>7. Whole("client")' => Whole("client")
    BY <1>1, Zenon DEF Whole
  <2>8. QED
    BY <2>1, <2>2, <2>5, <2>6, <2>7 DEF StreamInv
<1>8. QED
  BY <1>5, <1>6, <1>7, OtherSide DEF RelayInv

LEMMA BeginSingleInv == ASSUME RelayInv, BeginSingle PROVE RelayInv'
<1>1. /\ RelayTypes /\ BufferInv /\ relayAt = "begin" /\ relayAt' \in {"poll", "done"} /\ proxy = "single"
      /\ targetOpen' \in {TRUE, targetOpen}
      /\ UNCHANGED <<proxy, pieces, fin, taken, side, buf, incoming, cut, delivered>>
  BY DEF RelayInv, BeginSingle, RelayAt
<1>2. buf = <<>>
  BY <1>1 DEF BufferInv
<1>3. RelayTypes' /\ BufferInv'
  BY <1>1, <1>2, TypesAre, TypesWillBe DEF BufferInv
<1>4. ASSUME NEW s \in Sides PROVE StreamInv(s)'
  <2>1. InHand(s)' = InHand(s) /\ Requests(s)' = Requests(s)
    BY <1>1 DEF InHand, Requests
  <2>2. Whole(s)' => Whole(s)
    BY <1>1, Zenon DEF Whole
  <2>3. QED
    BY <1>1, <2>1, <2>2, StreamKept DEF RelayInv
<1>5. QED
  BY <1>3, <1>4 DEF RelayInv

\* A step of the thread that moves no data.
LEMMA QuietInv ==
    ASSUME RelayInv, buf = <<>>, side' \in Sides,
           relayAt # "begin", relayAt' \in {"poll", "recv", "send", "check", "end", "done", "killed"},
           targetOpen' \in BOOLEAN,
           UNCHANGED <<proxy, pieces, fin, taken, buf, incoming, cut, delivered>>
    PROVE  RelayInv'
<1>1. RelayTypes /\ BufferInv
  BY DEF RelayInv
<1>2. RelayTypes' /\ BufferInv'
  BY <1>1, TypesAre, TypesWillBe DEF BufferInv
<1>3. ASSUME NEW s \in Sides PROVE StreamInv(s)'
  <2>1. InHand(s)' = InHand(s) /\ Requests(s)' = Requests(s)
    BY DEF InHand, Requests
  <2>2. Whole(s)' => Whole(s)
    BY Zenon DEF Whole
  <2>3. QED
    BY <2>1, <2>2, StreamKept DEF RelayInv
<1>4. QED
  BY <1>2, <1>3 DEF RelayInv

LEMMA PollCheckEndInv == ASSUME RelayInv, PollSides \/ CheckState \/ EndRelay PROVE RelayInv'
<1>1. /\ relayAt \in {"poll", "check", "end"}
      /\ relayAt' \in {"poll", "recv", "send", "check", "end", "done", "killed"}
      /\ side' \in {side, "client", "target"}
      /\ UNCHANGED <<proxy, pieces, fin, taken, buf, incoming, cut, delivered>>
  BY DEF PollSides, CheckState, EndRelay, RelayAt
<1>2. buf = <<>> /\ relayAt # "begin"
  BY <1>1 DEF RelayInv, BufferInv
<1>3. targetOpen' \in BOOLEAN
  <2>1. targetOpen \in BOOLEAN
    BY TypesAre DEF RelayInv
  <2>2. targetOpen' = targetOpen \/ targetOpen' = (targetOpen /\ proxy = "single")
    BY DEF PollSides, CheckState, EndRelay
  <2>3. QED
    BY <2>1, <2>2
<1>4. side' \in Sides
  BY <1>1, TypesAre, OtherSide DEF RelayInv
<1>5. QED
  BY <1>1, <1>2, <1>3, <1>4, QuietInv

LEMMA RecvInv == ASSUME RelayInv, Recv PROVE RelayInv'
<1>1. /\ RelayTypes /\ BufferInv /\ relayAt = "recv" /\ side \in Sides
      /\ buf' = incoming[side] /\ incoming' = [incoming EXCEPT ![side] = <<>>]
      /\ relayAt' = IF Readable(side) THEN "send" ELSE "end"
      /\ UNCHANGED <<proxy, pieces, fin, taken, side, delivered, cut, targetOpen>>
  BY TypesAre DEF RelayInv, Recv, RelayAt
<1>2. buf = <<>>
  BY <1>1 DEF BufferInv
<1>3. /\ incoming' \in [Sides -> Seq(1 .. MaxPieces)] /\ incoming'[side] = <<>>
      /\ \A s \in Sides : s # side => incoming'[s] = incoming[s]
      /\ buf' \in Seq(1 .. MaxPieces)
  BY <1>1, PieceSequences, TypesAre
<1>4. RelayTypes' /\ BufferInv'
  BY <1>1, <1>3, TypesAre, TypesWillBe DEF BufferInv, Readable
<1>5. ASSUME NEW s \in Sides PROVE StreamInv(s)'
  <2>1. Whole(s)' => Whole(s)
    BY <1>1, Zenon DEF Whole
  <2>2. Requests(s)' = Requests(s)
    BY <1>1 DEF Requests
  <2>3. CASE s # side
    <3>1. InHand(s)' = InHand(s)
      BY <1>1, <2>3 DEF InHand
    <3>2. QED
      BY <1>1, <1>3, <2>1, <2>2, <2>3, <3>1, StreamKept DEF RelayInv
  <2>4. CASE s = side
    <3> DEFINE d == delivered[Other(s)]
               q == incoming[s]
    <3>1. InHand(s) = <<>> /\ InHand(s)' = q /\ incoming'[s] = <<>>
      BY <1>1, <1>2, <1>3, <2>4 DEF InHand
    <3>2. OrderOf(d, <<>>, q, pieces[s]) /\ (Whole(s) => PlacesOf(d, <<>>, q, pieces[s], Requests(s)))
      BY <3>1 DEF RelayInv, StreamInv
    <3>3. d \in Pieces /\ q \in Pieces /\ pieces[s] \in Nat /\ Requests(s) \in {0, 1}
      BY <1>1, StreamTypes
    <3>4. OrderOf(d, q, <<>>, pieces[s]) /\ (Whole(s) => PlacesOf(d, q, <<>>, pieces[s], Requests(s)))
      BY <3>2, <3>3, OrderReceived, PlacesReceived
    <3>5. QED
      BY <1>1, <2>1, <2>2, <3>1, <3>4 DEF StreamInv
  <2>5. QED
    BY <2>3, <2>4
<1>6. QED
  BY <1>4, <1>5 DEF RelayInv

LEMMA RecvFailsInv == ASSUME RelayInv, RecvFails PROVE RelayInv'
<1>1. /\ RelayTypes /\ BufferInv /\ relayAt = "recv" /\ side \in Sides
      /\ incoming' = [incoming EXCEPT ![side] = <<>>] /\ relayAt' = "end"
      /\ cut' = (cut \/ incoming[side] # <<>>)
      /\ UNCHANGED <<proxy, pieces, fin, taken, side, buf, delivered, targetOpen>>
  BY TypesAre DEF RelayInv, RecvFails, RelayAt
<1>2. buf = <<>> /\ cut' \in BOOLEAN
  BY <1>1 DEF BufferInv
<1>3. /\ incoming' \in [Sides -> Seq(1 .. MaxPieces)] /\ incoming'[side] = <<>>
      /\ \A s \in Sides : s # side => incoming'[s] = incoming[s]
  BY <1>1, PieceSequences, TypesAre
<1>4. RelayTypes' /\ BufferInv'
  BY <1>1, <1>2, <1>3, TypesAre, TypesWillBe DEF BufferInv
<1>5. ASSUME NEW s \in Sides PROVE StreamInv(s)'
  <2>1. Whole(s)' => Whole(s) /\ incoming[side] = <<>>
    BY <1>1 DEF Whole
  <2>2. Requests(s)' = Requests(s) /\ InHand(s)' = InHand(s)
    BY <1>1 DEF Requests, InHand
  <2>3. CASE incoming[side] = <<>>
    <3>1. incoming'[s] = incoming[s]
      BY <1>3, <2>3
    <3>2. QED
      BY <1>1, <2>1, <2>2, <3>1, StreamKept DEF RelayInv
  <2>4. CASE incoming[side] # <<>>
    <3>1. OrderOf(delivered[Other(s)], InHand(s), incoming[s], pieces[s])
      BY DEF RelayInv, StreamInv
    <3>2. incoming'[s] \in {incoming[s], <<>>}
      BY <1>3
    <3>3. OrderOf(delivered[Other(s)], InHand(s), incoming'[s], pieces[s])
      BY <3>1, <3>2, OrderLost
    <3>4. QED
      BY <1>1, <2>1, <2>2, <2>4, <3>3 DEF StreamInv
  <2>5. QED
    BY <2>3, <2>4
<1>6. QED
  BY <1>4, <1>5 DEF RelayInv

LEMMA SendInv == ASSUME RelayInv, Send PROVE RelayInv'
<1> DEFINE to == Other(side)
<1>1. /\ RelayTypes /\ BufferInv /\ relayAt = "send" /\ side \in Sides
      /\ buf' = <<>> /\ relayAt' = "check"
      /\ UNCHANGED <<proxy, pieces, fin, taken, side, incoming, targetOpen>>
  BY TypesAre DEF RelayInv, Send, RelayAt
<1>2. PICK m \in 0 .. Len(buf) :
          /\ delivered' = [delivered EXCEPT ![to] = @ \o SubSeq(buf, 1, m)]
          /\ cut' = (cut \/ m < Len(buf))
  BY DEF Send
<1>3. /\ to \in Sides /\ buf \in Pieces /\ delivered[to] \in Pieces /\ cut' \in BOOLEAN
      /\ Len(buf) \in Nat
  BY <1>1, <1>2, OtherSide, TypesAre, PieceSequences
<1> DEFINE e == delivered[to] \o SubSeq(buf, 1, m)
<1>4. e \in Pieces
  BY <1>3, Joined
<1> HIDE DEF e
<1>5. /\ delivered' \in [Sides -> Pieces] /\ delivered'[to] = e
      /\ \A s \in Sides : s # to => delivered'[s] = delivered[s]
  <2>1. delivered' = [delivered EXCEPT ![to] = e]
    BY <1>2 DEF e
  <2>2. QED
    BY <1>1, <1>3, <1>4, <2>1, TypesAre
<1>6. RelayTypes' /\ BufferInv'
  BY <1>1, <1>3, <1>5, TypesAre, TypesWillBe, PieceSequences DEF BufferInv
<1>7. ASSUME NEW s \in Sides PROVE StreamInv(s)'
  <2>1. Whole(s)' => Whole(s) /\ ~(m < Len(buf))
    BY <1>1, <1>2 DEF Whole
  <2>2. Requests(s)' = Requests(s)
    BY <1>1 DEF Requests
  <2>3. CASE s # side
    <3>1. InHand(s)' = InHand(s) /\ delivered'[Other(s)] = delivered[Other(s)]
      BY <1>1, <1>5, <2>3, OtherSide DEF InHand
    <3>2. QED
      BY <1>1, <2>1, <2>2, <2>3, <3>1, StreamKept DEF RelayInv
  <2>4. CASE s = side
    <3> DEFINE q == incoming[s]
               d == delivered[to]
    <3>1. InHand(s) = buf /\ InHand(s)' = <<>> /\ Other(s) = to /\ q \in Pieces /\ pieces[s] \in Nat
          /\ Requests(s) \in {0, 1}
      BY <1>1, <2>4, StreamTypes DEF InHand
    <3>2. OrderOf(d, buf, q, pieces[s]) /\ (Whole(s) => PlacesOf(d, buf, q, pieces[s], Requests(s)))
      BY <3>1 DEF RelayInv, StreamInv
    <3>3. OrderOf(e, <<>>, q, pieces[s])
      BY <1>3, <3>1, <3>2, OrderDelivered DEF e
    <3>4. ASSUME Whole(s), ~(m < Len(buf)) PROVE PlacesOf(e, <<>>, q, pieces[s], Requests(s))
      <4>1. m = Len(buf)
        BY <1>3, <3>4
      <4>2. PlacesOf(d \o SubSeq(buf, 1, Len(buf)), <<>>, q, pieces[s], Requests(s))
        BY <1>3, <3>1, <3>2, <3>4, PlacesDelivered
      <4>3. QED
        BY <4>1, <4>2 DEF e
    <3>5. QED
      BY <1>1, <1>5, <2>1, <2>2, <3>1, <3>3, <3>4 DEF StreamInv
  <2>5. QED
    BY <2>3, <2>4
<1>8. QED
  BY <1>6, <1>7 DEF RelayInv

LEMMA SendLosesInv == ASSUME RelayInv, SendFails \/ SendKills PROVE RelayInv'
<1>1. /\ RelayTypes /\ BufferInv /\ relayAt = "send" /\ relayAt' \in {"end", "killed"}
      /\ cut' = TRUE /\ buf' = <<>>
      /\ UNCHANGED <<proxy, pieces, fin, taken, side, incoming, delivered, targetOpen>>
  BY DEF RelayInv, SendFails, SendKills, RelayAt
<1>2. RelayTypes' /\ BufferInv'
  BY <1>1, TypesAre, TypesWillBe, PieceSequences DEF BufferInv
<1>3. ASSUME NEW s \in Sides PROVE StreamInv(s)'
  <2>1. OrderOf(delivered[Other(s)], InHand(s), incoming[s], pieces[s])
    BY DEF RelayInv, StreamInv
  <2>2. InHand(s)' = <<>> /\ ~Whole(s)'
    BY <1>1 DEF InHand, Whole
  <2>3. OrderOf(delivered[Other(s)], <<>>, incoming[s], pieces[s])
    BY <2>1, OrderLost
  <2>4. QED
    BY <1>1, <2>2, <2>3 DEF StreamInv
<1>4. QED
  BY <1>2, <1>3 DEF RelayInv

LEMMA RelayStepInv == RelayInv /\ [RelayNext]_relayVars => RelayInv'
<1>1. SUFFICES ASSUME RelayInv, [RelayNext]_relayVars PROVE RelayInv'
  OBVIOUS
<1>2. CASE UNCHANGED relayVars
  BY <1>1, <1>2 DEF relayVars, RelayInv, RelayTypes, RelayTypeOK, BufferInv, StreamInv, InHand, Requests, Whole
<1>3. ASSUME NEW s \in Sides, PeerEnds(s) PROVE RelayInv'
  <2>1. /\ fin' = [fin EXCEPT ![s] = TRUE] /\ RelayTypes /\ BufferInv
        /\ UNCHANGED <<proxy, relayAt, side, buf, incoming, pieces, delivered, cut, taken, targetOpen>>
    BY <1>1, <1>3 DEF PeerEnds, RelayInv
  <2>2. fin' \in [Sides -> BOOLEAN]
    BY <2>1, TypesAre
  <2>3. RelayTypes' /\ BufferInv'
    BY <2>1, <2>2, TypesAre, TypesWillBe DEF BufferInv
  <2>4. ASSUME NEW r \in Sides PROVE StreamInv(r)'
    <3>1. InHand(r)' = InHand(r) /\ Requests(r)' = Requests(r)
      BY <2>1 DEF InHand, Requests
    <3>2. Whole(r)' => Whole(r)
      BY <2>1, Zenon DEF Whole
    <3>3. QED
      BY <1>1, <2>1, <3>1, <3>2, StreamKept DEF RelayInv
  <2>5. QED
    BY <2>3, <2>4 DEF RelayInv
<1>4. QED
  BY <1>1, <1>2, <1>3, PeerSendsInv, PoolLoopReadsInv, BeginRelayInv, BeginSingleInv, PollCheckEndInv,
     RecvInv, RecvFailsInv, SendInv, SendLosesInv
     DEF RelayNext, RelayStep, RelaySingle, RelayServer, RelayLoop

LEMMA RelayAlways == RelaySpec => []RelayInv
BY RelayInitInv, RelayStepInv, PTL DEF RelaySpec

\* The types of the relay, for any number of pieces.
THEOREM RelayTypeCorrect == RelaySpec => []RelayTypeOK
<1>1. RelayInv => RelayTypeOK
  BY DEF RelayInv, RelayTypes
<1>2. QED
  BY <1>1, RelayAlways, PTL

Numbers(n) == [i \in 1 .. n |-> i]

\* What is delivered, in hand and incoming, put together again.
LEMMA WholeIs ==
    ASSUME NEW d \in Pieces, NEW h \in Pieces, NEW q \in Pieces, NEW n \in Nat, NEW k \in {0, 1},
           PlacesOf(d, h, q, n, k)
    PROVE  Relayed(d) \o h \o q = Numbers(n)
<1> DEFINE got == Relayed(d)
<1>1. /\ Len(d) \in Nat /\ Len(h) \in Nat /\ Len(q) \in Nat /\ DOMAIN d = 1 .. Len(d)
      /\ DOMAIN h = 1 .. Len(h) /\ DOMAIN q = 1 .. Len(q) /\ (d # <<>> <=> Len(d) > 0)
  BY PieceSequences DEF Pieces
<1>2. got \in Pieces /\ Len(got) = Len(d) - k /\ \A i \in 1 .. Len(got) : got[i] = i
  <2>1. CASE k = 1
    <3>1. d # <<>> /\ d[1] = 0
      BY <1>1, <2>1 DEF PlacesOf
    <3>2. /\ got \in Pieces /\ Len(got) = Len(d) - 1 /\ \A i \in 1 .. Len(got) : got[i] = d[i + 1]
      <4>1. got = Tail(d) /\ d \in Seq(0 .. MaxPieces)
        BY <3>1 DEF Pieces, Relayed
      <4>2. QED
        BY <3>1, <4>1, HeadTailProperties DEF Pieces
    <3> HIDE DEF got
    <3>3. \A i \in 1 .. Len(got) : i + 1 \in DOMAIN d /\ d[i + 1] = i + 1 - 1
      BY <1>1, <2>1, <3>2 DEF PlacesOf
    <3>4. \A i \in 1 .. Len(got) : got[i] = i
      BY <1>1, <3>2, <3>3
    <3>5. QED
      BY <2>1, <3>2, <3>4
  <2>2. CASE k = 0
    <3>1. \A i \in DOMAIN d : d[i] = i
      BY <1>1, <2>2 DEF PlacesOf
    <3>2. ~(d # <<>> /\ d[1] = 0)
      BY <1>1, <3>1
    <3>3. got = d
      BY <3>2 DEF Relayed
    <3> HIDE DEF got
    <3>4. QED
      BY <1>1, <2>2, <3>1, <3>3
  <2>3. QED
    BY <2>1, <2>2
<1> HIDE DEF got
<1>3. Len(d) + Len(h) + Len(q) = n + k /\ k \in Nat
      /\ (\A i \in DOMAIN h : h[i] = Len(d) + i - k)
      /\ (\A i \in DOMAIN q : q[i] = Len(d) + Len(h) + i - k)
  BY DEF PlacesOf
<1>4. /\ got \o h \in Pieces /\ Len(got \o h) = Len(got) + Len(h)
      /\ \A i \in 1 .. Len(got) + Len(h) : (got \o h)[i] = IF i <= Len(got) THEN got[i] ELSE h[i - Len(got)]
  BY <1>2, ConcatProperties DEF Pieces
<1>5. \A i \in 1 .. Len(got \o h) : (got \o h)[i] = i
  <2>1. SUFFICES ASSUME NEW i \in 1 .. Len(got) + Len(h) PROVE (got \o h)[i] = i
    BY <1>4
  <2>2. CASE i <= Len(got)
    BY <1>1, <1>2, <1>3, <1>4, <2>2
  <2>3. CASE i > Len(got)
    <3>1. i - Len(got) \in DOMAIN h /\ (got \o h)[i] = h[i - Len(got)]
      BY <1>1, <1>2, <1>3, <1>4, <2>3
    <3>2. h[i - Len(got)] = Len(d) + (i - Len(got)) - k
      BY <1>3, <3>1
    <3>3. QED
      BY <1>1, <1>2, <1>3, <3>1, <3>2
  <2>4. QED
    BY <1>1, <1>2, <1>3, <2>2, <2>3
<1> DEFINE first == got \o h
<1> HIDE DEF first
<1>6. first \in Pieces /\ Len(first) = Len(d) + Len(h) - k /\ Len(first) \in Nat
      /\ \A i \in 1 .. Len(first) : first[i] = i
  BY <1>1, <1>2, <1>3, <1>4, <1>5, PieceSequences DEF first
<1>7. /\ first \o q \in Pieces /\ Len(first \o q) = Len(first) + Len(q)
      /\ \A i \in 1 .. Len(first) + Len(q) : (first \o q)[i] = IF i <= Len(first) THEN first[i] ELSE q[i - Len(first)]
  BY <1>6, ConcatProperties DEF Pieces
<1>8. \A i \in 1 .. Len(first \o q) : (first \o q)[i] = i
  <2>1. SUFFICES ASSUME NEW i \in 1 .. Len(first) + Len(q) PROVE (first \o q)[i] = i
    BY <1>7
  <2>2. CASE i <= Len(first)
    BY <1>1, <1>6, <1>7, <2>2
  <2>3. CASE i > Len(first)
    <3>1. i - Len(first) \in DOMAIN q /\ (first \o q)[i] = q[i - Len(first)]
      BY <1>1, <1>6, <1>7, <2>3
    <3>2. q[i - Len(first)] = Len(d) + Len(h) + (i - Len(first)) - k
      BY <1>3, <3>1
    <3>3. QED
      BY <1>1, <1>3, <1>6, <3>1, <3>2
  <2>4. QED
    BY <1>1, <1>6, <2>2, <2>3
<1>9. Len(first \o q) = n
  BY <1>1, <1>3, <1>6, <1>7
<1>10. first \o q = [i \in 1 .. n |-> i]
  <2> DEFINE a == first \o q
  <2>1. a \in [1 .. n -> 0 .. MaxPieces]
    BY <1>7, <1>9, LenProperties DEF Pieces
  <2>2. \A i \in 1 .. n : a[i] = i
    BY <1>8, <1>9
  <2> HIDE DEF a
  <2>3. a = [i \in 1 .. n |-> i]
    BY <2>1, <2>2
  <2>4. QED
    BY <2>3 DEF a
<1>11. QED
  BY <1>10 DEF first, got, Numbers

\* No piece is doubled or overtakes another one, and while nothing was cut and no other
\* thread has read the client, every piece is delivered, in hand or still to be read
\* (PortProxyServer.hpp:303,314), for any number of pieces.
THEOREM RelayConservesHolds == RelaySpec => []RelayConserves
<1>1. RelayInv => RelayConserves
  <2>1. SUFFICES ASSUME RelayInv, NEW s \in Sides
                 PROVE  LET d == delivered[Other(s)]
                        IN  /\ \A i \in 1 .. Len(d) - 1 : d[i] < d[i + 1]
                            /\ (~cut /\ ~(taken /\ s = "client")) =>
                                  Relayed(d) \o InHand(s) \o incoming[s] = [i \in 1 .. pieces[s] |-> i]
    BY DEF RelayConserves
  <2> DEFINE d == delivered[Other(s)]
  <2>2. /\ d \in Pieces /\ InHand(s) \in Pieces /\ incoming[s] \in Pieces
        /\ pieces[s] \in Nat /\ Requests(s) \in {0, 1}
    BY <2>1, StreamTypes DEF RelayInv
  <2>3. /\ Rising(d)
        /\ Whole(s) => PlacesOf(d, InHand(s), incoming[s], pieces[s], Requests(s))
    BY <2>1 DEF RelayInv, StreamInv, OrderOf
  <2>4. \A i \in 1 .. Len(d) - 1 : d[i] < d[i + 1]
    <3>1. Len(d) \in Nat /\ DOMAIN d = 1 .. Len(d)
      BY <2>2, PieceSequences
    <3>2. \A i \in 1 .. Len(d) - 1 : i \in DOMAIN d /\ i + 1 \in DOMAIN d /\ i < i + 1
      BY <3>1
    <3>3. QED
      BY <2>3, <3>2 DEF Rising
  <2> HIDE DEF d
  <2>5. Whole(s) => Relayed(d) \o InHand(s) \o incoming[s] = [i \in 1 .. pieces[s] |-> i]
    <3>1. SUFFICES ASSUME Whole(s) PROVE Relayed(d) \o InHand(s) \o incoming[s] = Numbers(pieces[s])
      BY DEF Numbers
    <3>2. PlacesOf(d, InHand(s), incoming[s], pieces[s], Requests(s))
      BY <2>3, <3>1
    <3> DEFINE h == InHand(s)  q == incoming[s]  n == pieces[s]  k == Requests(s)
    <3>3. /\ h \in Pieces /\ q \in Pieces /\ n \in Nat /\ k \in {0, 1}
          /\ PlacesOf(d, h, q, n, k)
      BY <2>2, <3>2
    <3>4. Relayed(d) \o h \o q = Numbers(n)
      <4> HIDE DEF h, q, n, k
      <4>1. QED
        BY <2>2, <3>3, WholeIs
    <3>5. QED
      BY <3>4
  <2>6. QED
    BY <2>4, <2>5 DEF Whole, d
<1>2. QED
  BY <1>1, RelayAlways, PTL

\* TimerManager, Server and ProxyRelay side by side, where a step is a step of
\* one of them: each behaves as it does alone, so what is proved of one holds.
LEMMA EachBehaves == ThreadsSpec => Spec /\ ServerSpec /\ RelaySpec
<1>1. ThreadsInit => Init /\ ServerInit /\ RelayInit
  BY DEF ThreadsInit
<1>2. [ThreadsNext]_threadsVars => [Next]_vars /\ [ServerNext]_serverVars /\ [RelayNext]_relayVars
  <2>1. TimersMove => Next /\ UNCHANGED <<serverVars, relayVars>>
    BY DEF TimersMove, Moves
  <2>2. ServerMoves => ServerNext /\ UNCHANGED <<vars, relayVars>>
    BY DEF ServerMoves, Moves
  <2>3. RelayMoves => RelayNext /\ UNCHANGED <<vars, serverVars>>
    BY DEF RelayMoves, Moves
  <2>4. UNCHANGED threadsVars => UNCHANGED vars /\ UNCHANGED serverVars /\ UNCHANGED relayVars
    BY DEF threadsVars
  <2>5. QED
    BY <2>1, <2>2, <2>3, <2>4 DEF ThreadsNext
<1>3. QED
  BY <1>1, <1>2, PTL DEF ThreadsSpec, Spec, ServerSpec, RelaySpec

\* The types of every component hold in the composition that TLC runs.
THEOREM ThreadsTypeCorrect == ThreadsSpec => []ThreadsTypeOK
BY EachBehaves, WheelTypeCorrect, ServerTypeCorrect, RelayTypeCorrect, PTL DEF ThreadsTypeOK
=============================================================================
