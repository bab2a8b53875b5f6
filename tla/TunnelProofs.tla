---------------------------- MODULE TunnelProofs ----------------------------
(***************************************************************************)
(* Proofs about Tunnel.  Each end is an instance of Recever, so that what  *)
(* RecverProofs proves of one receiving thread holds of both; CP and SP    *)
(* are C and S with those theorems.                                        *)
(***************************************************************************)
EXTENDS Tunnel, SequenceTheorems, FiniteSetTheorems, TLAPS

CP == INSTANCE RecverProofs
        WITH IsClient <- TRUE, StaleTags <- TRUE, MayStall <- TRUE,
             Forks <- FALSE, Conn <- Browser, Mails <- {},
             MaxEvents <- MaxEvents, MaxRx <- MaxSays + 1,
             MaxTx <- Unbounded, MaxMailq <- Unbounded,
             fdTable <- cFdTable, reg <- cReg, armed <- cArmed,
             held <- cHeld, backlog <- cBacklog, rx <- cRx, tx <- cTx,
             used <- cUsed, metas <- cMetas, heap <- cHeap,
             tagToFd <- cTagToFd, workers <- cWorkers, nextTag <- cNextTag,
             batch <- cBatch, reading <- cReading, paths <- cPaths,
             work <- cWork, mailq <- cMailq, notices <- cNotices,
             spool <- cSpool, status <- cStatus

SP == INSTANCE RecverProofs
        WITH IsClient <- FALSE, StaleTags <- TRUE, MayStall <- TRUE,
             Forks <- FALSE, Conn <- Proxy, Mails <- {},
             MaxEvents <- MaxEvents, MaxRx <- MaxSays + 1,
             MaxTx <- Unbounded, MaxMailq <- Unbounded,
             fdTable <- sFdTable, reg <- sReg, armed <- sArmed,
             held <- sHeld, backlog <- sBacklog, rx <- sRx, tx <- sTx,
             used <- sUsed, metas <- sMetas, heap <- sHeap,
             tagToFd <- sTagToFd, workers <- sWorkers, nextTag <- sNextTag,
             batch <- sBatch, reading <- sReading, paths <- sPaths,
             work <- sWork, mailq <- sMailq, notices <- sNotices,
             spool <- sSpool, status <- sStatus

-----------------------------------------------------------------------------
(* What Tunnel assumes of its constants is what Recever assumes of them.   *)

LEMMA NaturalBounds ==
  MaxSays \in Nat /\ Unbounded \in Nat \ {0} /\ MaxEvents \in Nat \ {0}
<1>1. /\ Cardinality(Body) \in Nat /\ Cardinality(Browser) \in Nat
      /\ Cardinality(Proxy) \in Nat
  BY ConnAssumption, BodyAssumption, FS_CardinalityType
<1>2. Cardinality(Body) # 0
  BY BodyAssumption, FS_EmptySet
<1> QED BY <1>1, <1>2, BatchAssumption DEF MaxSays, Unbounded

LEMMA ClientAssumptions ==
  /\ CP!SwitchAssumption /\ CP!ConnAssumption /\ CP!NameAssumption
  /\ CP!MailsAssumption /\ CP!BoundAssumption
<1>1. CP!SwitchAssumption
  BY DEF CP!SwitchAssumption
<1>2. CP!ConnAssumption
  BY ConnAssumption DEF CP!ConnAssumption, IsFiniteSet, CP!IsFiniteSet
<1>3. CP!NameAssumption
  BY NameAssumption DEF CP!NameAssumption
<1>4. CP!MailsAssumption
  BY DEF CP!MailsAssumption
<1>5. CP!BoundAssumption
  BY NaturalBounds DEF CP!BoundAssumption
<1> QED BY <1>1, <1>2, <1>3, <1>4, <1>5

LEMMA ServerAssumptions ==
  /\ SP!SwitchAssumption /\ SP!ConnAssumption /\ SP!NameAssumption
  /\ SP!MailsAssumption /\ SP!BoundAssumption
<1>1. SP!SwitchAssumption
  BY DEF SP!SwitchAssumption
<1>2. SP!ConnAssumption
  BY ConnAssumption DEF SP!ConnAssumption, IsFiniteSet, SP!IsFiniteSet
<1>3. SP!NameAssumption
  BY NameAssumption DEF SP!NameAssumption
<1>4. SP!MailsAssumption
  BY DEF SP!MailsAssumption
<1>5. SP!BoundAssumption
  BY NaturalBounds DEF SP!BoundAssumption
<1> QED BY <1>1, <1>2, <1>3, <1>4, <1>5

-----------------------------------------------------------------------------
(* C and CP, S and SP have the same states and steps.                      *)

LEMMA SamePackets == CP!Packet = C!Packet /\ SP!Packet = C!Packet
BY DEF C!Packet, CP!Packet, SP!Packet

LEMMA ClientEpoll == C!EpollWait => CP!EpollWait
<1>1. C!Ready = CP!Ready
  BY Zenon DEF C!Ready, CP!Ready, C!Readable, CP!Readable
<1>2. \A set : C!Cardinality(set) = CP!Cardinality(set)
  BY Zenon DEF C!Cardinality, CP!Cardinality
<1>3. \A set : C!SetToSeqs(set) = CP!SetToSeqs(set)
  BY <1>2 DEF C!SetToSeqs, CP!SetToSeqs
<1>4. \A s : C!DataPtr(s) = CP!DataPtr(s)
  BY DEF C!DataPtr, CP!DataPtr
<1> QED BY <1>1, <1>2, <1>3, <1>4 DEF C!EpollWait, CP!EpollWait, C!Up, CP!Up,
         C!kernel, CP!kernel, C!tables, CP!tables, C!peers, CP!peers, C!mail,
         CP!mail

LEMMA ClientReceive == C!Receive => CP!Receive
<1>1. C!EpollWait => CP!EpollWait
  BY ClientEpoll
<1>2. C!Accept => CP!Accept
  BY DEF C!Accept, CP!Accept, C!Handling, CP!Handling, C!Up, CP!Up, C!NewTag,
         CP!NewTag, C!FreeFd, CP!FreeFd, C!FreePtr, CP!FreePtr, C!AddMeta,
         CP!AddMeta, C!Register, CP!Register, C!InitialState, CP!InitialState,
         C!WatchClient, CP!WatchClient, C!NextEvent, CP!NextEvent, C!mail,
         CP!mail
<1>3. C!AcceptFails => CP!AcceptFails
  BY DEF C!AcceptFails, CP!AcceptFails, C!Handling, CP!Handling, C!Up, CP!Up,
         C!FreeFd, CP!FreeFd, C!NextEvent, CP!NextEvent, C!kernel, CP!kernel,
         C!peers, CP!peers, C!tables, CP!tables, C!mail, CP!mail
<1>4. C!ReadData => CP!ReadData
  BY DEF C!ReadData, CP!ReadData, C!HandlingSocket, CP!HandlingSocket, C!Up,
         CP!Up, C!Rearm, CP!Rearm, C!DataPacket, CP!DataPacket, C!NextEvent,
         CP!NextEvent, C!peers, CP!peers, C!mail, CP!mail
<1>5. C!ReadEnd => CP!ReadEnd
  BY DEF C!ReadEnd, CP!ReadEnd, C!HandlingSocket, CP!HandlingSocket, C!Up,
         CP!Up, C!Shutdown, CP!Shutdown, C!DelMeta, CP!DelMeta, C!CloseFd,
         CP!CloseFd, C!EndPacket, CP!EndPacket, C!NextEvent, CP!NextEvent,
         C!peers, CP!peers, C!mail, CP!mail
<1>6. C!ReadNothing => CP!ReadNothing
  BY DEF C!ReadNothing, CP!ReadNothing, C!HandlingSocket, CP!HandlingSocket,
         C!Up, CP!Up, C!NextEvent, CP!NextEvent, C!kernel, CP!kernel, C!peers,
         CP!peers, C!tables, CP!tables, C!mail, CP!mail
<1>7. C!HandleFreed => CP!HandleFreed
  BY DEF C!HandleFreed, CP!HandleFreed, C!Up, CP!Up, C!NextEvent, CP!NextEvent,
         C!kernel, CP!kernel, C!peers, CP!peers, C!tables, CP!tables, C!mail,
         CP!mail
<1>8. C!ReadNotices => CP!ReadNotices
  BY DEF C!ReadNotices, CP!ReadNotices, C!Handling, CP!Handling, C!Up, CP!Up,
         C!kernel, CP!kernel, C!peers, CP!peers, C!tables, CP!tables
<1>9. C!ReadFile => CP!ReadFile
  BY DEF C!ReadFile, CP!ReadFile, C!Up, CP!Up, C!kernel, CP!kernel, C!peers,
         CP!peers, C!tables, CP!tables, C!mail, CP!mail
<1>10. C!FilesDone => CP!FilesDone
  BY DEF C!FilesDone, CP!FilesDone, C!Up, CP!Up, C!WatchMaildir,
         CP!WatchMaildir, C!peers, CP!peers, C!tables, CP!tables, C!mail,
         CP!mail
<1>11. C!UnknownTag => CP!UnknownTag
  BY DEF C!UnknownTag, CP!UnknownTag, C!Processing, CP!Processing, C!Up, CP!Up,
         C!kernel, CP!kernel, C!peers, CP!peers, C!tables, CP!tables, C!mail,
         CP!mail
<1>12. C!SocketFails => CP!SocketFails
  BY DEF C!SocketFails, CP!SocketFails, C!Processing, CP!Processing, C!Up,
         CP!Up, C!FreeFd, CP!FreeFd, C!kernel, CP!kernel, C!peers, CP!peers,
         C!tables, CP!tables, C!mail, CP!mail
<1>13. C!OpenConnection => CP!OpenConnection
  BY DEF C!OpenConnection, CP!OpenConnection, C!Processing, CP!Processing, C!Up,
         CP!Up, C!FreeFd, CP!FreeFd, C!FreePtr, CP!FreePtr, C!AddMeta,
         CP!AddMeta, C!Register, CP!Register, C!Written, CP!Written, C!IsData,
         CP!IsData, C!mail, CP!mail
<1>14. C!ConnectRefused => CP!ConnectRefused
  BY DEF C!ConnectRefused, CP!ConnectRefused, C!Processing, CP!Processing, C!Up,
         CP!Up, C!FreeFd, CP!FreeFd, C!FreePtr, CP!FreePtr, C!kernel, CP!kernel,
         C!peers, CP!peers, C!mail, CP!mail
<1>15. C!UninitAsserts => CP!UninitAsserts
  BY DEF C!UninitAsserts, CP!UninitAsserts, C!Processing, CP!Processing, C!Up,
         CP!Up, C!kernel, CP!kernel, C!peers, CP!peers, C!tables, CP!tables,
         C!mail, CP!mail
<1>16. C!UninitFails => CP!UninitFails
  BY DEF C!UninitFails, CP!UninitFails, C!Processing, CP!Processing, C!Up,
         CP!Up, C!Shutdown, CP!Shutdown, C!DelMeta, CP!DelMeta, C!CloseFd,
         CP!CloseFd, C!peers, CP!peers, C!mail, CP!mail
<1>17. C!Deliver => CP!Deliver
  BY DEF C!Deliver, CP!Deliver, C!Processing, CP!Processing, C!Up, CP!Up,
         C!IsData, CP!IsData, C!SockPut, CP!SockPut, C!Written, CP!Written,
         C!PeerEnded, CP!PeerEnded,
         C!Last, CP!Last, C!kernel, CP!kernel, C!peers, CP!peers, C!tables,
         CP!tables, C!mail, CP!mail
<1>18. C!PeerFinished => CP!PeerFinished
  BY DEF C!PeerFinished, CP!PeerFinished, C!Processing, CP!Processing, C!Up,
         CP!Up, C!IsData, CP!IsData, C!Shutdown, CP!Shutdown, C!DelMeta,
         CP!DelMeta, C!CloseFd, CP!CloseFd, C!peers, CP!peers, C!mail, CP!mail
<1> QED BY <1>1, <1>2, <1>3, <1>4, <1>5, <1>6, <1>7, <1>8, <1>9, <1>10, <1>11,
           <1>12, <1>13, <1>14, <1>15, <1>16, <1>17, <1>18 DEF C!Receive,
           CP!Receive, C!HandleEvent, CP!HandleEvent, C!ProcessPacket,
           CP!ProcessPacket

LEMMA ServerEpoll == S!EpollWait => SP!EpollWait
<1>1. S!Ready = SP!Ready
  BY Zenon DEF S!Ready, SP!Ready, S!Readable, SP!Readable
<1>2. \A set : S!Cardinality(set) = SP!Cardinality(set)
  BY Zenon DEF S!Cardinality, SP!Cardinality
<1>3. \A set : S!SetToSeqs(set) = SP!SetToSeqs(set)
  BY <1>2 DEF S!SetToSeqs, SP!SetToSeqs
<1>4. \A s : S!DataPtr(s) = SP!DataPtr(s)
  BY DEF S!DataPtr, SP!DataPtr
<1> QED BY <1>1, <1>2, <1>3, <1>4 DEF S!EpollWait, SP!EpollWait, S!Up, SP!Up,
         S!kernel, SP!kernel, S!tables, SP!tables, S!peers, SP!peers, S!mail,
         SP!mail

LEMMA ServerReceive == S!Receive => SP!Receive
<1>1. S!EpollWait => SP!EpollWait
  BY ServerEpoll
<1>2. S!Accept => SP!Accept
  BY DEF S!Accept, SP!Accept, S!Handling, SP!Handling, S!Up, SP!Up, S!NewTag,
         SP!NewTag, S!FreeFd, SP!FreeFd, S!FreePtr, SP!FreePtr, S!AddMeta,
         SP!AddMeta, S!Register, SP!Register, S!InitialState, SP!InitialState,
         S!WatchClient, SP!WatchClient, S!NextEvent, SP!NextEvent, S!mail,
         SP!mail
<1>3. S!AcceptFails => SP!AcceptFails
  BY DEF S!AcceptFails, SP!AcceptFails, S!Handling, SP!Handling, S!Up, SP!Up,
         S!FreeFd, SP!FreeFd, S!NextEvent, SP!NextEvent, S!kernel, SP!kernel,
         S!peers, SP!peers, S!tables, SP!tables, S!mail, SP!mail
<1>4. S!ReadData => SP!ReadData
  BY DEF S!ReadData, SP!ReadData, S!HandlingSocket, SP!HandlingSocket, S!Up,
         SP!Up, S!Rearm, SP!Rearm, S!DataPacket, SP!DataPacket, S!NextEvent,
         SP!NextEvent, S!peers, SP!peers, S!mail, SP!mail
<1>5. S!ReadEnd => SP!ReadEnd
  BY DEF S!ReadEnd, SP!ReadEnd, S!HandlingSocket, SP!HandlingSocket, S!Up,
         SP!Up, S!Shutdown, SP!Shutdown, S!DelMeta, SP!DelMeta, S!CloseFd,
         SP!CloseFd, S!EndPacket, SP!EndPacket, S!NextEvent, SP!NextEvent,
         S!peers, SP!peers, S!mail, SP!mail
<1>6. S!ReadNothing => SP!ReadNothing
  BY DEF S!ReadNothing, SP!ReadNothing, S!HandlingSocket, SP!HandlingSocket,
         S!Up, SP!Up, S!NextEvent, SP!NextEvent, S!kernel, SP!kernel, S!peers,
         SP!peers, S!tables, SP!tables, S!mail, SP!mail
<1>7. S!HandleFreed => SP!HandleFreed
  BY DEF S!HandleFreed, SP!HandleFreed, S!Up, SP!Up, S!NextEvent, SP!NextEvent,
         S!kernel, SP!kernel, S!peers, SP!peers, S!tables, SP!tables, S!mail,
         SP!mail
<1>8. S!ReadNotices => SP!ReadNotices
  BY DEF S!ReadNotices, SP!ReadNotices, S!Handling, SP!Handling, S!Up, SP!Up,
         S!kernel, SP!kernel, S!peers, SP!peers, S!tables, SP!tables
<1>9. S!ReadFile => SP!ReadFile
  BY DEF S!ReadFile, SP!ReadFile, S!Up, SP!Up, S!kernel, SP!kernel, S!peers,
         SP!peers, S!tables, SP!tables, S!mail, SP!mail
<1>10. S!FilesDone => SP!FilesDone
  BY DEF S!FilesDone, SP!FilesDone, S!Up, SP!Up, S!WatchMaildir,
         SP!WatchMaildir, S!peers, SP!peers, S!tables, SP!tables, S!mail,
         SP!mail
<1>11. S!UnknownTag => SP!UnknownTag
  BY DEF S!UnknownTag, SP!UnknownTag, S!Processing, SP!Processing, S!Up, SP!Up,
         S!kernel, SP!kernel, S!peers, SP!peers, S!tables, SP!tables, S!mail,
         SP!mail
<1>12. S!SocketFails => SP!SocketFails
  BY DEF S!SocketFails, SP!SocketFails, S!Processing, SP!Processing, S!Up,
         SP!Up, S!FreeFd, SP!FreeFd, S!kernel, SP!kernel, S!peers, SP!peers,
         S!tables, SP!tables, S!mail, SP!mail
<1>13. S!OpenConnection => SP!OpenConnection
  BY DEF S!OpenConnection, SP!OpenConnection, S!Processing, SP!Processing, S!Up,
         SP!Up, S!FreeFd, SP!FreeFd, S!FreePtr, SP!FreePtr, S!AddMeta,
         SP!AddMeta, S!Register, SP!Register, S!Written, SP!Written, S!IsData,
         SP!IsData, S!mail, SP!mail
<1>14. S!ConnectRefused => SP!ConnectRefused
  BY DEF S!ConnectRefused, SP!ConnectRefused, S!Processing, SP!Processing, S!Up,
         SP!Up, S!FreeFd, SP!FreeFd, S!FreePtr, SP!FreePtr, S!kernel, SP!kernel,
         S!peers, SP!peers, S!mail, SP!mail
<1>15. S!UninitAsserts => SP!UninitAsserts
  BY DEF S!UninitAsserts, SP!UninitAsserts, S!Processing, SP!Processing, S!Up,
         SP!Up, S!kernel, SP!kernel, S!peers, SP!peers, S!tables, SP!tables,
         S!mail, SP!mail
<1>16. S!UninitFails => SP!UninitFails
  BY DEF S!UninitFails, SP!UninitFails, S!Processing, SP!Processing, S!Up,
         SP!Up, S!Shutdown, SP!Shutdown, S!DelMeta, SP!DelMeta, S!CloseFd,
         SP!CloseFd, S!peers, SP!peers, S!mail, SP!mail
<1>17. S!Deliver => SP!Deliver
  BY DEF S!Deliver, SP!Deliver, S!Processing, SP!Processing, S!Up, SP!Up,
         S!IsData, SP!IsData, S!SockPut, SP!SockPut, S!Written, SP!Written,
         S!PeerEnded, SP!PeerEnded,
         S!Last, SP!Last, S!kernel, SP!kernel, S!peers, SP!peers, S!tables,
         SP!tables, S!mail, SP!mail
<1>18. S!PeerFinished => SP!PeerFinished
  BY DEF S!PeerFinished, SP!PeerFinished, S!Processing, SP!Processing, S!Up,
         SP!Up, S!IsData, SP!IsData, S!Shutdown, SP!Shutdown, S!DelMeta,
         SP!DelMeta, S!CloseFd, SP!CloseFd, S!peers, SP!peers, S!mail, SP!mail
<1> QED BY <1>1, <1>2, <1>3, <1>4, <1>5, <1>6, <1>7, <1>8, <1>9, <1>10, <1>11,
           <1>12, <1>13, <1>14, <1>15, <1>16, <1>17, <1>18 DEF S!Receive,
           SP!Receive, S!HandleEvent, SP!HandleEvent, S!ProcessPacket,
           SP!ProcessPacket

LEMMA ClientPeers ==
  C!BrowserConnects \/ C!PeerSends \/ C!PeerEnds => CP!Environment
<1>1. C!BrowserConnects => CP!BrowserConnects
  BY DEF C!BrowserConnects, CP!BrowserConnects, C!Up, CP!Up, C!kernel,
         CP!kernel, C!tables, CP!tables, C!loop, CP!loop, C!mail, CP!mail
<1>2. \A c : C!Reachable(c) <=> CP!Reachable(c)
  BY DEF C!Reachable, CP!Reachable, C!ToSet, CP!ToSet, C!OpenConns,
         CP!OpenConns
<1>3. \A c : C!PeerEnded(c) <=> CP!PeerEnded(c)
  BY DEF C!PeerEnded, CP!PeerEnded, C!Last, CP!Last
<1>4. C!PeerSends => CP!PeerSends
  BY <1>2, <1>3 DEF C!PeerSends, CP!PeerSends, C!Up, CP!Up, C!kernel,
         CP!kernel, C!peers, CP!peers, C!tables, CP!tables, C!loop, CP!loop,
         C!mail, CP!mail
<1>5. C!PeerEnds => CP!PeerEnds
  BY <1>2, <1>3 DEF C!PeerEnds, CP!PeerEnds, C!Up, CP!Up, C!kernel, CP!kernel,
         C!peers, CP!peers, C!tables, CP!tables, C!loop, CP!loop, C!mail,
         CP!mail
<1> QED BY <1>1, <1>4, <1>5 DEF CP!Environment

LEMMA ClientMail == ASSUME NEW n, NEW s, C!MailArrives(n, s)
                    PROVE CP!MailArrives(n, s)
BY DEF C!MailArrives, CP!MailArrives, C!Announced, CP!Announced, C!Up, CP!Up,
       C!Last, CP!Last, C!kernel, CP!kernel, C!peers, CP!peers, C!tables,
       CP!tables, C!loop, CP!loop

LEMMA ClientInit == C!Init => CP!Init
BY DEF C!Init, CP!Init

LEMMA ClientTypes == CP!TypeOK => C!TypeOK
BY DEF C!TypeOK, CP!TypeOK, C!Source, CP!Source, C!Meta, CP!Meta, C!Packet,
       CP!Packet

LEMMA ServerPeers ==
  S!BrowserConnects \/ S!PeerSends \/ S!PeerEnds => SP!Environment
<1>1. S!BrowserConnects => SP!BrowserConnects
  BY DEF S!BrowserConnects, SP!BrowserConnects, S!Up, SP!Up, S!kernel,
         SP!kernel, S!tables, SP!tables, S!loop, SP!loop, S!mail, SP!mail
<1>2. \A c : S!Reachable(c) <=> SP!Reachable(c)
  BY DEF S!Reachable, SP!Reachable, S!ToSet, SP!ToSet, S!OpenConns,
         SP!OpenConns
<1>3. \A c : S!PeerEnded(c) <=> SP!PeerEnded(c)
  BY DEF S!PeerEnded, SP!PeerEnded, S!Last, SP!Last
<1>4. S!PeerSends => SP!PeerSends
  BY <1>2, <1>3 DEF S!PeerSends, SP!PeerSends, S!Up, SP!Up, S!kernel,
         SP!kernel, S!peers, SP!peers, S!tables, SP!tables, S!loop, SP!loop,
         S!mail, SP!mail
<1>5. S!PeerEnds => SP!PeerEnds
  BY <1>2, <1>3 DEF S!PeerEnds, SP!PeerEnds, S!Up, SP!Up, S!kernel, SP!kernel,
         S!peers, SP!peers, S!tables, SP!tables, S!loop, SP!loop, S!mail,
         SP!mail
<1> QED BY <1>1, <1>4, <1>5 DEF SP!Environment

LEMMA ServerMail == ASSUME NEW n, NEW s, S!MailArrives(n, s)
                    PROVE SP!MailArrives(n, s)
BY DEF S!MailArrives, SP!MailArrives, S!Announced, SP!Announced, S!Up, SP!Up,
       S!Last, SP!Last, S!kernel, SP!kernel, S!peers, SP!peers, S!tables,
       SP!tables, S!loop, SP!loop

LEMMA ServerInit == S!Init => SP!Init
BY DEF S!Init, SP!Init

LEMMA ServerTypes == SP!TypeOK => S!TypeOK
BY DEF S!TypeOK, SP!TypeOK, S!Source, SP!Source, S!Meta, SP!Meta, S!Packet,
       SP!Packet

-----------------------------------------------------------------------------
(* The inductive invariant.                                                *)

Tags(queue) == {queue[i].tag : i \in DOMAIN queue}

\* Each end has taken in a part of the stream, from its beginning.
Streams ==
  /\ upGot \in Seq(C!Packet) /\ IsPrefix(upGot, cMailq)
  /\ downGot \in Seq(C!Packet) /\ IsPrefix(downGot, sMailq)

\* Nobody has said more than is to be said.
Counts ==
  /\ world \in Worlds
  /\ browserSaid \in [Browser -> Nat] /\ proxySaid \in [Proxy -> Nat]
  /\ \A c \in Browsers : browserSaid[c] \in 0 .. Len(world.browsers[c])
  /\ \A s \in Proxy : proxySaid[s] \in 0 .. Len(world.proxy[s])

\* A tag the client has sent is allocated and its worker past kUnInit.
Issued == \A t \in Tags(cMailq) : t < cNextTag /\ cWorkers[t] # "kUnInit"

\* Whatever the server reads, knows or answers is a tag the client has sent.
ServerTold ==
  /\ \A n \in Name : Tags(sSpool[n]) \subseteq Tags(cMailq)
  /\ Tags(sWork) \subseteq Tags(cMailq)
  /\ Tags(sMailq) \subseteq Tags(cMailq)
  /\ \A t \in Tag : sWorkers[t] # "none" => t \in Tags(cMailq)

\* Whatever the client reads is a tag the server has answered.
ClientTold ==
  /\ \A n \in Name : Tags(cSpool[n]) \subseteq Tags(sMailq)
  /\ Tags(cWork) \subseteq Tags(sMailq)

\* The server's workers start with a connection.
NeverUninit == \A t \in Tag : sWorkers[t] # "kUnInit"

IInv ==
  /\ CP!IInv /\ SP!IInv
  /\ Streams /\ Counts
  /\ Issued /\ ServerTold /\ ClientTold /\ NeverUninit /\ AddressExpected

\* Types of what the two ends exchange.
LEMMA Types ==
  ASSUME CP!IInv, SP!IInv
  PROVE  /\ cMailq \in Seq(C!Packet) /\ sMailq \in Seq(C!Packet)
         /\ cWork \in Seq(C!Packet) /\ sWork \in Seq(C!Packet)
         /\ cSpool \in [Name -> Seq(C!Packet)] /\ sSpool \in [Name -> Seq(C!Packet)]
         /\ cNextTag \in Nat
BY SamePackets DEF CP!IInv, SP!IInv, CP!TypeOK, SP!TypeOK

LEMMA TagsOfQueue ==
  ASSUME NEW q \in Seq(C!Packet)
  PROVE  Tags(q) \subseteq Tag
<1>1. \A i \in DOMAIN q : q[i] \in C!Packet
  BY ElementOfSeq, LenProperties
<1> QED BY <1>1 DEF Tags, C!Packet

LEMMA AppendTags ==
  ASSUME NEW q \in Seq(C!Packet), NEW pkt \in C!Packet
  PROVE  /\ Append(q, pkt) \in Seq(C!Packet)
         /\ Tags(Append(q, pkt)) = Tags(q) \cup {pkt.tag}
<1>1. /\ Append(q, pkt) \in Seq(C!Packet)
      /\ Len(Append(q, pkt)) = Len(q)+1
      /\ \A i \in 1..Len(q) : Append(q, pkt)[i] = q[i]
      /\ Append(q, pkt)[Len(q)+1] = pkt
  BY AppendProperties
<1>2. /\ DOMAIN q = 1..Len(q) /\ DOMAIN Append(q, pkt) = 1..(Len(q)+1)
      /\ Len(q) \in Nat
  BY <1>1, LenProperties
<1>3. Tags(q) \cup {pkt.tag} \subseteq Tags(Append(q, pkt))
  BY <1>1, <1>2 DEF Tags
<1>4. Tags(Append(q, pkt)) \subseteq Tags(q) \cup {pkt.tag}
  BY <1>1, <1>2 DEF Tags
<1> QED BY <1>1, <1>3, <1>4

\* A mail is a piece of the stream.
LEMMA PieceTags ==
  ASSUME NEW q \in Seq(C!Packet), NEW a \in Nat \ {0}, NEW b \in 0..Len(q)
  PROVE  SubSeq(q, a, b) \in Seq(C!Packet) /\ Tags(SubSeq(q, a, b)) \subseteq Tags(q)
<1>1. Len(q) \in Nat /\ DOMAIN q = 1..Len(q)
  BY LenProperties
<1>2. /\ SubSeq(q, a, b) \in Seq(C!Packet)
      /\ Len(SubSeq(q, a, b)) = IF a <= b THEN b-a+1 ELSE 0
      /\ \A i \in 1..Len(SubSeq(q, a, b)) : SubSeq(q, a, b)[i] = q[a+i-1]
  BY <1>1, SubSeqProperties
<1>3. \A i \in DOMAIN SubSeq(q, a, b) : a+i-1 \in DOMAIN q
  <2>1. DOMAIN SubSeq(q, a, b) = 1..Len(SubSeq(q, a, b))
    BY <1>2, LenProperties
  <2> QED BY <1>1, <1>2, <2>1
<1>4. DOMAIN SubSeq(q, a, b) = 1..Len(SubSeq(q, a, b))
  BY <1>2, LenProperties
<1> QED BY <1>2, <1>3, <1>4 DEF Tags

LEMMA PrefixAppend ==
  ASSUME NEW q \in Seq(C!Packet), NEW got \in Seq(C!Packet), IsPrefix(got, q),
         NEW pkt \in C!Packet
  PROVE  IsPrefix(got, Append(q, pkt))
<1>1. Len(q) \in Nat /\ Len(got) \in Nat /\ Len(got) <= Len(q)
  BY LenProperties DEF IsPrefix
<1>2. Len(Append(q, pkt)) = Len(q)+1 /\ Append(q, pkt) \in Seq(C!Packet)
  BY AppendProperties
<1>3. SubSeq(Append(q, pkt), 1, Len(got)) = SubSeq(q, 1, Len(got))
  BY <1>1, <1>2
<1> QED BY <1>1, <1>2, <1>3 DEF IsPrefix

LEMMA PrefixPiece ==
  ASSUME NEW q \in Seq(C!Packet), NEW k \in 1..Len(q)
  PROVE  /\ SubSeq(q, 1, k) \in Seq(C!Packet) /\ Len(SubSeq(q, 1, k)) = k
         /\ IsPrefix(SubSeq(q, 1, k), q)
<1>1. Len(q) \in Nat
  BY LenProperties
<1>2. SubSeq(q, 1, k) \in Seq(C!Packet) /\ Len(SubSeq(q, 1, k)) = k
  BY <1>1
<1>3. SubSeq(SubSeq(q, 1, k), 1, k) = SubSeq(q, 1, k)
  BY <1>1, <1>2
<1> QED BY <1>1, <1>2, <1>3 DEF IsPrefix

-----------------------------------------------------------------------------
(* Steps of one end.                                                       *)

LEMMA ClientStands == CP!IInv /\ UNCHANGED client => CP!IInv'
<1>1. UNCHANGED client => UNCHANGED CP!vars
  BY DEF client, CP!vars, CP!kernel, CP!tables, CP!loop, CP!mail
<1> QED BY <1>1, ClientAssumptions, CP!NextIInv

LEMMA ServerStands == SP!IInv /\ UNCHANGED server => SP!IInv'
<1>1. UNCHANGED server => UNCHANGED SP!vars
  BY DEF server, SP!vars, SP!kernel, SP!tables, SP!loop, SP!mail
<1> QED BY <1>1, ServerAssumptions, SP!NextIInv

LEMMA ClientStep == ASSUME CP!IInv, C!Receive PROVE CP!IInv' /\ CP!ReceiveEffect
<1>1. CP!Receive
  BY ClientReceive
<1>2. CP!IInv'
  BY <1>1, ClientAssumptions, CP!NextIInv DEF CP!Next
<1>3. CP!ReceiveEffect
  BY <1>1, ClientAssumptions, CP!ReceiveTags
<1> QED BY <1>2, <1>3

LEMMA ServerStep == ASSUME SP!IInv, S!Receive PROVE SP!IInv' /\ SP!ReceiveEffect
<1>1. SP!Receive
  BY ServerReceive
<1>2. SP!IInv'
  BY <1>1, ServerAssumptions, SP!NextIInv DEF SP!Next
<1>3. SP!ReceiveEffect
  BY <1>1, ServerAssumptions, SP!ReceiveTags
<1> QED BY <1>2, <1>3

\* Peers leave queues, tags and workers alone.
LEMMA ClientPeerStep ==
  ASSUME CP!IInv, C!BrowserConnects \/ C!PeerSends \/ C!PeerEnds
  PROVE  /\ CP!IInv'
         /\ UNCHANGED <<cMailq, cWorkers, cNextTag, cWork, cSpool, cStatus>>
<1>1. CP!IInv'
  BY ClientPeers, ClientAssumptions, CP!NextIInv DEF CP!Next
<1>2. UNCHANGED <<cMailq, cWorkers, cNextTag, cWork, cSpool, cStatus>>
  BY DEF C!BrowserConnects, C!PeerSends, C!PeerEnds, C!tables, C!loop, C!mail
<1> QED BY <1>1, <1>2

LEMMA ServerPeerStep ==
  ASSUME SP!IInv, S!PeerSends \/ S!PeerEnds
  PROVE  /\ SP!IInv'
         /\ UNCHANGED <<sMailq, sWorkers, sWork, sSpool, sStatus>>
<1>1. SP!IInv'
  BY ServerPeers, ServerAssumptions, SP!NextIInv DEF SP!Next
<1>2. UNCHANGED <<sMailq, sWorkers, sWork, sSpool, sStatus>>
  BY DEF S!PeerSends, S!PeerEnds, S!tables, S!loop, S!mail
<1> QED BY <1>1, <1>2

-----------------------------------------------------------------------------
(* Every step keeps the invariant.                                         *)

LEMMA InitIInv == Init => IInv
<1> SUFFICES ASSUME Init PROVE IInv
  OBVIOUS
<1>1. C!Init /\ S!Init
  BY DEF Init
<1>2. CP!IInv
  BY <1>1, ClientInit, ClientAssumptions, CP!InitIInv
<1>3. SP!IInv
  BY <1>1, ServerInit, ServerAssumptions, SP!InitIInv
<1>4. Streams
  <2>1. /\ cMailq = <<>> /\ sMailq = <<>> /\ upGot = <<>> /\ downGot = <<>>
    BY <1>1 DEF Init, C!Init, S!Init
  <2>2. <<>> \in Seq(C!Packet) /\ IsPrefix(<<>>, <<>>)
    BY EmptySeq DEF IsPrefix
  <2> QED BY <2>1, <2>2 DEF Streams
<1>5. Counts
  <2>1. /\ world \in Worlds /\ browserSaid = [c \in Browser |-> 0]
        /\ proxySaid = [s \in Proxy |-> 0]
    BY DEF Init
  <2>2. /\ world.browsers \in Seq(Seq(Body)) /\ DOMAIN world.browsers \subseteq Browser
        /\ world.proxy \in [Proxy -> Seq(Body)]
    BY <2>1, WorldAssumption
  <2>3. \A c \in Browsers : c \in Browser /\ Len(world.browsers[c]) \in Nat
    BY <2>2, ElementOfSeq, LenProperties DEF Browsers
  <2>4. \A s \in Proxy : Len(world.proxy[s]) \in Nat
    BY <2>2, LenProperties
  <2> QED BY <2>1, <2>3, <2>4 DEF Counts
<1>6. Issued /\ ServerTold /\ ClientTold
  BY <1>1 DEF C!Init, S!Init, Issued, ServerTold, ClientTold, Tags
<1>7. NeverUninit /\ AddressExpected
  BY <1>1 DEF C!Init, S!Init, NeverUninit, AddressExpected, C!SizeAssertion,
              S!SizeAssertion
<1> QED BY <1>2, <1>3, <1>4, <1>5, <1>6, <1>7 DEF IInv

LEMMA ClientReceivesIInv == IInv /\ ClientReceives => IInv'
<1> SUFFICES ASSUME IInv, ClientReceives PROVE IInv'
  OBVIOUS
<1> USE DEF IInv
<1>1. /\ C!Receive /\ UNCHANGED server /\ UNCHANGED history
  BY DEF ClientReceives
<1>2. CP!IInv' /\ CP!ReceiveEffect
  BY <1>1, ClientStep
<1>3. SP!IInv'
  BY <1>1, ServerStands
<1>4. UNCHANGED <<sMailq, sWork, sSpool, sWorkers, sStatus, upGot, downGot,
                  browserSaid, proxySaid, world>>
  BY <1>1 DEF server, history
<1>5. /\ cNextTag' \in Nat /\ cNextTag <= cNextTag' /\ cSpool' = cSpool
      /\ \/ cMailq' = cMailq
         \/ \E pkt \in C!Packet : /\ cMailq' = Append(cMailq, pkt)
                                  /\ cWorkers[pkt.tag] # "none"
                                  /\ cWorkers'[pkt.tag] # "kUnInit"
      /\ \A t \in Tag : cWorkers'[t] = "kUnInit" =>
           cWorkers[t] = "kUnInit" \/ t = cNextTag
      /\ \A t \in Tags(cWork') : t \in Tags(cWork) \/ \E n \in Name : t \in Tags(cSpool[n])
      /\ cStatus' = "data->size == 6" =>
           \/ cStatus = "data->size == 6"
           \/ \E t \in Tags(cWork) \cap Tag : cWorkers[t] = "kUnInit"
  BY <1>2, SamePackets DEF CP!ReceiveEffect, CP!Tags, Tags
<1>6. \A t \in Tag : cWorkers[t] # "none" => t < cNextTag
  BY DEF CP!IInv, CP!TagsIssued
<1>7. /\ cMailq \in Seq(C!Packet) /\ sMailq \in Seq(C!Packet) /\ cNextTag \in Nat
      /\ Tags(cMailq) \subseteq Tag /\ Tag \subseteq Nat
  BY Types, TagsOfQueue, NameAssumption
<1>8. Tags(cMailq) \subseteq Tags(cMailq')
  BY <1>5, <1>7, AppendTags
<1>9. Streams'
  <2>1. CASE cMailq' = cMailq
    BY <1>4, <2>1 DEF Streams
  <2>2. ASSUME NEW pkt \in C!Packet, cMailq' = Append(cMailq, pkt) PROVE Streams'
    BY <1>4, <1>7, <2>2, PrefixAppend DEF Streams
  <2> QED BY <1>5, <2>1, <2>2
<1>10. Counts'
  BY <1>4 DEF Counts, Browsers
<1>11. Issued'
  <2>0. \A t \in Nat : t < cNextTag => t # cNextTag /\ t < cNextTag'
    <3>1. cNextTag \in Nat /\ cNextTag' \in Nat /\ cNextTag <= cNextTag'
      BY <1>5, <1>7
    <3> QED BY <3>1
  <2>1. \A t \in Tags(cMailq) : t < cNextTag' /\ cWorkers'[t] # "kUnInit"
    <3> TAKE t \in Tags(cMailq)
    <3>1. t \in Nat /\ t \in Tag /\ t < cNextTag /\ cWorkers[t] # "kUnInit"
      BY <1>7 DEF Issued
    <3>2. t # cNextTag /\ t < cNextTag'
      BY <2>0, <3>1
    <3> QED BY <1>5, <3>1, <3>2
  <2>2. CASE cMailq' = cMailq
    BY <2>1, <2>2 DEF Issued
  <2>3. ASSUME NEW pkt \in C!Packet, cMailq' = Append(cMailq, pkt),
               cWorkers[pkt.tag] # "none", cWorkers'[pkt.tag] # "kUnInit"
        PROVE  Issued'
    <3>1. pkt.tag \in Tag
      BY DEF C!Packet
    <3>2. pkt.tag < cNextTag'
      BY <1>6, <1>7, <2>0, <2>3, <3>1
    <3>3. Tags(cMailq') = Tags(cMailq) \cup {pkt.tag}
      BY <1>7, <2>3, AppendTags
    <3> QED BY <2>1, <2>3, <3>2, <3>3 DEF Issued
  <2> QED BY <1>5, <2>2, <2>3
<1>12. ServerTold'
  <2>1. Tags(sWork') = Tags(sWork) /\ Tags(sMailq') = Tags(sMailq)
        /\ \A n \in Name : Tags(sSpool'[n]) = Tags(sSpool[n])
    BY <1>4
  <2> QED BY <1>4, <1>8, <2>1 DEF ServerTold
<1>13. ClientTold'
  <2>1. Tags(sMailq') = Tags(sMailq) /\ \A n \in Name : Tags(cSpool'[n]) = Tags(cSpool[n])
    BY <1>4, <1>5
  <2> QED BY <1>5, <2>1 DEF ClientTold
<1>14. NeverUninit'
  BY <1>4 DEF NeverUninit
<1>15. AddressExpected'
  <2>1. \A t \in Tags(cWork) : cWorkers[t] # "kUnInit"
    BY DEF ClientTold, ServerTold, Issued
  <2> QED BY <1>4, <1>5, <2>1 DEF AddressExpected, C!SizeAssertion, S!SizeAssertion
<1> QED BY <1>2, <1>3, <1>9, <1>10, <1>11, <1>12, <1>13, <1>14, <1>15

LEMMA ServerReceivesIInv == IInv /\ ServerReceives => IInv'
<1> SUFFICES ASSUME IInv, ServerReceives PROVE IInv'
  OBVIOUS
<1> USE DEF IInv
<1>1. /\ S!Receive /\ UNCHANGED client /\ UNCHANGED history
  BY DEF ServerReceives
<1>2. SP!IInv' /\ SP!ReceiveEffect
  BY <1>1, ServerStep
<1>3. CP!IInv'
  BY <1>1, ClientStands
<1>4. UNCHANGED <<cMailq, cWork, cSpool, cWorkers, cNextTag, cStatus, upGot, downGot,
                  browserSaid, proxySaid, world>>
  BY <1>1 DEF client, history
<1>5. /\ sSpool' = sSpool
      /\ \/ sMailq' = sMailq
         \/ \E pkt \in C!Packet : /\ sMailq' = Append(sMailq, pkt)
                                  /\ sWorkers[pkt.tag] # "none"
      /\ \A t \in Tag : sWorkers'[t] = "kUnInit" => sWorkers[t] = "kUnInit"
      /\ \A t \in Tag : sWorkers'[t] # "none" => sWorkers[t] # "none" \/ t \in Tags(sWork)
      /\ \A t \in Tags(sWork') : t \in Tags(sWork) \/ \E n \in Name : t \in Tags(sSpool[n])
      /\ sStatus' = "data->size == 6" =>
           \/ sStatus = "data->size == 6"
           \/ \E t \in Tags(sWork) \cap Tag : sWorkers[t] = "kUnInit"
  BY <1>2, SamePackets DEF SP!ReceiveEffect, SP!Tags, Tags
<1>6. cMailq \in Seq(C!Packet) /\ sMailq \in Seq(C!Packet)
  BY Types
<1>7. Tags(sMailq) \subseteq Tags(sMailq')
  BY <1>5, <1>6, AppendTags
<1>8. Streams'
  <2>1. CASE sMailq' = sMailq
    BY <1>4, <2>1 DEF Streams
  <2>2. ASSUME NEW pkt \in C!Packet, sMailq' = Append(sMailq, pkt) PROVE Streams'
    BY <1>4, <1>6, <2>2, PrefixAppend DEF Streams
  <2> QED BY <1>5, <2>1, <2>2
<1>9. Counts'
  BY <1>4 DEF Counts, Browsers
<1>10. Issued'
  BY <1>4 DEF Issued
<1>11. ServerTold'
  <2>1. Tags(cMailq') = Tags(cMailq) /\ \A n \in Name : Tags(sSpool'[n]) = Tags(sSpool[n])
    BY <1>4, <1>5
  <2>2. Tags(sWork') \subseteq Tags(cMailq)
    BY <1>5 DEF ServerTold
  <2>3. \A t \in Tag : sWorkers'[t] # "none" => t \in Tags(cMailq)
    BY <1>5 DEF ServerTold
  <2>4. Tags(sMailq') \subseteq Tags(cMailq)
    <3>1. CASE sMailq' = sMailq
      BY <3>1 DEF ServerTold
    <3>2. ASSUME NEW pkt \in C!Packet, sMailq' = Append(sMailq, pkt),
                 sWorkers[pkt.tag] # "none"
          PROVE  Tags(sMailq') \subseteq Tags(cMailq)
      <4>1. pkt.tag \in Tag
        BY DEF C!Packet
      <4> QED BY <1>6, <3>2, <4>1, AppendTags DEF ServerTold
    <3> QED BY <1>5, <3>1, <3>2
  <2> QED BY <2>1, <2>2, <2>3, <2>4 DEF ServerTold
<1>12. ClientTold'
  <2>1. Tags(cWork') = Tags(cWork) /\ \A n \in Name : Tags(cSpool'[n]) = Tags(cSpool[n])
    BY <1>4
  <2> QED BY <1>7, <2>1 DEF ClientTold
<1>13. NeverUninit'
  BY <1>5 DEF NeverUninit
<1>14. AddressExpected'
  BY <1>4, <1>5 DEF NeverUninit, AddressExpected, C!SizeAssertion, S!SizeAssertion
<1> QED BY <1>2, <1>3, <1>8, <1>9, <1>10, <1>11, <1>12, <1>13, <1>14

LEMMA MailReachesServerIInv == IInv /\ MailReachesServer => IInv'
<1> SUFFICES ASSUME IInv, MailReachesServer PROVE IInv'
  OBVIOUS
<1> USE DEF IInv
<1>1. PICK k \in (Len(upGot) + 1) .. Len(cMailq) : upGot' = SubSeq(cMailq, 1, k)
  BY DEF MailReachesServer, Upward!Deliver
<1>2. PICK n \in Name : S!MailArrives(n, SubSeq(cMailq, Len(upGot) + 1, Len(upGot')))
  BY DEF MailReachesServer
<1>3. /\ UNCHANGED client /\ UNCHANGED <<downGot, browserSaid, proxySaid, world>>
  BY DEF MailReachesServer
<1>4. cMailq \in Seq(C!Packet) /\ sMailq \in Seq(C!Packet)
      /\ sSpool \in [Name -> Seq(C!Packet)]
      /\ Len(upGot) \in Nat /\ Len(cMailq) \in Nat
  BY Types, LenProperties DEF Streams
<1>5. /\ upGot' \in Seq(C!Packet) /\ Len(upGot') = k /\ IsPrefix(upGot', cMailq)
      /\ k \in 1..Len(cMailq)
  BY <1>1, <1>4, PrefixPiece
<1> DEFINE s == SubSeq(cMailq, Len(upGot) + 1, Len(upGot'))
<1>6. s \in Seq(C!Packet) /\ Tags(s) \subseteq Tags(cMailq)
  BY <1>4, <1>5, PieceTags
<1>7. /\ sSpool' = [sSpool EXCEPT ![n] = s]
      /\ UNCHANGED <<sMailq, sWork, sWorkers, sStatus>>
  BY <1>2 DEF S!MailArrives, S!tables, S!loop
<1>8. SP!IInv'
  <2>1. SP!MailArrives(n, s)
    BY <1>2, ServerMail
  <2> HIDE DEF s
  <2>2. s \in Seq(SP!Packet)
    BY <1>6, SamePackets
  <2> QED BY <2>1, <2>2, ServerAssumptions, SP!MailArrivesIInv
<1> HIDE DEF s
<1>9. CP!IInv'
  BY <1>3, ClientStands
<1>10. UNCHANGED <<cMailq, cWork, cSpool, cWorkers, cNextTag, cStatus>>
  BY <1>3 DEF client
<1>11. Streams'
  BY <1>3, <1>5, <1>7, <1>10 DEF Streams
<1>12. Counts'
  BY <1>3 DEF Counts, Browsers
<1>13. Issued'
  BY <1>10 DEF Issued
<1>14. ServerTold'
  <2>1. \A m \in Name : Tags(sSpool'[m]) \subseteq Tags(cMailq)
    BY <1>4, <1>6, <1>7 DEF ServerTold
  <2>2. Tags(cMailq') = Tags(cMailq) /\ Tags(sWork') = Tags(sWork)
        /\ Tags(sMailq') = Tags(sMailq)
    BY <1>7, <1>10
  <2> QED BY <1>7, <2>1, <2>2 DEF ServerTold
<1>15. ClientTold'
  BY <1>7, <1>10 DEF ClientTold
<1>16. NeverUninit' /\ AddressExpected'
  BY <1>7, <1>10 DEF NeverUninit, AddressExpected, C!SizeAssertion, S!SizeAssertion
<1> QED BY <1>8, <1>9, <1>11, <1>12, <1>13, <1>14, <1>15, <1>16

LEMMA MailReachesClientIInv == IInv /\ MailReachesClient => IInv'
<1> SUFFICES ASSUME IInv, MailReachesClient PROVE IInv'
  OBVIOUS
<1> USE DEF IInv
<1>1. PICK k \in (Len(downGot) + 1) .. Len(sMailq) : downGot' = SubSeq(sMailq, 1, k)
  BY DEF MailReachesClient, Downward!Deliver
<1>2. PICK n \in Name : C!MailArrives(n, SubSeq(sMailq, Len(downGot) + 1, Len(downGot')))
  BY DEF MailReachesClient
<1>3. /\ UNCHANGED server /\ UNCHANGED <<upGot, browserSaid, proxySaid, world>>
  BY DEF MailReachesClient
<1>4. cMailq \in Seq(C!Packet) /\ sMailq \in Seq(C!Packet)
      /\ cSpool \in [Name -> Seq(C!Packet)]
      /\ Len(downGot) \in Nat /\ Len(sMailq) \in Nat
  BY Types, LenProperties DEF Streams
<1>5. /\ downGot' \in Seq(C!Packet) /\ Len(downGot') = k /\ IsPrefix(downGot', sMailq)
      /\ k \in 1..Len(sMailq)
  BY <1>1, <1>4, PrefixPiece
<1> DEFINE s == SubSeq(sMailq, Len(downGot) + 1, Len(downGot'))
<1>6. s \in Seq(C!Packet) /\ Tags(s) \subseteq Tags(sMailq)
  BY <1>4, <1>5, PieceTags
<1>7. /\ cSpool' = [cSpool EXCEPT ![n] = s]
      /\ UNCHANGED <<cMailq, cWork, cWorkers, cNextTag, cStatus>>
  BY <1>2 DEF C!MailArrives, C!tables, C!loop
<1>8. CP!IInv'
  <2>1. CP!MailArrives(n, s)
    BY <1>2, ClientMail
  <2> HIDE DEF s
  <2>2. s \in Seq(CP!Packet)
    BY <1>6, SamePackets
  <2> QED BY <2>1, <2>2, ClientAssumptions, CP!MailArrivesIInv
<1> HIDE DEF s
<1>9. SP!IInv'
  BY <1>3, ServerStands
<1>10. UNCHANGED <<sMailq, sWork, sSpool, sWorkers, sStatus>>
  BY <1>3 DEF server
<1>11. Streams'
  BY <1>3, <1>5, <1>7, <1>10 DEF Streams
<1>12. Counts'
  BY <1>3 DEF Counts, Browsers
<1>13. Issued'
  BY <1>7 DEF Issued
<1>14. ServerTold'
  BY <1>7, <1>10 DEF ServerTold
<1>15. ClientTold'
  <2>1. \A m \in Name : Tags(cSpool'[m]) \subseteq Tags(sMailq)
    BY <1>4, <1>6, <1>7 DEF ClientTold
  <2>2. Tags(sMailq') = Tags(sMailq) /\ Tags(cWork') = Tags(cWork)
    BY <1>7, <1>10
  <2> QED BY <2>1, <2>2 DEF ClientTold
<1>16. NeverUninit' /\ AddressExpected'
  BY <1>7, <1>10 DEF NeverUninit, AddressExpected, C!SizeAssertion, S!SizeAssertion
<1> QED BY <1>8, <1>9, <1>11, <1>12, <1>13, <1>14, <1>15, <1>16

\* Steps that leave queues, tags and workers alone.
LEMMA QuietIInv ==
  ASSUME IInv, CP!IInv', SP!IInv', Counts', UNCHANGED <<upGot, downGot>>,
         UNCHANGED <<cMailq, cWorkers, cNextTag, cWork, cSpool, cStatus>>,
         UNCHANGED <<sMailq, sWorkers, sWork, sSpool, sStatus>>
  PROVE  IInv'
BY DEF IInv, Streams, Issued, ServerTold, ClientTold, NeverUninit, AddressExpected,
       C!SizeAssertion, S!SizeAssertion

LEMMA PeersIInv ==
  ASSUME IInv,
         BrowserConnects \/ BrowserSends \/ BrowserLeaves \/ ProxySends \/ ProxyHangsUp
  PROVE  IInv'
<1> USE DEF IInv
<1>1. CASE BrowserConnects \/ BrowserSends \/ BrowserLeaves
  <2>1. /\ C!BrowserConnects \/ C!PeerSends \/ C!PeerEnds
        /\ UNCHANGED server /\ UNCHANGED <<upGot, downGot, proxySaid, world>>
    BY <1>1 DEF BrowserConnects, BrowserSends, BrowserLeaves, history
  <2>2. /\ CP!IInv'
        /\ UNCHANGED <<cMailq, cWorkers, cNextTag, cWork, cSpool, cStatus>>
    BY <2>1, ClientPeerStep
  <2>3. SP!IInv' /\ UNCHANGED <<sMailq, sWorkers, sWork, sSpool, sStatus>>
    BY <2>1, ServerStands DEF server
  <2>4. Counts'
    <3>1. CASE BrowserSends
      <4>1. PICK c \in Browsers : /\ browserSaid[c] < Len(world.browsers[c])
                                  /\ browserSaid' = [browserSaid EXCEPT ![c] = @ + 1]
        BY <3>1 DEF BrowserSends
      <4>2. /\ world.browsers \in Seq(Seq(Body)) /\ Browsers \subseteq Browser
        BY WorldAssumption DEF Counts, Browsers
      <4>3. Len(world.browsers[c]) \in Nat
        BY <4>2, ElementOfSeq, LenProperties DEF Browsers
      <4>4. /\ browserSaid' \in [Browser -> Nat]
            /\ browserSaid'[c] \in 0 .. Len(world.browsers[c])
            /\ \A d \in Browsers \ {c} : browserSaid'[d] = browserSaid[d]
        BY <4>1, <4>2, <4>3 DEF Counts
      <4> QED BY <2>1, <4>4 DEF Counts, Browsers
    <3>2. CASE UNCHANGED browserSaid
      BY <2>1, <3>2 DEF Counts, Browsers
    <3> QED BY <1>1, <3>1, <3>2 DEF BrowserConnects, BrowserLeaves, history
  <2> QED BY <2>1, <2>2, <2>3, <2>4, QuietIInv
<1>2. CASE ProxySends \/ ProxyHangsUp
  <2>1. /\ S!PeerSends \/ S!PeerEnds
        /\ UNCHANGED client /\ UNCHANGED <<upGot, downGot, browserSaid, world>>
    BY <1>2 DEF ProxySends, ProxyHangsUp, history
  <2>2. SP!IInv' /\ UNCHANGED <<sMailq, sWorkers, sWork, sSpool, sStatus>>
    BY <2>1, ServerPeerStep
  <2>3. /\ CP!IInv'
        /\ UNCHANGED <<cMailq, cWorkers, cNextTag, cWork, cSpool, cStatus>>
    BY <2>1, ClientStands DEF client
  <2>4. Counts'
    <3>1. CASE ProxySends
      <4>1. PICK s \in Proxy : /\ proxySaid[s] < Len(world.proxy[s])
                               /\ proxySaid' = [proxySaid EXCEPT ![s] = @ + 1]
        BY <3>1 DEF ProxySends
      <4>2. Len(world.proxy[s]) \in Nat
        BY WorldAssumption, LenProperties DEF Counts
      <4>3. /\ proxySaid' \in [Proxy -> Nat]
            /\ proxySaid'[s] \in 0 .. Len(world.proxy[s])
            /\ \A d \in Proxy \ {s} : proxySaid'[d] = proxySaid[d]
        BY <4>1, <4>2 DEF Counts
      <4> QED BY <2>1, <4>3 DEF Counts, Browsers
    <3>2. CASE UNCHANGED proxySaid
      BY <2>1, <3>2 DEF Counts, Browsers
    <3> QED BY <1>2, <3>1, <3>2 DEF ProxyHangsUp, history
  <2> QED BY <2>1, <2>2, <2>3, <2>4, QuietIInv
<1> QED BY <1>1, <1>2

LEMMA NextIInv == IInv /\ [Next]_vars => IInv'
<1> SUFFICES ASSUME IInv, [Next]_vars PROVE IInv'
  OBVIOUS
<1>1. CASE UNCHANGED vars
  <2>1. UNCHANGED client /\ UNCHANGED server /\ UNCHANGED history
    BY <1>1 DEF vars
  <2>2. CP!IInv' /\ SP!IInv'
    BY <2>1, ClientStands, ServerStands DEF IInv
  <2>3. Counts'
    BY <2>1 DEF IInv, Counts, Browsers, history
  <2> QED BY <2>1, <2>2, <2>3, QuietIInv DEF client, server, history
<1>2. CASE Next
  BY <1>2, ClientReceivesIInv, ServerReceivesIInv, MailReachesServerIInv,
     MailReachesClientIInv, PeersIInv DEF Next
<1> QED BY <1>1, <1>2

\* The strengthened invariant of the composition.
THEOREM Inductive == Spec => []IInv
BY InitIInv, NextIInv, PTL DEF Spec

\* Both ends stay within their types whatever the other one sends, and each
\* has taken in an initial part of what the other has queued (TypeOK).
THEOREM TypeCorrect == Spec => []TypeOK
<1>1. IInv => TypeOK
  BY ClientTypes, ServerTypes DEF IInv, CP!IInv, SP!IInv, Streams, Counts, TypeOK
<1> QED BY <1>1, Inductive, PTL

\* The server answers only tags that the client has sent data under, however
\* late its answers come and however often tags, descriptors and connections
\* are reused at its end (AnswersExpected).
THEOREM AnswersAreExpected == Spec => []AnswersExpected
<1>1. IInv => AnswersExpected
  BY DEF IInv, ServerTold, Issued, AnswersExpected, Tags
<1> QED BY <1>1, Inductive, PTL

\* ASSERT(data->size == 6) of SockSender::connect fails at neither end
\* (AddressExpected).
THEOREM AddressesAreExpected == Spec => []AddressExpected
BY Inductive, PTL DEF IInv
=============================================================================
