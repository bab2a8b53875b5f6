------------------------------ MODULE Tunnel ------------------------------
(***************************************************************************)
(* The whole tunnel: mail_client and mail_server, each the receiving       *)
(* thread of Recever, joined by two mail paths, each the abstract stream   *)
(* that MailPath implements.  Browsers connect to the client, the server   *)
(* connects to the HTTP proxy; connections are numbered in the order in    *)
(* which they are made, at each end.                                       *)
(*                                                                         *)
(* A browser or proxy sends the bodies of its connection one by one, and   *)
(* all bodies are distinct, so that what is written to a connection shows  *)
(* where it comes from.  The send buffer of each end (mailq) is never      *)
(* emptied here: it is the stream of all packets queued so far.            *)
(***************************************************************************)
EXTENDS Naturals, Sequences, FiniteSets, SequencesExt

CONSTANTS
  Fd, Ptr, Tag, Body, Name, MaxEvents, Inotify, Listener, None, \* see Recever
  Browser, Proxy,          \* connections of the client, of the server
  Worlds    \* what browsers and the proxy may do in a behaviour

Faults == {
  "hangup",   \* the HTTP proxy ends connections
  "stall",    \* peers may stop reading
  "refuse",   \* connect() to the HTTP proxy may be refused
  "malloc" }  \* not a fault: freed addresses come back in any order

ASSUME ConnAssumption ==
  /\ IsFiniteSet(Browser) /\ Browser = 1 .. Cardinality(Browser)
  /\ IsFiniteSet(Proxy) /\ Proxy = 1 .. Cardinality(Proxy) /\ Proxy # {}
ASSUME BodyAssumption == IsFiniteSet(Body) /\ Body # {}
ASSUME BatchAssumption == MaxEvents \in Nat \ {0}
ASSUME NameAssumption ==
  /\ Tag \subseteq Nat
  /\ None \notin Fd \cup Ptr \cup Browser \cup Proxy \cup Body
  /\ None \notin [fd : Fd, tag : Tag]
  /\ Inotify # Listener
  /\ {Inotify, Listener} \cap (Ptr \cup Browser \cup Proxy) = {}
  /\ Body \cap {"eof", "reset"} = {}
\* browsers and proxy: the bodies they send on each connection. OneBrowser and
\* OneProxy name a browser and a connection, so there is one of each.
ASSUME WorldAssumption ==
  \A w \in Worlds :
    /\ w.faults \subseteq Faults
    /\ w.leaving \subseteq Browser         \* browsers that may leave
    /\ w.ends \subseteq {"eof", "reset"}   \* how connections are ended
    /\ w.browsers \in Seq(Seq(Body)) /\ w.browsers # <<>>
    /\ DOMAIN w.browsers \subseteq Browser
    /\ w.proxy \in [Proxy -> Seq(Body)]

VARIABLES
  \* mail_client
  cFdTable, cReg, cArmed, cHeld, cBacklog, cRx, cTx, cUsed, cMetas, cHeap,
  cTagToFd, cWorkers, cNextTag, cBatch, cReading, cPaths, cWork, cMailq,
  cNotices, cSpool, cStatus,
  \* mail_server
  sFdTable, sReg, sArmed, sHeld, sBacklog, sRx, sTx, sUsed, sMetas, sHeap,
  sTagToFd, sWorkers, sNextTag, sBatch, sReading, sPaths, sWork, sMailq,
  sNotices, sSpool, sStatus,
  upGot, downGot,          \* packets that have arrived at the other end
  browserSaid, proxySaid,  \* how much was sent on each connection
  world                    \* an element of Worlds

MaxSays   == Cardinality(Body)
Unbounded == 2 * Cardinality(Body) + Cardinality(Browser) + Cardinality(Proxy)

C == INSTANCE Recever
       WITH IsClient <- TRUE, StaleTags <- TRUE, MayStall <- TRUE,
            Forks <- FALSE, Conn <- Browser, Mails <- {},
            MaxEvents <- MaxEvents, MaxRx <- MaxSays + 1,
            MaxTx <- Unbounded, MaxMailq <- Unbounded,
            fdTable <- cFdTable, reg <- cReg, armed <- cArmed,
            held <- cHeld, backlog <- cBacklog, rx <- cRx, tx <- cTx,
            used <- cUsed, metas <- cMetas, heap <- cHeap,
            tagToFd <- cTagToFd, workers <- cWorkers, nextTag <- cNextTag,
            batch <- cBatch, reading <- cReading, paths <- cPaths,
            work <- cWork, mailq <- cMailq, notices <- cNotices,
            spool <- cSpool, status <- cStatus

S == INSTANCE Recever
       WITH IsClient <- FALSE, StaleTags <- TRUE, MayStall <- TRUE,
            Forks <- FALSE, Conn <- Proxy, Mails <- {},
            MaxEvents <- MaxEvents, MaxRx <- MaxSays + 1,
            MaxTx <- Unbounded, MaxMailq <- Unbounded,
            fdTable <- sFdTable, reg <- sReg, armed <- sArmed,
            held <- sHeld, backlog <- sBacklog, rx <- sRx, tx <- sTx,
            used <- sUsed, metas <- sMetas, heap <- sHeap,
            tagToFd <- sTagToFd, workers <- sWorkers, nextTag <- sNextTag,
            batch <- sBatch, reading <- sReading, paths <- sPaths,
            work <- sWork, mailq <- sMailq, notices <- sNotices,
            spool <- sSpool, status <- sStatus

client ==
  <<cFdTable, cReg, cArmed, cHeld, cBacklog, cRx, cTx, cUsed, cMetas,
    cHeap, cTagToFd, cWorkers, cNextTag, cBatch, cReading, cPaths, cWork,
    cMailq, cNotices, cSpool, cStatus>>
server ==
  <<sFdTable, sReg, sArmed, sHeld, sBacklog, sRx, sTx, sUsed, sMetas,
    sHeap, sTagToFd, sWorkers, sNextTag, sBatch, sReading, sPaths, sWork,
    sMailq, sNotices, sSpool, sStatus>>

\* The mail path of each direction.
Upward   == INSTANCE PacketStream
              WITH Packet <- C!Packet, sent <- cMailq, got <- upGot, intact <- TRUE
Downward == INSTANCE PacketStream
              WITH Packet <- C!Packet, sent <- sMailq, got <- downGot, intact <- TRUE

history == <<upGot, downGot, browserSaid, proxySaid, world>>
vars    == <<client, server, history>>

MayBe(fault) == fault \in world.faults
Browsers == DOMAIN world.browsers

TypeOK ==
  /\ C!TypeOK /\ S!TypeOK
  /\ IsPrefix(upGot, cMailq) /\ IsPrefix(downGot, sMailq)
  /\ \A c \in Browsers : browserSaid[c] \in 0 .. Len(world.browsers[c])
  /\ \A s \in Proxy : proxySaid[s] \in 0 .. Len(world.proxy[s])
  /\ world \in Worlds

Init ==
  /\ C!Init /\ S!Init
  /\ upGot = <<>> /\ downGot = <<>>
  /\ browserSaid = [c \in Browser |-> 0] /\ proxySaid = [s \in Proxy |-> 0]
  /\ world \in Worlds

\* The connections behind a tag.
BrowserOf(t) == cFdTable[cTagToFd[t]]
ProxyOf(t) == sFdTable[sTagToFd[t]]

-----------------------------------------------------------------------------

\* The lowest free place is taken first.
LowestFirst(table, table1) ==
  \A i, j \in DOMAIN table :
    i < j /\ table[j] = None /\ table1[j] # None => table[i] # None

\* The kernel gives the lowest free descriptor, malloc any free address, but
\* in a world without "malloc", for fewer states, the lowest too.
Allocates(fds, fds1, heap, heap1) ==
  /\ LowestFirst(fds, fds1)
  /\ MayBe("malloc") \/ LowestFirst(heap, heap1)

\* A packet is given up although its connection's peer is still there.
ClientGivesUp ==
  C!Deliver /\ cTx' = cTx /\ ~C!PeerEnded(BrowserOf(Head(cWork).tag))
ServerGivesUp ==
  S!Deliver /\ sTx' = sTx /\ ~S!PeerEnded(ProxyOf(Head(sWork).tag))

ClientReceives ==
  /\ C!Receive
  /\ MayBe("stall") \/ ~ClientGivesUp
  /\ Allocates(cFdTable, cFdTable', cHeap, cHeap')
  /\ UNCHANGED <<server, history>>

\* The HTTP proxy takes as many connections as there are in Proxy.
ServerReceives ==
  /\ S!Receive
  /\ Allocates(sFdTable, sFdTable', sHeap, sHeap')
  /\ sUsed' = 1 .. Cardinality(sUsed')
  /\ MayBe("stall") \/ ~ServerGivesUp
  /\ MayBe("refuse") \/ sUsed = Proxy \/ ~S!ConnectRefused
  /\ UNCHANGED <<client, history>>

\* New attachments come under names that are not in use, as long as the
\* stream is intact.
Unused(n, notices, paths) == n \notin Range(notices) \cup Range(paths)

MailReachesServer ==
  /\ Upward!Deliver
  /\ \E n \in Name :
       /\ Unused(n, sNotices, sPaths)
       /\ S!MailArrives(n, SubSeq(cMailq, Len(upGot) + 1, Len(upGot')))
  /\ UNCHANGED <<client, downGot, browserSaid, proxySaid, world>>

MailReachesClient ==
  /\ Downward!Deliver
  /\ \E n \in Name :
       /\ Unused(n, cNotices, cPaths)
       /\ C!MailArrives(n, SubSeq(sMailq, Len(downGot) + 1, Len(downGot')))
  /\ UNCHANGED <<server, upGot, browserSaid, proxySaid, world>>

BrowserConnects ==
  /\ C!BrowserConnects
  /\ cUsed' = 1 .. Cardinality(cUsed') /\ cUsed' \subseteq Browsers
  /\ UNCHANGED <<server, history>>

BrowserSends ==
  /\ C!PeerSends
  /\ \E c \in Browsers :
       /\ browserSaid[c] < Len(world.browsers[c])
       /\ cRx'[c] = Append(cRx[c], world.browsers[c][browserSaid[c] + 1])
       /\ browserSaid' = [browserSaid EXCEPT ![c] = @ + 1]
  /\ UNCHANGED <<server, upGot, downGot, proxySaid, world>>

ProxySends ==
  /\ S!PeerSends
  /\ \E s \in Proxy :
       /\ proxySaid[s] < Len(world.proxy[s])
       /\ sRx'[s] = Append(sRx[s], world.proxy[s][proxySaid[s] + 1])
       /\ proxySaid' = [proxySaid EXCEPT ![s] = @ + 1]
  /\ UNCHANGED <<client, upGot, downGot, browserSaid, world>>

BrowserLeaves ==
  /\ C!PeerEnds
  /\ \A c \in Browser : cRx'[c] # cRx[c] =>
       c \in world.leaving /\ Last(cRx'[c]) \in world.ends
  /\ UNCHANGED <<server, history>>

ProxyHangsUp ==
  /\ MayBe("hangup")
  /\ S!PeerEnds
  /\ \A s \in Proxy : sRx'[s] # sRx[s] => Last(sRx'[s]) \in world.ends
  /\ UNCHANGED <<client, history>>

Next ==
  \/ ClientReceives \/ ServerReceives
  \/ MailReachesServer \/ MailReachesClient
  \/ BrowserConnects \/ BrowserSends \/ BrowserLeaves
  \/ ProxySends \/ ProxyHangsUp

Spec == Init /\ [][Next]_vars

\* Both receiving threads run, and both mail paths deliver.
Fairness ==
  /\ WF_vars(ClientReceives) /\ WF_vars(ServerReceives)
  /\ WF_vars(MailReachesServer) /\ WF_vars(MailReachesClient)

-----------------------------------------------------------------------------
(* Who is connected to whom.                                               *)

\* Neither end has been aborted by an assertion.
BothUp == C!Up /\ S!Up

\* What a connection was written comes from the peer with script says.
From(data, says) == Range(data) \cap Range(says) # {}

Said(b, conns, says, count) ==
  \E c \in conns : b \in Range(SubSeq(says[c], 1, count[c]))

\* data is what was said, perhaps with holes.
InOrder(data, says) ==
  \E at \in [DOMAIN data -> DOMAIN says] :
    \A i, j \in DOMAIN data :
      data[i] = says[at[i]] /\ (i < j => at[i] < at[j])

-----------------------------------------------------------------------------
(* Properties.                                                             *)

\* No connection to the proxy carries the bytes of two browsers, nor any
\* twice or out of order, whatever tags, descriptors and connections are
\* reused on the way (process_fs_event, GeneralWorker); and there is no hole
\* in them as long as the proxy reads.
OneBrowser ==
  \A s \in Proxy : \E c \in Browsers :
    /\ InOrder(sTx[s], world.browsers[c])
    /\ s \in S!OpenConns /\ ~S!PeerEnded(s) /\ ~MayBe("stall")
         => sTx[s] \in SubSeqs(world.browsers[c])

\* A browser reads what one connection to the proxy has said, from its
\* beginning: the answers of a second connection opened under its tag (by
\* data that crossed the proxy's Fini) never reach it.
OneProxy ==
  \A c \in Browser : \E s \in Proxy :
    /\ InOrder(cTx[c], world.proxy[s])
    /\ c \in C!OpenConns /\ ~C!PeerEnded(c) /\ ~MayBe("stall")
         => IsPrefix(cTx[c], world.proxy[s])

\* A tag the server answers has been announced by a packet of its browser,
\* so that the worker is past kUnInit: what SockSender::connect asserts of
\* its data is never put to the test without a restart.
AnswersExpected ==
  \A i \in DOMAIN sMailq :
    /\ sMailq[i].tag < cNextTag
    /\ cWorkers[sMailq[i].tag] # "kUnInit"

\* Hence neither end fails ASSERT(data->size == 6) of SockSender::connect: the
\* client because its worker is past kUnInit, the server because it never has
\* a worker in that state (process_new_req).
AddressExpected == C!SizeAssertion /\ S!SizeAssertion

\* In a world without ends nobody gives a descriptor back: the first browsers
\* have them all, and accept() fails for the others.
Served == Browsers \cap 1 .. Cardinality(Fd)

\* In a world without ends and refusals all that a browser with a descriptor
\* says reaches the proxy, and all that the proxy answers reaches a browser,
\* also when other browsers have found no descriptor (process_sock_acc).
AllArrived ==
  \A b \in Body :
    /\ Said(b, Served, world.browsers, browserSaid) => \E s \in Proxy : b \in Range(sTx[s])
    /\ Said(b, Proxy, world.proxy, proxySaid) => \E c \in Browser : b \in Range(cTx[c])

\* The proxy's end of a connection reaches the browser: the Fini of a tag is
\* queued after its data and closes the browser's connection.
Ended(t, queue) == \E i \in DOMAIN queue : queue[i].tag = t /\ ~C!IsData(queue[i])
EndReachesBrowser ==
  BothUp ~> (BothUp => \A t \in Tag : Ended(t, sMailq) => cWorkers[t] = "none")

\* A browser's end reaches the proxy: while the proxy does not hang up, the
\* connection that has carried its data is closed.
EndReachesProxy ==
  (BothUp /\ ~MayBe("hangup"))
    ~> (BothUp => \A t \in Tag :
          Ended(t, cMailq) /\ sWorkers[t] # "none" => sTx[ProxyOf(t)] = <<>>)

\* kPacketErr: "notify an error status, tear down connection whatever"
\* (worker.h).
ErrTearsDown ==
  \A t \in Tag :
    (Ended(t, upGot) /\ BothUp)
      ~> (sWorkers[t] = "none" \/ ~BothUp)
=============================================================================
