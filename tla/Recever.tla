------------------------------ MODULE Recever ------------------------------
(***************************************************************************)
(* The receiving thread of one end of the tunnel: class ProxyRecver        *)
(* (recever.cc), the GeneralWorker it drives for each connection           *)
(* (worker.cc) and the socket half of the senders (sender.cc).             *)
(*                                                                         *)
(* One thread runs epoll_wait and handles the events it returned one by    *)
(* one.  The same code runs at both ends: with IsClient it listens for     *)
(* browsers and allocates tags; without, it opens a connection to the      *)
(* local HTTP proxy for each new tag it meets in a mail.  One handler call *)
(* is one action, except that every packet of a mail is an action of its   *)
(* own: the mail thread may take packets out of the queue in between.      *)
(***************************************************************************)
EXTENDS Naturals, Sequences, FiniteSets, SequencesExt

CONSTANTS
  IsClient,   \* is_client_: TRUE for mail_client, FALSE for mail_server
  Fd,         \* descriptors left for connections (RLIMIT_NOFILE)
  Ptr,        \* addresses malloc gives to MonitorMeta objects
  Conn,       \* TCP connections: one element per connection ever made
  Tag,        \* tags in use, an initial segment of the naturals
  Body,       \* what one recv() returns, up to 1400 bytes
  Name,       \* attachment file names
  Mails,      \* the packet sets a mail may carry
  StaleTags,  \* mails may carry tags this process never sent: it restarted
  MayStall,   \* a peer may stop reading: send() keeps returning EAGAIN
  Forks,      \* the mail thread forks (system()) while connections are open
  MaxEvents,  \* size of the array given to epoll_wait (128)
  MaxRx, MaxTx, MaxMailq,   \* bounds on what the environment produces
  Inotify, Listener,        \* the MonitorMetas that are never deleted
  None

ASSUME SwitchAssumption ==
  /\ {IsClient, StaleTags, MayStall, Forks} \subseteq BOOLEAN
  /\ Forks => ~IsClient     \* the client mails through mail_daemon.py
ASSUME ConnAssumption == IsFiniteSet(Conn)   \* descriptors are finite
ASSUME NameAssumption ==
  /\ Tag \subseteq Nat
  /\ None \notin Fd \cup Ptr \cup Conn \cup Body
  /\ None \notin [fd : Fd, tag : Tag]
  /\ Inotify # Listener
  /\ {Inotify, Listener} \cap (Ptr \cup Conn) = {}
  /\ Body \cap {"eof", "reset"} = {}

Packet == [tag : Tag, type : {"Data"}, body : Body]
            \cup [tag : Tag, type : {"Fini", "Err"}, body : {None}]
ASSUME MailsAssumption == Mails \subseteq Seq(Packet)
ASSUME BoundAssumption == {MaxEvents, MaxRx, MaxTx, MaxMailq} \subseteq Nat \ {0}

VARIABLES
  fdTable,   \* kernel: the connection each descriptor refers to
  reg,       \* kernel: data.ptr of each connection's epoll registration
  armed,     \* kernel: registrations EPOLLONESHOT has not disabled
  held,      \* kernel: connections whose descriptor a forked mailer copied
  backlog,   \* kernel: connections waiting for accept()
  rx,        \* kernel: received and not yet read, per connection
  tx,        \* what was written to each connection's peer
  used,      \* connections that exist or have existed
  metas,     \* metas_: descriptor -> MonitorMeta*, never erased
  heap,      \* the MonitorMeta objects; None when freed
  tagToFd,   \* tag_to_fd_
  workers,   \* worker_map_ with each worker's state_; "none": no entry
  nextTag,   \* system_tag
  batch,     \* events of this epoll_wait still to be handled
  reading,   \* inside on_event's F_CREATE case
  paths,     \* files that case has still to read
  work,      \* packets of the current file still to be processed
  mailq,     \* snd_buf_ of the MailSender
  notices,   \* unread inotify events
  spool,     \* content of the attachment files
  status     \* "up", or the assertion that aborted the process

kernel == <<fdTable, reg, armed>>
tables == <<metas, heap, tagToFd, workers>>
peers  == <<held, backlog, used>>
loop   == <<batch, reading, paths, work>>
mail   == <<notices, spool>>
vars   == <<kernel, held, backlog, rx, tx, used, tables, nextTag, loop,
            mailq, mail, status>>

Source == Conn \cup {Inotify, Listener}
Meta   == [fd : Fd, tag : Tag]

TypeOK ==
  /\ fdTable \in [Fd -> Conn \cup {None}]
  /\ reg \in [Conn -> Ptr \cup {None}]
  /\ armed \subseteq Source
  /\ held \subseteq Conn
  /\ backlog \in Seq(Conn)
  /\ rx \in [Conn -> Seq(Body \cup {"eof", "reset"})]
  /\ tx \in [Conn -> Seq(Body)]
  /\ used \subseteq Conn
  /\ metas \in [Fd -> Ptr \cup {None}]
  /\ heap \in [Ptr -> Meta \cup {None}]
  /\ tagToFd \in [Tag -> Fd \cup {None}]
  /\ workers \in [Tag -> {"none", "kUnInit", "kGranted"}]
  /\ nextTag \in Nat
  /\ batch \in Seq(Ptr \cup {Inotify, Listener})
  /\ reading \in BOOLEAN
  /\ paths \in Seq(Name)
  /\ work \in Seq(Packet)
  /\ mailq \in Seq(Packet)
  /\ notices \in Seq(Name)
  /\ spool \in [Name -> Seq(Packet)]
  /\ status \in {"up", "meta != NULL", "data->size == 6"}

-----------------------------------------------------------------------------
(* Helpers.                                                                *)

OpenConns == {fdTable[fd] : fd \in Fd} \ {None}
FreeFd    == {fd \in Fd : fdTable[fd] = None}
FreePtr   == {p \in Ptr : heap[p] = None}

\* No assertion has aborted the process.
Up == status = "up"

\* The peer of c has closed its side, or its RST is in the queue.
PeerEnded(c) == rx[c] # <<>> /\ Last(rx[c]) \in {"eof", "reset"}

DataPacket(t, b) == [tag |-> t, type |-> "Data", body |-> b]
\* The notification do_process_shutdown builds: recv() returned 0 or -1.
EndPacket(t, end) ==
  [tag |-> t, type |-> IF end = "eof" THEN "Fini" ELSE "Err", body |-> None]

\* The constructor, in a build with -D_DEBUG: it registers inotify and the
\* listener in the argument of ASSERT, which is empty otherwise.
Init ==
  /\ fdTable = [fd \in Fd |-> None]
  /\ reg = [c \in Conn |-> None]
  /\ armed = IF IsClient THEN {Inotify, Listener} ELSE {Inotify}
  /\ held = {} /\ used = {}
  /\ backlog = <<>>
  /\ rx = [c \in Conn |-> <<>>] /\ tx = [c \in Conn |-> <<>>]
  /\ metas = [fd \in Fd |-> None]
  /\ heap = [p \in Ptr |-> None]
  /\ tagToFd = [t \in Tag |-> None]
  /\ workers = [t \in Tag |-> "none"]
  /\ nextTag = 0
  /\ batch = <<>> /\ reading = FALSE /\ paths = <<>> /\ work = <<>>
  /\ mailq = <<>>
  /\ notices = <<>> /\ spool = [n \in Name |-> <<>>]
  /\ status = "up"

-----------------------------------------------------------------------------
(* The MonitorMeta tables.                                                 *)

\* allocate_tag.  Mutants: it reuses tags; it does not count.
NewTagReused == CHOOSE t \in Tag : workers[t] = "none"
NewTagStuck == 0
NewTag == nextTag

\* The constructor of GeneralWorker.  Mutant: it forgets state_.
InitialStateUnset == "unset"
InitialState == "kUnInit"

\* add_new_meta, and the entry process_new_req makes for the worker.
AddMeta(fd, t, p, state) ==
  /\ metas' = [metas EXCEPT ![fd] = p]
  /\ heap' = [heap EXCEPT ![p] = [fd |-> fd, tag |-> t]]
  /\ tagToFd' = [tagToFd EXCEPT ![t] = fd]
  /\ workers' = [workers EXCEPT ![t] = state]

\* epoll_add_excl_ptr(monitor_set_, fd, metas_[fd]) for a new connection.
Register(fd, c, p) ==
  /\ fdTable' = [fdTable EXCEPT ![fd] = c]
  /\ reg' = [reg EXCEPT ![c] = p]

\* close(fd).  The registration goes with the last descriptor: a mailer
\* forked while fd was open keeps it alive.  Mutant: it is not called.
CloseFdForgotten(fd) == UNCHANGED kernel
CloseFd(fd) ==
  LET c == fdTable[fd] IN
  /\ fdTable' = [fdTable EXCEPT ![fd] = None]
  /\ reg' = IF c \in held THEN reg ELSE [reg EXCEPT ![c] = None]
  /\ armed' = IF c \in held THEN armed ELSE armed \ {c}

\* del_meta: metas_[fd] is left dangling.  Mutant: tag_to_fd_ keeps the tag.
DelMetaKeepsTag(fd) ==
  heap' = [heap EXCEPT ![metas[fd]] = None] /\ UNCHANGED <<tagToFd, metas>>
DelMeta(fd) ==
  LET p == metas[fd] IN
  /\ heap' = [heap EXCEPT ![p] = None]
  /\ tagToFd' = [tagToFd EXCEPT ![heap[p].tag] = None]
  /\ UNCHANGED metas

\* do_process_shutdown up to its notification.
Shutdown(fd) ==
  /\ DelMeta(fd)
  /\ CloseFd(fd)
  /\ workers' = [workers EXCEPT ![heap[metas[fd]].tag] = "none"]

-----------------------------------------------------------------------------
(* The event loop.                                                         *)

Readable(s) ==
  CASE s = Inotify  -> notices # <<>>
    [] s = Listener -> backlog # <<>>
    [] OTHER        -> rx[s] # <<>>

Ready == {s \in armed : Readable(s)}

\* data.ptr of a registration.
DataPtr(s) == IF s \in Conn THEN reg[s] ELSE s

\* epoll_wait returns what is ready, MaxEvents at most, in the order in
\* which it became ready, and EPOLLONESHOT disables what it returns.
EpollWait ==
  /\ Up /\ batch = <<>>
  /\ \E S \in SUBSET Ready :
       /\ S # {}
       /\ S = Ready \/ Cardinality(S) = MaxEvents
       /\ Cardinality(S) <= MaxEvents
       /\ \E q \in SetToSeqs(S) : batch' = [i \in DOMAIN q |-> DataPtr(q[i])]
       /\ armed' = armed \ S
  /\ UNCHANGED <<fdTable, reg, peers, rx, tx, tables, nextTag, reading, paths,
                 work, mailq, mail, status>>

Handling(e) == Up /\ batch # <<>> /\ ~reading /\ Head(batch) = e

NextEvent == batch' = Tail(batch) /\ UNCHANGED <<reading, paths, work>>

-----------------------------------------------------------------------------
(* S_ACCEPT.                                                               *)

\* The listener and the new connection are armed.  Mutant: as in
\* process_sock_data, the descriptor of the event is forgotten.
WatchClientOnly(c) == armed' = armed \cup {c}
WatchClient(c) == armed' = armed \cup {Listener, c}

\* process_sock_acc: a browser's connection gets a tag and a worker, and
\* both the listener and the connection are armed.  Tag bounds how many.
Accept ==
  /\ Handling(Listener)
  /\ backlog # <<>> /\ NewTag \in Tag
  /\ \E fd \in FreeFd, p \in FreePtr :
       /\ AddMeta(fd, NewTag, p, InitialState)
       /\ Register(fd, Head(backlog), p)
  /\ WatchClient(Head(backlog))
  /\ backlog' = Tail(backlog)
  /\ nextTag' = nextTag + 1
  /\ NextEvent
  /\ UNCHANGED <<held, used, rx, tx, mailq, mail, status>>

AcceptFails ==
  /\ Handling(Listener)
  /\ FreeFd = {}
  /\ NextEvent
  /\ UNCHANGED <<kernel, peers, rx, tx, tables, nextTag, mailq, mail, status>>

-----------------------------------------------------------------------------
(* S_DATA.                                                                 *)

\* The next event is for a MonitorMeta that is still allocated (maybe to
\* another connection than the one the event was for), on descriptor fd.
HandlingSocket(fd) ==
  /\ Up /\ batch # <<>> /\ ~reading
  /\ Head(batch) \in Ptr /\ heap[Head(batch)] # None
  /\ fd = heap[Head(batch)].fd

\* The connection stays armed for its next event: epoll_mod_excl_ptr.
\* Mutant: the call is missing.
RearmForgotten(fd) == UNCHANGED armed
Rearm(fd) == armed' = armed \cup {fdTable[fd]}

\* process_sock_data: the packet goes to the MailSender, either through
\* connect (first packet, kUnInit) or through putdata (kGranted).
ReadData ==
  /\ \E fd \in Fd :
       LET c == fdTable[fd]
           t == heap[metas[fd]].tag
       IN
       /\ HandlingSocket(fd)
       /\ rx[c] # <<>> /\ Head(rx[c]) \in Body
       /\ Rearm(fd)
       /\ mailq' = Append(mailq, DataPacket(t, Head(rx[c])))
       /\ workers' = [workers EXCEPT ![t] = "kGranted"]
       /\ rx' = [rx EXCEPT ![c] = Tail(@)]
  /\ NextEvent
  /\ UNCHANGED <<fdTable, reg, peers, tx, metas, heap, tagToFd, nextTag, mail,
                 status>>

\* recv() returned 0 or failed: process_fin or process_err with notify.
ReadEnd ==
  /\ \E fd \in Fd :
       LET c == fdTable[fd] IN
       /\ HandlingSocket(fd)
       /\ rx[c] # <<>> /\ Head(rx[c]) \in {"eof", "reset"}
       /\ Shutdown(fd)
       /\ mailq' = Append(mailq, EndPacket(heap[metas[fd]].tag, Head(rx[c])))
       /\ rx' = [rx EXCEPT ![c] = <<>>]
  /\ NextEvent
  /\ UNCHANGED <<peers, tx, nextTag, mail, status>>

\* EAGAIN: process_sock_data returns before it re-arms.
ReadNothing ==
  /\ \E fd \in Fd : HandlingSocket(fd) /\ rx[fdTable[fd]] = <<>>
  /\ NextEvent
  /\ UNCHANGED <<kernel, peers, rx, tx, tables, nextTag, mailq, mail, status>>

\* The event's MonitorMeta has been freed since epoll_wait returned it.
\* What free() left in the object decides (undefined behaviour): either its
\* type is none of the three cases, and nothing happens, or its descriptor
\* is garbage, recv() fails and metas_[fd] is NULL in do_process_shutdown.
HandleFreed ==
  /\ Up /\ batch # <<>> /\ ~reading
  /\ Head(batch) \in Ptr /\ heap[Head(batch)] = None
  /\ status' \in {"up", "meta != NULL"}
  /\ NextEvent
  /\ UNCHANGED <<kernel, peers, rx, tx, tables, nextTag, mailq, mail>>

-----------------------------------------------------------------------------
(* F_CREATE.                                                               *)

\* extract_paths: one read() takes the queued events (its 4096 bytes hold
\* them all).
ReadNotices ==
  /\ Handling(Inotify)
  /\ reading' = TRUE
  /\ paths' = notices
  /\ notices' = <<>>
  /\ UNCHANGED <<kernel, peers, rx, tx, tables, nextTag, batch, work, mailq,
                 spool, status>>

\* process_fs_event opens the file as it is now; <<>> stands for one that
\* cannot be opened or parsed.
ReadFile ==
  /\ Up /\ reading /\ work = <<>> /\ paths # <<>>
  /\ work' = spool[Head(paths)]
  /\ paths' = Tail(paths)
  /\ UNCHANGED <<kernel, peers, rx, tx, tables, nextTag, batch, reading, mailq,
                 mail, status>>

\* on_event arms the inotify descriptor when all files are processed.  Mutant:
\* unless an event was queued in the meantime.
WatchMaildirUnlessFull == armed' = IF notices = <<>> THEN armed \cup {Inotify} ELSE armed
WatchMaildir == armed' = armed \cup {Inotify}

FilesDone ==
  /\ Up /\ reading /\ work = <<>> /\ paths = <<>>
  /\ reading' = FALSE
  /\ WatchMaildir
  /\ batch' = Tail(batch)
  /\ UNCHANGED <<fdTable, reg, peers, rx, tx, tables, nextTag, paths, work,
                 mailq, mail, status>>

\* The packet at hand, with tag t; the worker of t is in state.
Processing(t, state) ==
  /\ Up /\ work # <<>> /\ t = Head(work).tag
  /\ workers[t] = state
  /\ work' = Tail(work)
  /\ UNCHANGED <<batch, reading, paths>>

IsData(pkt) == pkt.type = "Data"

\* SockSender::putdata writes all of pkt.
Written(c, pkt) ==
  tx' = IF IsData(pkt) THEN [tx EXCEPT ![c] = Append(@, pkt.body)] ELSE tx

\* It gives up after 1000 times EAGAIN, on EPIPE and on errors; its caller for
\* a granted connection does not look at the result.
SockPut(c, pkt) ==
  \/ Written(c, pkt)
  \/ IsData(pkt) /\ (MayStall \/ PeerEnded(c)) /\ tx' = tx

\* "no tag found in client": the packet is dropped.
UnknownTag ==
  /\ IsClient
  /\ \E t \in Tag : Processing(t, "none")
  /\ UNCHANGED <<kernel, peers, rx, tx, tables, nextTag, mailq, mail, status>>

\* socket() fails on the server: the packet is dropped (and leaked).
SocketFails ==
  /\ ~IsClient /\ FreeFd = {}
  /\ \E t \in Tag : Processing(t, "none")
  /\ UNCHANGED <<kernel, peers, rx, tx, tables, nextTag, mailq, mail, status>>

\* ProxySockSender::connect succeeds for the first packet of a tag, whatever
\* its type, and writes it; the new descriptor is then registered.  The socket
\* is a blocking one until the write is over, and here the write succeeds.
OpenConnection ==
  /\ ~IsClient
  /\ \E t \in Tag, fd \in FreeFd, p \in FreePtr, c \in Conn \ used :
       /\ Processing(t, "none")
       /\ AddMeta(fd, t, p, "kGranted")
       /\ Register(fd, c, p)
       /\ armed' = armed \cup {c}
       /\ used' = used \cup {c}
       /\ Written(c, Head(work))
  /\ UNCHANGED <<held, backlog, rx, nextTag, mailq, mail, status>>

\* connect() is refused, or the write that follows fails: kErr, so
\* process_err without notify undoes add_new_meta and process_new_req, and
\* the registration that follows is refused for the closed descriptor.
ConnectRefused ==
  /\ ~IsClient
  /\ \E t \in Tag : Processing(t, "none")
  /\ \E fd \in FreeFd, p \in FreePtr : metas' = [metas EXCEPT ![fd] = p]
  /\ UNCHANGED <<kernel, peers, rx, tx, heap, tagToFd, workers, nextTag, mailq,
                 mail, status>>

\* A packet for a connection that has sent nothing: SockSender::connect
\* asserts that it holds an address.
UninitAsserts ==
  /\ \E t \in Tag : Processing(t, "kUnInit")
  /\ status' = "data->size == 6"
  /\ UNCHANGED <<kernel, peers, rx, tx, tables, nextTag, mailq, mail>>

\* It is 6 bytes long by chance: connect() fails on the connected socket.
UninitFails ==
  /\ \E t \in Tag : Processing(t, "kUnInit") /\ Shutdown(tagToFd[t])
  /\ UNCHANGED <<peers, rx, tx, nextTag, mailq, mail, status>>

\* Data for a granted connection.
Deliver ==
  /\ \E t \in Tag :
       /\ Processing(t, "kGranted")
       /\ IsData(Head(work))
       /\ SockPut(fdTable[tagToFd[t]], Head(work))
  /\ UNCHANGED <<kernel, peers, rx, tables, nextTag, mailq, mail, status>>

\* Fini or Err from the other end: kFin or kErr, shut down without notify.
\* Mutant: the worker's result is not looked at.
PeerFinishedIgnored ==
  /\ \E t \in Tag : Processing(t, "kGranted") /\ ~IsData(Head(work))
  /\ UNCHANGED <<kernel, peers, rx, tx, tables, nextTag, mailq, mail, status>>
PeerFinished ==
  /\ \E t \in Tag :
       /\ Processing(t, "kGranted")
       /\ ~IsData(Head(work))
       /\ Shutdown(tagToFd[t])
  /\ UNCHANGED <<peers, rx, tx, nextTag, mailq, mail, status>>

-----------------------------------------------------------------------------
(* The environment: peers, mail, and the mail thread.                      *)

\* A browser connects to the client.
BrowserConnects ==
  /\ Up /\ IsClient
  /\ \E c \in Conn \ used :
       used' = used \cup {c} /\ backlog' = Append(backlog, c)
  /\ UNCHANGED <<kernel, held, rx, tx, tables, nextTag, loop, mailq, mail,
                 status>>

Reachable(c) == c \in ToSet(backlog) \cup OpenConns \cup held

PeerSends ==
  /\ Up /\ Len(mailq) < MaxMailq
  /\ \E c \in Conn, b \in Body :
       /\ Reachable(c) /\ ~PeerEnded(c) /\ Len(rx[c]) < MaxRx
       /\ rx' = [rx EXCEPT ![c] = Append(@, b)]
  /\ UNCHANGED <<kernel, peers, tx, tables, nextTag, loop, mailq, mail, status>>

PeerEnds ==
  /\ Up /\ Len(mailq) < MaxMailq
  /\ \E c \in Conn, end \in {"eof", "reset"} :
       /\ Reachable(c) /\ ~PeerEnded(c)
       /\ rx' = [rx EXCEPT ![c] = Append(@, end)]
  /\ UNCHANGED <<kernel, peers, tx, tables, nextTag, loop, mailq, mail, status>>

\* The server only answers tags it has been told, and the client announces
\* one with the connection's first packet.
Announced(t) == t < nextTag /\ workers[t] # "kUnInit"

\* The attachment script writes file n and closes it: IN_CLOSE_WRITE.  The
\* kernel merges an event with an identical last one.
MailArrives(n, s) ==
  /\ Up
  /\ \A i \in DOMAIN s : IsClient /\ ~StaleTags => Announced(s[i].tag)
  /\ \A c \in Conn : Len(tx[c]) < MaxTx
  /\ spool' = [spool EXCEPT ![n] = s]
  /\ notices' = IF notices # <<>> /\ Last(notices) = n THEN notices
                ELSE Append(notices, n)
  /\ UNCHANGED <<kernel, peers, rx, tx, tables, nextTag, loop, mailq, status>>

\* fetch_data, called by the mail thread.
FetchData ==
  /\ Up /\ mailq # <<>>
  /\ mailq' = Tail(mailq)
  /\ UNCHANGED <<kernel, peers, rx, tx, tables, nextTag, loop, mail, status>>

\* system("sendemail ...") in the mail thread: the child inherits every open
\* descriptor (none is close-on-exec).
ForkMailer ==
  /\ Up /\ Forks /\ held = {} /\ OpenConns # {}
  /\ held' = OpenConns
  /\ UNCHANGED <<kernel, backlog, used, rx, tx, tables, nextTag, loop, mailq,
                 mail, status>>

\* The child exits: what only it held is closed at last.
MailerExits ==
  /\ Up /\ held # {}
  /\ LET gone == held \ OpenConns IN
     /\ reg' = [c \in Conn |-> IF c \in gone THEN None ELSE reg[c]]
     /\ armed' = armed \ gone
  /\ held' = {}
  /\ UNCHANGED <<fdTable, backlog, used, rx, tx, tables, nextTag, loop, mailq,
                 mail, status>>

-----------------------------------------------------------------------------

ProcessPacket ==
  \/ UnknownTag \/ SocketFails \/ OpenConnection \/ ConnectRefused
  \/ UninitAsserts \/ UninitFails \/ Deliver \/ PeerFinished

HandleEvent ==
  \/ Accept \/ AcceptFails
  \/ ReadData \/ ReadEnd \/ ReadNothing \/ HandleFreed
  \/ ReadNotices \/ ReadFile \/ FilesDone \/ ProcessPacket

\* recever_thread.
Receive == EpollWait \/ HandleEvent

Environment ==
  \/ BrowserConnects \/ PeerSends \/ PeerEnds
  \/ \E n \in Name, s \in Mails : MailArrives(n, s)
  \/ FetchData \/ ForkMailer \/ MailerExits

Next == Receive \/ Environment

Spec == Init /\ [][Next]_vars

\* The receiving thread is scheduled as long as it has something to do.
FairSpec == Spec /\ WF_vars(Receive)

-----------------------------------------------------------------------------
(* Safety.                                                                 *)

\* worker_map_, tag_to_fd_, metas_ and the descriptor table always describe
\* the same set of connections: a tag leads to the descriptor whose
\* MonitorMeta carries that tag, and back, although descriptors, addresses
\* and (on the server) tags are reused and metas_ keeps dangling pointers.
TagsLeadToDescriptors ==
  \A t \in Tag :
    IF workers[t] = "none" THEN tagToFd[t] = None
    ELSE /\ tagToFd[t] # None
         /\ fdTable[tagToFd[t]] # None
         /\ metas[tagToFd[t]] # None
         /\ heap[metas[tagToFd[t]]] = [fd |-> tagToFd[t], tag |-> t]
DescriptorsLeadToTags ==
  \A fd \in Fd : fdTable[fd] # None =>
    /\ metas[fd] # None
    /\ heap[metas[fd]] # None
    /\ heap[metas[fd]].fd = fd
    /\ tagToFd[heap[metas[fd]].tag] = fd
NoStrayMeta ==
  \A p \in Ptr : heap[p] # None =>
    fdTable[heap[p].fd] # None /\ metas[heap[p].fd] = p
TablesAgree == TagsLeadToDescriptors /\ DescriptorsLeadToTags /\ NoStrayMeta

\* Every epoll registration holds the address of the live MonitorMeta of its
\* own connection (recever.cc casts data.ptr without a check), except that of
\* a connection closed while a forked mailer still has its descriptor.
RegistrationsLive ==
  \A c \in Conn : reg[c] # None =>
    \/ c \in held
    \/ \E fd \in Fd : /\ fdTable[fd] = c
                      /\ heap[reg[c]] # None /\ heap[reg[c]].fd = fd

\* No connection goes deaf: one that EPOLLONESHOT disabled has its event in
\* the current batch and still has something to read, so that no handler
\* returns on EAGAIN leaving it disabled.
NeverDeaf ==
  \A c \in OpenConns \ armed : reg[c] \in ToSet(batch) /\ rx[c] # <<>>

\* While every connection finds a descriptor, the client never stops
\* listening: "FATAL, can not add server fd to monitor set" ends the process
\* rather than lose the listener (process_sock_acc).
ListenerWatched ==
  IsClient /\ status = "up" => Listener \in armed \cup ToSet(batch)

\* On the client a tag's Fini or Err is the last packet queued under it, and
\* the connection is gone by then: its number never comes back.
ControlIsLast ==
  IsClient =>
    \A i \in DOMAIN mailq : ~IsData(mailq[i]) =>
      /\ workers[mailq[i].tag] = "none"
      /\ mailq[i].tag < nextTag
      /\ \A j \in DOMAIN mailq : j > i => mailq[j].tag # mailq[i].tag

\* A tag's packets never change connection: while a tag keeps its worker it
\* keeps its descriptor.
TagKeepsDescriptor ==
  [][\A t \in Tag : workers[t] # "none" /\ workers'[t] # "none"
                       => tagToFd'[t] = tagToFd[t]]_vars

\* The MonitorMeta do_process_shutdown finds is there:
\* ASSERT(meta != NULL), recever.cc.
MetaAssertion == status # "meta != NULL"

\* The packet SockSender::connect gets is an address:
\* ASSERT(data->size == 6), sender.cc.
SizeAssertion == status # "data->size == 6"

-----------------------------------------------------------------------------
(* Liveness.                                                               *)

\* What a peer sends (or its close) is read, unless the connection is shut
\* down first, even after accept() has failed (process_sock_data re-arms the
\* descriptor, EPOLLONESHOT).
ReadEventually ==
  \A c \in Conn : (c \in OpenConns /\ rx[c] # <<>>)
                    ~> (c \notin OpenConns \/ rx[c] = <<>> \/ status # "up")

\* A notified attachment is taken up: on_event always arms the inotify
\* descriptor again, whatever arrives while it reads files.
MailTakenUp == (notices # <<>>) ~> (notices = <<>> \/ status # "up")
=============================================================================
