---------------------------- MODULE RecverProofs ----------------------------
(***************************************************************************)
(* Theorems about Recever, for every choice of its constants.              *)
(***************************************************************************)
EXTENDS Recever, SequenceTheorems, FiniteSetTheorems, TLAPS

-----------------------------------------------------------------------------
(* The elements of a sequence after Tail and Append.                       *)

LEMMA TailSet == ASSUME NEW S, NEW s \in Seq(S), s # <<>>
                 PROVE  ToSet(s) = {Head(s)} \cup ToSet(Tail(s))
<1>1. /\ Tail(s) \in Seq(S) /\ Len(Tail(s)) = Len(s) - 1
      /\ \A i \in 1..Len(s)-1 : Tail(s)[i] = s[i+1]
  BY HeadTailProperties
<1>2. /\ DOMAIN s = 1..Len(s) /\ DOMAIN Tail(s) = 1..(Len(s)-1)
      /\ Len(s) \in Nat /\ Len(s) # 0
  BY <1>1, EmptySeq, LenProperties
<1>3. \A i \in 2..Len(s) : i-1 \in 1..(Len(s)-1) /\ Tail(s)[i-1] = s[i]
  BY <1>1, <1>2
<1>4. 1 \in DOMAIN s /\ Head(s) = s[1]
  BY <1>2
<1>5. ASSUME NEW i \in 1..Len(s)
      PROVE  s[i] \in {Head(s)} \cup {Tail(s)[j] : j \in 1..(Len(s)-1)}
  <2>1. CASE i = 1
    BY <2>1, <1>4
  <2>2. CASE i \in 2..Len(s)
    BY <2>2, <1>3
  <2> QED BY <2>1, <2>2, <1>2
<1>6. ASSUME NEW j \in 1..(Len(s)-1)
      PROVE  Tail(s)[j] \in {s[i] : i \in 1..Len(s)}
  <2>1. j+1 \in 1..Len(s) /\ Tail(s)[j] = s[j+1]
    BY <1>1, <1>2
  <2> QED BY <2>1
<1> QED BY <1>2, <1>4, <1>5, <1>6 DEF ToSet

LEMMA AppendSet == ASSUME NEW S, NEW s \in Seq(S), NEW e \in S
                   PROVE  ToSet(Append(s, e)) = ToSet(s) \cup {e}
<1>1. /\ Append(s, e) \in Seq(S) /\ Len(Append(s, e)) = Len(s) + 1
      /\ \A i \in 1..Len(s) : Append(s, e)[i] = s[i]
      /\ Append(s, e)[Len(s)+1] = e
  BY AppendProperties
<1>2. /\ DOMAIN s = 1..Len(s) /\ DOMAIN Append(s, e) = 1..(Len(s)+1)
      /\ Len(s) \in Nat
  BY <1>1, LenProperties
<1>3. ToSet(s) \cup {e} \subseteq ToSet(Append(s, e))
  BY <1>1, <1>2 DEF ToSet
<1>4. ToSet(Append(s, e)) \subseteq ToSet(s) \cup {e}
  BY <1>1, <1>2 DEF ToSet
<1> QED BY <1>3, <1>4

-----------------------------------------------------------------------------
(* The inductive invariant.                                                *)

\* An open connection is registered under its own MonitorMeta, one
\* descriptor refers to it, and only it or a held one is registered.
Registered == \A fd \in Fd : fdTable[fd] # None => reg[fdTable[fd]] = metas[fd]
OneDescriptor ==
  \A f, g \in Fd : fdTable[f] # None /\ fdTable[f] = fdTable[g] => f = g
OnlyTheseRegistered == \A c \in Conn : reg[c] # None => c \in held \cup OpenConns

TableTypes ==
  /\ fdTable \in [Fd -> Conn \cup {None}]
  /\ reg \in [Conn -> Ptr \cup {None}]
  /\ metas \in [Fd -> Ptr \cup {None}]
  /\ heap \in [Ptr -> Meta \cup {None}]
  /\ tagToFd \in [Tag -> Fd \cup {None}]
  /\ workers \in [Tag -> {"none", "kUnInit", "kGranted"}]

Core == TablesAgree /\ Registered /\ OneDescriptor /\ OnlyTheseRegistered

\* do_process_shutdown keeps the tables in agreement.
LEMMA ShutdownCore ==
  ASSUME TableTypes, Core, NEW fd \in Fd, fdTable[fd] # None,
         Shutdown(fd), held' = held
  PROVE  /\ Core'
         /\ OpenConns' = OpenConns \ {fdTable[fd]}
         /\ workers' = [workers EXCEPT ![heap[metas[fd]].tag] = "none"]
<1> DEFINE p == metas[fd]
           t == heap[p].tag
           c == fdTable[fd]
<1>1. /\ p \in Ptr /\ heap[p] \in Meta /\ heap[p] # None /\ heap[p].fd = fd
      /\ t \in Tag /\ tagToFd[t] = fd /\ c \in Conn
      /\ workers[t] # "none" /\ heap[p] = [fd |-> fd, tag |-> t]
      /\ None \notin Fd
  <2>1. p \in Ptr /\ heap[p] # None /\ heap[p].fd = fd /\ tagToFd[t] = fd
    BY DEF TableTypes, Core, TablesAgree, DescriptorsLeadToTags
  <2>2. heap[p] \in [fd : Fd, tag : Tag]
    BY <2>1 DEF TableTypes, Meta
  <2>3. t \in Tag /\ c \in Conn
    BY <2>2 DEF TableTypes
  <2>4. None \notin Fd
    BY NameAssumption
  <2>5. workers[t] # "none"
    BY <2>1, <2>3, <2>4 DEF Core, TablesAgree, TagsLeadToDescriptors
  <2> QED BY <2>1, <2>2, <2>3, <2>4, <2>5 DEF Meta
<1>2. /\ heap' = [heap EXCEPT ![p] = None]
      /\ tagToFd' = [tagToFd EXCEPT ![t] = None]
      /\ workers' = [workers EXCEPT ![t] = "none"]
      /\ metas' = metas
      /\ fdTable' = [fdTable EXCEPT ![fd] = None]
      /\ reg' = IF c \in held THEN reg ELSE [reg EXCEPT ![c] = None]
  BY DEF Shutdown, DelMeta, CloseFd
<1>3. \A g \in Fd : fdTable[g] # None /\ g # fd =>
        /\ metas[g] \in Ptr /\ metas[g] # p
        /\ heap[metas[g]] \in Meta /\ heap[metas[g]].tag # t
  <2> SUFFICES ASSUME NEW g \in Fd, fdTable[g] # None, g # fd
               PROVE  /\ metas[g] \in Ptr /\ metas[g] # p
                      /\ heap[metas[g]] \in Meta /\ heap[metas[g]].tag # t
    OBVIOUS
  <2>1. /\ metas[g] \in Ptr /\ heap[metas[g]] # None /\ heap[metas[g]].fd = g
        /\ tagToFd[heap[metas[g]].tag] = g
    BY DEF TableTypes, Core, TablesAgree, DescriptorsLeadToTags
  <2>2. heap[metas[g]] \in Meta
    BY <2>1 DEF TableTypes
  <2> QED BY <1>1, <2>1, <2>2
<1>9. TagsLeadToDescriptors'
  <2> SUFFICES ASSUME NEW u \in Tag
               PROVE  IF workers'[u] = "none" THEN tagToFd'[u] = None
                      ELSE /\ tagToFd'[u] # None
                           /\ fdTable'[tagToFd'[u]] # None
                           /\ metas'[tagToFd'[u]] # None
                           /\ heap'[metas'[tagToFd'[u]]]
                                = [fd |-> tagToFd'[u], tag |-> u]
    BY DEF TagsLeadToDescriptors
  <2>1. CASE u = t
    BY <2>1, <1>1, <1>2 DEF TableTypes
  <2>2. CASE u # t /\ workers[u] = "none"
    BY <2>2, <1>1, <1>2 DEF TableTypes, Core, TablesAgree, TagsLeadToDescriptors
  <2>3. CASE u # t /\ workers[u] # "none"
    <3> DEFINE g == tagToFd[u]
    <3>1. /\ g \in Fd /\ fdTable[g] # None /\ metas[g] # None
          /\ heap[metas[g]] = [fd |-> g, tag |-> u]
      BY <2>3 DEF TableTypes, Core, TablesAgree, TagsLeadToDescriptors
    <3>2. g # fd /\ metas[g] # p /\ metas[g] \in Ptr
      BY <2>3, <3>1, <1>1, <1>3
    <3>3. /\ workers'[u] = workers[u] /\ tagToFd'[u] = g
          /\ fdTable'[g] = fdTable[g] /\ metas'[g] = metas[g]
          /\ heap'[metas[g]] = heap[metas[g]]
      BY <2>3, <3>1, <3>2, <1>2 DEF TableTypes
    <3>4. workers'[u] # "none"
      BY <2>3, <3>3
    <3>5. heap'[metas'[tagToFd'[u]]] = [fd |-> tagToFd'[u], tag |-> u]
      BY <3>1, <3>3
    <3> QED BY <1>1, <3>1, <3>3, <3>4, <3>5
  <2> QED BY <2>1, <2>2, <2>3
<1>4. DescriptorsLeadToTags'
  <2> SUFFICES ASSUME NEW g \in Fd, fdTable'[g] # None
               PROVE  /\ metas'[g] # None
                      /\ heap'[metas'[g]] # None
                      /\ heap'[metas'[g]].fd = g
                      /\ tagToFd'[heap'[metas'[g]].tag] = g
    BY DEF DescriptorsLeadToTags
  <2>1. g # fd /\ fdTable[g] # None
    BY <1>2 DEF TableTypes
  <2>2. /\ metas'[g] = metas[g] /\ heap'[metas[g]] = heap[metas[g]]
        /\ tagToFd'[heap[metas[g]].tag] = tagToFd[heap[metas[g]].tag]
    BY <2>1, <1>2, <1>3 DEF TableTypes, Meta
  <2> QED BY <2>1, <2>2 DEF Core, TablesAgree, DescriptorsLeadToTags
<1>5. NoStrayMeta'
  BY <1>1, <1>2 DEF TableTypes, Core, TablesAgree, NoStrayMeta, Meta
<1>6. OpenConns' = OpenConns \ {c}
  <2>1. \A g \in Fd : fdTable'[g] = IF g = fd THEN None ELSE fdTable[g]
    BY <1>2 DEF TableTypes
  <2>2. \A g \in Fd : g # fd => fdTable[g] # c
    BY <1>1 DEF Core, OneDescriptor
  <2> QED BY <1>1, <2>1, <2>2 DEF OpenConns
<1>7. Registered' /\ OneDescriptor'
  BY <1>1, <1>2 DEF TableTypes, Core, Registered, OneDescriptor
<1>8. OnlyTheseRegistered'
  BY <1>1, <1>2, <1>6 DEF TableTypes, Core, OnlyTheseRegistered
<1> QED BY <1>2, <1>9, <1>4, <1>5, <1>6, <1>7, <1>8 DEF Core, TablesAgree

\* add_new_meta, process_new_req and epoll_add keep them in agreement.
LEMMA OpenCore ==
  ASSUME TableTypes, Core, NEW fd \in FreeFd, NEW p \in FreePtr, NEW t \in Tag,
         NEW c \in Conn \ OpenConns, NEW state \in {"kUnInit", "kGranted"},
         workers[t] = "none",
         AddMeta(fd, t, p, state), Register(fd, c, p), held' = held
  PROVE  /\ Core'
         /\ OpenConns' = OpenConns \cup {c}
<1>1. /\ fd \in Fd /\ fdTable[fd] = None /\ p \in Ptr /\ heap[p] = None
      /\ tagToFd[t] = None /\ c # None
  BY NameAssumption DEF FreeFd, FreePtr, Core, TablesAgree, TagsLeadToDescriptors
<1>2. /\ metas' = [metas EXCEPT ![fd] = p]
      /\ heap' = [heap EXCEPT ![p] = [fd |-> fd, tag |-> t]]
      /\ tagToFd' = [tagToFd EXCEPT ![t] = fd]
      /\ workers' = [workers EXCEPT ![t] = state]
      /\ fdTable' = [fdTable EXCEPT ![fd] = c]
      /\ reg' = [reg EXCEPT ![c] = p]
  BY DEF AddMeta, Register
<1>3. \A q \in Ptr : heap[q] # None => heap[q] \in Meta /\ heap[q].fd # fd
  BY <1>1 DEF TableTypes, Core, TablesAgree, NoStrayMeta
<1>4. \A f \in Fd : fdTable[f] # None =>
        /\ f # fd /\ metas[f] \in Ptr /\ metas[f] # p
        /\ heap[metas[f]] \in Meta /\ heap[metas[f]].tag # t
  <2> SUFFICES ASSUME NEW f \in Fd, fdTable[f] # None
               PROVE  /\ f # fd /\ metas[f] \in Ptr /\ metas[f] # p
                      /\ heap[metas[f]] \in Meta /\ heap[metas[f]].tag # t
    OBVIOUS
  <2>1. /\ metas[f] \in Ptr /\ heap[metas[f]] # None /\ heap[metas[f]].fd = f
        /\ tagToFd[heap[metas[f]].tag] = f
    BY DEF TableTypes, Core, TablesAgree, DescriptorsLeadToTags
  <2>2. heap[metas[f]] \in Meta
    BY <2>1 DEF TableTypes
  <2>3. None \notin Fd
    BY NameAssumption
  <2> QED BY <1>1, <2>1, <2>2, <2>3
<1>5. TagsLeadToDescriptors'
  <2> SUFFICES ASSUME NEW u \in Tag
               PROVE  IF workers'[u] = "none" THEN tagToFd'[u] = None
                      ELSE /\ tagToFd'[u] # None
                           /\ fdTable'[tagToFd'[u]] # None
                           /\ metas'[tagToFd'[u]] # None
                           /\ heap'[metas'[tagToFd'[u]]]
                                = [fd |-> tagToFd'[u], tag |-> u]
    BY DEF TagsLeadToDescriptors
  <2>1. CASE u = t
    <3>1. /\ workers'[u] = state /\ tagToFd'[u] = fd /\ fdTable'[fd] = c
          /\ metas'[fd] = p /\ heap'[p] = [fd |-> fd, tag |-> u]
      BY <2>1, <1>1, <1>2 DEF TableTypes
    <3>2. fd # None /\ p # None
      BY <1>1, NameAssumption
    <3> QED BY <1>1, <3>1, <3>2
  <2>2. CASE u # t
    <3>1. workers'[u] = workers[u] /\ tagToFd'[u] = tagToFd[u]
      BY <2>2, <1>2 DEF TableTypes
    <3>2. CASE workers[u] = "none"
      BY <3>1, <3>2 DEF Core, TablesAgree, TagsLeadToDescriptors
    <3>3. CASE workers[u] # "none"
      <4> DEFINE g == tagToFd[u]
      <4>1. /\ g \in Fd /\ fdTable[g] # None /\ metas[g] # None
            /\ heap[metas[g]] = [fd |-> g, tag |-> u]
        BY <3>3 DEF TableTypes, Core, TablesAgree, TagsLeadToDescriptors
      <4>2. g # fd /\ metas[g] # p /\ metas[g] \in Ptr
        BY <4>1, <1>4
      <4>3. fdTable'[g] = fdTable[g] /\ metas'[g] = metas[g]
            /\ heap'[metas[g]] = heap[metas[g]]
        BY <4>1, <4>2, <1>2 DEF TableTypes
      <4>4. workers'[u] # "none" /\ tagToFd'[u] = g
        BY <3>1, <3>3
      <4>5. heap'[metas'[tagToFd'[u]]] = [fd |-> tagToFd'[u], tag |-> u]
        BY <4>1, <4>3, <4>4
      <4> QED BY <4>1, <4>3, <4>4, <4>5, NameAssumption
    <3> QED BY <3>2, <3>3
  <2> QED BY <2>1, <2>2
<1>6. DescriptorsLeadToTags'
  <2> SUFFICES ASSUME NEW g \in Fd, fdTable'[g] # None
               PROVE  /\ metas'[g] # None
                      /\ heap'[metas'[g]] # None
                      /\ heap'[metas'[g]].fd = g
                      /\ tagToFd'[heap'[metas'[g]].tag] = g
    BY DEF DescriptorsLeadToTags
  <2>1. CASE g = fd
    <3>1. metas'[g] = p /\ heap'[p] = [fd |-> fd, tag |-> t] /\ tagToFd'[t] = fd
      BY <2>1, <1>1, <1>2 DEF TableTypes
    <3>2. p # None /\ [fd |-> fd, tag |-> t] # None
      BY <1>1, NameAssumption
    <3> QED BY <2>1, <3>1, <3>2
  <2>2. CASE g # fd
    <3>1. fdTable[g] # None
      BY <2>2, <1>2 DEF TableTypes
    <3>2. /\ metas'[g] = metas[g] /\ heap'[metas[g]] = heap[metas[g]]
          /\ tagToFd'[heap[metas[g]].tag] = tagToFd[heap[metas[g]].tag]
      BY <2>2, <3>1, <1>2, <1>4 DEF TableTypes, Meta
    <3> QED BY <3>1, <3>2 DEF Core, TablesAgree, DescriptorsLeadToTags
  <2> QED BY <2>1, <2>2
<1>7. NoStrayMeta'
  BY <1>1, <1>2, <1>3 DEF TableTypes, Core, TablesAgree, NoStrayMeta, Meta
<1>8. OpenConns' = OpenConns \cup {c}
  BY <1>1, <1>2 DEF TableTypes, OpenConns
<1>9. Registered' /\ OneDescriptor'
  BY <1>1, <1>2 DEF TableTypes, Core, Registered, OneDescriptor, OpenConns
<1>10. OnlyTheseRegistered'
  BY <1>1, <1>2, <1>8 DEF TableTypes, Core, OnlyTheseRegistered
<1> QED BY <1>5, <1>6, <1>7, <1>8, <1>9, <1>10 DEF Core, TablesAgree

-----------------------------------------------------------------------------
(* epoll_wait returns every ready connection.                              *)

LEMMA OrdersCover ==
  ASSUME NEW S, IsFiniteSet(S), NEW q \in SetToSeqs(S)
  PROVE  /\ Cardinality(S) \in Nat
         /\ q \in [1..Cardinality(S) -> S]
         /\ \A s \in S : \E i \in 1..Cardinality(S) : q[i] = s
<1> DEFINE n == Cardinality(S)
           D == 1..n
<1>1. n \in Nat
  BY FS_CardinalityType
<1>2. q \in [D -> S] /\ \A i, j \in D : i # j => q[i] # q[j]
  BY DEF SetToSeqs
<1>3. q \in Injection(D, S)
  BY <1>2 DEF Injection, IsInjective
<1>4. Cardinality(D) = n
  BY <1>1, FS_Interval
<1>5. q \in Surjection(D, S)
  BY <1>3, <1>4, FS_Injection
<1> QED BY <1>1, <1>2, <1>5 DEF Surjection

-----------------------------------------------------------------------------
(* The inductive invariant.                                                *)

\* Only registered connections are armed.
ArmedRegistered == \A c \in Conn \cap armed : reg[c] # None

\* A connection waits for accept() once, before it is opened, and only at
\* the client.
FreshBacklog ==
  /\ ~IsClient => backlog = <<>>
  /\ OpenConns \cup ToSet(backlog) \subseteq used
  /\ ToSet(backlog) \cap OpenConns = {}
  /\ \A i, j \in DOMAIN backlog : backlog[i] = backlog[j] => i = j

\* The client's workers carry tags it has allocated.
TagsIssued == IsClient => \A t \in Tag : workers[t] # "none" => t < nextTag

\* The files being read belong to the event at the head of the batch.
ReadingHead == reading => batch # <<>> /\ Head(batch) = Inotify

IInv == /\ TypeOK /\ Core /\ ArmedRegistered /\ FreshBacklog
        /\ TagsIssued /\ ReadingHead

LEMMA TypesOfTables == TypeOK => TableTypes
BY DEF TypeOK, TableTypes

LEMMA InitIInv == Init => IInv
<1> SUFFICES ASSUME Init PROVE IInv
  OBVIOUS
<1>1. TypeOK
  <2>1. \A S : <<>> \in Seq(S)
    BY EmptySeq
  <2>2. armed \subseteq Source
    BY DEF Init, Source
  <2>3. nextTag \in Nat /\ held \subseteq Conn /\ used \subseteq Conn
    BY DEF Init
  <2> QED BY <2>1, <2>2, <2>3 DEF Init, TypeOK
<1>2. Core
  BY DEF Init, Core, TablesAgree, TagsLeadToDescriptors, DescriptorsLeadToTags,
         NoStrayMeta, Registered, OneDescriptor, OnlyTheseRegistered
<1>3. ArmedRegistered
  BY NameAssumption DEF Init, ArmedRegistered
<1>4. FreshBacklog
  BY DEF Init, FreshBacklog, OpenConns, ToSet
<1>5. TagsIssued /\ ReadingHead
  BY DEF Init, TagsIssued, ReadingHead
<1> QED BY <1>1, <1>2, <1>3, <1>4, <1>5 DEF IInv

\* Steps that change neither the tables nor the registrations.
LEMMA CoreFrame ==
  ASSUME Core, UNCHANGED <<fdTable, reg, held, tables>>
  PROVE  Core' /\ OpenConns' = OpenConns
BY DEF Core, TablesAgree, TagsLeadToDescriptors, DescriptorsLeadToTags,
       NoStrayMeta, Registered, OneDescriptor, OnlyTheseRegistered, OpenConns,
       tables

\* What HandlingSocket finds: the event's MonitorMeta is that of an open,
\* registered connection with a worker.
LEMMA SocketFound ==
  ASSUME TypeOK, Core, NEW fd \in Fd, HandlingSocket(fd)
  PROVE  /\ fdTable[fd] \in Conn
         /\ metas[fd] = Head(batch) /\ metas[fd] \in Ptr
         /\ heap[metas[fd]] \in Meta
         /\ heap[metas[fd]].tag \in Tag
         /\ workers[heap[metas[fd]].tag] # "none"
         /\ reg[fdTable[fd]] = metas[fd]
<1>1. /\ Head(batch) \in Ptr /\ heap[Head(batch)] # None
      /\ fd = heap[Head(batch)].fd
  BY DEF HandlingSocket
<1>2. metas[fd] = Head(batch) /\ fdTable[fd] # None
  BY <1>1 DEF Core, TablesAgree, NoStrayMeta
<1>3. fdTable[fd] \in Conn /\ reg[fdTable[fd]] = metas[fd]
  BY <1>2 DEF TypeOK, Core, Registered
<1>4. heap[metas[fd]] \in Meta
  BY <1>1, <1>2 DEF TypeOK
<1>5. heap[metas[fd]].tag \in Tag
  BY <1>4 DEF Meta
<1>6. tagToFd[heap[metas[fd]].tag] = fd
  BY <1>2 DEF Core, TablesAgree, DescriptorsLeadToTags
<1>7. workers[heap[metas[fd]].tag] # "none"
  BY <1>5, <1>6, NameAssumption DEF Core, TablesAgree, TagsLeadToDescriptors
<1> QED BY <1>1, <1>2, <1>3, <1>4, <1>5, <1>7

\* A tag with a worker leads to an open connection.
LEMMA TagFound ==
  ASSUME TypeOK, Core, NEW t \in Tag, workers[t] # "none"
  PROVE  /\ tagToFd[t] \in Fd
         /\ fdTable[tagToFd[t]] \in Conn
         /\ fdTable[tagToFd[t]] # None
         /\ heap[metas[tagToFd[t]]].tag = t
<1>1. tagToFd[t] # None /\ fdTable[tagToFd[t]] # None
      /\ heap[metas[tagToFd[t]]] = [fd |-> tagToFd[t], tag |-> t]
  BY DEF Core, TablesAgree, TagsLeadToDescriptors
<1>2. tagToFd[t] \in Fd
  BY <1>1 DEF TypeOK
<1>3. fdTable[tagToFd[t]] \in Conn
  BY <1>1, <1>2 DEF TypeOK
<1> QED BY <1>1, <1>2, <1>3

-----------------------------------------------------------------------------
(* Every step keeps the invariant.                                         *)

LEMMA ReadyFinite == ASSUME IInv PROVE IsFiniteSet(Ready)
<1>1. Ready \subseteq Conn \cup {Inotify, Listener}
  BY DEF IInv, Ready, TypeOK, Source
<1>2. IsFiniteSet({Inotify, Listener})
  <2>1. IsFiniteSet({} \cup {Inotify})
    BY FS_EmptySet, FS_AddElement
  <2> QED BY <2>1, FS_AddElement,
             {Inotify, Listener} = ({} \cup {Inotify}) \cup {Listener}
<1>3. IsFiniteSet(Conn \cup {Inotify, Listener})
  BY <1>2, ConnAssumption, FS_Union
<1> QED BY <1>1, <1>3, FS_Subset

LEMMA EpollWaitIInv == IInv /\ EpollWait => IInv'
<1> SUFFICES ASSUME IInv, EpollWait PROVE IInv'
  OBVIOUS
<1> USE DEF IInv, peers, tables, mail
<1>1. PICK S \in SUBSET Ready :
        /\ \E q \in SetToSeqs(S) : batch' = [i \in DOMAIN q |-> DataPtr(q[i])]
        /\ armed' = armed \ S
  BY DEF EpollWait
<1>2. PICK q \in SetToSeqs(S) : batch' = [i \in DOMAIN q |-> DataPtr(q[i])]
  BY <1>1
<1>3. IsFiniteSet(S)
  BY ReadyFinite, FS_Subset
<1>4. Cardinality(S) \in Nat /\ q \in [1..Cardinality(S) -> S]
  BY <1>2, <1>3, OrdersCover
<1>5. \A s \in S : DataPtr(s) \in Ptr \cup {Inotify, Listener}
  BY DEF Ready, TypeOK, Source, DataPtr, ArmedRegistered
<1>6. batch' \in Seq(Ptr \cup {Inotify, Listener})
  <2>1. batch' \in [1..Cardinality(S) -> Ptr \cup {Inotify, Listener}]
    BY <1>2, <1>4, <1>5
  <2> QED BY <1>4, <2>1, SeqDef
<1>7. TypeOK'
  BY <1>1, <1>6 DEF EpollWait, TypeOK
<1>8. Core' /\ OpenConns' = OpenConns
  BY CoreFrame DEF EpollWait
<1>9. ArmedRegistered'
  BY <1>1 DEF EpollWait, ArmedRegistered
<1>10. FreshBacklog'
  BY <1>8 DEF EpollWait, FreshBacklog
<1>11. TagsIssued' /\ ReadingHead'
  BY DEF EpollWait, TagsIssued, ReadingHead
<1> QED BY <1>7, <1>8, <1>9, <1>10, <1>11

\* Steps that leave connections and tables alone.
LEMMA QuietStep ==
  ASSUME IInv, UNCHANGED <<kernel, peers, tables, nextTag>>, TypeOK', ReadingHead'
  PROVE  IInv'
<1> USE DEF IInv, kernel, peers, tables
<1>1. Core' /\ OpenConns' = OpenConns
  BY CoreFrame
<1>2. ArmedRegistered' /\ FreshBacklog' /\ TagsIssued'
  BY <1>1 DEF ArmedRegistered, FreshBacklog, TagsIssued
<1> QED BY <1>1, <1>2

\* The heads and tails of the queues.
LEMMA QueueTypes ==
  ASSUME TypeOK
  PROVE  /\ batch # <<>> => Tail(batch) \in Seq(Ptr \cup {Inotify, Listener})
         /\ paths # <<>> => Tail(paths) \in Seq(Name) /\ Head(paths) \in Name
         /\ work # <<>> => Tail(work) \in Seq(Packet) /\ Head(work) \in Packet
         /\ mailq # <<>> => Tail(mailq) \in Seq(Packet)
         /\ backlog # <<>> => Tail(backlog) \in Seq(Conn) /\ Head(backlog) \in Conn
<1> USE DEF TypeOK
<1>1. batch # <<>> => Tail(batch) \in Seq(Ptr \cup {Inotify, Listener})
  BY HeadTailProperties
<1>2. paths # <<>> => Tail(paths) \in Seq(Name) /\ Head(paths) \in Name
  BY HeadTailProperties
<1>3. work # <<>> => Tail(work) \in Seq(Packet) /\ Head(work) \in Packet
  BY HeadTailProperties
<1>4. mailq # <<>> => Tail(mailq) \in Seq(Packet)
  BY HeadTailProperties
<1>5. backlog # <<>> => Tail(backlog) \in Seq(Conn) /\ Head(backlog) \in Conn
  BY HeadTailProperties
<1> QED BY <1>1, <1>2, <1>3, <1>4, <1>5

LEMMA PutTypes ==
  ASSUME TypeOK, NEW c \in Conn, work # <<>>,
         Written(c, Head(work)) \/ SockPut(c, Head(work))
  PROVE  tx' \in [Conn -> Seq(Body)]
<1>1. Head(work) \in Packet
  BY QueueTypes
<1>2. IsData(Head(work)) => Head(work).body \in Body
  BY <1>1 DEF Packet, IsData
<1>3. IsData(Head(work)) => Append(tx[c], Head(work).body) \in Seq(Body)
  BY <1>2, AppendProperties DEF TypeOK
<1> QED BY <1>3 DEF TypeOK, SockPut, Written

\* A mail of any packets.
LEMMA MailArrivesIInv ==
  ASSUME IInv, NEW n \in Name, NEW s \in Seq(Packet), MailArrives(n, s)
  PROVE  IInv'
<1>0. TypeOK /\ ReadingHead
  BY DEF IInv
<1>1. spool' \in [Name -> Seq(Packet)]
  BY <1>0 DEF MailArrives, TypeOK
<1>2. notices' \in Seq(Name)
  <2>1. Append(notices, n) \in Seq(Name)
    BY <1>0, AppendProperties DEF TypeOK
  <2> QED BY <1>0, <2>1 DEF MailArrives, TypeOK
<1>3. TypeOK' /\ ReadingHead'
  BY <1>0, <1>1, <1>2 DEF MailArrives, TypeOK, ReadingHead, kernel, peers, tables,
                          loop
<1> QED BY <1>3, QuietStep DEF MailArrives

LEMMA QuietIInv ==
  ASSUME IInv,
         \/ AcceptFails \/ ReadNothing \/ HandleFreed \/ ReadNotices \/ ReadFile
         \/ UnknownTag \/ SocketFails \/ UninitAsserts \/ Deliver
         \/ PeerSends \/ PeerEnds \/ FetchData
         \/ \E n \in Name, s \in Mails : MailArrives(n, s)
  PROVE  IInv'
<1> USE DEF kernel, peers, tables, loop, mail
<1>0. TypeOK /\ ReadingHead
  BY DEF IInv
<1>1. CASE AcceptFails
  <2>1. /\ batch # <<>> /\ ~reading /\ batch' = Tail(batch)
        /\ UNCHANGED <<reading, paths, work>>
    BY <1>1 DEF AcceptFails, Handling, NextEvent
  <2>2. TypeOK'
    BY <1>0, <1>1, <2>1, QueueTypes DEF AcceptFails, TypeOK
  <2>3. ReadingHead'
    BY <2>1 DEF ReadingHead
  <2> QED BY <1>1, <2>2, <2>3, QuietStep DEF AcceptFails
<1>2. CASE ReadNothing
  <2>1. /\ batch # <<>> /\ ~reading /\ batch' = Tail(batch)
        /\ UNCHANGED <<reading, paths, work>>
    BY <1>2 DEF ReadNothing, HandlingSocket, NextEvent
  <2>2. TypeOK'
    BY <1>0, <1>2, <2>1, QueueTypes DEF ReadNothing, TypeOK
  <2>3. ReadingHead'
    BY <2>1 DEF ReadingHead
  <2> QED BY <1>2, <2>2, <2>3, QuietStep DEF ReadNothing
<1>3. CASE HandleFreed
  <2>1. /\ batch # <<>> /\ ~reading /\ batch' = Tail(batch)
        /\ UNCHANGED <<reading, paths, work>>
    BY <1>3 DEF HandleFreed, NextEvent
  <2>2. TypeOK'
    BY <1>0, <1>3, <2>1, QueueTypes DEF HandleFreed, TypeOK
  <2>3. ReadingHead'
    BY <2>1 DEF ReadingHead
  <2> QED BY <1>3, <2>2, <2>3, QuietStep DEF HandleFreed
<1>4. CASE ReadNotices
  <2>1. TypeOK'
    BY <1>0, <1>4, EmptySeq DEF ReadNotices, Handling, TypeOK
  <2>2. ReadingHead'
    BY <1>4 DEF ReadNotices, Handling, ReadingHead
  <2> QED BY <1>4, <2>1, <2>2, QuietStep DEF ReadNotices
<1>5. CASE ReadFile
  <2>1. /\ paths # <<>> /\ paths' = Tail(paths) /\ work' = spool[Head(paths)]
    BY <1>5 DEF ReadFile
  <2>2. work' \in Seq(Packet)
    BY <1>0, <2>1, QueueTypes DEF TypeOK
  <2>3. TypeOK'
    BY <1>0, <1>5, <2>1, <2>2, QueueTypes DEF ReadFile, TypeOK
  <2>4. ReadingHead'
    BY <1>0, <1>5 DEF ReadFile, ReadingHead
  <2> QED BY <1>5, <2>3, <2>4, QuietStep DEF ReadFile
<1>6. CASE UnknownTag
  <2>1. /\ work # <<>> /\ work' = Tail(work)
        /\ UNCHANGED <<batch, reading, paths>>
    BY <1>6 DEF UnknownTag, Processing
  <2>2. TypeOK'
    BY <1>0, <1>6, <2>1, QueueTypes DEF UnknownTag, TypeOK
  <2>3. ReadingHead'
    BY <1>0, <2>1 DEF ReadingHead
  <2> QED BY <1>6, <2>2, <2>3, QuietStep DEF UnknownTag
<1>7. CASE SocketFails
  <2>1. /\ work # <<>> /\ work' = Tail(work)
        /\ UNCHANGED <<batch, reading, paths>>
    BY <1>7 DEF SocketFails, Processing
  <2>2. TypeOK'
    BY <1>0, <1>7, <2>1, QueueTypes DEF SocketFails, TypeOK
  <2>3. ReadingHead'
    BY <1>0, <2>1 DEF ReadingHead
  <2> QED BY <1>7, <2>2, <2>3, QuietStep DEF SocketFails
<1>8. CASE UninitAsserts
  <2>1. /\ work # <<>> /\ work' = Tail(work)
        /\ UNCHANGED <<batch, reading, paths>>
    BY <1>8 DEF UninitAsserts, Processing
  <2>2. TypeOK'
    BY <1>0, <1>8, <2>1, QueueTypes DEF UninitAsserts, TypeOK
  <2>3. ReadingHead'
    BY <1>0, <2>1 DEF ReadingHead
  <2> QED BY <1>8, <2>2, <2>3, QuietStep DEF UninitAsserts
<1>9. CASE Deliver
  <2>1. PICK t \in Tag : /\ Processing(t, "kGranted") /\ IsData(Head(work))
                         /\ SockPut(fdTable[tagToFd[t]], Head(work))
    BY <1>9 DEF Deliver
  <2> DEFINE c == fdTable[tagToFd[t]]
  <2>2. /\ work # <<>> /\ work' = Tail(work)
        /\ UNCHANGED <<batch, reading, paths>> /\ workers[t] = "kGranted"
    BY <2>1 DEF Processing
  <2>3. c \in Conn
    BY <2>2, TagFound DEF IInv
  <2>4. tx' \in [Conn -> Seq(Body)]
    BY <1>0, <2>1, <2>2, <2>3, PutTypes
  <2>5. TypeOK'
    BY <1>0, <1>9, <2>2, <2>4, QueueTypes DEF Deliver, TypeOK
  <2>6. ReadingHead'
    BY <1>0, <2>2 DEF ReadingHead
  <2> QED BY <1>9, <2>5, <2>6, QuietStep DEF Deliver
<1>10. CASE PeerSends
  <2>1. PICK c \in Conn, x \in Body : rx' = [rx EXCEPT ![c] = Append(@, x)]
    BY <1>10 DEF PeerSends
  <2>2. Append(rx[c], x) \in Seq(Body \cup {"eof", "reset"})
    BY <1>0, AppendProperties DEF TypeOK
  <2>3. TypeOK' /\ ReadingHead'
    BY <1>0, <1>10, <2>1, <2>2 DEF PeerSends, TypeOK, ReadingHead
  <2> QED BY <1>10, <2>3, QuietStep DEF PeerSends
<1>11. CASE PeerEnds
  <2>1. PICK c \in Conn, x \in {"eof", "reset"} : rx' = [rx EXCEPT ![c] = Append(@, x)]
    BY <1>11 DEF PeerEnds
  <2>2. Append(rx[c], x) \in Seq(Body \cup {"eof", "reset"})
    BY <1>0, AppendProperties DEF TypeOK
  <2>3. TypeOK' /\ ReadingHead'
    BY <1>0, <1>11, <2>1, <2>2 DEF PeerEnds, TypeOK, ReadingHead
  <2> QED BY <1>11, <2>3, QuietStep DEF PeerEnds
<1>12. CASE FetchData
  <2>1. mailq # <<>> /\ mailq' = Tail(mailq)
    BY <1>12 DEF FetchData
  <2>2. TypeOK' /\ ReadingHead'
    BY <1>0, <1>12, <2>1, QueueTypes DEF FetchData, TypeOK, ReadingHead
  <2> QED BY <1>12, <2>2, QuietStep DEF FetchData
<1>13. CASE \E n \in Name, s \in Mails : MailArrives(n, s)
  BY <1>13, MailArrivesIInv, MailsAssumption
<1> QED BY <1>1, <1>2, <1>3, <1>4, <1>5, <1>6, <1>7, <1>8, <1>9, <1>10, <1>11,
           <1>12, <1>13

\* do_process_shutdown keeps the invariant.
LEMMA ShutdownTypes ==
  ASSUME TypeOK, Core, NEW fd \in Fd, fdTable[fd] # None, Shutdown(fd)
  PROVE  TableTypes' /\ armed' \subseteq armed
<1> DEFINE p == metas[fd]
           c == fdTable[fd]
<1>1. /\ heap' = [heap EXCEPT ![p] = None]
      /\ tagToFd' = [tagToFd EXCEPT ![heap[p].tag] = None]
      /\ workers' = [workers EXCEPT ![heap[p].tag] = "none"]
      /\ metas' = metas
      /\ fdTable' = [fdTable EXCEPT ![fd] = None]
      /\ reg' = IF c \in held THEN reg ELSE [reg EXCEPT ![c] = None]
      /\ armed' = IF c \in held THEN armed ELSE armed \ {c}
  BY DEF Shutdown, DelMeta, CloseFd
<1> QED BY <1>1 DEF TypeOK, TableTypes

LEMMA ShutdownStep ==
  ASSUME IInv, NEW fd \in Fd, fdTable[fd] # None, Shutdown(fd),
         UNCHANGED <<peers, nextTag>>, TypeOK', ReadingHead'
  PROVE  IInv'
<1> USE DEF IInv, peers
<1>1. /\ Core' /\ OpenConns' = OpenConns \ {fdTable[fd]}
      /\ workers' = [workers EXCEPT ![heap[metas[fd]].tag] = "none"]
  BY TypesOfTables, ShutdownCore
<1>2. /\ reg' = IF fdTable[fd] \in held THEN reg
                ELSE [reg EXCEPT ![fdTable[fd]] = None]
      /\ armed' = IF fdTable[fd] \in held THEN armed ELSE armed \ {fdTable[fd]}
  BY DEF Shutdown, CloseFd
<1>3. ArmedRegistered'
  BY <1>2 DEF ArmedRegistered, TypeOK
<1>4. FreshBacklog'
  BY <1>1 DEF FreshBacklog
<1>5. TagsIssued'
  BY <1>1 DEF TagsIssued, TypeOK
<1> QED BY <1>1, <1>3, <1>4, <1>5

\* Opening a connection keeps the tables well typed.
LEMMA OpenTypes ==
  ASSUME TypeOK, NEW fd \in Fd, NEW p \in Ptr, NEW t \in Tag, NEW c \in Conn,
         NEW state \in {"kUnInit", "kGranted"},
         AddMeta(fd, t, p, state), Register(fd, c, p)
  PROVE  TableTypes'
<1>1. [fd |-> fd, tag |-> t] \in Meta
  BY DEF Meta
<1> QED BY <1>1 DEF TypeOK, TableTypes, AddMeta, Register

LEMMA AcceptIInv == IInv /\ Accept => IInv'
<1> SUFFICES ASSUME IInv, Accept PROVE IInv'
  OBVIOUS
<1> DEFINE c == Head(backlog)
<1>0. TypeOK /\ Core /\ ArmedRegistered /\ FreshBacklog /\ TagsIssued
  BY DEF IInv
<1>1. PICK fd \in FreeFd, p \in FreePtr :
        AddMeta(fd, nextTag, p, "kUnInit") /\ Register(fd, c, p)
  BY DEF Accept, NewTag, InitialState
<1>2. /\ IsClient /\ nextTag \in Tag /\ nextTag' = nextTag + 1
      /\ backlog # <<>> /\ backlog' = Tail(backlog)
      /\ armed' = armed \cup {Listener, c}
      /\ batch # <<>> /\ ~reading /\ batch' = Tail(batch)
      /\ UNCHANGED <<reading, paths, work>>
      /\ UNCHANGED <<held, used, rx, tx, mailq, mail, status>>
  BY <1>0 DEF Accept, NewTag, WatchClient, NextEvent, Handling, FreshBacklog
<1>3. /\ c \in Conn /\ c \notin OpenConns /\ workers[nextTag] = "none"
      /\ fd \in Fd /\ p \in Ptr
  <2>1. c \in Conn
    BY <1>0, <1>2, QueueTypes
  <2>2. c \in ToSet(backlog)
    <3>1. backlog \in Seq(Conn)
      BY <1>0 DEF TypeOK
    <3> QED BY <3>1, <1>2, TailSet
  <2>3. workers[nextTag] = "none"
    <3>1. nextTag \in Nat /\ ~(nextTag < nextTag)
      BY <1>2, NameAssumption
    <3> QED BY <1>0, <1>2, <3>1 DEF TagsIssued
  <2> QED BY <1>0, <2>1, <2>2, <2>3 DEF FreshBacklog, FreeFd, FreePtr
<1>4. Core' /\ OpenConns' = OpenConns \cup {c}
  BY <1>0, <1>1, <1>2, <1>3, OpenCore, TypesOfTables
<1>5. TableTypes'
  BY <1>0, <1>1, <1>2, <1>3, OpenTypes
<1>6. ToSet(backlog) = {c} \cup ToSet(Tail(backlog))
  BY <1>0, <1>2, TailSet DEF TypeOK
<1>7. TypeOK'
  <2>1. armed' \subseteq Source
    BY <1>0, <1>2, <1>3 DEF TypeOK, Source
  <2>2. nextTag' \in Nat
    BY <1>2, NameAssumption
  <2>3. UNCHANGED spool /\ UNCHANGED notices
    BY DEF Accept, mail
  <2> QED BY <1>0, <1>2, <1>5, <2>1, <2>2, <2>3, QueueTypes DEF TypeOK, TableTypes
<1>8. ArmedRegistered'
  <2>1. reg' = [reg EXCEPT ![c] = p] /\ p # None
    BY <1>1, <1>3, NameAssumption DEF Register
  <2> QED BY <1>0, <1>2, <1>3, <2>1, NameAssumption DEF ArmedRegistered, TypeOK
<1>9. FreshBacklog'
  <2>1. (OpenConns \cup ToSet(backlog))' \subseteq used'
    BY <1>0, <1>2, <1>4, <1>6 DEF FreshBacklog
  <2>2. /\ DOMAIN backlog = 1..Len(backlog) /\ Len(backlog) \in Nat
        /\ DOMAIN Tail(backlog) = 1..(Len(backlog)-1) /\ c = backlog[1]
        /\ \A i \in 1..Len(backlog)-1 : Tail(backlog)[i] = backlog[i+1]
    <3>1. backlog \in Seq(Conn)
      BY <1>0 DEF TypeOK
    <3>2. /\ Tail(backlog) \in Seq(Conn) /\ Len(Tail(backlog)) = Len(backlog) - 1
          /\ \A i \in 1..Len(backlog)-1 : Tail(backlog)[i] = backlog[i+1]
      BY <3>1, <1>2, HeadTailProperties
    <3>3. DOMAIN backlog = 1..Len(backlog) /\ Len(backlog) \in Nat
      BY <3>1, LenProperties
    <3> QED BY <3>1, <3>2, <3>3, LenProperties
  <2>3. \A i, j \in DOMAIN backlog : backlog[i] = backlog[j] => i = j
    BY <1>0 DEF FreshBacklog
  <2>4. \A i \in DOMAIN Tail(backlog) :
          i+1 \in DOMAIN backlog /\ i+1 # 1 /\ 1 \in DOMAIN backlog
    BY <2>2
  <2>5. \A i \in DOMAIN Tail(backlog) : Tail(backlog)[i] # c
    BY <2>2, <2>3, <2>4
  <2>6. \A i, j \in DOMAIN Tail(backlog) : Tail(backlog)[i] = Tail(backlog)[j] => i = j
    BY <2>2, <2>3, <2>4
  <2>7. c \notin ToSet(Tail(backlog))
    BY <2>5 DEF ToSet
  <2>8. ToSet(backlog') \cap OpenConns' = {}
    BY <1>0, <1>2, <1>4, <1>6, <2>7 DEF FreshBacklog
  <2> QED BY <1>2, <2>1, <2>6, <2>8 DEF FreshBacklog
<1>10. TagsIssued'
  <2>1. workers' = [workers EXCEPT ![nextTag] = "kUnInit"]
    BY <1>1 DEF AddMeta
  <2>2. \A u \in Tag : u = nextTag \/ workers'[u] = workers[u]
    BY <1>0, <2>1 DEF TypeOK
  <2>3. \A u \in Tag : u = nextTag \/ u < nextTag => u < nextTag + 1
    <3>1. Tag \subseteq Nat
      BY NameAssumption
    <3>2. \A u, m \in Nat : u = m \/ u < m => u < m + 1
      OBVIOUS
    <3> QED BY <3>1, <3>2, <1>2
  <2> QED BY <1>0, <1>2, <2>2, <2>3 DEF TagsIssued
<1>11. ReadingHead'
  BY <1>2 DEF ReadingHead
<1> QED BY <1>4, <1>7, <1>8, <1>9, <1>10, <1>11 DEF IInv

LEMMA ReadDataIInv == IInv /\ ReadData => IInv'
<1> SUFFICES ASSUME IInv, ReadData PROVE IInv'
  OBVIOUS
<1>0. TypeOK /\ Core /\ ArmedRegistered /\ FreshBacklog /\ TagsIssued
  BY DEF IInv
<1>1. PICK fd \in Fd :
        /\ HandlingSocket(fd)
        /\ rx[fdTable[fd]] # <<>> /\ Head(rx[fdTable[fd]]) \in Body
        /\ armed' = armed \cup {fdTable[fd]}
        /\ mailq' = Append(mailq, DataPacket(heap[metas[fd]].tag, Head(rx[fdTable[fd]])))
        /\ workers' = [workers EXCEPT ![heap[metas[fd]].tag] = "kGranted"]
        /\ rx' = [rx EXCEPT ![fdTable[fd]] = Tail(@)]
  BY DEF ReadData, Rearm
<1> DEFINE c == fdTable[fd]
           t == heap[metas[fd]].tag
<1>2. /\ c \in Conn /\ t \in Tag /\ workers[t] # "none" /\ reg[c] = metas[fd]
      /\ metas[fd] \in Ptr
  BY <1>0, <1>1, SocketFound
<1>3. /\ batch # <<>> /\ ~reading /\ batch' = Tail(batch)
      /\ UNCHANGED <<reading, paths, work>>
      /\ UNCHANGED <<fdTable, reg, held, backlog, used, tx, metas, heap, tagToFd,
                     nextTag, notices, spool, status>>
  BY <1>1 DEF ReadData, NextEvent, HandlingSocket, peers, mail
<1>4. TypeOK'
  <2>1. mailq' \in Seq(Packet)
    <3>1. DataPacket(t, Head(rx[c])) \in Packet
      BY <1>1, <1>2 DEF DataPacket, Packet
    <3> QED BY <1>0, <1>1, <3>1, AppendProperties DEF TypeOK
  <2>2. rx' \in [Conn -> Seq(Body \cup {"eof", "reset"})]
    <3>1. Tail(rx[c]) \in Seq(Body \cup {"eof", "reset"})
      BY <1>0, <1>1, <1>2, HeadTailProperties DEF TypeOK
    <3> QED BY <1>0, <1>1, <3>1 DEF TypeOK
  <2>3. workers' \in [Tag -> {"none", "kUnInit", "kGranted"}]
    BY <1>0, <1>1 DEF TypeOK
  <2>4. armed' \subseteq Source
    BY <1>0, <1>1, <1>2 DEF TypeOK, Source
  <2> QED BY <1>0, <1>3, <2>1, <2>2, <2>3, <2>4, QueueTypes DEF TypeOK
<1>5. \A u \in Tag : workers'[u] = "none" <=> workers[u] = "none"
  BY <1>0, <1>1, <1>2 DEF TypeOK
<1>6. Core' /\ OpenConns' = OpenConns
  <2>1. TagsLeadToDescriptors'
    BY <1>0, <1>3, <1>5 DEF Core, TablesAgree, TagsLeadToDescriptors
  <2> QED BY <1>0, <1>3, <2>1 DEF Core, TablesAgree, DescriptorsLeadToTags,
       NoStrayMeta, Registered, OneDescriptor, OnlyTheseRegistered, OpenConns
<1>7. ArmedRegistered'
  BY <1>0, <1>1, <1>2, <1>3, NameAssumption DEF ArmedRegistered
<1>8. FreshBacklog'
  BY <1>0, <1>3, <1>6 DEF FreshBacklog
<1>9. TagsIssued'
  BY <1>0, <1>3, <1>5 DEF TagsIssued
<1>10. ReadingHead'
  BY <1>3 DEF ReadingHead
<1> QED BY <1>4, <1>6, <1>7, <1>8, <1>9, <1>10 DEF IInv

LEMMA ReadEndIInv == IInv /\ ReadEnd => IInv'
<1> SUFFICES ASSUME IInv, ReadEnd PROVE IInv'
  OBVIOUS
<1>0. TypeOK /\ Core
  BY DEF IInv
<1>1. PICK fd \in Fd :
        /\ HandlingSocket(fd) /\ Shutdown(fd)
        /\ mailq' = Append(mailq, EndPacket(heap[metas[fd]].tag, Head(rx[fdTable[fd]])))
        /\ rx' = [rx EXCEPT ![fdTable[fd]] = <<>>]
  BY DEF ReadEnd
<1>2. fdTable[fd] \in Conn /\ fdTable[fd] # None /\ heap[metas[fd]].tag \in Tag
  BY <1>0, <1>1, SocketFound, NameAssumption
<1>3. /\ batch # <<>> /\ ~reading /\ batch' = Tail(batch)
      /\ UNCHANGED <<reading, paths, work>>
      /\ UNCHANGED <<held, backlog, used, tx, nextTag, notices, spool, status>>
  BY <1>1 DEF ReadEnd, NextEvent, HandlingSocket, peers, mail
<1>4. TypeOK'
  <2>1. mailq' \in Seq(Packet)
    <3>1. EndPacket(heap[metas[fd]].tag, Head(rx[fdTable[fd]])) \in Packet
      BY <1>2 DEF EndPacket, Packet
    <3> QED BY <1>0, <1>1, <3>1, AppendProperties DEF TypeOK
  <2>2. rx' \in [Conn -> Seq(Body \cup {"eof", "reset"})]
    BY <1>0, <1>1, EmptySeq DEF TypeOK
  <2>3. TableTypes' /\ armed' \subseteq armed
    BY <1>0, <1>1, <1>2, ShutdownTypes
  <2> QED BY <1>0, <1>3, <2>1, <2>2, <2>3, QueueTypes DEF TypeOK, TableTypes
<1>5. ReadingHead'
  BY <1>3 DEF ReadingHead
<1> QED BY <1>1, <1>2, <1>3, <1>4, <1>5, ShutdownStep DEF peers

\* A tag's shutdown while the packets of a mail are processed.
LEMMA ShutdownByMailIInv == IInv /\ (PeerFinished \/ UninitFails) => IInv'
<1> SUFFICES ASSUME IInv, PeerFinished \/ UninitFails PROVE IInv'
  OBVIOUS
<1>0. TypeOK /\ Core /\ ReadingHead
  BY DEF IInv
<1>1. PICK t \in Tag : /\ workers[t] # "none" /\ Shutdown(tagToFd[t])
                       /\ work # <<>> /\ work' = Tail(work)
                       /\ UNCHANGED <<batch, reading, paths>>
  BY DEF PeerFinished, UninitFails, Processing
<1>2. tagToFd[t] \in Fd /\ fdTable[tagToFd[t]] # None
  BY <1>0, <1>1, TagFound
<1>3. UNCHANGED <<peers, rx, tx, nextTag, mailq, mail, status>>
  BY DEF PeerFinished, UninitFails
<1>4. TableTypes' /\ armed' \subseteq armed
  BY <1>0, <1>1, <1>2, ShutdownTypes
<1>5. TypeOK'
  BY <1>0, <1>1, <1>3, <1>4, QueueTypes DEF TypeOK, TableTypes, peers, mail
<1>6. ReadingHead'
  BY <1>0, <1>1 DEF ReadingHead
<1> QED BY <1>1, <1>2, <1>3, <1>5, <1>6, ShutdownStep

LEMMA FilesDoneIInv == IInv /\ FilesDone => IInv'
<1> SUFFICES ASSUME IInv, FilesDone PROVE IInv'
  OBVIOUS
<1>0. TypeOK /\ Core /\ ArmedRegistered /\ FreshBacklog /\ TagsIssued /\ ReadingHead
  BY DEF IInv
<1>1. /\ reading /\ ~reading' /\ armed' = armed \cup {Inotify}
      /\ batch' = Tail(batch)
      /\ UNCHANGED <<fdTable, reg, held, backlog, used, rx, tx, metas, heap,
                     tagToFd, workers, nextTag, paths, work, mailq, notices,
                     spool, status>>
  BY <1>0 DEF FilesDone, WatchMaildir, peers, tables, mail
<1>2. batch # <<>>
  BY <1>0, <1>1 DEF ReadingHead
<1>3. TypeOK'
  <2>1. armed' \subseteq Source /\ reading' \in BOOLEAN
    BY <1>0, <1>1 DEF TypeOK, Source, FilesDone
  <2> QED BY <1>0, <1>1, <1>2, <2>1, QueueTypes DEF TypeOK
<1>4. Core' /\ OpenConns' = OpenConns
  BY <1>0, <1>1, CoreFrame DEF tables
<1>5. ArmedRegistered' /\ FreshBacklog' /\ TagsIssued' /\ ReadingHead'
  BY <1>0, <1>1, <1>4, NameAssumption
     DEF ArmedRegistered, FreshBacklog, TagsIssued, ReadingHead
<1> QED BY <1>3, <1>4, <1>5 DEF IInv

LEMMA OpenConnectionIInv == IInv /\ OpenConnection => IInv'
<1> SUFFICES ASSUME IInv, OpenConnection PROVE IInv'
  OBVIOUS
<1>0. TypeOK /\ Core /\ ArmedRegistered /\ FreshBacklog /\ TagsIssued /\ ReadingHead
  BY DEF IInv
<1>1. PICK t \in Tag, fd \in FreeFd, p \in FreePtr, c \in Conn \ used :
        /\ workers[t] = "none" /\ work # <<>> /\ work' = Tail(work)
        /\ UNCHANGED <<batch, reading, paths>>
        /\ AddMeta(fd, t, p, "kGranted") /\ Register(fd, c, p)
        /\ armed' = armed \cup {c} /\ used' = used \cup {c}
        /\ Written(c, Head(work))
  BY DEF OpenConnection, Processing
<1>2. /\ ~IsClient
      /\ UNCHANGED <<held, backlog, rx, nextTag, mailq, notices, spool, status>>
  BY DEF OpenConnection, mail
<1>3. c \in Conn \ OpenConns /\ fd \in Fd /\ p \in Ptr
  BY <1>0 DEF FreshBacklog, FreeFd, FreePtr
<1>4. Core' /\ OpenConns' = OpenConns \cup {c}
  BY <1>0, <1>1, <1>2, <1>3, OpenCore, TypesOfTables
<1>5. TypeOK'
  <2>1. TableTypes'
    BY <1>0, <1>1, <1>3, OpenTypes
  <2>2. armed' \subseteq Source /\ used' \subseteq Conn
    BY <1>0, <1>1 DEF TypeOK, Source
  <2>3. tx' \in [Conn -> Seq(Body)]
    BY <1>0, <1>1, <1>3, PutTypes
  <2> QED BY <1>0, <1>1, <1>2, <2>1, <2>2, <2>3, QueueTypes DEF TypeOK, TableTypes
<1>6. ArmedRegistered'
  <2>1. reg' = [reg EXCEPT ![c] = p] /\ p # None
    BY <1>1, <1>3, NameAssumption DEF Register
  <2> QED BY <1>0, <1>1, <1>3, <2>1 DEF ArmedRegistered, TypeOK
<1>7. FreshBacklog'
  BY <1>0, <1>1, <1>2, <1>4 DEF FreshBacklog
<1>8. TagsIssued' /\ ReadingHead'
  BY <1>0, <1>1, <1>2 DEF TagsIssued, ReadingHead
<1> QED BY <1>4, <1>5, <1>6, <1>7, <1>8 DEF IInv

LEMMA ConnectRefusedIInv == IInv /\ ConnectRefused => IInv'
<1> SUFFICES ASSUME IInv, ConnectRefused PROVE IInv'
  OBVIOUS
<1>0. TypeOK /\ Core /\ ArmedRegistered /\ FreshBacklog /\ TagsIssued /\ ReadingHead
  BY DEF IInv
<1>1. PICK fd \in FreeFd, p \in FreePtr : metas' = [metas EXCEPT ![fd] = p]
  BY DEF ConnectRefused
<1>2. /\ work # <<>> /\ work' = Tail(work)
      /\ UNCHANGED <<batch, reading, paths>>
      /\ UNCHANGED <<fdTable, reg, armed, held, backlog, used, rx, tx, heap,
                     tagToFd, workers, nextTag, mailq, notices, spool, status>>
  BY DEF ConnectRefused, Processing, kernel, peers, mail
<1>3. fd \in Fd /\ fdTable[fd] = None /\ p \in Ptr
  BY DEF FreeFd, FreePtr
<1>4. \A g \in Fd : fdTable[g] # None => metas'[g] = metas[g]
  BY <1>0, <1>1, <1>3 DEF TypeOK
<1>5. TypeOK'
  BY <1>0, <1>1, <1>2, <1>3, QueueTypes DEF TypeOK
<1>6. TagsLeadToDescriptors'
  <2>1. \A t \in Tag : workers[t] # "none" =>
          /\ tagToFd[t] \in Fd
          /\ metas'[tagToFd[t]] = metas[tagToFd[t]]
    BY <1>0, <1>4, TagFound
  <2> QED BY <1>0, <1>2, <2>1 DEF Core, TablesAgree, TagsLeadToDescriptors
<1>7. DescriptorsLeadToTags'
  BY <1>0, <1>2, <1>4 DEF Core, TablesAgree, DescriptorsLeadToTags
<1>8. NoStrayMeta'
  <2>1. \A q \in Ptr : heap[q] # None => heap[q].fd \in Fd
    BY <1>0 DEF TypeOK, Meta
  <2> QED BY <1>0, <1>2, <1>4, <2>1 DEF Core, TablesAgree, NoStrayMeta
<1>9. (Registered /\ OneDescriptor /\ OnlyTheseRegistered)'
  BY <1>0, <1>2, <1>4 DEF Core, Registered, OneDescriptor, OnlyTheseRegistered,
                          OpenConns
<1>10. (ArmedRegistered /\ FreshBacklog /\ TagsIssued /\ ReadingHead)'
  BY <1>0, <1>2 DEF ArmedRegistered, FreshBacklog, TagsIssued, ReadingHead,
                    OpenConns
<1> QED BY <1>5, <1>6, <1>7, <1>8, <1>9, <1>10 DEF IInv, Core, TablesAgree

LEMMA BrowserConnectsIInv == IInv /\ BrowserConnects => IInv'
<1> SUFFICES ASSUME IInv, BrowserConnects PROVE IInv'
  OBVIOUS
<1>0. TypeOK /\ Core /\ ArmedRegistered /\ FreshBacklog /\ TagsIssued /\ ReadingHead
  BY DEF IInv
<1>1. PICK c \in Conn \ used : used' = used \cup {c} /\ backlog' = Append(backlog, c)
  BY DEF BrowserConnects
<1>2. /\ IsClient
      /\ UNCHANGED <<fdTable, reg, armed, held, rx, tx, metas, heap, tagToFd,
                     workers, nextTag, batch, reading, paths, work, mailq,
                     notices, spool, status>>
  BY DEF BrowserConnects, kernel, tables, loop, mail
<1>3. /\ Append(backlog, c) \in Seq(Conn)
      /\ DOMAIN backlog = 1..Len(backlog) /\ Len(backlog) \in Nat
      /\ DOMAIN Append(backlog, c) = 1..(Len(backlog)+1)
      /\ \A i \in 1..Len(backlog) : Append(backlog, c)[i] = backlog[i]
      /\ Append(backlog, c)[Len(backlog)+1] = c
  <2>1. backlog \in Seq(Conn)
    BY <1>0 DEF TypeOK
  <2>2. /\ Append(backlog, c) \in Seq(Conn)
        /\ Len(Append(backlog, c)) = Len(backlog)+1
        /\ \A i \in 1..Len(backlog) : Append(backlog, c)[i] = backlog[i]
        /\ Append(backlog, c)[Len(backlog)+1] = c
    BY <2>1, AppendProperties
  <2> QED BY <2>1, <2>2, LenProperties
<1>4. TypeOK'
  BY <1>0, <1>1, <1>2, <1>3 DEF TypeOK
<1>5. Core' /\ OpenConns' = OpenConns
  BY <1>0, <1>2, CoreFrame DEF tables
<1>6. FreshBacklog'
  <2>1. ToSet(backlog') = ToSet(backlog) \cup {c}
    <3>1. backlog \in Seq(Conn)
      BY <1>0 DEF TypeOK
    <3> QED BY <3>1, <1>1, AppendSet
  <2>2. c \notin OpenConns /\ \A i \in DOMAIN backlog : backlog[i] # c
    BY <1>0 DEF FreshBacklog, ToSet
  <2>3. \A i, j \in DOMAIN backlog' : backlog'[i] = backlog'[j] => i = j
    <3>1. \A i \in 1..(Len(backlog)+1) : i \in 1..Len(backlog) \/ i = Len(backlog)+1
      BY <1>3
    <3> QED BY <1>0, <1>1, <1>3, <2>2, <3>1 DEF FreshBacklog
  <2>4. (OpenConns \cup ToSet(backlog))' \subseteq used'
    BY <1>0, <1>1, <1>5, <2>1 DEF FreshBacklog
  <2>5. ToSet(backlog') \cap OpenConns' = {}
    BY <1>0, <1>5, <2>1, <2>2 DEF FreshBacklog
  <2> QED BY <1>2, <2>3, <2>4, <2>5 DEF FreshBacklog
<1>7. (ArmedRegistered /\ TagsIssued /\ ReadingHead)'
  BY <1>0, <1>2 DEF ArmedRegistered, TagsIssued, ReadingHead
<1> QED BY <1>4, <1>5, <1>6, <1>7 DEF IInv

LEMMA ForkMailerIInv == IInv /\ ForkMailer => IInv'
<1> SUFFICES ASSUME IInv, ForkMailer PROVE IInv'
  OBVIOUS
<1>1. /\ held = {} /\ held' = OpenConns
      /\ UNCHANGED <<fdTable, reg, armed, backlog, used, rx, tx, metas, heap,
                     tagToFd, workers, nextTag, batch, reading, paths, work,
                     mailq, notices, spool, status>>
  BY DEF ForkMailer, kernel, tables, loop, mail
<1>2. OpenConns \subseteq Conn
  <2>1. fdTable \in [Fd -> Conn \cup {None}]
    BY DEF IInv, TypeOK
  <2> QED BY <2>1 DEF OpenConns
<1>3. TypeOK'
  BY <1>1, <1>2 DEF IInv, TypeOK
<1>4. Core'
  BY <1>1 DEF IInv, Core, TablesAgree, TagsLeadToDescriptors,
       DescriptorsLeadToTags, NoStrayMeta, Registered, OneDescriptor,
       OnlyTheseRegistered, OpenConns
<1>5. (ArmedRegistered /\ FreshBacklog /\ TagsIssued /\ ReadingHead)'
  BY <1>1 DEF IInv, ArmedRegistered, FreshBacklog, TagsIssued, ReadingHead,
              OpenConns
<1> QED BY <1>3, <1>4, <1>5 DEF IInv

LEMMA MailerExitsIInv == IInv /\ MailerExits => IInv'
<1> SUFFICES ASSUME IInv, MailerExits PROVE IInv'
  OBVIOUS
<1>1. /\ reg' = [c \in Conn |-> IF c \in held \ OpenConns THEN None ELSE reg[c]]
      /\ armed' = armed \ (held \ OpenConns) /\ held' = {}
      /\ UNCHANGED <<fdTable, backlog, used, rx, tx, metas, heap, tagToFd,
                     workers, nextTag, batch, reading, paths, work, mailq,
                     notices, spool, status>>
  BY DEF MailerExits, tables, loop, mail
<1>2. TypeOK'
  BY <1>1 DEF IInv, TypeOK
<1>3. TablesAgree'
  BY <1>1 DEF IInv, Core, TablesAgree, TagsLeadToDescriptors,
       DescriptorsLeadToTags, NoStrayMeta
<1>4. Registered' /\ OneDescriptor'
  <2>1. \A fd \in Fd : fdTable[fd] # None =>
          fdTable[fd] \in OpenConns /\ fdTable[fd] \in Conn
    BY DEF IInv, TypeOK, OpenConns
  <2> QED BY <1>1, <2>1 DEF IInv, Core, Registered, OneDescriptor
<1>5. OnlyTheseRegistered'
  BY <1>1 DEF IInv, Core, OnlyTheseRegistered, OpenConns
<1>6. (ArmedRegistered /\ FreshBacklog /\ TagsIssued /\ ReadingHead)'
  BY <1>1 DEF IInv, ArmedRegistered, FreshBacklog, TagsIssued, ReadingHead,
              OpenConns
<1> QED BY <1>2, <1>3, <1>4, <1>5, <1>6 DEF IInv, Core

-----------------------------------------------------------------------------
(* Theorems.                                                               *)

LEMMA NextIInv == IInv /\ [Next]_vars => IInv'
<1> SUFFICES ASSUME IInv, [Next]_vars PROVE IInv'
  OBVIOUS
<1>1. CASE UNCHANGED vars
  <2>1. TypeOK' /\ ReadingHead' /\ UNCHANGED <<kernel, peers, tables, nextTag>>
    BY <1>1 DEF IInv, TypeOK, ReadingHead, vars, kernel, peers, tables, loop, mail
  <2> QED BY <2>1, QuietStep
<1>2. CASE Next
  BY <1>2, EpollWaitIInv, QuietIInv, AcceptIInv, ReadDataIInv, ReadEndIInv,
     ShutdownByMailIInv, FilesDoneIInv, OpenConnectionIInv, ConnectRefusedIInv,
     BrowserConnectsIInv, ForkMailerIInv, MailerExitsIInv
     DEF Next, Receive, HandleEvent, ProcessPacket, Environment
<1> QED BY <1>1, <1>2

\* IInv is an inductive invariant.
THEOREM Inductive == Spec => []IInv
BY InitIInv, NextIInv, PTL DEF Spec

\* Every variable keeps its type.
THEOREM TypeCorrect == Spec => []TypeOK
<1>1. IInv => TypeOK
  BY DEF IInv
<1> QED BY <1>1, Inductive, PTL

\* The receiver's three tables and the descriptor table always agree.
THEOREM TablesAlwaysAgree == Spec => []TablesAgree
<1>1. IInv => TablesAgree
  BY DEF IInv, Core
<1> QED BY <1>1, Inductive, PTL

\* Every registration leads to the live MonitorMeta of its own connection,
\* unless a forked mailer holds that connection.
THEOREM RegistrationsStayLive == Spec => []RegistrationsLive
<1>1. IInv => RegistrationsLive
  <2> SUFFICES ASSUME IInv, NEW c \in Conn, reg[c] # None, c \notin held
               PROVE  \E fd \in Fd : /\ fdTable[fd] = c
                                     /\ heap[reg[c]] # None /\ heap[reg[c]].fd = fd
    BY DEF RegistrationsLive
  <2>1. PICK fd \in Fd : fdTable[fd] = c /\ c # None
    BY NameAssumption DEF IInv, Core, OnlyTheseRegistered, OpenConns
  <2>2. reg[c] = metas[fd] /\ heap[metas[fd]] # None /\ heap[metas[fd]].fd = fd
    BY <2>1 DEF IInv, Core, Registered, TablesAgree, DescriptorsLeadToTags
  <2> QED BY <2>1, <2>2
<1> QED BY <1>1, Inductive, PTL

-----------------------------------------------------------------------------
(* No step gives a tag that keeps its worker another descriptor.           *)

LEMMA TagStep ==
  ASSUME IInv, [Next]_vars, NEW t \in Tag, workers[t] # "none", workers'[t] # "none"
  PROVE  tagToFd'[t] = tagToFd[t]
<1>0. TypeOK /\ Core /\ TagsIssued
  BY DEF IInv
<1>1. CASE Accept
  <2>1. IsClient
    BY <1>1 DEF IInv, FreshBacklog, Accept
  <2>2. PICK fd \in FreeFd, p \in FreePtr : AddMeta(fd, nextTag, p, "kUnInit")
    BY <1>1 DEF Accept, NewTag, InitialState
  <2>3. t # nextTag
    <3>1. ~(nextTag < nextTag)
      BY <1>1, NameAssumption DEF Accept, NewTag
    <3> QED BY <1>0, <2>1, <3>1 DEF TagsIssued
  <2> QED BY <1>0, <2>2, <2>3 DEF AddMeta, TypeOK
<1>2. CASE OpenConnection
  <2>1. PICK u \in Tag, fd \in Fd, p \in Ptr :
          workers[u] = "none" /\ AddMeta(fd, u, p, "kGranted")
    BY <1>2 DEF OpenConnection, Processing, FreeFd, FreePtr
  <2> QED BY <1>0, <2>1 DEF AddMeta, TypeOK
<1>3. CASE ReadEnd \/ PeerFinished \/ UninitFails
  <2>1. PICK fd \in Fd : Shutdown(fd)
    <3>1. CASE ReadEnd
      BY <3>1 DEF ReadEnd
    <3>2. CASE PeerFinished \/ UninitFails
      <4>1. PICK u \in Tag : workers[u] # "none" /\ Shutdown(tagToFd[u])
        BY <3>2 DEF PeerFinished, UninitFails, Processing
      <4> QED BY <1>0, <4>1, TagFound
    <3> QED BY <1>3, <3>1, <3>2
  <2> DEFINE u == heap[metas[fd]].tag
  <2>2. /\ tagToFd' = [tagToFd EXCEPT ![u] = None]
        /\ workers' = [workers EXCEPT ![u] = "none"]
    BY <2>1 DEF Shutdown, DelMeta
  <2>3. t # u
    BY <1>0, <2>2 DEF TypeOK
  <2> QED BY <1>0, <2>2, <2>3 DEF TypeOK
<1>4. CASE ~(Accept \/ OpenConnection \/ ReadEnd \/ PeerFinished \/ UninitFails)
  <2>1. UNCHANGED tagToFd
    <3> USE DEF tables
    <3>1. CASE UNCHANGED vars
      BY <3>1 DEF vars
    <3>2. CASE Environment
      BY <3>2 DEF Environment, BrowserConnects, PeerSends, PeerEnds, MailArrives,
                  FetchData, ForkMailer, MailerExits
    <3>3. CASE EpollWait \/ AcceptFails \/ ReadData \/ ReadNothing \/ HandleFreed
      BY <3>3 DEF EpollWait, AcceptFails, ReadData, ReadNothing, HandleFreed
    <3>4. CASE ReadNotices \/ ReadFile \/ FilesDone
      BY <3>4 DEF ReadNotices, ReadFile, FilesDone
    <3>5. CASE UnknownTag \/ SocketFails \/ ConnectRefused \/ UninitAsserts \/ Deliver
      BY <3>5 DEF UnknownTag, SocketFails, ConnectRefused, UninitAsserts, Deliver
    <3> QED BY <1>4, <3>1, <3>2, <3>3, <3>4, <3>5
               DEF Next, Receive, HandleEvent, ProcessPacket
  <2> QED BY <2>1
<1> QED BY <1>1, <1>2, <1>3, <1>4

\* While a tag keeps its worker it keeps its descriptor.
THEOREM TagsKeepDescriptors == Spec => TagKeepsDescriptor
<1>1. IInv /\ [Next]_vars =>
        [\A t \in Tag : workers[t] # "none" /\ workers'[t] # "none"
                          => tagToFd'[t] = tagToFd[t]]_vars
  BY TagStep
<1> QED BY <1>1, Inductive, PTL DEF Spec, TagKeepsDescriptor

-----------------------------------------------------------------------------
(* No connection goes deaf.                                                *)

LEMMA OpenReg ==
  ASSUME IInv, NEW c \in OpenConns
  PROVE  \E fd \in Fd : /\ fdTable[fd] = c /\ c \in Conn
                        /\ reg[c] = metas[fd] /\ reg[c] \in Ptr
                        /\ heap[reg[c]] # None /\ heap[reg[c]].fd = fd
<1>1. PICK fd \in Fd : fdTable[fd] = c /\ c # None
  BY DEF OpenConns
<1>2. fdTable \in [Fd -> Conn \cup {None}] /\ metas \in [Fd -> Ptr \cup {None}]
  BY DEF IInv, TypeOK
<1>3. /\ c \in Conn /\ reg[c] = metas[fd] /\ metas[fd] # None
      /\ heap[metas[fd]] # None /\ heap[metas[fd]].fd = fd
  BY <1>1, <1>2 DEF IInv, Core, Registered, TablesAgree, DescriptorsLeadToTags
<1> QED BY <1>1, <1>2, <1>3

LEMMA BatchSet ==
  ASSUME IInv, batch # <<>>
  PROVE  ToSet(batch) = {Head(batch)} \cup ToSet(Tail(batch))
<1>1. batch \in Seq(Ptr \cup {Inotify, Listener})
  BY DEF IInv, TypeOK
<1> QED BY <1>1, TailSet

\* Steps that keep the connections that are open and not armed as they are.
LEMMA DeafFrame ==
  ASSUME NeverDeaf,
         \A c \in OpenConns' \ armed' :
           /\ c \in OpenConns \ armed
           /\ reg'[c] = reg[c]
           /\ rx[c] # <<>> => rx'[c] # <<>>
           /\ reg[c] \in ToSet(batch) => reg[c] \in ToSet(batch')
  PROVE  NeverDeaf'
BY DEF NeverDeaf

LEMMA EpollWaitDeaf == IInv /\ NeverDeaf /\ EpollWait => NeverDeaf'
<1> SUFFICES ASSUME IInv, NeverDeaf, EpollWait PROVE NeverDeaf'
  OBVIOUS
<1>0. PICK S \in SUBSET Ready :
        /\ \E q \in SetToSeqs(S) : batch' = [i \in DOMAIN q |-> DataPtr(q[i])]
        /\ armed' = armed \ S
  BY DEF EpollWait
<1>1. PICK q \in SetToSeqs(S) : batch' = [i \in DOMAIN q |-> DataPtr(q[i])]
  BY <1>0
<1>2. batch = <<>> /\ UNCHANGED <<fdTable, reg, rx>>
  BY DEF EpollWait
<1>3. IsFiniteSet(S)
  BY ReadyFinite, FS_Subset
<1>4. /\ q \in [1..Cardinality(S) -> S]
      /\ \A s \in S : \E i \in 1..Cardinality(S) : q[i] = s
  BY <1>1, <1>3, OrdersCover
<1> SUFFICES ASSUME NEW c \in OpenConns' \ armed'
             PROVE  reg'[c] \in ToSet(batch') /\ rx'[c] # <<>>
  BY DEF NeverDeaf
<1>5. c \in OpenConns
  BY <1>2 DEF OpenConns
<1>6. c \in S
  <2>1. c \in armed
    BY <1>2, <1>5 DEF NeverDeaf, ToSet
  <2> QED BY <1>0, <2>1
<1>7. c \in Conn
  BY <1>5, OpenReg
<1>8. DataPtr(c) = reg[c]
  BY <1>7 DEF DataPtr
<1>9. rx[c] # <<>>
  <2>1. Readable(c) /\ c # Inotify /\ c # Listener
    BY <1>6, <1>7, NameAssumption DEF Ready
  <2> QED BY <2>1 DEF Readable
<1>10. DataPtr(c) \in ToSet(batch')
  <2>1. PICK i \in 1..Cardinality(S) : q[i] = c
    BY <1>4, <1>6
  <2>2. i \in DOMAIN batch' /\ batch'[i] = DataPtr(c)
    BY <1>1, <1>4, <2>1
  <2> QED BY <2>2 DEF ToSet
<1> QED BY <1>2, <1>8, <1>9, <1>10

\* Steps after which the event at the head of the batch is handled: it was
\* not that of an open connection, or it is that of fd's connection.
LEMMA HandledDeaf ==
  ASSUME IInv, NeverDeaf, batch # <<>>, batch' = Tail(batch),
         UNCHANGED <<reg, rx>>, armed \subseteq armed',
         \A c \in OpenConns' : c \in OpenConns \/ c \in armed',
         \A c \in OpenConns : reg[c] = Head(batch) => c \in armed'
  PROVE  NeverDeaf'
BY BatchSet, DeafFrame

LEMMA SocketDeaf ==
  ASSUME IInv, NEW fd \in Fd, HandlingSocket(fd), NEW c \in OpenConns,
         reg[c] = Head(batch)
  PROVE  c = fdTable[fd]
BY OpenReg DEF HandlingSocket

\* A step that closes fd's connection and keeps the other ones.
LEMMA ClosedDeaf ==
  ASSUME IInv, NeverDeaf, NEW fd \in Fd, fdTable[fd] # None, Shutdown(fd),
         held' = held,
         \A c \in OpenConns : c # fdTable[fd] /\ reg[c] \in ToSet(batch)
                                => reg[c] \in ToSet(batch'),
         \A c \in OpenConns : c # fdTable[fd] => rx'[c] = rx[c]
  PROVE  NeverDeaf'
<1>1. OpenConns' = OpenConns \ {fdTable[fd]}
  BY ShutdownCore, TypesOfTables DEF IInv
<1>2. /\ reg' = IF fdTable[fd] \in held THEN reg
                ELSE [reg EXCEPT ![fdTable[fd]] = None]
      /\ armed' = IF fdTable[fd] \in held THEN armed ELSE armed \ {fdTable[fd]}
  BY DEF Shutdown, CloseFd
<1>3. reg \in [Conn -> Ptr \cup {None}]
  BY DEF IInv, TypeOK
<1>4. \A c \in OpenConns : c \in Conn
  BY OpenReg
<1>5. \A c \in OpenConns' : c \in OpenConns /\ c # fdTable[fd] /\ reg'[c] = reg[c]
  BY <1>1, <1>2, <1>3, <1>4
<1>6. \A c \in OpenConns' \ armed' : c \notin armed
  BY <1>2, <1>5
<1> QED BY <1>5, <1>6, DeafFrame

LEMMA AcceptDeaf == IInv /\ NeverDeaf /\ Accept => NeverDeaf'
<1> SUFFICES ASSUME IInv, NeverDeaf, Accept PROVE NeverDeaf'
  OBVIOUS
<1>1. PICK fd \in FreeFd, p \in FreePtr :
        AddMeta(fd, nextTag, p, "kUnInit") /\ Register(fd, Head(backlog), p)
  BY DEF Accept, NewTag, InitialState
<1>2. /\ armed' = armed \cup {Listener, Head(backlog)}
      /\ batch # <<>> /\ Head(batch) = Listener /\ batch' = Tail(batch)
      /\ rx' = rx
  BY DEF Accept, WatchClient, NextEvent, Handling
<1>3. /\ fdTable' = [fdTable EXCEPT ![fd] = Head(backlog)]
      /\ reg' = [reg EXCEPT ![Head(backlog)] = p]
  BY <1>1 DEF Register
<1>4. fdTable \in [Fd -> Conn \cup {None}] /\ reg \in [Conn -> Ptr \cup {None}]
  BY DEF IInv, TypeOK
<1>5. \A c \in OpenConns' : c = Head(backlog) \/ c \in OpenConns
  BY <1>3, <1>4 DEF OpenConns
<1>6. \A c \in OpenConns : c # Head(backlog) => reg'[c] = reg[c]
  BY <1>3, <1>4, OpenReg
<1>7. \A c \in OpenConns : reg[c] # Listener
  BY OpenReg, NameAssumption
<1>8. ToSet(batch) = {Listener} \cup ToSet(batch')
  BY <1>2, BatchSet
<1> QED BY <1>2, <1>5, <1>6, <1>7, <1>8, DeafFrame

LEMMA OpenConnectionDeaf == IInv /\ NeverDeaf /\ OpenConnection => NeverDeaf'
<1> SUFFICES ASSUME IInv, NeverDeaf, OpenConnection PROVE NeverDeaf'
  OBVIOUS
<1>1. PICK fd \in FreeFd, p \in FreePtr, c \in Conn \ used :
        Register(fd, c, p) /\ armed' = armed \cup {c}
  BY DEF OpenConnection
<1>2. rx' = rx /\ batch' = batch
  BY DEF OpenConnection, Processing
<1>3. /\ fdTable' = [fdTable EXCEPT ![fd] = c]
      /\ reg' = [reg EXCEPT ![c] = p]
  BY <1>1 DEF Register
<1>4. fdTable \in [Fd -> Conn \cup {None}] /\ reg \in [Conn -> Ptr \cup {None}]
  BY DEF IInv, TypeOK
<1>5. \A d \in OpenConns' : d = c \/ d \in OpenConns
  BY <1>3, <1>4 DEF OpenConns
<1>6. \A d \in OpenConns : d # c => reg'[d] = reg[d]
  BY <1>3, <1>4, OpenReg
<1> QED BY <1>1, <1>2, <1>5, <1>6, DeafFrame

LEMMA ReadDataDeaf == IInv /\ NeverDeaf /\ ReadData => NeverDeaf'
<1> SUFFICES ASSUME IInv, NeverDeaf, ReadData PROVE NeverDeaf'
  OBVIOUS
<1>1. PICK fd \in Fd : /\ HandlingSocket(fd)
                      /\ armed' = armed \cup {fdTable[fd]}
                      /\ rx' = [rx EXCEPT ![fdTable[fd]] = Tail(@)]
  BY DEF ReadData, Rearm
<1>2. batch # <<>> /\ batch' = Tail(batch) /\ UNCHANGED <<fdTable, reg>>
  BY <1>1 DEF ReadData, NextEvent, HandlingSocket
<1>3. OpenConns' = OpenConns
  BY <1>2 DEF OpenConns
<1>4. \A c \in OpenConns : c # fdTable[fd] => rx'[c] = rx[c]
  <2>1. rx \in [Conn -> Seq(Body \cup {"eof", "reset"})]
    BY DEF IInv, TypeOK
  <2>2. \A c \in OpenConns : c \in Conn
    BY OpenReg
  <2> QED BY <1>1, <2>1, <2>2
<1>5. \A c \in OpenConns : c # fdTable[fd] => reg[c] # Head(batch)
  BY <1>1, SocketDeaf
<1>6. ToSet(batch) = {Head(batch)} \cup ToSet(batch')
  BY <1>2, BatchSet
<1> QED BY <1>1, <1>2, <1>3, <1>4, <1>5, <1>6, DeafFrame

LEMMA ReadEndDeaf == IInv /\ NeverDeaf /\ ReadEnd => NeverDeaf'
<1> SUFFICES ASSUME IInv, NeverDeaf, ReadEnd PROVE NeverDeaf'
  OBVIOUS
<1>1. PICK fd \in Fd : /\ HandlingSocket(fd) /\ Shutdown(fd)
                      /\ rx' = [rx EXCEPT ![fdTable[fd]] = <<>>]
  BY DEF ReadEnd
<1>2. batch # <<>> /\ batch' = Tail(batch) /\ held' = held
  BY <1>1 DEF ReadEnd, NextEvent, HandlingSocket, peers
<1>3. fdTable[fd] # None
  BY <1>1, SocketFound, NameAssumption DEF IInv
<1>4. \A c \in OpenConns : c # fdTable[fd] => rx'[c] = rx[c]
  <2>1. rx \in [Conn -> Seq(Body \cup {"eof", "reset"})]
    BY DEF IInv, TypeOK
  <2>2. \A c \in OpenConns : c \in Conn
    BY OpenReg
  <2> QED BY <1>1, <2>1, <2>2
<1>5. \A c \in OpenConns : c # fdTable[fd] => reg[c] # Head(batch)
  BY <1>1, SocketDeaf
<1>6. ToSet(batch) = {Head(batch)} \cup ToSet(batch')
  BY <1>2, BatchSet
<1> QED BY <1>1, <1>2, <1>3, <1>4, <1>5, <1>6, ClosedDeaf

LEMMA ShutdownByMailDeaf ==
  IInv /\ NeverDeaf /\ (PeerFinished \/ UninitFails) => NeverDeaf'
<1> SUFFICES ASSUME IInv, NeverDeaf, PeerFinished \/ UninitFails PROVE NeverDeaf'
  OBVIOUS
<1>1. PICK t \in Tag : /\ workers[t] # "none" /\ Shutdown(tagToFd[t])
                       /\ batch' = batch
  BY DEF PeerFinished, UninitFails, Processing
<1>2. tagToFd[t] \in Fd /\ fdTable[tagToFd[t]] # None
  BY <1>1, TagFound DEF IInv
<1>3. rx' = rx /\ held' = held
  BY DEF PeerFinished, UninitFails, peers
<1> QED BY <1>1, <1>2, <1>3, ClosedDeaf

\* Events that read nothing: the handler finds no connection to be read.
LEMMA IdleEventDeaf ==
  ASSUME IInv, NeverDeaf,
         AcceptFails \/ ReadNothing \/ HandleFreed \/ FilesDone
  PROVE  NeverDeaf'
<1>1. /\ batch # <<>> /\ batch' = Tail(batch) /\ UNCHANGED <<fdTable, reg, rx>>
      /\ armed \subseteq armed'
  BY DEF AcceptFails, ReadNothing, HandleFreed, FilesDone, WatchMaildir,
         Handling, HandlingSocket, NextEvent, kernel, IInv, ReadingHead
<1>2. OpenConns' = OpenConns
  BY <1>1 DEF OpenConns
<1>3. ASSUME NEW c \in OpenConns, reg[c] = Head(batch) PROVE c \in armed
  <2>1. CASE AcceptFails
    BY <2>1, <1>3, OpenReg, NameAssumption DEF AcceptFails, Handling
  <2>2. CASE FilesDone
    BY <2>2, <1>3, OpenReg, NameAssumption DEF FilesDone, IInv, ReadingHead
  <2>3. CASE HandleFreed
    BY <2>3, <1>3, OpenReg DEF HandleFreed
  <2>4. CASE ReadNothing
    <3>1. PICK fd \in Fd : HandlingSocket(fd) /\ rx[fdTable[fd]] = <<>>
      BY <2>4 DEF ReadNothing
    <3>2. c = fdTable[fd]
      BY <3>1, <1>3, SocketDeaf
    <3> QED BY <3>1, <3>2 DEF NeverDeaf
  <2> QED BY <2>1, <2>2, <2>3, <2>4
<1> QED BY <1>1, <1>2, <1>3, HandledDeaf

\* Steps that neither handle an event nor open or close a connection.
LEMMA QuietDeaf ==
  ASSUME IInv, NeverDeaf,
         \/ UNCHANGED vars
         \/ ReadNotices \/ ReadFile
         \/ UnknownTag \/ SocketFails \/ ConnectRefused \/ UninitAsserts \/ Deliver
         \/ BrowserConnects \/ FetchData \/ ForkMailer
         \/ \E n \in Name, s \in Mails : MailArrives(n, s)
  PROVE  NeverDeaf'
<1> USE DEF kernel, loop
<1>1. UNCHANGED <<fdTable, reg, armed, rx, batch>>
  <2>1. CASE UNCHANGED vars
    BY <2>1 DEF vars
  <2>2. CASE ReadNotices \/ ReadFile
    BY <2>2 DEF ReadNotices, ReadFile
  <2>3. CASE UnknownTag \/ SocketFails \/ ConnectRefused \/ UninitAsserts \/ Deliver
    BY <2>3 DEF UnknownTag, SocketFails, ConnectRefused, UninitAsserts, Deliver,
                Processing
  <2>4. CASE BrowserConnects \/ FetchData \/ ForkMailer
    BY <2>4 DEF BrowserConnects, FetchData, ForkMailer
  <2>5. CASE \E n \in Name, s \in Mails : MailArrives(n, s)
    BY <2>5 DEF MailArrives
  <2> QED BY <2>1, <2>2, <2>3, <2>4, <2>5
<1> QED BY <1>1 DEF NeverDeaf, OpenConns

LEMMA PeerDeaf == IInv /\ NeverDeaf /\ (PeerSends \/ PeerEnds) => NeverDeaf'
<1> SUFFICES ASSUME IInv, NeverDeaf, PeerSends \/ PeerEnds PROVE NeverDeaf'
  OBVIOUS
<1>1. PICK c \in Conn, x \in Body \cup {"eof", "reset"} :
        rx' = [rx EXCEPT ![c] = Append(@, x)]
  BY DEF PeerSends, PeerEnds
<1>2. UNCHANGED <<fdTable, reg, armed, batch>>
  BY DEF PeerSends, PeerEnds, kernel, loop
<1>3. rx \in [Conn -> Seq(Body \cup {"eof", "reset"})]
  BY DEF IInv, TypeOK
<1>4. Append(rx[c], x) # <<>>
  <2>1. Len(Append(rx[c], x)) = Len(rx[c]) + 1 /\ Len(rx[c]) \in Nat
    BY <1>3, AppendProperties, LenProperties
  <2> QED BY <2>1, EmptySeq
<1>5. \A d \in Conn : rx[d] # <<>> => rx'[d] # <<>>
  BY <1>1, <1>3, <1>4
<1>6. OpenConns' = OpenConns /\ \A d \in OpenConns : d \in Conn
  BY <1>2, OpenReg DEF OpenConns
<1> QED BY <1>2, <1>5, <1>6, DeafFrame

LEMMA MailerExitsDeaf == IInv /\ NeverDeaf /\ MailerExits => NeverDeaf'
<1> SUFFICES ASSUME IInv, NeverDeaf, MailerExits PROVE NeverDeaf'
  OBVIOUS
<1>1. /\ reg' = [c \in Conn |-> IF c \in held \ OpenConns THEN None ELSE reg[c]]
      /\ armed' = armed \ (held \ OpenConns)
      /\ UNCHANGED <<fdTable, rx, batch>>
  BY DEF MailerExits, loop
<1>2. OpenConns' = OpenConns /\ \A d \in OpenConns : d \in Conn
  BY <1>1, OpenReg DEF OpenConns
<1> QED BY <1>1, <1>2, DeafFrame

\* A disabled connection has its event in the batch and something to read.
THEOREM NobodyGoesDeaf == Spec => []NeverDeaf
<1>1. Init => NeverDeaf
  BY DEF Init, NeverDeaf, OpenConns
<1>2. IInv /\ NeverDeaf /\ [Next]_vars => NeverDeaf'
  BY QuietDeaf, EpollWaitDeaf, AcceptDeaf, OpenConnectionDeaf, ReadDataDeaf,
     ReadEndDeaf, ShutdownByMailDeaf, IdleEventDeaf, PeerDeaf, MailerExitsDeaf
     DEF Next, Receive, HandleEvent, ProcessPacket, Environment
<1> QED BY <1>1, <1>2, Inductive, PTL DEF Spec

-----------------------------------------------------------------------------
(* The client's last packet of a tag.                                      *)

\* Steps that queue nothing and give no dead tag a worker.
LEMMA LastFrame ==
  ASSUME ControlIsLast, UNCHANGED mailq, nextTag' \in Nat, nextTag \in Nat,
         nextTag <= nextTag', mailq \in Seq(Packet),
         IsClient => \A t \in Tag :
                       t < nextTag /\ workers[t] = "none" => workers'[t] = "none"
  PROVE  ControlIsLast'
<1>1. \A i \in DOMAIN mailq : mailq[i].tag \in Tag
  <2>1. \A i \in DOMAIN mailq : mailq[i] \in Packet
    BY ElementOfSeq, LenProperties
  <2> QED BY <2>1 DEF Packet
<1>2. Tag \subseteq Nat
  BY NameAssumption
<1>3. \A i \in DOMAIN mailq : mailq[i].tag < nextTag => mailq[i].tag < nextTag'
  <2>1. \A k \in Nat : k < nextTag => k < nextTag'
    OBVIOUS
  <2> QED BY <1>1, <1>2, <2>1
<1> QED BY <1>1, <1>3 DEF ControlIsLast

\* A packet is queued under a tag that has a worker; if it is the last one
\* the worker goes.
LEMMA LastAppend ==
  ASSUME IInv, ControlIsLast, NEW t \in Tag, NEW pkt \in Packet, pkt.tag = t,
         workers[t] # "none", mailq' = Append(mailq, pkt), nextTag' = nextTag,
         workers' = [workers EXCEPT ![t] = IF IsData(pkt) THEN "kGranted" ELSE "none"]
  PROVE  ControlIsLast'
<1> SUFFICES ASSUME IsClient PROVE ControlIsLast'
  BY DEF ControlIsLast
<1>1. /\ mailq \in Seq(Packet) /\ t < nextTag
      /\ workers \in [Tag -> {"none", "kUnInit", "kGranted"}]
  BY DEF IInv, TypeOK, TagsIssued
<1>2. /\ DOMAIN mailq = 1..Len(mailq) /\ Len(mailq) \in Nat
      /\ DOMAIN mailq' = 1..(Len(mailq)+1)
      /\ \A i \in 1..Len(mailq) : mailq'[i] = mailq[i]
      /\ mailq'[Len(mailq)+1] = pkt
  <2>1. /\ mailq' \in Seq(Packet) /\ Len(mailq') = Len(mailq)+1
        /\ \A i \in 1..Len(mailq) : mailq'[i] = mailq[i]
        /\ mailq'[Len(mailq)+1] = pkt
    BY <1>1, AppendProperties
  <2> QED BY <1>1, <2>1, LenProperties
<1>3. \A i \in 1..Len(mailq) : mailq[i].tag \in Tag
  <2>1. \A i \in 1..Len(mailq) : mailq[i] \in Packet
    BY <1>1, ElementOfSeq
  <2> QED BY <2>1 DEF Packet
<1> SUFFICES ASSUME NEW i \in DOMAIN mailq', ~IsData(mailq'[i])
             PROVE  /\ workers'[mailq'[i].tag] = "none"
                    /\ mailq'[i].tag < nextTag'
                    /\ \A j \in DOMAIN mailq' : j > i => mailq'[j].tag # mailq'[i].tag
  BY DEF ControlIsLast, IsData
<1>4. CASE i = Len(mailq)+1
  <2>1. mailq'[i] = pkt /\ ~IsData(pkt)
    BY <1>2, <1>4
  <2>2. \A j \in DOMAIN mailq' : ~(j > i)
    BY <1>2, <1>4
  <2> QED BY <1>1, <2>1, <2>2
<1>5. CASE i \in 1..Len(mailq)
  <2>1. mailq'[i] = mailq[i] /\ ~IsData(mailq[i])
    BY <1>2, <1>5
  <2>2. /\ workers[mailq[i].tag] = "none" /\ mailq[i].tag < nextTag
        /\ \A j \in DOMAIN mailq : j > i => mailq[j].tag # mailq[i].tag
    BY <1>2, <1>5, <2>1 DEF ControlIsLast
  <2>3. mailq[i].tag # t /\ mailq[i].tag \in Tag
    BY <1>3, <1>5, <2>2
  <2>4. workers'[mailq[i].tag] = "none"
    BY <1>1, <2>2, <2>3
  <2>5. \A j \in DOMAIN mailq' : j \in DOMAIN mailq \/ mailq'[j].tag = t
    BY <1>2
  <2> QED BY <1>2, <2>1, <2>2, <2>3, <2>4, <2>5
<1> QED BY <1>2, <1>4, <1>5

LEMMA FetchLast == IInv /\ ControlIsLast /\ FetchData => ControlIsLast'
<1> SUFFICES ASSUME IInv, ControlIsLast, FetchData, IsClient PROVE ControlIsLast'
  BY DEF ControlIsLast
<1>1. mailq # <<>> /\ mailq' = Tail(mailq) /\ UNCHANGED <<workers, nextTag>>
  BY DEF FetchData, tables
<1>2. mailq \in Seq(Packet)
  BY DEF IInv, TypeOK
<1>3. /\ DOMAIN mailq = 1..Len(mailq) /\ Len(mailq) \in Nat
      /\ DOMAIN mailq' = 1..(Len(mailq)-1)
      /\ \A i \in 1..Len(mailq)-1 : mailq'[i] = mailq[i+1]
  <2>1. /\ mailq' \in Seq(Packet) /\ Len(mailq') = Len(mailq)-1
        /\ \A i \in 1..Len(mailq)-1 : mailq'[i] = mailq[i+1]
    BY <1>1, <1>2, HeadTailProperties
  <2> QED BY <1>2, <2>1, LenProperties
<1>4. \A i \in DOMAIN mailq' : i+1 \in DOMAIN mailq /\ mailq'[i] = mailq[i+1]
  BY <1>3
<1>5. \A i, j \in DOMAIN mailq' : j > i => j+1 > i+1
  BY <1>3
<1> QED BY <1>1, <1>4, <1>5 DEF ControlIsLast, IsData

LEMMA LastStep == ASSUME IInv, ControlIsLast, [Next]_vars PROVE ControlIsLast'
<1>0. /\ TypeOK /\ Core /\ nextTag \in Nat /\ mailq \in Seq(Packet)
      /\ workers \in [Tag -> {"none", "kUnInit", "kGranted"}]
  BY DEF IInv, TypeOK
<1>1. CASE Accept
  <2>1. PICK fd \in FreeFd, p \in FreePtr : AddMeta(fd, nextTag, p, "kUnInit")
    BY <1>1 DEF Accept, NewTag, InitialState
  <2>2. nextTag' = nextTag + 1 /\ mailq' = mailq
    BY <1>1 DEF Accept
  <2>3. \A t \in Tag : t < nextTag => workers'[t] = workers[t]
    BY <1>0, <2>1 DEF AddMeta
  <2>4. nextTag' \in Nat /\ nextTag <= nextTag'
    BY <1>0, <2>2
  <2> QED BY <1>0, <2>2, <2>3, <2>4, LastFrame
<1>2. CASE ReadData
  <2>1. PICK fd \in Fd :
          LET c == fdTable[fd]  t == heap[metas[fd]].tag IN
          /\ HandlingSocket(fd) /\ Head(rx[c]) \in Body
          /\ mailq' = Append(mailq, DataPacket(t, Head(rx[c])))
          /\ workers' = [workers EXCEPT ![t] = "kGranted"]
    BY <1>2 DEF ReadData
  <2> DEFINE t == heap[metas[fd]].tag
             pkt == DataPacket(t, Head(rx[fdTable[fd]]))
  <2>2. t \in Tag /\ workers[t] # "none"
    BY <1>0, <2>1, SocketFound
  <2>3. pkt \in Packet /\ pkt.tag = t /\ IsData(pkt)
    BY <2>1, <2>2 DEF DataPacket, Packet, IsData
  <2>4. nextTag' = nextTag
    BY <1>2 DEF ReadData
  <2> HIDE DEF pkt, t
  <2>5. mailq' = Append(mailq, pkt) /\ workers' = [workers EXCEPT ![t] = "kGranted"]
    BY <2>1 DEF pkt, t
  <2> QED BY <2>2, <2>3, <2>4, <2>5, LastAppend
<1>3. CASE ReadEnd
  <2>1. PICK fd \in Fd :
          /\ HandlingSocket(fd) /\ Shutdown(fd)
          /\ mailq' = Append(mailq, EndPacket(heap[metas[fd]].tag,
                                              Head(rx[fdTable[fd]])))
    BY <1>3 DEF ReadEnd
  <2> DEFINE t == heap[metas[fd]].tag
             pkt == EndPacket(t, Head(rx[fdTable[fd]]))
  <2>2. t \in Tag /\ workers[t] # "none"
    BY <1>0, <2>1, SocketFound
  <2>3. pkt \in Packet /\ pkt.tag = t /\ ~IsData(pkt)
    BY <2>1, <2>2 DEF EndPacket, Packet, IsData
  <2>4. nextTag' = nextTag /\ workers' = [workers EXCEPT ![t] = "none"]
    BY <1>3, <2>1 DEF ReadEnd, Shutdown
  <2> HIDE DEF pkt, t
  <2>5. mailq' = Append(mailq, pkt)
    BY <2>1 DEF pkt, t
  <2> QED BY <2>2, <2>3, <2>4, <2>5, LastAppend
<1>4. CASE FetchData
  BY <1>4, FetchLast
<1>5. CASE PeerFinished \/ UninitFails
  <2>1. PICK t \in Tag : workers[t] # "none" /\ Shutdown(tagToFd[t])
    BY <1>5 DEF PeerFinished, UninitFails, Processing
  <2>2. \A u \in Tag : workers[u] = "none" => workers'[u] = "none"
    BY <1>0, <2>1, TagFound DEF Shutdown
  <2>3. UNCHANGED <<mailq, nextTag>>
    BY <1>5 DEF PeerFinished, UninitFails
  <2> QED BY <1>0, <2>2, <2>3, LastFrame
<1>6. CASE OpenConnection
  BY <1>6 DEF OpenConnection, ControlIsLast
<1>7. CASE ~(Accept \/ ReadData \/ ReadEnd \/ FetchData \/ PeerFinished
               \/ UninitFails \/ OpenConnection)
  <2> USE DEF tables
  <2>1. UNCHANGED <<workers, nextTag, mailq>>
    <3>1. CASE UNCHANGED vars
      BY <3>1 DEF vars
    <3>2. CASE Environment
      BY <1>7, <3>2 DEF Environment, BrowserConnects, PeerSends, PeerEnds,
                        MailArrives, ForkMailer, MailerExits
    <3>3. CASE EpollWait \/ AcceptFails \/ ReadNothing \/ HandleFreed
      BY <3>3 DEF EpollWait, AcceptFails, ReadNothing, HandleFreed
    <3>4. CASE ReadNotices \/ ReadFile \/ FilesDone
      BY <3>4 DEF ReadNotices, ReadFile, FilesDone
    <3>5. CASE UnknownTag \/ SocketFails \/ ConnectRefused \/ UninitAsserts \/ Deliver
      BY <3>5 DEF UnknownTag, SocketFails, ConnectRefused, UninitAsserts, Deliver
    <3> QED BY <1>7, <3>1, <3>2, <3>3, <3>4, <3>5
               DEF Next, Receive, HandleEvent, ProcessPacket
  <2> QED BY <1>0, <2>1, LastFrame
<1> QED BY <1>1, <1>2, <1>3, <1>4, <1>5, <1>6, <1>7

\* Nothing follows a tag's Fini or Err in the client's queue.
THEOREM ControlStaysLast == Spec => []ControlIsLast
<1>1. Init => ControlIsLast
  BY DEF Init, ControlIsLast
<1> QED BY <1>1, LastStep, Inductive, PTL DEF Spec

-----------------------------------------------------------------------------
(* The client keeps listening.                                             *)

\* The listener is watched, or its event is in the batch, once, and the
\* browser it is about still waits.
ListenerEvent ==
  IsClient =>
    /\ Listener \in armed \cup ToSet(batch)
    /\ Listener \in ToSet(batch) => Listener \notin armed /\ backlog # <<>>
    /\ \A i, j \in DOMAIN batch : batch[i] = Listener /\ batch[j] = Listener => i = j

\* Every connection finds a descriptor.
EnoughFds == IsFiniteSet(Fd) => Cardinality(Conn) <= Cardinality(Fd)

\* Steps that handle no event and leave the listener alone.
LEMMA ListenerFrame ==
  ASSUME ListenerEvent, UNCHANGED batch, backlog # <<>> => backlog' # <<>>,
         Listener \in armed' <=> Listener \in armed
  PROVE  ListenerEvent'
BY DEF ListenerEvent

\* The events behind the head of the batch.
LEMMA BatchTail ==
  ASSUME IInv, batch # <<>>
  PROVE  /\ DOMAIN batch = 1..Len(batch) /\ Len(batch) \in Nat
         /\ DOMAIN Tail(batch) = 1..(Len(batch)-1)
         /\ Head(batch) = batch[1] /\ 1 \in DOMAIN batch
         /\ \A i \in DOMAIN Tail(batch) :
              i+1 \in DOMAIN batch /\ Tail(batch)[i] = batch[i+1]
<1>1. batch \in Seq(Ptr \cup {Inotify, Listener})
  BY DEF IInv, TypeOK
<1>2. /\ Tail(batch) \in Seq(Ptr \cup {Inotify, Listener})
      /\ Len(Tail(batch)) = Len(batch)-1
      /\ \A i \in 1..Len(batch)-1 : Tail(batch)[i] = batch[i+1]
  BY <1>1, HeadTailProperties
<1>3. /\ DOMAIN batch = 1..Len(batch) /\ DOMAIN Tail(batch) = 1..(Len(batch)-1)
      /\ Len(batch) \in Nat /\ Len(batch) # 0
  BY <1>1, <1>2, EmptySeq, LenProperties
<1> QED BY <1>2, <1>3

\* Steps that handle the event of another.
LEMMA ListenerKept ==
  ASSUME IInv, ListenerEvent, batch # <<>>, Head(batch) # Listener,
         batch' = Tail(batch), UNCHANGED backlog,
         Listener \in armed' <=> Listener \in armed
  PROVE  ListenerEvent'
<1> SUFFICES ASSUME IsClient PROVE ListenerEvent'
  BY DEF ListenerEvent
<1>1. Listener \in ToSet(batch') <=> Listener \in ToSet(batch)
  BY BatchSet
<1>2. \A i, j \in DOMAIN batch' :
        batch'[i] = Listener /\ batch'[j] = Listener => i+1 = j+1
  BY BatchTail DEF ListenerEvent
<1>3. \A i, j \in DOMAIN batch' :
        batch'[i] = Listener /\ batch'[j] = Listener => i = j
  BY <1>2, BatchTail
<1> QED BY <1>1, <1>3 DEF ListenerEvent

\* The event is returned once, and only when a browser waits.
LEMMA EpollWaitListener == ASSUME IInv, ListenerEvent, EpollWait
                           PROVE  ListenerEvent'
<1> SUFFICES ASSUME IsClient PROVE ListenerEvent'
  BY DEF ListenerEvent
<1>1. PICK S \in SUBSET Ready :
        /\ \E q \in SetToSeqs(S) : batch' = [i \in DOMAIN q |-> DataPtr(q[i])]
        /\ armed' = armed \ S
  BY DEF EpollWait
<1>2. PICK q \in SetToSeqs(S) : batch' = [i \in DOMAIN q |-> DataPtr(q[i])]
  BY <1>1
<1>3. IsFiniteSet(S)
  BY ReadyFinite, FS_Subset
<1>4. /\ q \in [1..Cardinality(S) -> S]
      /\ \A s \in S : \E i \in 1..Cardinality(S) : q[i] = s
      /\ \A i, j \in 1..Cardinality(S) : i # j => q[i] # q[j]
  <2>1. \A i, j \in 1..Cardinality(S) : i # j => q[i] # q[j]
    BY <1>2 DEF SetToSeqs
  <2> QED BY <1>2, <1>3, <2>1, OrdersCover
<1>5. \A s \in S : DataPtr(s) = Listener <=> s = Listener
  <2>1. \A s \in S : s \in Conn => reg[s] \in Ptr
    BY DEF Ready, IInv, TypeOK, ArmedRegistered
  <2> QED BY <2>1, NameAssumption DEF DataPtr
<1>6. DOMAIN batch' = 1..Cardinality(S)
      /\ \A i \in 1..Cardinality(S) : batch'[i] = DataPtr(q[i])
  BY <1>2, <1>4
<1>7. Listener \in ToSet(batch') <=> Listener \in S
  BY <1>4, <1>5, <1>6 DEF ToSet
<1>8. \A i, j \in DOMAIN batch' :
        batch'[i] = Listener /\ batch'[j] = Listener => i = j
  BY <1>4, <1>5, <1>6
<1>9. Listener \in armed
  BY DEF EpollWait, ListenerEvent, ToSet
<1>10. backlog' = backlog /\ (Listener \in S => backlog # <<>>)
  <2>1. Readable(Listener) => backlog # <<>>
    BY NameAssumption DEF Readable
  <2> QED BY <2>1 DEF EpollWait, peers, Ready
<1> QED BY <1>1, <1>7, <1>8, <1>9, <1>10 DEF ListenerEvent

\* The handler arms the listener again.
LEMMA AcceptListener == ASSUME IInv, ListenerEvent, Accept PROVE ListenerEvent'
<1> SUFFICES ASSUME IsClient PROVE ListenerEvent'
  BY DEF ListenerEvent
<1>1. batch # <<>> /\ Head(batch) = Listener /\ batch' = Tail(batch)
  BY DEF Accept, Handling, NextEvent
<1>2. Listener \in armed'
  BY DEF Accept, WatchClient
<1>3. \A i \in DOMAIN batch' : batch'[i] # Listener
  <2>1. ASSUME NEW i \in DOMAIN batch', batch'[i] = Listener PROVE FALSE
    <3>1. i \in Nat /\ i+1 \in DOMAIN batch /\ batch[i+1] = Listener
      BY <1>1, <2>1, BatchTail
    <3>2. 1 \in DOMAIN batch /\ batch[1] = Listener /\ i+1 # 1
      BY <1>1, <2>1, BatchTail
    <3> QED BY <3>1, <3>2 DEF ListenerEvent
  <2> QED BY <2>1
<1> QED BY <1>2, <1>3 DEF ListenerEvent, ToSet

\* Whoever waits for accept() has no descriptor, so one is left.
LEMMA AcceptSucceeds ==
  ASSUME IInv, ListenerEvent, EnoughFds, IsClient PROVE ~AcceptFails
<1> SUFFICES ASSUME AcceptFails PROVE FALSE
  OBVIOUS
<1> DEFINE c == Head(backlog)
<1>1. c \in Conn /\ c \notin OpenConns
  <2>1. Listener \in ToSet(batch)
    BY BatchSet DEF AcceptFails, Handling
  <2>2. backlog # <<>> /\ backlog \in Seq(Conn)
    BY <2>1 DEF ListenerEvent, IInv, TypeOK
  <2>3. c \in ToSet(backlog) /\ c \in Conn
    BY <2>2, TailSet, HeadTailProperties
  <2> QED BY <2>3 DEF IInv, FreshBacklog
<1>2. fdTable \in Injection(Fd, Conn)
  <2>1. \A fd \in Fd : fdTable[fd] # None
    BY DEF AcceptFails, FreeFd
  <2>2. fdTable \in [Fd -> Conn]
    BY <2>1 DEF IInv, TypeOK
  <2>3. \A f, g \in Fd : fdTable[f] = fdTable[g] => f = g
    BY <2>1 DEF IInv, Core, OneDescriptor
  <2> QED BY <2>2, <2>3 DEF Injection, IsInjective
<1>3. /\ IsFiniteSet(Fd) /\ Cardinality(Fd) <= Cardinality(Conn)
      /\ Cardinality(Fd) = Cardinality(Conn) <=> fdTable \in Surjection(Fd, Conn)
  BY <1>2, ConnAssumption, FS_Injection
<1>4. fdTable \in Surjection(Fd, Conn)
  <2>1. Cardinality(Fd) \in Nat /\ Cardinality(Conn) \in Nat
    BY <1>3, ConnAssumption, FS_CardinalityType
  <2> QED BY <1>3, <2>1 DEF EnoughFds
<1>5. PICK fd \in Fd : fdTable[fd] = c
  BY <1>1, <1>4 DEF Surjection
<1>6. c # None
  BY <1>1, NameAssumption
<1> QED BY <1>1, <1>5, <1>6 DEF OpenConns

\* Closing a descriptor leaves the listener alone.
LEMMA ShutdownListener ==
  ASSUME IInv, NEW fd \in Fd, fdTable[fd] # None, Shutdown(fd)
  PROVE  Listener \in armed' <=> Listener \in armed
<1>1. fdTable[fd] # Listener
  BY NameAssumption DEF IInv, TypeOK
<1> QED BY <1>1 DEF Shutdown, CloseFd

\* The handlers of the other events.
LEMMA SocketListener ==
  ASSUME IInv, ListenerEvent,
         ReadData \/ ReadEnd \/ ReadNothing \/ HandleFreed \/ FilesDone
  PROVE  ListenerEvent'
<1>1. batch # <<>> /\ Head(batch) # Listener /\ batch' = Tail(batch)
      /\ UNCHANGED backlog
  BY NameAssumption DEF ReadData, ReadEnd, ReadNothing, HandleFreed, FilesDone,
     HandlingSocket, NextEvent, IInv, ReadingHead, peers
<1>2. Listener \in armed' <=> Listener \in armed
  <2>1. CASE ReadData
    <3>1. PICK fd \in Fd : HandlingSocket(fd) /\ Rearm(fd)
      BY <2>1 DEF ReadData
    <3>2. fdTable[fd] # Listener
      BY <3>1, SocketFound, NameAssumption DEF IInv
    <3> QED BY <3>1, <3>2 DEF Rearm
  <2>2. CASE ReadEnd
    <3>1. PICK fd \in Fd : HandlingSocket(fd) /\ Shutdown(fd)
      BY <2>2 DEF ReadEnd
    <3>2. fdTable[fd] # None
      BY <3>1, SocketFound, NameAssumption DEF IInv
    <3> QED BY <3>1, <3>2, ShutdownListener
  <2>3. CASE ReadNothing \/ HandleFreed
    BY <2>3 DEF ReadNothing, HandleFreed, kernel
  <2>4. CASE FilesDone
    BY <2>4, NameAssumption DEF FilesDone, WatchMaildir
  <2> QED BY <2>1, <2>2, <2>3, <2>4
<1> QED BY <1>1, <1>2, ListenerKept

\* Packets of a mail open and close connections.
LEMMA PacketListener ==
  ASSUME IInv, ListenerEvent, ProcessPacket PROVE ListenerEvent'
<1>1. UNCHANGED <<batch, backlog>>
  BY DEF ProcessPacket, UnknownTag, SocketFails, OpenConnection, ConnectRefused,
     UninitAsserts, UninitFails, Deliver, PeerFinished, Processing, peers
<1>2. Listener \in armed' <=> Listener \in armed
  <2>1. CASE UnknownTag \/ SocketFails \/ ConnectRefused \/ UninitAsserts \/ Deliver
    BY <2>1 DEF UnknownTag, SocketFails, ConnectRefused, UninitAsserts, Deliver, kernel
  <2>2. CASE OpenConnection
    BY <2>2, NameAssumption DEF OpenConnection
  <2>3. CASE UninitFails \/ PeerFinished
    <3>1. PICK t \in Tag : workers[t] # "none" /\ Shutdown(tagToFd[t])
      BY <2>3 DEF UninitFails, PeerFinished, Processing
    <3> QED BY <3>1, TagFound, ShutdownListener DEF IInv
  <2> QED BY <2>1, <2>2, <2>3 DEF ProcessPacket
<1> QED BY <1>1, <1>2, ListenerFrame

\* The environment, and the files, leave the listener alone.
LEMMA EnvironmentListener ==
  ASSUME IInv, ListenerEvent, Environment \/ ReadNotices \/ ReadFile \/ UNCHANGED vars
  PROVE  ListenerEvent'
<1>1. CASE BrowserConnects
  <2>1. PICK c \in Conn : backlog' = Append(backlog, c)
    BY <1>1 DEF BrowserConnects
  <2>2. backlog' # <<>>
    <3>1. Len(backlog') = Len(backlog) + 1 /\ Len(backlog) \in Nat
      BY <2>1, AppendProperties, LenProperties DEF IInv, TypeOK
    <3> QED BY <3>1, EmptySeq
  <2> QED BY <1>1, <2>2, ListenerFrame DEF BrowserConnects, kernel, loop
<1>2. CASE MailerExits
  <2>1. Listener \notin held
    BY NameAssumption DEF IInv, TypeOK
  <2> QED BY <1>2, <2>1, ListenerFrame DEF MailerExits, loop
<1>3. CASE \/ PeerSends \/ PeerEnds \/ FetchData \/ ForkMailer \/ ReadNotices
           \/ ReadFile \/ (\E n \in Name, s \in Mails : MailArrives(n, s))
           \/ UNCHANGED vars
  <2>1. UNCHANGED <<batch, backlog, armed>>
    BY <1>3 DEF PeerSends, PeerEnds, FetchData, ForkMailer, ReadNotices, ReadFile,
       MailArrives, vars, kernel, peers, loop
  <2> QED BY <2>1, ListenerFrame
<1> QED BY <1>1, <1>2, <1>3 DEF Environment

\* While every connection finds a descriptor the client keeps listening: the
\* listener is armed, or its event is still to be handled and accept() will
\* succeed and arm it.  With fewer descriptors process_sock_acc returns
\* without arming it.
THEOREM ListenerStaysWatched == ASSUME EnoughFds
                                PROVE  Spec => []ListenerWatched
<1>1. Init => ListenerEvent
  BY DEF Init, ListenerEvent, ToSet
<1>2. IInv /\ ListenerEvent /\ [Next]_vars => ListenerEvent'
  <2> SUFFICES ASSUME IInv, ListenerEvent, [Next]_vars, IsClient PROVE ListenerEvent'
    BY DEF ListenerEvent
  <2>1. ~AcceptFails
    BY AcceptSucceeds
  <2> QED
    BY <2>1, EpollWaitListener, AcceptListener, SocketListener, PacketListener,
       EnvironmentListener
    DEF Next, Receive, HandleEvent
<1>3. ListenerEvent => ListenerWatched
  BY DEF ListenerEvent, ListenerWatched
<1> QED BY <1>1, <1>2, <1>3, Inductive, PTL DEF Spec

-----------------------------------------------------------------------------
(* Tags: what one end of a composition needs to know of the other.         *)

Tags(queue) == {queue[i].tag : i \in DOMAIN queue}

LEMMA AppendTags ==
  ASSUME NEW s \in Seq(Packet), NEW pkt \in Packet
  PROVE  /\ Append(s, pkt) \in Seq(Packet)
         /\ Tags(Append(s, pkt)) = Tags(s) \cup {pkt.tag}
<1>1. /\ Append(s, pkt) \in Seq(Packet)
      /\ Len(Append(s, pkt)) = Len(s)+1
      /\ \A i \in 1..Len(s) : Append(s, pkt)[i] = s[i]
      /\ Append(s, pkt)[Len(s)+1] = pkt
  BY AppendProperties
<1>2. /\ DOMAIN s = 1..Len(s) /\ DOMAIN Append(s, pkt) = 1..(Len(s)+1)
      /\ Len(s) \in Nat
  BY <1>1, LenProperties
<1>3. Tags(s) \cup {pkt.tag} \subseteq Tags(Append(s, pkt))
  BY <1>1, <1>2 DEF Tags
<1>4. Tags(Append(s, pkt)) \subseteq Tags(s) \cup {pkt.tag}
  BY <1>1, <1>2 DEF Tags
<1> QED BY <1>1, <1>3, <1>4

LEMMA TailTags ==
  ASSUME NEW s \in Seq(Packet), s # <<>>
  PROVE  Tags(Tail(s)) \subseteq Tags(s) /\ Head(s).tag \in Tags(s)
<1>1. /\ Tail(s) \in Seq(Packet) /\ Len(Tail(s)) = Len(s)-1
      /\ \A i \in 1..Len(s)-1 : Tail(s)[i] = s[i+1]
  BY HeadTailProperties
<1>2. /\ DOMAIN s = 1..Len(s) /\ DOMAIN Tail(s) = 1..(Len(s)-1)
      /\ Len(s) \in Nat /\ Len(s) > 0 /\ Head(s) = s[1]
  BY <1>1, LenProperties, EmptySeq
<1>3. \A i \in DOMAIN Tail(s) : i+1 \in DOMAIN s /\ Tail(s)[i] = s[i+1]
  BY <1>1, <1>2
<1>4. 1 \in DOMAIN s
  BY <1>2
<1> QED BY <1>2, <1>3, <1>4 DEF Tags

\* What a step of the receiving thread does with tags: it queues packets of
\* connections that have a worker past kUnInit, it gives workers to new tags
\* (the client) or to those of the packets it has read (the server), and it
\* fails SockSender::connect's assertion for such a packet only.
ReceiveEffect ==
  /\ nextTag' \in Nat /\ nextTag <= nextTag' /\ UNCHANGED spool
  /\ \/ mailq' = mailq
     \/ \E pkt \in Packet : /\ mailq' = Append(mailq, pkt)
                            /\ workers[pkt.tag] # "none"
                            /\ workers'[pkt.tag] # "kUnInit"
  /\ \A t \in Tag : workers'[t] = "kUnInit" =>
       workers[t] = "kUnInit" \/ (IsClient /\ t = nextTag)
  /\ \A t \in Tag : ~IsClient /\ workers'[t] # "none" =>
       workers[t] # "none" \/ t \in Tags(work)
  /\ \A t \in Tags(work') : t \in Tags(work) \/ \E n \in Name : t \in Tags(spool[n])
  /\ status' = "data->size == 6" =>
       \/ status = "data->size == 6"
       \/ \E t \in Tags(work) \cap Tag : workers[t] = "kUnInit"

LEMMA ReceiveTags == ASSUME IInv, Receive PROVE ReceiveEffect
<1> USE DEF tables, kernel
<1>1. /\ TypeOK /\ Core /\ nextTag \in Nat /\ mailq \in Seq(Packet)
      /\ work \in Seq(Packet)
      /\ workers \in [Tag -> {"none", "kUnInit", "kGranted"}]
  BY DEF IInv, TypeOK
<1>2. CASE Accept
  <2>1. PICK fd \in FreeFd, p \in FreePtr : AddMeta(fd, nextTag, p, "kUnInit")
    BY <1>2 DEF Accept, NewTag, InitialState
  <2>2. /\ nextTag' = nextTag + 1 /\ UNCHANGED <<work, mailq, spool, status>>
        /\ IsClient
    BY <1>1, <1>2 DEF Accept, NextEvent, mail, IInv, FreshBacklog
  <2>3. nextTag' \in Nat /\ nextTag <= nextTag'
    BY <1>1, <2>2
  <2>4. \A t \in Tag : workers'[t] = workers[t] \/ t = nextTag
    BY <1>1, <2>1 DEF AddMeta
  <2> QED BY <2>2, <2>3, <2>4 DEF ReceiveEffect
<1>3. CASE ReadData
  <2>1. PICK fd \in Fd :
          LET c == fdTable[fd]  t == heap[metas[fd]].tag IN
          /\ HandlingSocket(fd) /\ Head(rx[c]) \in Body
          /\ mailq' = Append(mailq, DataPacket(t, Head(rx[c])))
          /\ workers' = [workers EXCEPT ![t] = "kGranted"]
    BY <1>3 DEF ReadData
  <2> DEFINE t == heap[metas[fd]].tag
             pkt == DataPacket(t, Head(rx[fdTable[fd]]))
  <2>2. t \in Tag /\ workers[t] # "none"
    BY <1>1, <2>1, SocketFound
  <2>3. pkt \in Packet /\ pkt.tag = t
    BY <2>1, <2>2 DEF DataPacket, Packet
  <2>4. UNCHANGED <<nextTag, work, spool, status>>
    BY <1>3 DEF ReadData, NextEvent, mail
  <2> HIDE DEF pkt, t
  <2>5. mailq' = Append(mailq, pkt) /\ workers' = [workers EXCEPT ![t] = "kGranted"]
    BY <2>1 DEF pkt, t
  <2>6. nextTag <= nextTag'
    BY <1>1, <2>4
  <2> QED BY <1>1, <2>2, <2>3, <2>4, <2>5, <2>6 DEF ReceiveEffect
<1>4. CASE ReadEnd
  <2>1. PICK fd \in Fd :
          /\ HandlingSocket(fd) /\ Shutdown(fd)
          /\ mailq' = Append(mailq, EndPacket(heap[metas[fd]].tag,
                                              Head(rx[fdTable[fd]])))
    BY <1>4 DEF ReadEnd
  <2> DEFINE t == heap[metas[fd]].tag
             pkt == EndPacket(t, Head(rx[fdTable[fd]]))
  <2>2. t \in Tag /\ workers[t] # "none"
    BY <1>1, <2>1, SocketFound
  <2>3. pkt \in Packet /\ pkt.tag = t
    BY <2>1, <2>2 DEF EndPacket, Packet
  <2>4. UNCHANGED <<nextTag, work, spool, status>>
    BY <1>4 DEF ReadEnd, NextEvent, mail
  <2>5. workers' = [workers EXCEPT ![t] = "none"]
    BY <2>1 DEF Shutdown
  <2> HIDE DEF pkt, t
  <2>6. mailq' = Append(mailq, pkt)
    BY <2>1 DEF pkt, t
  <2>7. nextTag <= nextTag'
    BY <1>1, <2>4
  <2> QED BY <1>1, <2>2, <2>3, <2>4, <2>5, <2>6, <2>7 DEF ReceiveEffect
<1>5. CASE ReadFile
  <2>1. /\ paths # <<>> /\ work' = spool[Head(paths)]
        /\ UNCHANGED <<nextTag, spool, status, mailq, workers>>
    BY <1>5 DEF ReadFile, mail
  <2>2. Head(paths) \in Name
    BY <1>1, <2>1, QueueTypes
  <2>3. nextTag <= nextTag'
    BY <1>1, <2>1
  <2> QED BY <1>1, <2>1, <2>2, <2>3 DEF ReceiveEffect
<1>6. CASE ProcessPacket
  <2>1. PICK t \in Tag, state \in {"none", "kUnInit", "kGranted"} : Processing(t, state)
    BY <1>6 DEF ProcessPacket, UnknownTag, SocketFails, OpenConnection, ConnectRefused,
                UninitAsserts, UninitFails, Deliver, PeerFinished
  <2>2. /\ work # <<>> /\ t = Head(work).tag /\ work' = Tail(work)
        /\ UNCHANGED paths
    BY <2>1 DEF Processing
  <2>3. Tags(work') \subseteq Tags(work) /\ t \in Tags(work)
    BY <1>1, <2>2, TailTags
  <2>4. UNCHANGED <<nextTag, spool, mailq>>
    BY <1>6 DEF ProcessPacket, UnknownTag, SocketFails, OpenConnection, ConnectRefused,
                UninitAsserts, UninitFails, Deliver, PeerFinished, mail
  <2>5. status' = status \/ workers[t] = "kUnInit"
    BY <1>6, <2>2 DEF ProcessPacket, UnknownTag, SocketFails, OpenConnection,
                ConnectRefused, UninitAsserts, UninitFails, Deliver, PeerFinished,
                mail, Processing
  <2>6. \A u \in Tag : workers'[u] = workers[u] \/ workers'[u] = "none"
                        \/ (u = t /\ workers'[u] = "kGranted")
    <3>1. CASE OpenConnection
      <4>1. workers' = [workers EXCEPT ![t] = "kGranted"]
        BY <2>2, <3>1 DEF OpenConnection, AddMeta, Processing
      <4> QED BY <1>1, <4>1
    <3>2. CASE UninitFails \/ PeerFinished
      <4>1. PICK v \in Tag : workers[v] # "none" /\ Shutdown(tagToFd[v])
        BY <3>2 DEF UninitFails, PeerFinished, Processing
      <4> QED BY <1>1, <4>1 DEF Shutdown
    <3>3. CASE UNCHANGED workers
      BY <3>3
    <3> QED BY <1>6, <3>1, <3>2, <3>3 DEF ProcessPacket, UnknownTag, SocketFails,
               ConnectRefused, UninitAsserts, Deliver
  <2>7. nextTag <= nextTag'
    BY <1>1, <2>4
  <2> QED BY <1>1, <2>3, <2>4, <2>5, <2>6, <2>7 DEF ReceiveEffect
<1>7. CASE \/ EpollWait \/ AcceptFails \/ ReadNothing \/ HandleFreed
           \/ ReadNotices \/ FilesDone
  <2>1. UNCHANGED <<nextTag, spool, mailq, workers, work>>
    BY <1>7 DEF EpollWait, AcceptFails, ReadNothing, HandleFreed, ReadNotices, FilesDone,
                NextEvent, mail
  <2>2. status' = "data->size == 6" => status = "data->size == 6"
    BY <1>7 DEF EpollWait, AcceptFails, ReadNothing, HandleFreed, ReadNotices, FilesDone
  <2>3. nextTag <= nextTag'
    BY <1>1, <2>1
  <2> QED BY <1>1, <2>1, <2>2, <2>3 DEF ReceiveEffect
<1> QED BY <1>2, <1>3, <1>4, <1>5, <1>6, <1>7 DEF Receive, HandleEvent

-----------------------------------------------------------------------------
(* Mails: what is still to be read of a stream of packets.                 *)

\* The packets of got after the first w are those of the file at hand and of
\* the files still to be read, each of which is there once.
Pending(files, content, now, got, w) ==
  /\ \A i, j \in DOMAIN files : files[i] = files[j] => i = j
  /\ \E cut \in [1 .. Len(files)+1 -> 0 .. Len(got)] :
       /\ w <= cut[1] /\ now = SubSeq(got, w+1, cut[1])
       /\ \A k \in 1 .. Len(files) :
            /\ cut[k] <= cut[k+1]
            /\ content[files[k]] = SubSeq(got, cut[k]+1, cut[k+1])
       /\ cut[Len(files)+1] = Len(got)

\* The files still to be read, and between events nothing is at hand.
Files == paths \o notices
NothingAtHand == ~reading => paths = <<>> /\ work = <<>>

LEMMA PieceFacts ==
  ASSUME NEW S, NEW got \in Seq(S), NEW a \in Nat, NEW b \in 0 .. Len(got), a <= b
  PROVE  /\ SubSeq(got, a+1, b) \in Seq(S)
         /\ Len(SubSeq(got, a+1, b)) = b - a
         /\ \A i \in 1 .. (b-a) : SubSeq(got, a+1, b)[i] = got[a+i]
         /\ SubSeq(got, a+1, b) = <<>> <=> a = b
<1>1. Len(got) \in Nat
  BY LenProperties
<1>2. /\ SubSeq(got, a+1, b) \in Seq(S)
      /\ Len(SubSeq(got, a+1, b)) = IF a+1 <= b THEN b-(a+1)+1 ELSE 0
      /\ \A i \in 1..Len(SubSeq(got, a+1, b)) : SubSeq(got, a+1, b)[i] = got[a+1+i-1]
  BY <1>1, SubSeqProperties
<1>3. Len(SubSeq(got, a+1, b)) = b - a
  BY <1>1, <1>2
<1>4. \A i \in 1 .. (b-a) : SubSeq(got, a+1, b)[i] = got[a+i]
  BY <1>1, <1>2, <1>3
<1>5. SubSeq(got, a+1, b) = <<>> <=> Len(SubSeq(got, a+1, b)) = 0
  BY <1>2, EmptySeq
<1> QED BY <1>1, <1>2, <1>3, <1>4, <1>5

\* A packet of the file at hand is processed.
LEMMA PendingNext ==
  ASSUME NEW S, NEW got \in Seq(S), NEW w \in 0 .. Len(got), NEW files \in Seq(Name),
         NEW content, NEW now, Pending(files, content, now, got, w), now # <<>>
  PROVE  /\ w + 1 \in 1 .. Len(got) /\ Head(now) = got[w+1]
         /\ Pending(files, content, Tail(now), got, w+1)
<1>1. PICK cut \in [1 .. Len(files)+1 -> 0 .. Len(got)] :
        /\ w <= cut[1] /\ now = SubSeq(got, w+1, cut[1])
        /\ \A k \in 1 .. Len(files) :
             /\ cut[k] <= cut[k+1]
             /\ content[files[k]] = SubSeq(got, cut[k]+1, cut[k+1])
        /\ cut[Len(files)+1] = Len(got)
  BY DEF Pending
<1>2. Len(got) \in Nat /\ Len(files) \in Nat /\ w \in Nat
  BY LenProperties
<1> DEFINE m == cut[1]
<1>3. m \in 0 .. Len(got) /\ w <= m
  BY <1>1, <1>2
<1>4. now = SubSeq(got, w+1, m)
  BY <1>1
<1> HIDE DEF m
<1>5. /\ now \in Seq(S) /\ Len(now) = m - w /\ w # m
      /\ \A i \in 1 .. (m-w) : now[i] = got[w+i]
  BY <1>2, <1>3, <1>4, PieceFacts
<1>6. w + 1 <= m /\ w + 1 \in 1 .. Len(got)
  BY <1>2, <1>3, <1>5
<1>7. Head(now) = got[w+1]
  BY <1>2, <1>3, <1>5
<1>8. Tail(now) = SubSeq(got, (w+1)+1, m)
  <2> DEFINE piece == SubSeq(got, (w+1)+1, m)
  <2>1. /\ piece \in Seq(S) /\ Len(piece) = m - (w+1)
        /\ \A i \in 1 .. (m-(w+1)) : piece[i] = got[(w+1)+i]
    BY <1>2, <1>3, <1>6, PieceFacts
  <2>2. /\ Tail(now) \in Seq(S) /\ Len(Tail(now)) = Len(now)-1
        /\ \A i \in 1..Len(now)-1 : Tail(now)[i] = now[i+1]
    BY <1>5, HeadTailProperties
  <2> HIDE DEF piece
  <2>3. Len(piece) = Len(Tail(now))
    BY <1>2, <1>3, <1>5, <2>1, <2>2
  <2>4. ASSUME NEW i \in 1 .. Len(piece) PROVE piece[i] = Tail(now)[i]
    <3>1. i \in 1 .. (m-(w+1)) /\ i+1 \in 1 .. (m-w) /\ i \in 1..Len(now)-1
      BY <1>2, <1>3, <1>5, <2>1, <2>4
    <3>2. piece[i] = got[(w+1)+i] /\ Tail(now)[i] = now[i+1] /\ now[i+1] = got[w+(i+1)]
      BY <1>5, <2>1, <2>2, <3>1
    <3>3. (w+1)+i = w+(i+1)
      BY <1>2
    <3> QED BY <3>2, <3>3
  <2>5. piece = Tail(now)
    BY <2>1, <2>2, <2>3, <2>4, SeqEqual
  <2> QED BY <2>5 DEF piece
<1> QED BY <1>1, <1>2, <1>6, <1>7, <1>8 DEF Pending, m

\* The next file is opened.
LEMMA PendingFile ==
  ASSUME NEW S, NEW got \in Seq(S), NEW w \in 0 .. Len(got), NEW files \in Seq(Name),
         NEW content, Pending(files, content, <<>>, got, w), files # <<>>
  PROVE  Pending(Tail(files), content, content[Head(files)], got, w)
<1>1. PICK cut \in [1 .. Len(files)+1 -> 0 .. Len(got)] :
        /\ w <= cut[1] /\ <<>> = SubSeq(got, w+1, cut[1])
        /\ \A k \in 1 .. Len(files) :
             /\ cut[k] <= cut[k+1]
             /\ content[files[k]] = SubSeq(got, cut[k]+1, cut[k+1])
        /\ cut[Len(files)+1] = Len(got)
  BY DEF Pending
<1>2. Len(got) \in Nat /\ Len(files) \in Nat \ {0} /\ w \in Nat
  BY LenProperties, EmptySeq
<1>3. /\ Tail(files) \in Seq(Name) /\ Len(Tail(files)) = Len(files)-1
      /\ \A i \in 1..Len(files)-1 : Tail(files)[i] = files[i+1]
      /\ Head(files) = files[1]
  BY <1>2, HeadTailProperties
<1>4. cut[1] = w
  <2> DEFINE m == cut[1]
  <2>1. 1 \in 1 .. Len(files)+1
    BY <1>2
  <2>2. m \in 0 .. Len(got) /\ w <= m /\ <<>> = SubSeq(got, w+1, m)
    BY <1>1, <2>1
  <2> HIDE DEF m
  <2>3. Len(SubSeq(got, w+1, m)) = m - w
    BY <1>2, <2>2, PieceFacts
  <2>4. Len(SubSeq(got, w+1, m)) = 0
    BY <2>2, EmptySeq
  <2>5. m = w
    BY <1>2, <2>2, <2>3, <2>4
  <2> QED BY <2>5 DEF m
<1> DEFINE cut1 == [k \in 1 .. Len(Tail(files))+1 |-> cut[k+1]]
<1>5. cut1 \in [1 .. Len(Tail(files))+1 -> 0 .. Len(got)]
  BY <1>2, <1>3
<1>6. w <= cut1[1] /\ content[Head(files)] = SubSeq(got, w+1, cut1[1])
  <2>1. 1 \in 1 .. Len(files) /\ 1 \in 1 .. Len(Tail(files))+1 /\ cut1[1] = cut[2]
    BY <1>2, <1>3
  <2>2. cut[1] <= cut[1+1] /\ content[files[1]] = SubSeq(got, cut[1]+1, cut[1+1])
    BY <1>1, <2>1
  <2> QED BY <1>3, <1>4, <2>1, <2>2
<1>7. ASSUME NEW k \in 1 .. Len(Tail(files))
      PROVE  /\ cut1[k] <= cut1[k+1]
             /\ content[Tail(files)[k]] = SubSeq(got, cut1[k]+1, cut1[k+1])
  <2>1. k+1 \in 1 .. Len(files) /\ Tail(files)[k] = files[k+1]
        /\ cut1[k] = cut[k+1] /\ cut1[k+1] = cut[(k+1)+1]
    BY <1>2, <1>3
  <2>2. /\ cut[k+1] <= cut[(k+1)+1]
        /\ content[files[k+1]] = SubSeq(got, cut[k+1]+1, cut[(k+1)+1])
    BY <1>1, <2>1
  <2> QED BY <2>1, <2>2
<1>8. cut1[Len(Tail(files))+1] = Len(got)
  BY <1>1, <1>2, <1>3
<1>9. \A i, j \in DOMAIN Tail(files) : Tail(files)[i] = Tail(files)[j] => i = j
  <2>1. DOMAIN files = 1 .. Len(files) /\ DOMAIN Tail(files) = 1 .. (Len(files)-1)
    BY <1>3, LenProperties
  <2>2. \A i \in DOMAIN Tail(files) : i+1 \in DOMAIN files /\ Tail(files)[i] = files[i+1] /\ i \in Nat
    BY <1>2, <1>3, <2>1
  <2>3. ASSUME NEW i \in DOMAIN Tail(files), NEW j \in DOMAIN Tail(files),
               Tail(files)[i] = Tail(files)[j]
        PROVE  i = j
    <3>1. i+1 = j+1
      BY <2>2, <2>3 DEF Pending
    <3> QED BY <2>2, <3>1
  <2> QED BY <2>3
<1> HIDE DEF cut1
<1> QED BY <1>5, <1>6, <1>7, <1>8, <1>9 DEF Pending

\* A file arrives with what is new of the stream.
LEMMA PendingMail ==
  ASSUME NEW S, NEW got1 \in Seq(S), NEW got \in Seq(S), IsPrefix(got, got1),
         NEW w \in 0 .. Len(got), NEW files \in Seq(Name), NEW content \in [Name -> Seq(S)],
         NEW now, Pending(files, content, now, got, w),
         NEW n \in Name, \A i \in DOMAIN files : files[i] # n
  PROVE  Pending(Append(files, n),
                 [content EXCEPT ![n] = SubSeq(got1, Len(got)+1, Len(got1))], now, got1, w)
<1>1. PICK cut \in [1 .. Len(files)+1 -> 0 .. Len(got)] :
        /\ w <= cut[1] /\ now = SubSeq(got, w+1, cut[1])
        /\ \A k \in 1 .. Len(files) :
             /\ cut[k] <= cut[k+1]
             /\ content[files[k]] = SubSeq(got, cut[k]+1, cut[k+1])
        /\ cut[Len(files)+1] = Len(got)
  BY DEF Pending
<1>2. /\ Len(got) \in Nat /\ Len(got1) \in Nat /\ Len(files) \in Nat /\ w \in Nat
      /\ Len(got) <= Len(got1) /\ got = SubSeq(got1, 1, Len(got))
      /\ DOMAIN files = 1 .. Len(files)
  BY LenProperties DEF IsPrefix
<1>3. \A i \in 1 .. Len(got) : got[i] = got1[i]
  <2>1. \A i \in 1 .. Len(got) : SubSeq(got1, 1, Len(got))[i] = got1[i]
    BY <1>2
  <2> QED BY <1>2, <2>1
<1>4. ASSUME NEW a \in 0 .. Len(got), NEW b \in 0 .. Len(got), a <= b
      PROVE  SubSeq(got, a+1, b) = SubSeq(got1, a+1, b)
  <2> DEFINE x == SubSeq(got, a+1, b)
             y == SubSeq(got1, a+1, b)
  <2>1. /\ x \in Seq(S) /\ Len(x) = b-a
        /\ \A i \in 1 .. (b-a) : x[i] = got[a+i]
    BY <1>2, <1>4, PieceFacts
  <2>2. b \in 0 .. Len(got1) /\ a \in Nat
    BY <1>2
  <2>3. /\ y \in Seq(S) /\ Len(y) = b-a
        /\ \A i \in 1 .. (b-a) : y[i] = got1[a+i]
    BY <1>4, <2>2, PieceFacts
  <2> HIDE DEF x, y
  <2>4. \A i \in 1 .. (b-a) : a+i \in 1 .. Len(got)
    BY <1>2
  <2>5. \A i \in 1 .. Len(x) : x[i] = y[i]
    BY <1>3, <2>1, <2>3, <2>4
  <2>6. x = y
    BY <2>1, <2>3, <2>5, SeqEqual
  <2> QED BY <2>6 DEF x, y
<1> DEFINE files1 == Append(files, n)
           content1 == [content EXCEPT ![n] = SubSeq(got1, Len(got)+1, Len(got1))]
           cut1 == [k \in 1 .. Len(files1)+1 |-> IF k <= Len(files)+1 THEN cut[k] ELSE Len(got1)]
<1>5. /\ files1 \in Seq(Name) /\ Len(files1) = Len(files)+1
      /\ \A i \in 1 .. Len(files) : files1[i] = files[i]
      /\ files1[Len(files)+1] = n
      /\ DOMAIN files1 = 1 .. (Len(files)+1)
  BY AppendProperties, LenProperties
<1>6. cut1 \in [1 .. Len(files1)+1 -> 0 .. Len(got1)]
  <2>1. \A m \in 0 .. Len(got) : m \in 0 .. Len(got1)
    BY <1>2
  <2>2. \A k \in 1 .. Len(files)+1 : cut[k] \in 0 .. Len(got1)
    BY <1>1, <2>1
  <2>3. \A k \in 1 .. Len(files1)+1 :
          (IF k <= Len(files)+1 THEN cut[k] ELSE Len(got1)) \in 0 .. Len(got1)
    <3>1. Len(got1) \in 0 .. Len(got1)
      BY <1>2
    <3>2. \A k \in 1 .. Len(files1)+1 : k <= Len(files)+1 => k \in 1 .. Len(files)+1
      BY <1>2, <1>5
    <3> QED BY <2>2, <3>1, <3>2
  <2> QED BY <2>3
<1>7. /\ \A k \in 1 .. Len(files)+1 : cut1[k] = cut[k]
      /\ cut1[(Len(files)+1)+1] = Len(got1)
      /\ cut1[Len(files)+1] = Len(got)
  <2>1. \A k \in 1 .. Len(files)+1 : k \in 1 .. Len(files1)+1 /\ k <= Len(files)+1
    BY <1>2, <1>5
  <2>2. /\ (Len(files)+1)+1 \in 1 .. Len(files1)+1 /\ ~((Len(files)+1)+1 <= Len(files)+1)
        /\ Len(files)+1 \in 1 .. Len(files)+1
    BY <1>2, <1>5
  <2> QED BY <1>1, <2>1, <2>2
<1>8. w <= cut1[1] /\ now = SubSeq(got1, w+1, cut1[1])
  <2>1. 1 \in 1 .. Len(files)+1
    BY <1>2
  <2>2. cut1[1] = cut[1] /\ cut[1] \in 0 .. Len(got)
    BY <1>1, <1>7, <2>1
  <2> QED BY <1>1, <1>4, <2>2
<1>9. ASSUME NEW k \in 1 .. Len(files1)
      PROVE  /\ cut1[k] <= cut1[k+1]
             /\ content1[files1[k]] = SubSeq(got1, cut1[k]+1, cut1[k+1])
  <2>1. CASE k \in 1 .. Len(files)
    <3>1. /\ k \in 1 .. Len(files)+1 /\ k+1 \in 1 .. Len(files)+1
          /\ k \in DOMAIN files /\ files1[k] = files[k]
      BY <1>2, <1>5, <2>1
    <3>2. cut1[k] = cut[k] /\ cut1[k+1] = cut[k+1]
          /\ cut[k] \in 0 .. Len(got) /\ cut[k+1] \in 0 .. Len(got)
      BY <1>1, <1>7, <3>1
    <3>3. cut[k] <= cut[k+1] /\ content[files[k]] = SubSeq(got, cut[k]+1, cut[k+1])
      BY <1>1, <2>1
    <3>4. SubSeq(got, cut[k]+1, cut[k+1]) = SubSeq(got1, cut[k]+1, cut[k+1])
      BY <1>4, <3>2, <3>3
    <3>5. content1[files1[k]] = content[files[k]]
      <4>1. files[k] # n /\ files[k] \in Name
        BY <2>1, <3>1, ElementOfSeq
      <4> QED BY <3>1, <4>1
    <3> QED BY <3>2, <3>3, <3>4, <3>5
  <2>2. CASE k = Len(files)+1
    <3>1. files1[k] = n /\ cut1[k] = Len(got) /\ cut1[k+1] = Len(got1)
      BY <1>5, <1>7, <2>2
    <3>2. content1[n] = SubSeq(got1, Len(got)+1, Len(got1))
      OBVIOUS
    <3> QED BY <1>2, <3>1, <3>2
  <2>3. k \in 1 .. Len(files) \/ k = Len(files)+1
    <3> DEFINE l == Len(files)
               l1 == Len(files1)
    <3>1. l \in Nat /\ l1 = l + 1 /\ k \in 1 .. l1
      BY <1>2, <1>5
    <3> HIDE DEF l, l1
    <3>2. k \in 1 .. l \/ k = l + 1
      BY <3>1
    <3> QED BY <3>2 DEF l
  <2> QED BY <2>1, <2>2, <2>3
<1>10. cut1[Len(files1)+1] = Len(got1)
  BY <1>5, <1>7
<1>11. \A i, j \in DOMAIN files1 : files1[i] = files1[j] => i = j
  <2>1. \A i, j \in 1 .. Len(files) : files[i] = files[j] => i = j
    BY <1>2 DEF Pending
  <2>2. \A i \in 1 .. Len(files) : files[i] # n
    BY <1>2
  <2>3. \A i \in DOMAIN files1 : i \in 1 .. Len(files) \/ i = Len(files)+1
    BY <1>2, <1>5
  <2> HIDE DEF files1
  <2> QED BY <1>5, <2>1, <2>2, <2>3
<1> HIDE DEF cut1, content1, files1
<1>12. Pending(files1, content1, now, got1, w)
  BY <1>6, <1>8, <1>9, <1>10, <1>11 DEF Pending
<1> QED BY <1>12 DEF files1, content1

LEMMA FilesFacts ==
  ASSUME NEW p \in Seq(Name), NEW q \in Seq(Name)
  PROVE  /\ p \o q \in Seq(Name)
         /\ p = <<>> => p \o q = q
         /\ q \o <<>> = q
         /\ p # <<>> => /\ p \o q # <<>> /\ Head(p \o q) = Head(p)
                        /\ Tail(p \o q) = Tail(p) \o q
         /\ \A i \in DOMAIN (p \o q) : (p \o q)[i] \in ToSet(p) \cup ToSet(q)
<1>1. /\ p \o q \in Seq(Name) /\ Len(p \o q) = Len(p) + Len(q)
      /\ \A i \in 1 .. Len(p) + Len(q) :
           (p \o q)[i] = IF i <= Len(p) THEN p[i] ELSE q[i - Len(p)]
  BY ConcatProperties
<1>2. /\ Len(p) \in Nat /\ Len(q) \in Nat
      /\ DOMAIN p = 1 .. Len(p) /\ DOMAIN q = 1 .. Len(q)
      /\ DOMAIN (p \o q) = 1 .. (Len(p) + Len(q))
  BY <1>1, LenProperties
<1>3. p = <<>> => p \o q = q
  BY ConcatEmptySeq
<1>4. q \o <<>> = q
  BY ConcatEmptySeq
<1>5. ASSUME p # <<>>
      PROVE  /\ p \o q # <<>> /\ Head(p \o q) = Head(p)
             /\ Tail(p \o q) = Tail(p) \o q
  <2>1. Len(p) > 0
    BY <1>2, <1>5, EmptySeq
  <2>2. p \o q # <<>>
    BY <1>1, <1>2, <2>1, EmptySeq
  <2>3. Head(p \o q) = Head(p)
    BY <1>1, <1>2, <2>1, <2>2, HeadTailProperties
  <2>4. /\ Tail(p) \in Seq(Name) /\ Len(Tail(p)) = Len(p)-1
        /\ \A i \in 1..Len(p)-1 : Tail(p)[i] = p[i+1]
    BY <1>5, HeadTailProperties
  <2>5. /\ Tail(p \o q) \in Seq(Name) /\ Len(Tail(p \o q)) = Len(p \o q)-1
        /\ \A i \in 1..Len(p \o q)-1 : Tail(p \o q)[i] = (p \o q)[i+1]
    BY <1>1, <2>2, HeadTailProperties
  <2>6. /\ Tail(p) \o q \in Seq(Name) /\ Len(Tail(p) \o q) = Len(Tail(p)) + Len(q)
        /\ \A i \in 1 .. Len(Tail(p)) + Len(q) :
             (Tail(p) \o q)[i] = IF i <= Len(Tail(p)) THEN Tail(p)[i]
                                 ELSE q[i - Len(Tail(p))]
    BY <2>4, ConcatProperties
  <2>7. Len(Tail(p \o q)) = Len(Tail(p) \o q)
    BY <1>1, <1>2, <2>1, <2>4, <2>5, <2>6
  <2>8. ASSUME NEW i \in 1 .. Len(Tail(p \o q)) PROVE Tail(p \o q)[i] = (Tail(p) \o q)[i]
    <3>1. /\ i \in Nat /\ i \in 1..Len(p \o q)-1 /\ i+1 \in 1 .. Len(p)+Len(q)
          /\ i \in 1 .. Len(Tail(p)) + Len(q)
      BY <1>1, <1>2, <2>4, <2>5, <2>8
    <3>2. Tail(p \o q)[i] = IF i+1 <= Len(p) THEN p[i+1] ELSE q[(i+1) - Len(p)]
      BY <1>1, <2>5, <3>1
    <3>3. (Tail(p) \o q)[i] = IF i <= Len(p)-1 THEN Tail(p)[i] ELSE q[i - (Len(p)-1)]
      BY <2>4, <2>6, <3>1
    <3>4. CASE i+1 <= Len(p)
      <4>1. i <= Len(p)-1 /\ i \in 1..Len(p)-1
        BY <1>2, <3>1, <3>4
      <4> QED BY <2>4, <3>2, <3>3, <3>4, <4>1
    <3>5. CASE ~(i+1 <= Len(p))
      <4>1. ~(i <= Len(p)-1) /\ (i+1) - Len(p) = i - (Len(p)-1)
        BY <1>2, <3>1, <3>5
      <4> QED BY <3>2, <3>3, <3>5, <4>1
    <3> QED BY <3>4, <3>5
  <2>9. Tail(p \o q) = Tail(p) \o q
    BY <2>5, <2>6, <2>7, <2>8, SeqEqual
  <2> QED BY <2>2, <2>3, <2>9
<1>7. ASSUME NEW i \in DOMAIN (p \o q)
      PROVE  (p \o q)[i] \in ToSet(p) \cup ToSet(q)
  <2>1. CASE i <= Len(p)
    <3>1. i \in DOMAIN p /\ (p \o q)[i] = p[i]
      BY <1>1, <1>2, <1>7, <2>1
    <3> QED BY <3>1 DEF ToSet
  <2>2. CASE ~(i <= Len(p))
    <3>1. i - Len(p) \in DOMAIN q /\ (p \o q)[i] = q[i - Len(p)]
      BY <1>1, <1>2, <1>7, <2>2
    <3> QED BY <3>1 DEF ToSet
  <2> QED BY <2>1, <2>2
<1> QED BY <1>1, <1>3, <1>4, <1>5, <1>7

LEMMA FilesAppend ==
  ASSUME NEW p \in Seq(Name), NEW q \in Seq(Name), NEW n \in Name
  PROVE  p \o Append(q, n) = Append(p \o q, n)
<1>1. p \o q \in Seq(Name) /\ <<n>> \in Seq(Name)
  BY ConcatProperties
<1>2. Append(q, n) = q \o <<n>> /\ Append(p \o q, n) = (p \o q) \o <<n>>
  BY <1>1, AppendIsConcat, Zenon
<1>3. (p \o q) \o <<n>> = p \o (q \o <<n>>)
  <2> DEFINE last == <<n>>
  <2>1. last \in Seq(Name)
    BY <1>1
  <2> HIDE DEF last
  <2>2. (p \o q) \o last = p \o (q \o last)
    BY <2>1, ConcatAssociative
  <2> QED BY <2>2 DEF last
<1> QED BY <1>2, <1>3, Zenon

\* What a step of the receiving thread takes from the mails: nothing, or the
\* next packet of the stream, which it processes.
LEMMA ReceivePending ==
  ASSUME IInv, NothingAtHand, Receive,
         NEW got \in Seq(Packet), NEW w \in 0 .. Len(got),
         Pending(Files, spool, work, got, w)
  PROVE  /\ NothingAtHand'
         /\ \/ ~ProcessPacket /\ Pending(Files', spool', work', got, w)
            \/ /\ ProcessPacket
               /\ w + 1 \in 1 .. Len(got) /\ Head(work) = got[w+1]
               /\ Pending(Files', spool', work', got, w+1)
<1>1. /\ paths \in Seq(Name) /\ notices \in Seq(Name) /\ Files \in Seq(Name)
  BY FilesFacts DEF IInv, TypeOK, Files
<1>2. CASE ProcessPacket
  <2>1. PICK t \in Tag, state \in {"none", "kUnInit", "kGranted"} : Processing(t, state)
    BY <1>2 DEF ProcessPacket, UnknownTag, SocketFails, OpenConnection, ConnectRefused,
                UninitAsserts, UninitFails, Deliver, PeerFinished
  <2>2. work # <<>> /\ work' = Tail(work) /\ UNCHANGED <<paths, reading>>
    BY <2>1 DEF Processing
  <2>3. UNCHANGED <<notices, spool>>
    BY <1>2 DEF ProcessPacket, UnknownTag, SocketFails, OpenConnection, ConnectRefused,
                UninitAsserts, UninitFails, Deliver, PeerFinished, mail
  <2>4. Files' = Files
    BY <2>2, <2>3 DEF Files
  <2>5. /\ w + 1 \in 1 .. Len(got) /\ Head(work) = got[w+1]
        /\ Pending(Files, spool, Tail(work), got, w+1)
    BY <1>1, <2>2, PendingNext
  <2>6. NothingAtHand'
    BY <2>2 DEF NothingAtHand
  <2> QED BY <1>2, <2>2, <2>3, <2>4, <2>5, <2>6
<1>3. CASE ~ProcessPacket /\ ReadNotices
  <2>1. ~reading /\ reading' = TRUE /\ paths' = notices /\ notices' = <<>>
        /\ UNCHANGED <<work, spool>>
    BY <1>3 DEF ReadNotices, Handling
  <2>2. paths = <<>>
    BY <2>1 DEF NothingAtHand
  <2>3. Files' = Files
    BY <1>1, <2>1, <2>2, FilesFacts DEF Files
  <2>4. NothingAtHand'
    BY <2>1 DEF NothingAtHand
  <2> QED BY <1>3, <2>1, <2>3, <2>4
<1>4. CASE ~ProcessPacket /\ ReadFile
  <2>1. /\ reading /\ work = <<>> /\ paths # <<>> /\ work' = spool[Head(paths)]
        /\ paths' = Tail(paths) /\ UNCHANGED <<reading, notices, spool>>
    BY <1>4 DEF ReadFile, mail
  <2>2. Files # <<>> /\ Head(Files) = Head(paths) /\ Files' = Tail(Files)
    BY <1>1, <2>1, FilesFacts DEF Files
  <2>3. Pending(Tail(Files), spool, spool[Head(Files)], got, w)
    BY <1>1, <2>1, <2>2, PendingFile
  <2>4. NothingAtHand'
    BY <2>1 DEF NothingAtHand
  <2> QED BY <1>4, <2>1, <2>2, <2>3, <2>4
<1>5. CASE ~ProcessPacket /\ FilesDone
  <2>1. work = <<>> /\ paths = <<>> /\ UNCHANGED <<paths, work, notices, spool>>
    BY <1>5 DEF FilesDone, mail
  <2> QED BY <1>5, <2>1 DEF Files, NothingAtHand
<1>6. CASE /\ ~ProcessPacket
           /\ EpollWait \/ Accept \/ AcceptFails \/ ReadData \/ ReadEnd \/ ReadNothing
                \/ HandleFreed
  <2>1. UNCHANGED <<reading, paths, work, notices, spool>>
    BY <1>6 DEF EpollWait, Accept, AcceptFails, ReadData, ReadEnd, ReadNothing,
                HandleFreed, NextEvent, mail
  <2> QED BY <1>6, <2>1 DEF Files, NothingAtHand
<1> QED BY <1>2, <1>3, <1>4, <1>5, <1>6 DEF Receive, HandleEvent

\* A mail with what is new of the stream, under a name that is not in use.
LEMMA MailPending ==
  ASSUME IInv, NothingAtHand, NEW n \in Name, n \notin ToSet(paths) \cup ToSet(notices),
         NEW got \in Seq(Packet), NEW got1 \in Seq(Packet), IsPrefix(got, got1),
         MailArrives(n, SubSeq(got1, Len(got)+1, Len(got1))),
         NEW w \in 0 .. Len(got), Pending(Files, spool, work, got, w)
  PROVE  NothingAtHand' /\ Pending(Files', spool', work', got1, w)
<1>1. /\ paths \in Seq(Name) /\ notices \in Seq(Name) /\ Files \in Seq(Name)
      /\ spool \in [Name -> Seq(Packet)]
  BY FilesFacts DEF IInv, TypeOK, Files
<1>2. /\ UNCHANGED <<reading, paths, work>>
      /\ spool' = [spool EXCEPT ![n] = SubSeq(got1, Len(got)+1, Len(got1))]
  BY DEF MailArrives, loop
<1>3. notices' = Append(notices, n)
  <2>1. notices # <<>> => Last(notices) # n
    <3>1. notices # <<>> => Len(notices) \in DOMAIN notices
      BY <1>1, LenProperties, EmptySeq
    <3> QED BY <3>1 DEF ToSet, Last
  <2> QED BY <2>1 DEF MailArrives
<1>4. Files' = Append(Files, n) /\ \A i \in DOMAIN Files : Files[i] # n
  <2>1. paths \o Append(notices, n) = Append(paths \o notices, n)
    BY <1>1, FilesAppend, Zenon
  <2>2. \A i \in DOMAIN (paths \o notices) :
          (paths \o notices)[i] \in ToSet(paths) \cup ToSet(notices)
    BY <1>1, FilesFacts, Zenon
  <2> QED BY <1>2, <1>3, <2>1, <2>2 DEF Files
<1>5. Pending(Append(Files, n),
              [spool EXCEPT ![n] = SubSeq(got1, Len(got)+1, Len(got1))], work, got1, w)
  BY <1>1, <1>4, PendingMail
<1> QED BY <1>2, <1>4, <1>5 DEF NothingAtHand

LEMMA InitPending ==
  ASSUME Init PROVE NothingAtHand /\ Pending(Files, spool, work, <<>>, 0)
<1>1. paths = <<>> /\ notices = <<>> /\ work = <<>>
  BY DEF Init
<1>2. Files = <<>>
  BY <1>1 DEF Files
<1> DEFINE cut == [k \in 1 .. 1 |-> 0]
<1>3. cut \in [1 .. Len(<<>>)+1 -> 0 .. Len(<<>>)] /\ cut[1] = 0
  OBVIOUS
<1>4. <<>> = SubSeq(<<>>, 0+1, cut[1])
  BY <1>3
<1>5. Pending(<<>>, spool, <<>>, <<>>, 0)
  <2>1. Len(<<>>) = 0 /\ DOMAIN <<>> = {} /\ 1 .. 0 = {}
    OBVIOUS
  <2>2. cut[Len(<<>>)+1] = Len(<<>>) /\ 0 <= cut[1]
    BY <1>3, <2>1
  <2> HIDE DEF cut
  <2> QED BY <1>3, <1>4, <2>1, <2>2 DEF Pending
<1> QED BY <1>1, <1>2, <1>5 DEF NothingAtHand

-----------------------------------------------------------------------------
(* Steps of the receiving thread, by what they do to connections.          *)

\* The connection a tag leads to, before and after a step.
ConnOf(t) == fdTable[tagToFd[t]]
ConnNext(t) == fdTable'[tagToFd'[t]]

\* The workers of other tags stay as they are, each with its connection.
KeepsOthers(ts) ==
  \A u \in Tag \ ts :
    workers'[u] = workers[u] /\ (workers[u] # "none" => ConnNext(u) = ConnOf(u))

Idles == KeepsOthers({}) /\ UNCHANGED <<rx, tx, mailq, used, backlog, nextTag>>

Accepts ==
  /\ IsClient /\ backlog # <<>> /\ nextTag \in Tag
  /\ workers[nextTag] = "none" /\ workers'[nextTag] = "kUnInit"
  /\ ConnNext(nextTag) = Head(backlog)
  /\ backlog' = Tail(backlog) /\ nextTag' = nextTag + 1
  /\ KeepsOthers({nextTag}) /\ UNCHANGED <<rx, tx, mailq, used>>

ReadsBody(t) ==
  /\ workers[t] # "none" /\ workers'[t] = "kGranted" /\ ConnNext(t) = ConnOf(t)
  /\ rx[ConnOf(t)] # <<>> /\ Head(rx[ConnOf(t)]) \in Body
  /\ mailq' = Append(mailq, DataPacket(t, Head(rx[ConnOf(t)])))
  /\ rx' = [rx EXCEPT ![ConnOf(t)] = Tail(@)]
  /\ KeepsOthers({t}) /\ UNCHANGED <<tx, used, backlog, nextTag>>

ReadsEnd(t) ==
  /\ workers[t] # "none" /\ workers'[t] = "none"
  /\ rx[ConnOf(t)] # <<>> /\ Head(rx[ConnOf(t)]) \in {"eof", "reset"}
  /\ mailq' = Append(mailq, EndPacket(t, Head(rx[ConnOf(t)])))
  /\ rx' = [rx EXCEPT ![ConnOf(t)] = <<>>]
  /\ KeepsOthers({t}) /\ UNCHANGED <<tx, used, backlog, nextTag>>

\* The packet at hand is dropped, opens a connection, is written to one, or
\* closes it.
Drops(t) == workers[t] # "kGranted" /\ Idles

Opens(t) ==
  /\ OpenConnection /\ workers[t] = "none" /\ workers'[t] = "kGranted"
  /\ \E c \in Conn \ used :
       ConnNext(t) = c /\ used' = used \cup {c} /\ Written(c, Head(work))
  /\ KeepsOthers({t}) /\ UNCHANGED <<rx, mailq, backlog, nextTag>>

Puts(t) ==
  /\ Deliver /\ workers[t] = "kGranted"
  /\ IsData(Head(work)) /\ SockPut(ConnOf(t), Head(work))
  /\ KeepsOthers({}) /\ UNCHANGED <<rx, mailq, used, backlog, nextTag>>

Closes(t) ==
  /\ \/ workers[t] = "kUnInit"
     \/ workers[t] = "kGranted" /\ ~IsData(Head(work))
  /\ workers'[t] = "none"
  /\ KeepsOthers({t}) /\ UNCHANGED <<rx, tx, mailq, used, backlog, nextTag>>

LEMMA ShutdownOthers ==
  ASSUME TypeOK, Core, NEW t \in Tag, workers[t] # "none", Shutdown(tagToFd[t])
  PROVE  workers'[t] = "none" /\ KeepsOthers({t})
<1>1. tagToFd[t] \in Fd /\ heap[metas[tagToFd[t]]].tag = t
  BY TagFound
<1>2. /\ fdTable' = [fdTable EXCEPT ![tagToFd[t]] = None]
      /\ tagToFd' = [tagToFd EXCEPT ![t] = None]
      /\ workers' = [workers EXCEPT ![t] = "none"]
  BY <1>1 DEF Shutdown, DelMeta, CloseFd
<1>3. ASSUME NEW u \in Tag \ {t}, workers[u] # "none" PROVE ConnNext(u) = ConnOf(u)
  <2>1. tagToFd[u] \in Fd /\ heap[metas[tagToFd[u]]].tag = u
    BY <1>3, TagFound
  <2>2. tagToFd[u] # tagToFd[t]
    BY <1>1, <2>1
  <2> QED BY <1>2, <2>1, <2>2 DEF ConnOf, ConnNext, TypeOK
<1> QED BY <1>2, <1>3 DEF KeepsOthers, TypeOK

LEMMA OpenOthers ==
  ASSUME TypeOK, Core, NEW t \in Tag, workers[t] = "none", NEW fd \in FreeFd, NEW p,
         NEW state, NEW c, AddMeta(fd, t, p, state), Register(fd, c, p)
  PROVE  workers'[t] = state /\ ConnNext(t) = c /\ KeepsOthers({t})
<1>1. /\ fdTable' = [fdTable EXCEPT ![fd] = c]
      /\ tagToFd' = [tagToFd EXCEPT ![t] = fd]
      /\ workers' = [workers EXCEPT ![t] = state]
      /\ fd \in Fd /\ fdTable[fd] = None
  BY DEF AddMeta, Register, FreeFd
<1>2. ASSUME NEW u \in Tag \ {t}, workers[u] # "none" PROVE ConnNext(u) = ConnOf(u)
  <2>1. tagToFd[u] \in Fd /\ fdTable[tagToFd[u]] # None
    BY <1>2, TagFound
  <2> QED BY <1>1, <2>1 DEF ConnOf, ConnNext, TypeOK
<1> QED BY <1>1, <1>2 DEF KeepsOthers, TypeOK, ConnOf, ConnNext

\* The connection an event is about is that of its tag.
LEMMA EventConn ==
  ASSUME TypeOK, Core, NEW fd \in Fd, HandlingSocket(fd)
  PROVE  /\ heap[metas[fd]].tag \in Tag /\ workers[heap[metas[fd]].tag] # "none"
         /\ tagToFd[heap[metas[fd]].tag] = fd
         /\ ConnOf(heap[metas[fd]].tag) = fdTable[fd]
<1>1. heap[metas[fd]].tag \in Tag /\ workers[heap[metas[fd]].tag] # "none"
      /\ fdTable[fd] \in Conn
  BY SocketFound
<1>2. tagToFd[heap[metas[fd]].tag] = fd
  BY <1>1, NameAssumption DEF Core, TablesAgree, DescriptorsLeadToTags
<1> QED BY <1>1, <1>2 DEF ConnOf

LEMMA NewTagFree == ASSUME IInv, IsClient, nextTag \in Tag PROVE workers[nextTag] = "none"
<1>1. nextTag \in Nat
  BY DEF IInv, TypeOK
<1>2. ~(nextTag < nextTag)
  BY <1>1
<1> QED BY <1>2 DEF IInv, TagsIssued, TypeOK

LEMMA EventSteps ==
  ASSUME IInv, Receive, ~ProcessPacket
  PROVE  Idles \/ Accepts \/ \E t \in Tag : ReadsBody(t) \/ ReadsEnd(t)
<1>1. TypeOK /\ Core
  BY DEF IInv
<1>2. CASE Accept
  <2>1. PICK fd \in FreeFd, p \in FreePtr :
          AddMeta(fd, nextTag, p, "kUnInit") /\ Register(fd, Head(backlog), p)
    BY <1>2 DEF Accept, NewTag, InitialState
  <2>2. /\ backlog # <<>> /\ nextTag \in Tag /\ backlog' = Tail(backlog)
        /\ nextTag' = nextTag + 1 /\ UNCHANGED <<rx, tx, mailq, used>> /\ IsClient
    BY <1>2 DEF Accept, NewTag, IInv, FreshBacklog
  <2>3. workers[nextTag] = "none"
    BY <2>2, NewTagFree
  <2>4. /\ workers'[nextTag] = "kUnInit" /\ ConnNext(nextTag) = Head(backlog)
        /\ KeepsOthers({nextTag})
    <3> DEFINE t == nextTag
               c == Head(backlog)
    <3>1. /\ t \in Tag /\ workers[t] = "none" /\ AddMeta(fd, t, p, "kUnInit")
          /\ Register(fd, c, p)
      BY <2>1, <2>2, <2>3
    <3> HIDE DEF t, c
    <3>2. workers'[t] = "kUnInit" /\ ConnNext(t) = c /\ KeepsOthers({t})
      BY <1>1, <3>1, OpenOthers
    <3>3. t = nextTag /\ c = Head(backlog)
      BY DEF t, c
    <3> QED BY <3>2, <3>3
  <2> QED BY <2>2, <2>3, <2>4 DEF Accepts
<1>3. CASE ReadData
  <2>1. PICK fd \in Fd :
          LET c == fdTable[fd]  t == heap[metas[fd]].tag IN
          /\ HandlingSocket(fd) /\ rx[c] # <<>> /\ Head(rx[c]) \in Body
          /\ mailq' = Append(mailq, DataPacket(t, Head(rx[c])))
          /\ workers' = [workers EXCEPT ![t] = "kGranted"]
          /\ rx' = [rx EXCEPT ![c] = Tail(@)]
    BY <1>3 DEF ReadData
  <2> DEFINE t == heap[metas[fd]].tag
  <2>2. /\ t \in Tag /\ workers[t] # "none" /\ tagToFd[t] = fd
        /\ ConnOf(t) = fdTable[fd]
    BY <1>1, <2>1, EventConn
  <2>3. UNCHANGED <<fdTable, tagToFd, tx, used, backlog, nextTag>>
    BY <1>3 DEF ReadData, peers
  <2> HIDE DEF t
  <2>4. /\ rx[ConnOf(t)] # <<>> /\ Head(rx[ConnOf(t)]) \in Body
        /\ mailq' = Append(mailq, DataPacket(t, Head(rx[ConnOf(t)])))
        /\ workers' = [workers EXCEPT ![t] = "kGranted"]
        /\ rx' = [rx EXCEPT ![ConnOf(t)] = Tail(@)]
    BY <2>1, <2>2 DEF t
  <2>5. \A u : ConnNext(u) = ConnOf(u)
    BY <2>3 DEF ConnOf, ConnNext
  <2>6. workers'[t] = "kGranted" /\ KeepsOthers({t})
    BY <1>1, <2>2, <2>4, <2>5 DEF KeepsOthers, TypeOK
  <2> QED BY <2>2, <2>3, <2>4, <2>5, <2>6 DEF ReadsBody
<1>4. CASE ReadEnd
  <2>1. PICK fd \in Fd :
          LET c == fdTable[fd] IN
          /\ HandlingSocket(fd) /\ rx[c] # <<>> /\ Head(rx[c]) \in {"eof", "reset"}
          /\ Shutdown(fd)
          /\ mailq' = Append(mailq, EndPacket(heap[metas[fd]].tag, Head(rx[c])))
          /\ rx' = [rx EXCEPT ![c] = <<>>]
    BY <1>4 DEF ReadEnd
  <2> DEFINE t == heap[metas[fd]].tag
  <2>2. /\ t \in Tag /\ workers[t] # "none" /\ tagToFd[t] = fd
        /\ ConnOf(t) = fdTable[fd]
    BY <1>1, <2>1, EventConn
  <2>3. UNCHANGED <<tx, used, backlog, nextTag>>
    BY <1>4 DEF ReadEnd, peers
  <2> HIDE DEF t
  <2>4. /\ rx[ConnOf(t)] # <<>> /\ Head(rx[ConnOf(t)]) \in {"eof", "reset"}
        /\ mailq' = Append(mailq, EndPacket(t, Head(rx[ConnOf(t)])))
        /\ rx' = [rx EXCEPT ![ConnOf(t)] = <<>>]
        /\ Shutdown(tagToFd[t])
    BY <2>1, <2>2 DEF t
  <2>5. workers'[t] = "none" /\ KeepsOthers({t})
    BY <1>1, <2>2, <2>4, ShutdownOthers
  <2> QED BY <2>2, <2>3, <2>4, <2>5 DEF ReadsEnd
<1>5. CASE \/ EpollWait \/ AcceptFails \/ ReadNothing \/ HandleFreed
           \/ ReadNotices \/ ReadFile \/ FilesDone
  <2>1. UNCHANGED <<fdTable, tagToFd, workers, rx, tx, mailq, used, backlog, nextTag>>
    BY <1>5 DEF EpollWait, AcceptFails, ReadNothing, HandleFreed, ReadNotices, ReadFile,
                FilesDone, peers, tables, kernel
  <2> QED BY <2>1 DEF Idles, KeepsOthers, ConnOf, ConnNext
<1> QED BY <1>2, <1>3, <1>4, <1>5 DEF Receive, HandleEvent

LEMMA PacketSteps ==
  ASSUME IInv, ProcessPacket
  PROVE  /\ work # <<>> /\ Head(work).tag \in Tag
         /\ LET t == Head(work).tag IN Drops(t) \/ Opens(t) \/ Puts(t) \/ Closes(t)
<1> DEFINE t == Head(work).tag
<1>1. TypeOK /\ Core
  BY DEF IInv
<1>2. PICK v \in Tag, s \in {"none", "kUnInit", "kGranted"} : Processing(v, s)
  BY DEF ProcessPacket, UnknownTag, SocketFails, OpenConnection, ConnectRefused,
         UninitAsserts, UninitFails, Deliver, PeerFinished
<1>3. work # <<>> /\ t \in Tag
  BY <1>2 DEF Processing
<1>4. CASE UnknownTag \/ SocketFails \/ ConnectRefused \/ UninitAsserts
  <2>1. UNCHANGED <<fdTable, tagToFd, workers, rx, tx, mailq, used, backlog, nextTag>>
    BY <1>4 DEF UnknownTag, SocketFails, ConnectRefused, UninitAsserts, peers, tables,
                kernel
  <2>2. workers[t] # "kGranted"
    BY <1>4 DEF UnknownTag, SocketFails, ConnectRefused, UninitAsserts, Processing
  <2> QED BY <1>3, <2>1, <2>2 DEF Drops, Idles, KeepsOthers, ConnOf, ConnNext
<1>5. CASE OpenConnection
  <2>1. PICK u \in Tag, fd \in FreeFd, p \in FreePtr, c \in Conn \ used :
          /\ Processing(u, "none") /\ AddMeta(fd, u, p, "kGranted")
          /\ Register(fd, c, p) /\ used' = used \cup {c} /\ Written(c, Head(work))
    BY <1>5 DEF OpenConnection
  <2>2. u = t /\ workers[u] = "none"
    BY <2>1 DEF Processing
  <2>3. workers'[u] = "kGranted" /\ ConnNext(u) = c /\ KeepsOthers({u})
    BY <1>1, <2>1, <2>2, OpenOthers
  <2>4. UNCHANGED <<rx, mailq, backlog, nextTag>>
    BY <1>5 DEF OpenConnection
  <2> HIDE DEF t
  <2>5. \E d \in Conn \ used :
          ConnNext(t) = d /\ used' = used \cup {d} /\ Written(d, Head(work))
    BY <2>1, <2>2, <2>3
  <2>6. Opens(t)
    BY <1>5, <2>2, <2>3, <2>4, <2>5 DEF Opens
  <2> QED BY <1>3, <2>6 DEF t
<1>6. CASE Deliver
  <2>1. PICK u \in Tag : /\ Processing(u, "kGranted") /\ IsData(Head(work))
                         /\ SockPut(fdTable[tagToFd[u]], Head(work))
    BY <1>6 DEF Deliver
  <2>2. u = t /\ workers[u] = "kGranted"
    BY <2>1 DEF Processing
  <2>3. UNCHANGED <<fdTable, tagToFd, workers, rx, mailq, used, backlog, nextTag>>
    BY <1>6 DEF Deliver, peers, tables, kernel
  <2> HIDE DEF t
  <2>4. SockPut(ConnOf(t), Head(work))
    BY <2>1, <2>2 DEF ConnOf
  <2>5. KeepsOthers({})
    BY <2>3 DEF KeepsOthers, ConnOf, ConnNext
  <2>6. Puts(t)
    BY <1>6, <2>1, <2>2, <2>3, <2>4, <2>5 DEF Puts
  <2> QED BY <1>3, <2>6 DEF t
<1>7. CASE PeerFinished \/ UninitFails
  <2>1. PICK u \in Tag : /\ \/ Processing(u, "kUnInit")
                            \/ Processing(u, "kGranted") /\ ~IsData(Head(work))
                         /\ Shutdown(tagToFd[u])
    BY <1>7 DEF PeerFinished, UninitFails
  <2>2. u = t /\ workers[u] # "none"
        /\ (workers[u] = "kUnInit" \/ (workers[u] = "kGranted" /\ ~IsData(Head(work))))
    BY <2>1 DEF Processing
  <2>3. workers'[u] = "none" /\ KeepsOthers({u})
    BY <1>1, <2>1, <2>2, ShutdownOthers
  <2>4. UNCHANGED <<rx, tx, mailq, used, backlog, nextTag>>
    BY <1>7 DEF PeerFinished, UninitFails, peers
  <2> HIDE DEF t
  <2>5. Closes(t)
    BY <2>2, <2>3, <2>4 DEF Closes
  <2> QED BY <1>3, <2>5 DEF t
<1> QED BY <1>3, <1>4, <1>5, <1>6, <1>7 DEF ProcessPacket

\* An open connection is that of a tag, of one only.
LEMMA OpenHasTag ==
  ASSUME IInv, NEW c \in OpenConns
  PROVE  \E t \in Tag : workers[t] # "none" /\ ConnOf(t) = c
<1>1. PICK fd \in Fd : c = fdTable[fd] /\ fdTable[fd] # None
  BY DEF OpenConns
<1>2. /\ heap[metas[fd]] # None /\ metas[fd] \in Ptr
      /\ tagToFd[heap[metas[fd]].tag] = fd
  BY <1>1 DEF IInv, TypeOK, Core, TablesAgree, DescriptorsLeadToTags
<1>3. heap[metas[fd]].tag \in Tag
  BY <1>2 DEF IInv, TypeOK, Meta
<1>4. workers[heap[metas[fd]].tag] # "none"
  BY <1>2, <1>3, NameAssumption DEF IInv, Core, TablesAgree, TagsLeadToDescriptors
<1> QED BY <1>1, <1>2, <1>3, <1>4 DEF ConnOf

LEMMA OneTag ==
  ASSUME IInv, NEW t \in Tag, workers[t] # "none"
  PROVE  /\ ConnOf(t) \in Conn /\ ConnOf(t) \in OpenConns /\ ConnOf(t) \in used
         /\ ConnOf(t) \notin ToSet(backlog)
         /\ \A u \in Tag : workers[u] # "none" /\ ConnOf(u) = ConnOf(t) => u = t
<1>1. /\ tagToFd[t] \in Fd /\ ConnOf(t) \in Conn /\ ConnOf(t) # None
      /\ heap[metas[tagToFd[t]]].tag = t
  BY TagFound DEF IInv, ConnOf
<1>2. ConnOf(t) \in OpenConns
  BY <1>1 DEF OpenConns, ConnOf
<1>3. ConnOf(t) \in used /\ ConnOf(t) \notin ToSet(backlog)
  BY <1>2 DEF IInv, FreshBacklog
<1>4. ASSUME NEW u \in Tag, workers[u] # "none", ConnOf(u) = ConnOf(t) PROVE u = t
  <2>1. tagToFd[u] \in Fd /\ heap[metas[tagToFd[u]]].tag = u
    BY <1>4, TagFound DEF IInv
  <2>2. tagToFd[u] = tagToFd[t]
    BY <1>1, <1>4, <2>1 DEF IInv, Core, OneDescriptor, ConnOf
  <2> QED BY <1>1, <2>1, <2>2
<1> QED BY <1>1, <1>2, <1>3, <1>4
=============================================================================
