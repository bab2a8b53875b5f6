------------------------ MODULE TunnelBytesProofs -------------------------
(***************************************************************************)
(* Proofs about the bytes in the tunnel, continued from TunnelBytes: what  *)
(* the server answers, what the client writes, and that every step keeps   *)
(* BytesInv.  OneBrowser and OneProxy of Tunnel follow.                    *)
(***************************************************************************)
EXTENDS TunnelBytes

-----------------------------------------------------------------------------
(* What the server answers.                                                *)

\* Tag t is not answered by this step, and keeps its connection unread.
LEMMA AnswersKept ==
  ASSUME IInv, UNCHANGED <<cTx, cRx, cWorkers, proxySaid, world>>,
         NEW w \in 0 .. Len(sMailq), NEW t \in Tag, NEW s \in Proxy,
         AnswersFor(t, s), HearsProxy(t, s, w),
         \/ sMailq' = sMailq
         \/ \E pkt \in C!Packet : /\ sMailq' = Append(sMailq, pkt)
                                  /\ ~(pkt.tag = t /\ C!IsData(pkt)),
         sWorkers'[t] # "none" =>
           /\ sWorkers[t] # "none" /\ ProxyOf(t)' = ProxyOf(t)
           /\ sRx'[ProxyOf(t)] = sRx[ProxyOf(t)]
  PROVE  AnswersFor(t, s)' /\ HearsProxy(t, s, w)'
<1>1. /\ Speaks(sMailq', t, world.proxy[s], proxySaid[s])
      /\ Count(sMailq', t, Len(sMailq')) = Count(sMailq, t, Len(sMailq))
      /\ Open(sMailq', t, Len(sMailq')) => Open(sMailq, t, Len(sMailq))
      /\ Count(sMailq', t, w) = Count(sMailq, t, w)
  <2>1. CASE sMailq' = sMailq
    BY <2>1 DEF AnswersFor
  <2>2. ASSUME NEW pkt \in C!Packet, sMailq' = Append(sMailq, pkt),
               ~(pkt.tag = t /\ C!IsData(pkt))
        PROVE  <1>1
    <3>1. sMailq \in Seq(C!Packet) /\ proxySaid[s] \in Nat
          /\ Speaks(sMailq, t, world.proxy[s], proxySaid[s])
      BY ByteTypes, WorldTypes DEF AnswersFor
    <3>2. Count(Append(sMailq, pkt), t, w) = Count(sMailq, t, w)
      <4>1. sMailq \in Seq(C!Packet) /\ pkt \in C!Packet /\ w \in 0 .. Len(sMailq)
        BY <3>1
      <4> QED BY <4>1, CountPrefix
    <3>3. /\ Speaks(Append(sMailq, pkt), t, world.proxy[s], proxySaid[s])
          /\ Count(Append(sMailq, pkt), t, Len(Append(sMailq, pkt)))
               = Count(sMailq, t, Len(sMailq))
          /\ Open(Append(sMailq, pkt), t, Len(Append(sMailq, pkt))) =>
               Open(sMailq, t, Len(sMailq))
      BY <2>2, <3>1, SpeakOther
    <3> QED BY <2>2, <3>2, <3>3
  <2> QED BY <2>1, <2>2
<1>2. ASSUME sWorkers'[t] # "none", Open(sMailq', t, Len(sMailq'))
      PROVE  ProxyOf(t)' = s /\ Count(sMailq', t, Len(sMailq')) = ReadS(s)'
  BY <1>1, <1>2 DEF AnswersFor, ReadS
<1>3. AnswersFor(t, s)'
  BY <1>1, <1>2 DEF AnswersFor
<1>4. HearsProxy(t, s, w)'
  BY <1>1 DEF HearsProxy, MayBe
<1> QED BY <1>3, <1>4

\* What is read of the proxy's connection is the tag's next answer.
LEMMA ReadAnswers ==
  ASSUME IInv, ProxyCarries, UNCHANGED <<cTx, cRx, cWorkers, proxySaid, world>>,
         NEW w \in 0 .. Len(sMailq), NEW t \in Tag, NEW s \in Proxy,
         AnswersFor(t, s), HearsProxy(t, s, w), SP!ReadsBody(t)
  PROVE  AnswersFor(t, s)' /\ HearsProxy(t, s, w)'
<1>1. PICK z \in Proxy :
        /\ z = ProxyOf(t) /\ sWorkers[t] # "none"
        /\ sRx[z] \in Seq(Body \cup Ends) /\ sRx[z] # <<>> /\ Head(sRx[z]) \in Body
        /\ sMailq' = Append(sMailq, [tag |-> t, type |-> "Data", body |-> Head(sRx[z])])
        /\ sRx'[z] = Tail(sRx[z])
        /\ ProxyOf(t)' = z
  BY ReadBodyFacts
<1> DEFINE q == sMailq
           q1 == sMailq'
           says == world.proxy[s]
           m == proxySaid[s]
           pkt == [tag |-> t, type |-> "Data", body |-> Head(sRx[z])]
<1>2. /\ q \in Seq(C!Packet) /\ m \in Nat /\ Speaks(q, t, says, m)
      /\ pkt \in C!Packet /\ q1 = Append(q, pkt) /\ pkt.tag = t /\ C!IsData(pkt)
  BY <1>1, ByteTypes, WorldTypes DEF AnswersFor, C!Packet, C!IsData
<1>3. Count(q1, t, w) = Count(q, t, w) /\ (Open(q1, t, Len(q1)) <=> Open(q, t, Len(q)))
  <2> HIDE DEF pkt, q, q1
  <2>1. w \in 0 .. Len(q)
    BY DEF q
  <2>2. /\ Count(Append(q, pkt), t, w) = Count(q, t, w)
        /\ Len(Append(q, pkt)) = Len(q) + 1
        /\ Open(Append(q, pkt), t, Len(q)+1) <=> Open(q, t, Len(q))
    BY <1>2, <2>1, CountAppend
  <2> QED BY <1>2, <2>2
<1>4. HearsProxy(t, s, w)'
  BY <1>3 DEF HearsProxy, MayBe
<1>5. CASE Open(q, t, Len(q))
  <2>1. z = s /\ Count(q, t, Len(q)) = m - DataLen(sRx[s])
    BY <1>1, <1>5 DEF AnswersFor, ReadS
  <2>2. Carries(sRx[s], says, m)
    BY DEF ProxyCarries
  <2> HIDE DEF q, q1, says, m
  <2>3. /\ Speaks(q1, t, says, m)
        /\ Count(q1, t, Len(q1)) = Count(q, t, Len(q)) + 1
    <3>1. /\ sRx[s] \in Seq(Body \cup Ends) /\ sRx[s] # <<>> /\ Head(sRx[s]) \in Body
          /\ q1 = Append(q, [tag |-> t, type |-> "Data", body |-> Head(sRx[s])])
      BY <1>1, <1>2, <2>1 DEF pkt
    <3>2. q \in Seq(C!Packet) /\ m \in Nat /\ Speaks(q, t, says, m)
      BY <1>2
    <3>3. Open(q, t, Len(q)) => Count(q, t, Len(q)) = m - DataLen(sRx[s])
      BY <2>1
    <3> DEFINE r == sRx[s]
    <3> HIDE DEF r
    <3>4. /\ Carries(r, says, m) /\ r \in Seq(Body \cup Ends) /\ r # <<>> /\ Head(r) \in Body
          /\ q1 = Append(q, [tag |-> t, type |-> "Data", body |-> Head(r)])
          /\ Open(q, t, Len(q)) => Count(q, t, Len(q)) = m - DataLen(r)
      BY <2>2, <3>1, <3>3 DEF r
    <3> QED BY <3>2, <3>4, SpeakRead, Zenon
  <2>4. DataLen(Tail(sRx[s])) = DataLen(sRx[s]) - 1 /\ DataLen(sRx[s]) \in Nat
    BY <1>1, <1>2, <2>1, <2>2, CarriesRead, DataLenFacts
  <2>5. m - (DataLen(sRx[s]) - 1) = (m - DataLen(sRx[s])) + 1
    BY <1>2, <2>4
  <2>6. Count(q1, t, Len(q1)) = m - DataLen(sRx'[s])
    BY <1>1, <2>1, <2>3, <2>4, <2>5
  <2>7. AnswersFor(t, s)'
    BY <1>1, <2>1, <2>3, <2>6 DEF AnswersFor, ReadS, q1, says, m
  <2> QED BY <1>4, <2>7
<1>6. CASE ~Open(q, t, Len(q))
  <2> HIDE DEF q, q1, says, m, pkt
  <2>1. Speaks(q1, t, says, m)
    BY <1>2, <1>6, SpeaksAppend
  <2>2. AnswersFor(t, s)'
    BY <1>3, <1>6, <2>1 DEF AnswersFor, q, q1, says, m
  <2> QED BY <1>4, <2>2
<1> QED BY <1>5, <1>6

\* A tag that gets a connection has not answered yet, or has announced its end.
LEMMA OpenAnswers ==
  ASSUME IInv, ClientSide, ProxyCarries, UNCHANGED <<cTx, cRx, cWorkers, proxySaid, world>>,
         NEW w \in 0 .. Len(sMailq), NEW t \in Tag, NEW s \in Proxy,
         AnswersFor(t, s), HearsProxy(t, s, w), SP!Opens(t),
         NEW k \in Nat, NotReopened(k), k + 1 \in 1 .. Len(cMailq), t = cMailq[k+1].tag
  PROVE  \E z \in Proxy : AnswersFor(t, z)' /\ HearsProxy(t, z, w)'
<1>1. PICK z \in Proxy :
        /\ z \notin sUsed /\ sWorkers[t] = "none" /\ ProxyOf(t)' = z
        /\ UNCHANGED <<sRx, sMailq>>
  BY OpenFacts
<1>2. sMailq \in Seq(C!Packet) /\ Len(sMailq) \in Nat
  BY ByteTypes, LenProperties
<1>3. CASE Open(sMailq, t, Len(sMailq))
  <2>1. Open(cMailq, t, k)
    BY EndIsLast DEF ClientSide
  <2>2. Count(sMailq, t, Len(sMailq)) = 0
    BY <1>1, <1>3, <2>1 DEF NotReopened
  <2>3. Count(sMailq, t, w) = 0
    BY <1>2, <2>2, NoneBefore
  <2>4. t + 1 \in Browser => cTx[t+1] = <<>>
    <3>1. t + 1 \in Browser => Within(cTx[t+1], world.proxy[s], 0)
      BY <2>3 DEF HearsProxy
    <3> QED BY <3>1, ByteTypes, WorldTypes, WithinEmpty
  <2>5. AnswersFor(t, z)'
    <3>1. ReadS(z)' = 0
      BY <1>1 DEF ProxyCarries, ReadS
    <3>2. Speaks(sMailq, t, world.proxy[z], proxySaid[z])
      BY <1>2, <2>2, SpeaksNothing
    <3> QED BY <1>1, <2>2, <3>1, <3>2 DEF AnswersFor
  <2>6. HearsProxy(t, z, w)'
    <3>1. cWorkers[t] # "none" => t + 1 \in Browser
      BY BrowserFound DEF ClientSide
    <3>2. t + 1 \in Browser =>
            /\ Within(cTx[t+1], world.proxy[z], Count(sMailq, t, w))
            /\ Aligned(cTx[t+1], world.proxy[z], Count(sMailq, t, w))
            /\ Len(cTx[t+1]) = Count(sMailq, t, w)
      <4>1. Len(<<>>) = 0
        OBVIOUS
      <4> QED BY <2>3, <2>4, <4>1, NothingWritten
    <3> QED BY <1>1, <3>1, <3>2 DEF HearsProxy
  <2> QED BY <2>5, <2>6
<1>4. CASE ~Open(sMailq, t, Len(sMailq))
  <2>1. AnswersFor(t, s)'
    BY <1>1, <1>4 DEF AnswersFor
  <2>2. HearsProxy(t, s, w)'
    BY <1>1 DEF HearsProxy, MayBe
  <2> QED BY <2>1, <2>2
<1> QED BY <1>3, <1>4

LEMMA ServerAnswers ==
  ASSUME IInv, ClientSide, ProxyCarries, ServerReceives,
         NEW w \in 0 .. Len(sMailq), ClientHears(w),
         \/ SP!Idles
         \/ \E t \in Tag : SP!ReadsBody(t) \/ SP!ReadsEnd(t)
         \/ \E t \in Tag, k \in Nat :
              /\ NotReopened(k) /\ k + 1 \in 1 .. Len(cMailq)
              /\ t = cMailq[k+1].tag /\ t = Head(sWork).tag
              /\ SP!Opens(t) \/ SP!Puts(t) \/ SP!Closes(t)
  PROVE  ClientHears(w)'
<1>1. UNCHANGED <<cTx, cRx, cWorkers, proxySaid, world>>
  BY DEF ServerReceives, client, history
<1> SUFFICES ASSUME NEW u \in Tag PROVE \E s \in Proxy : AnswersFor(u, s)' /\ HearsProxy(u, s, w)'
  BY DEF ClientHears
<1>2. PICK s \in Proxy : AnswersFor(u, s) /\ HearsProxy(u, s, w)
  BY DEF ClientHears
<1>3. ASSUME SP!Idles PROVE AnswersFor(u, s)' /\ HearsProxy(u, s, w)'
  <2>1. /\ sMailq' = sMailq
        /\ sWorkers'[u] # "none" => /\ sWorkers[u] # "none" /\ ProxyOf(u)' = ProxyOf(u)
                                    /\ sRx'[ProxyOf(u)] = sRx[ProxyOf(u)]
    BY <1>3, IdleFacts
  <2> QED BY <1>1, <1>2, <2>1, AnswersKept
<1>4. ASSUME NEW t \in Tag, SP!ReadsBody(t) PROVE AnswersFor(u, s)' /\ HearsProxy(u, s, w)'
  <2>1. CASE u = t
    BY <1>1, <1>2, <1>4, <2>1, ReadAnswers
  <2>2. CASE u # t
    <3>1. PICK z \in Proxy :
            /\ Head(sRx[z]) \in Body
            /\ sMailq' = Append(sMailq, [tag |-> t, type |-> "Data", body |-> Head(sRx[z])])
            /\ \A y \in Proxy \ {z} : sRx'[y] = sRx[y]
            /\ \A v \in Tag \ {t} : /\ sWorkers'[v] = sWorkers[v]
                                    /\ sWorkers[v] # "none" =>
                                         ProxyOf(v)' = ProxyOf(v) /\ ProxyOf(v) # z
      BY <1>4, ReadBodyFacts
    <3> DEFINE pkt == [tag |-> t, type |-> "Data", body |-> Head(sRx[z])]
    <3>2. pkt \in C!Packet /\ pkt.tag # u /\ sMailq' = Append(sMailq, pkt)
      BY <2>2, <3>1 DEF C!Packet
    <3> HIDE DEF pkt
    <3>3. \E p \in C!Packet : sMailq' = Append(sMailq, p) /\ ~(p.tag = u /\ C!IsData(p))
      BY <3>2
    <3>4. sWorkers'[u] # "none" => /\ sWorkers[u] # "none" /\ ProxyOf(u)' = ProxyOf(u)
                                   /\ sRx'[ProxyOf(u)] = sRx[ProxyOf(u)]
      BY <2>2, <3>1, ProxyFound
    <3> QED BY <1>1, <1>2, <3>3, <3>4, AnswersKept
  <2> QED BY <2>1, <2>2
<1>5. ASSUME NEW t \in Tag, SP!ReadsEnd(t) PROVE AnswersFor(u, s)' /\ HearsProxy(u, s, w)'
  <2>1. PICK z \in Proxy :
          /\ \E pkt \in C!Packet : /\ pkt.tag = t /\ ~C!IsData(pkt)
                                   /\ sMailq' = Append(sMailq, pkt)
          /\ \A y \in Proxy \ {z} : sRx'[y] = sRx[y]
          /\ sWorkers'[t] = "none"
          /\ \A v \in Tag \ {t} : /\ sWorkers'[v] = sWorkers[v]
                                  /\ sWorkers[v] # "none" =>
                                       ProxyOf(v)' = ProxyOf(v) /\ ProxyOf(v) # z
    BY <1>5, ReadEndFacts
  <2>2. \E p \in C!Packet : sMailq' = Append(sMailq, p) /\ ~(p.tag = u /\ C!IsData(p))
    BY <2>1
  <2>3. sWorkers'[u] # "none" => /\ sWorkers[u] # "none" /\ ProxyOf(u)' = ProxyOf(u)
                                 /\ sRx'[ProxyOf(u)] = sRx[ProxyOf(u)]
    BY <2>1, ProxyFound
  <2> QED BY <1>1, <1>2, <2>2, <2>3, AnswersKept
<1>6. ASSUME NEW t \in Tag, NEW k \in Nat, NotReopened(k), k + 1 \in 1 .. Len(cMailq),
             t = cMailq[k+1].tag, SP!Opens(t)
      PROVE  \E z \in Proxy : AnswersFor(u, z)' /\ HearsProxy(u, z, w)'
  <2>1. CASE u = t
    BY <1>1, <1>2, <1>6, <2>1, OpenAnswers
  <2>2. CASE u # t
    <3>1. /\ sMailq' = sMailq
          /\ sWorkers'[u] # "none" => /\ sWorkers[u] # "none" /\ ProxyOf(u)' = ProxyOf(u)
                                      /\ sRx'[ProxyOf(u)] = sRx[ProxyOf(u)]
      BY <1>6, <2>2, OpenFacts
    <3> QED BY <1>1, <1>2, <3>1, AnswersKept
  <2> QED BY <2>1, <2>2
<1>7. ASSUME NEW t \in Tag, t = Head(sWork).tag, SP!Puts(t) \/ SP!Closes(t)
      PROVE  AnswersFor(u, s)' /\ HearsProxy(u, s, w)'
  <2>1. /\ sMailq' = sMailq
        /\ sWorkers'[u] # "none" => /\ sWorkers[u] # "none" /\ ProxyOf(u)' = ProxyOf(u)
                                    /\ sRx'[ProxyOf(u)] = sRx[ProxyOf(u)]
    BY <1>7, PutFacts, CloseFacts
  <2> QED BY <1>1, <1>2, <2>1, AnswersKept
<1> QED BY <1>3, <1>4, <1>5, <1>6, <1>7

\* The end of a tag is announced by either side before it is opened again.
LEMMA ServerReopens ==
  ASSUME IInv, ServerReceives, NEW k \in Nat, NotReopened(k),
         NEW l \in Nat, l = k \/ l = k + 1,
         \/ SP!Idles
         \/ \E t \in Tag : SP!ReadsBody(t) \/ SP!ReadsEnd(t)
         \/ \E t \in Tag : /\ t = Head(sWork).tag
                           /\ \/ SP!Opens(t) \/ SP!Puts(t)
                              \/ /\ SP!Closes(t) /\ l = k + 1
                                 /\ t = cMailq[k+1].tag /\ ~C!IsData(cMailq[k+1])
  PROVE  NotReopened(l)'
<1>1. cMailq' = cMailq /\ sMailq \in Seq(C!Packet)
  BY ByteTypes DEF ServerReceives, client
<1>2. \A t : ~Open(cMailq, t, k) => ~Open(cMailq, t, l)
  BY OpenStep
<1> SUFFICES ASSUME NEW u \in Tag, sWorkers'[u] = "none", Open(sMailq', u, Len(sMailq'))
             PROVE  Count(sMailq', u, Len(sMailq')) = 0 \/ ~Open(cMailq, u, l)
  BY <1>1 DEF NotReopened
<1>3. CASE sMailq' = sMailq /\ sWorkers[u] = "none"
  BY <1>2, <1>3 DEF NotReopened
<1>4. ASSUME NEW pkt \in C!Packet, sMailq' = Append(sMailq, pkt), pkt.tag # u,
             sWorkers[u] = "none"
      PROVE  Count(sMailq', u, Len(sMailq')) = 0 \/ ~Open(cMailq, u, l)
  <2>1. /\ Len(sMailq') = Len(sMailq) + 1
        /\ Count(sMailq', u, Len(sMailq)+1) = Count(sMailq, u, Len(sMailq))
        /\ Open(sMailq', u, Len(sMailq)+1) => Open(sMailq, u, Len(sMailq))
    BY <1>1, <1>4, CountAppend
  <2> QED BY <1>2, <1>4, <2>1 DEF NotReopened
<1>5. ASSUME NEW t \in Tag, SP!ReadsBody(t)
      PROVE  Count(sMailq', u, Len(sMailq')) = 0 \/ ~Open(cMailq, u, l)
  <2>1. PICK z \in Proxy :
          /\ Head(sRx[z]) \in Body /\ sWorkers'[t] # "none"
          /\ sMailq' = Append(sMailq, [tag |-> t, type |-> "Data", body |-> Head(sRx[z])])
          /\ \A v \in Tag \ {t} : sWorkers'[v] = sWorkers[v]
    BY <1>5, ReadBodyFacts
  <2> DEFINE pkt == [tag |-> t, type |-> "Data", body |-> Head(sRx[z])]
  <2>2. u # t /\ sWorkers[u] = "none"
    BY <2>1
  <2>3. pkt \in C!Packet /\ pkt.tag # u /\ sMailq' = Append(sMailq, pkt)
    BY <2>1, <2>2 DEF C!Packet
  <2> HIDE DEF pkt
  <2> QED BY <1>4, <2>2, <2>3
<1>6. ASSUME NEW t \in Tag, SP!ReadsEnd(t)
      PROVE  Count(sMailq', u, Len(sMailq')) = 0 \/ ~Open(cMailq, u, l)
  <2>1. PICK pkt \in C!Packet : /\ pkt.tag = t /\ ~C!IsData(pkt)
                                /\ sMailq' = Append(sMailq, pkt)
    BY <1>6, ReadEndFacts
  <2>2. u # t
    <3>1. /\ Len(sMailq') = Len(sMailq) + 1
          /\ ~Open(sMailq', t, Len(sMailq)+1)
      BY <1>1, <2>1, CountAppend
    <3> QED BY <3>1
  <2>3. sWorkers[u] = "none"
    BY <1>6, <2>2, ReadEndFacts
  <2> QED BY <1>4, <2>1, <2>2, <2>3
<1>7. ASSUME SP!Idles \/ \E t \in Tag : t = Head(sWork).tag /\ (SP!Opens(t) \/ SP!Puts(t))
      PROVE  sMailq' = sMailq /\ sWorkers[u] = "none"
  BY <1>7, IdleFacts, OpenFacts, PutFacts
<1>8. ASSUME NEW t \in Tag, SP!Closes(t), l = k + 1, t = cMailq[k+1].tag,
             ~C!IsData(cMailq[k+1])
      PROVE  Count(sMailq', u, Len(sMailq')) = 0 \/ ~Open(cMailq, u, l)
  <2>1. CASE u = t
    BY <1>8, <2>1, OpenStep
  <2>2. CASE u # t
    BY <1>3, <1>8, <2>2, CloseFacts
  <2> QED BY <2>1, <2>2
<1> QED BY <1>3, <1>5, <1>6, <1>7, <1>8

-----------------------------------------------------------------------------
(* The server's receiving thread.                                          *)

\* An event of the server writes nothing.
LEMMA EventHears ==
  ASSUME IInv, ProxyCarries, ServerReceives, NEW w \in Nat, ServerHears(w),
         SP!Idles \/ \E t \in Tag : SP!ReadsBody(t) \/ SP!ReadsEnd(t)
  PROVE  ServerHears(w)'
<1>1. UNCHANGED <<cMailq, world>>
  BY DEF ServerReceives, client, history
<1>2. \A t \in Nat : Count(cMailq, t, w) <= Count(cMailq', t, w)
  BY <1>1, CountMore
<1> DEFINE Stays(u) == /\ sWorkers[u] # "none" /\ ProxyOf(u)' = ProxyOf(u)
                       /\ Closed(sRx[ProxyOf(u)]) => Closed(sRx'[ProxyOf(u)])
<1>3. ASSUME UNCHANGED sTx, \A u \in Tag : sWorkers'[u] # "none" => Stays(u)
      PROVE  ServerHears(w)'
  <2>1. \A u \in Tag : sWorkers'[u] # "none" =>
          /\ sWorkers[u] # "none" /\ ProxyOf(u)' = ProxyOf(u)
          /\ Closed(sRx[ProxyOf(u)]) => Closed(sRx'[ProxyOf(u)])
          /\ Count(cMailq', u, w) = Count(cMailq, u, w)
    BY <1>1, <1>3
  <2> QED BY <1>1, <1>2, <1>3, <2>1, HearsFrame
<1>4. CASE SP!Idles
  BY <1>3, <1>4, IdleFacts
<1>5. ASSUME NEW t \in Tag, SP!ReadsBody(t) PROVE ServerHears(w)'
  <2>1. PICK s \in Proxy :
          /\ s = ProxyOf(t) /\ sWorkers[t] # "none"
          /\ sRx[s] \in Seq(Body \cup Ends) /\ sRx[s] # <<>> /\ Head(sRx[s]) \in Body
          /\ sRx'[s] = Tail(sRx[s]) /\ \A z \in Proxy \ {s} : sRx'[z] = sRx[z]
          /\ ProxyOf(t)' = s /\ UNCHANGED sTx
          /\ \A u \in Tag \ {t} : /\ sWorkers'[u] = sWorkers[u]
                                  /\ sWorkers[u] # "none" =>
                                       ProxyOf(u)' = ProxyOf(u) /\ ProxyOf(u) # s
    BY <1>5, ReadBodyFacts
  <2>2. Closed(Tail(sRx[s])) <=> Closed(sRx[s])
    <3>1. Carries(sRx[s], world.proxy[s], proxySaid[s]) /\ proxySaid[s] \in Nat
      BY WorldTypes DEF ProxyCarries
    <3> QED BY <2>1, <3>1, CarriesRead
  <2>3. \A u \in Tag : sWorkers'[u] # "none" => Stays(u)
    <3> TAKE u \in Tag
    <3>1. CASE u = t
      BY <2>1, <2>2, <3>1
    <3>2. CASE u # t
      BY <2>1, <3>2, ProxyFound
    <3> QED BY <3>1, <3>2
  <2> QED BY <1>3, <2>1, <2>3
<1>6. ASSUME NEW t \in Tag, SP!ReadsEnd(t) PROVE ServerHears(w)'
  <2>1. PICK s \in Proxy :
          /\ \A z \in Proxy \ {s} : sRx'[z] = sRx[z]
          /\ sWorkers'[t] = "none" /\ UNCHANGED sTx
          /\ \A u \in Tag \ {t} : /\ sWorkers'[u] = sWorkers[u]
                                  /\ sWorkers[u] # "none" =>
                                       ProxyOf(u)' = ProxyOf(u) /\ ProxyOf(u) # s
    BY <1>6, ReadEndFacts
  <2>2. \A u \in Tag : sWorkers'[u] # "none" => Stays(u)
    <3> TAKE u \in Tag
    <3> QED BY <2>1, ProxyFound
  <2> QED BY <1>3, <2>1, <2>2
<1> QED BY <1>4, <1>5, <1>6

\* A packet is taken in.
LEMMA PacketHears ==
  ASSUME IInv, ClientSide, ProxyCarries, ServerReceives, NEW w \in Nat, ServerHears(w),
         w + 1 \in 1 .. Len(cMailq), Head(sWork) = cMailq[w+1],
         NEW t \in Tag, t = cMailq[w+1].tag,
         \/ sWorkers[t] = "none" /\ SP!Idles
         \/ SP!Opens(t) \/ SP!Puts(t) \/ SP!Closes(t)
  PROVE  ServerHears(w+1)'
<1>1. UNCHANGED <<cMailq, world>>
  BY DEF ServerReceives, client, history
<1>2. ASSUME UNCHANGED <<sTx, sRx>>, sWorkers'[t] = "none",
             \A u \in Tag \ {t} : /\ sWorkers'[u] = sWorkers[u]
                                  /\ sWorkers[u] # "none" => ProxyOf(u)' = ProxyOf(u)
      PROVE  ServerHears(w+1)'
  <2>1. \A u \in Tag : sWorkers'[u] # "none" =>
          /\ sWorkers[u] # "none" /\ ProxyOf(u)' = ProxyOf(u)
          /\ Closed(sRx[ProxyOf(u)]) => Closed(sRx'[ProxyOf(u)])
          /\ Count(cMailq', u, w+1) = Count(cMailq, u, w)
    <3> TAKE u \in Tag
    <3>1. u # t => Count(cMailq, u, w+1) = Count(cMailq, u, w)
      BY CountStep
    <3> QED BY <1>1, <1>2, <3>1
  <2>2. \A u \in Nat : Count(cMailq, u, w) <= Count(cMailq', u, w+1)
    BY <1>1, CountMore
  <2>3. w + 1 \in Nat
    OBVIOUS
  <2> QED BY <1>1, <1>2, <2>1, <2>2, <2>3, HearsFrame
<1>3. CASE sWorkers[t] = "none" /\ SP!Idles
  BY <1>2, <1>3, IdleFacts
<1>4. CASE SP!Closes(t)
  BY <1>2, <1>4, CloseFacts
<1>5. CASE SP!Opens(t)
  BY <1>1, <1>5, OpenHears
<1>6. CASE SP!Puts(t)
  BY <1>6, PutHears
<1> QED BY <1>3, <1>4, <1>5, <1>6

\* A queue stays as it is, or a packet is appended.
LEMMA ServerQueues ==
  ASSUME IInv, S!Receive
  PROVE  sMailq' = sMailq \/ \E pkt \in C!Packet : sMailq' = Append(sMailq, pkt)
<1>1. SP!ReceiveEffect
  BY ServerStep DEF IInv
<1> QED BY <1>1, SamePackets DEF SP!ReceiveEffect

LEMMA ClientQueues ==
  ASSUME IInv, C!Receive
  PROVE  cMailq' = cMailq \/ \E pkt \in C!Packet : cMailq' = Append(cMailq, pkt)
<1>1. CP!ReceiveEffect
  BY ClientStep DEF IInv
<1> QED BY <1>1, SamePackets DEF CP!ReceiveEffect

LEMMA QueuePrefix ==
  ASSUME NEW q \in Seq(C!Packet), NEW q1, NEW t, NEW k \in 0 .. Len(q),
         q1 = q \/ \E pkt \in C!Packet : q1 = Append(q, pkt)
  PROVE  Count(q1, t, k) = Count(q, t, k) /\ (Open(q1, t, k) <=> Open(q, t, k))
<1>1. ASSUME NEW pkt \in C!Packet, q1 = Append(q, pkt)
      PROVE  Count(q1, t, k) = Count(q, t, k) /\ (Open(q1, t, k) <=> Open(q, t, k))
  <2>1. /\ Count(Append(q, pkt), t, k) = Count(q, t, k)
        /\ Open(Append(q, pkt), t, k) <=> Open(q, t, k)
    BY CountPrefix
  <2> QED BY <1>1, <2>1
<1>2. CASE q1 = q
  BY <1>2
<1> QED BY <1>1, <1>2

\* The server has taken in w packets, or one more.
LEMMA ServerUp ==
  ASSUME IInv, ClientSide, ProxyCarries, ServerReceives, SP!NothingAtHand,
         NEW w \in Nat, UpAt(w)
  PROVE  SP!NothingAtHand' /\ ProxyCarries' /\ \E v \in Nat : UpAt(v)'
<1>1. /\ S!Receive /\ UNCHANGED <<upGot, cMailq, proxySaid, world>>
  BY DEF ServerReceives, client, history
<1>2. w \in 0 .. Len(upGot) /\ SP!Pending(SP!Files, sSpool, sWork, upGot, w)
  BY DEF UpAt
<1>3. ServerHears(w) /\ NotReopened(w)
  BY DEF UpAt
<1>4. CASE /\ SP!Idles \/ \E t \in Tag : SP!ReadsBody(t) \/ SP!ReadsEnd(t)
           /\ SP!Pending(SP!Files', sSpool', sWork', upGot, w)
  <2>1. ServerHears(w)'
    BY <1>3, <1>4, EventHears
  <2>2. NotReopened(w)'
    BY <1>3, <1>4, ServerReopens
  <2>3. ProxyCarries'
    BY <1>1, <1>4, ServerCarries
  <2>4. UpAt(w)'
    BY <1>1, <1>2, <1>4, <2>1, <2>2 DEF UpAt
  <2>5. SP!NothingAtHand'
    BY <1>1, <1>2, ServerDoes
  <2> QED BY <2>3, <2>4, <2>5
<1>5. CASE /\ w + 1 \in 1 .. Len(upGot)
           /\ Head(sWork) = upGot[w+1]
           /\ \E t \in Tag : /\ t = upGot[w+1].tag
                             /\ \/ sWorkers[t] = "none" /\ SP!Idles
                                \/ SP!Opens(t) \/ SP!Puts(t)
                                \/ SP!Closes(t) /\ ~C!IsData(upGot[w+1])
           /\ SP!Pending(SP!Files', sSpool', sWork', upGot, w+1)
  <2>1. w + 1 \in 1 .. Len(cMailq) /\ upGot[w+1] = cMailq[w+1]
    BY <1>2, <1>5, ByteTypes, NextOfPrefix
  <2>2. PICK t \in Tag : /\ t = cMailq[w+1].tag
                         /\ \/ sWorkers[t] = "none" /\ SP!Idles
                            \/ SP!Opens(t) \/ SP!Puts(t)
                            \/ SP!Closes(t) /\ ~C!IsData(cMailq[w+1])
    BY <1>5, <2>1
  <2>3. Head(sWork) = cMailq[w+1] /\ t = Head(sWork).tag
    BY <1>5, <2>1, <2>2
  <2>4. ServerHears(w+1)'
    BY <1>3, <2>1, <2>2, <2>3, PacketHears
  <2>5. NotReopened(w+1)'
    <3>1. w + 1 \in Nat
      OBVIOUS
    <3> QED BY <1>3, <2>2, <2>3, <3>1, ServerReopens
  <2>6. ProxyCarries'
    BY <1>1, <2>2, <2>3, ServerCarries
  <2>7. UpAt(w+1)'
    <3>1. w + 1 \in 0 .. Len(upGot)
      BY <1>5
    <3> QED BY <1>1, <1>5, <2>4, <2>5, <3>1 DEF UpAt
  <2>8. SP!NothingAtHand'
    BY <1>1, <1>2, ServerDoes
  <2> QED BY <2>6, <2>7, <2>8
<1> QED BY <1>1, <1>2, <1>4, <1>5, ServerDoes

\* What the server does to what the client has yet to take in.
LEMMA ServerDown ==
  ASSUME IInv, ClientSide, ProxyCarries, ServerReceives, SP!NothingAtHand,
         NEW w \in Nat, UpAt(w), NEW d \in Nat, DownAt(d)
  PROVE  DownAt(d)'
<1>1. /\ S!Receive
      /\ UNCHANGED <<upGot, downGot, cMailq, cWorkers, cPaths, cNotices, cSpool, cWork>>
  BY DEF ServerReceives, client, history
<1>2. w \in 0 .. Len(upGot) /\ SP!Pending(SP!Files, sSpool, sWork, upGot, w)
      /\ NotReopened(w)
  BY DEF UpAt
<1>3. d \in 0 .. Len(downGot) /\ CP!Pending(CP!Files, cSpool, cWork, downGot, d)
      /\ ClientHears(d) /\ ClientOpen(d)
  BY DEF DownAt
<1>4. d \in 0 .. Len(sMailq) /\ sMailq \in Seq(C!Packet)
  BY <1>3, ByteTypes, PrefixLen
<1>5. ClientHears(d)'
  <2>1. CASE SP!Idles \/ \E t \in Tag : SP!ReadsBody(t) \/ SP!ReadsEnd(t)
    BY <1>3, <1>4, <2>1, ServerAnswers
  <2>2. CASE /\ w + 1 \in 1 .. Len(upGot) /\ Head(sWork) = upGot[w+1]
             /\ \E t \in Tag : /\ t = upGot[w+1].tag
                               /\ \/ sWorkers[t] = "none" /\ SP!Idles
                                  \/ SP!Opens(t) \/ SP!Puts(t) \/ SP!Closes(t)
    <3>1. w + 1 \in 1 .. Len(cMailq) /\ upGot[w+1] = cMailq[w+1]
      BY <1>2, <2>2, ByteTypes, NextOfPrefix
    <3>2. PICK t \in Tag : /\ t = cMailq[w+1].tag /\ t = Head(sWork).tag
                           /\ SP!Idles \/ SP!Opens(t) \/ SP!Puts(t) \/ SP!Closes(t)
      BY <2>2, <3>1
    <3>3. SP!Idles \/ \E k \in Nat : /\ NotReopened(k) /\ k + 1 \in 1 .. Len(cMailq)
                                     /\ t = cMailq[k+1].tag /\ t = Head(sWork).tag
                                     /\ SP!Opens(t) \/ SP!Puts(t) \/ SP!Closes(t)
      BY <1>2, <3>1, <3>2
    <3> QED BY <1>3, <1>4, <3>3, ServerAnswers
  <2> QED BY <1>1, <1>2, <2>1, <2>2, ServerDoes
<1>6. ClientOpen(d)'
  <2>1. \A t \in Tag : Open(sMailq', t, d) <=> Open(sMailq, t, d)
    BY <1>1, <1>4, ServerQueues, QueuePrefix
  <2> QED BY <1>1, <1>3, <2>1 DEF ClientOpen
<1>7. CP!Files' = CP!Files
  BY <1>1 DEF CP!Files
<1> QED BY <1>1, <1>3, <1>5, <1>6, <1>7 DEF DownAt

LEMMA ServerReceivesBytes == ASSUME IInv, BytesInv, ServerReceives PROVE BytesInv'
<1>1. PICK w \in Nat : UpAt(w)
  BY DEF BytesInv
<1>2. PICK d \in Nat : DownAt(d)
  BY DEF BytesInv
<1>3. ClientSide /\ ProxyCarries /\ SP!NothingAtHand
  BY DEF BytesInv
<1>4. ClientSide'
  BY <1>3, ClientSideStands DEF ServerReceives, history
<1>5. SP!NothingAtHand' /\ ProxyCarries' /\ \E v \in Nat : UpAt(v)'
  BY <1>1, <1>3, ServerUp
<1>6. DownAt(d)'
  BY <1>1, <1>2, <1>3, ServerDown
<1>7. CP!NothingAtHand'
  <2>1. UNCHANGED <<cReading, cPaths, cWork>>
    BY DEF ServerReceives, client
  <2> QED BY <2>1 DEF BytesInv, CP!NothingAtHand
<1> QED BY <1>4, <1>5, <1>6, <1>7 DEF BytesInv

-----------------------------------------------------------------------------
(* The client's receiving thread.                                          *)

\* What the server has still to take in is only added to.
LEMMA ClientUp ==
  ASSUME IInv, ClientReceives, NEW w \in Nat, UpAt(w)
  PROVE  UpAt(w)'
<1>1. C!Receive /\ UNCHANGED <<server, upGot, world>>
  BY DEF ClientReceives, history
<1>2. UNCHANGED <<sRx, sTx, sMailq, sWorkers, sFdTable, sTagToFd, sPaths, sNotices, sSpool,
                  sWork>>
  BY <1>1 DEF server
<1>3. /\ w \in 0 .. Len(upGot) /\ SP!Pending(SP!Files, sSpool, sWork, upGot, w)
      /\ ServerHears(w) /\ NotReopened(w)
  BY DEF UpAt
<1>4. w \in 0 .. Len(cMailq) /\ cMailq \in Seq(C!Packet)
  BY <1>3, ByteTypes, PrefixLen
<1>5. \A t : /\ Count(cMailq', t, w) = Count(cMailq, t, w)
             /\ Open(cMailq', t, w) <=> Open(cMailq, t, w)
  BY <1>1, <1>4, ClientQueues, QueuePrefix
<1>6. ServerHears(w)'
  <2>1. \A t \in Nat : Count(cMailq, t, w) <= Count(cMailq', t, w)
    BY <1>5, CountMore
  <2>2. \A t \in Tag : sWorkers'[t] # "none" =>
          /\ sWorkers[t] # "none" /\ ProxyOf(t)' = ProxyOf(t)
          /\ Closed(sRx[ProxyOf(t)]) => Closed(sRx'[ProxyOf(t)])
          /\ Count(cMailq', t, w) = Count(cMailq, t, w)
    BY <1>2, <1>5 DEF ProxyOf
  <2> QED BY <1>1, <1>2, <1>3, <2>1, <2>2, HearsFrame
<1>7. NotReopened(w)'
  BY <1>2, <1>3, <1>5 DEF NotReopened
<1>8. SP!Files' = SP!Files
  BY <1>2 DEF SP!Files
<1> QED BY <1>1, <1>2, <1>3, <1>6, <1>7, <1>8 DEF UpAt

LEMMA AnswersStand ==
  ASSUME UNCHANGED <<sMailq, sWorkers, sRx, sFdTable, sTagToFd, proxySaid, world>>,
         NEW t \in Tag, NEW s \in Proxy, AnswersFor(t, s)
  PROVE  AnswersFor(t, s)'
BY DEF AnswersFor, ReadS, ProxyOf

\* The browser of tag u is not written to.
LEMMA HearsKept ==
  ASSUME IInv, UNCHANGED <<sMailq, world>>, NEW w \in Nat, NEW v \in Nat, v = w \/ v = w + 1,
         NEW u \in Tag, NEW s \in Proxy, HearsProxy(u, s, w),
         u + 1 \in Browser => cTx'[u+1] = cTx[u+1],
         cWorkers'[u] # "none" =>
           /\ cWorkers[u] # "none" /\ u + 1 \in Browser
           /\ Closed(cRx[u+1]) => Closed(cRx'[u+1])
           /\ Count(sMailq, u, v) = Count(sMailq, u, w)
  PROVE  HearsProxy(u, s, v)'
<1>1. u + 1 \in Browser => Within(cTx[u+1], world.proxy[s], Count(sMailq, u, v))
  BY WorldTypes, HearNothing DEF HearsProxy
<1>2. u + 1 \in Browser => Within(cTx'[u+1], world.proxy[s], Count(sMailq, u, v))
  BY <1>1
<1>3. ASSUME cWorkers'[u] # "none", ~MayBe("stall"), ~Closed(cRx'[u+1])
      PROVE  /\ Aligned(cTx'[u+1], world.proxy[s], Count(sMailq, u, v))
             /\ Len(cTx'[u+1]) = Count(sMailq, u, v)
  BY <1>3 DEF HearsProxy
<1> QED BY <1>2, <1>3 DEF HearsProxy, MayBe

\* No browser is written to, and no connection made.
LEMMA ClientHearsFrame ==
  ASSUME IInv, UNCHANGED <<server, proxySaid, world, cTx>>,
         NEW w \in Nat, NEW v \in Nat, v = w \/ v = w + 1, ClientHears(w), ClientOpen(w),
         \A u \in Tag : cWorkers'[u] # "none" =>
           /\ cWorkers[u] # "none" /\ u + 1 \in Browser
           /\ Closed(cRx[u+1]) => Closed(cRx'[u+1])
           /\ v = w + 1 => sMailq[w+1].tag # u
  PROVE  ClientHears(v)' /\ ClientOpen(v)'
<1>1. UNCHANGED <<sMailq, sWorkers, sRx, sFdTable, sTagToFd>>
  BY DEF server
<1>2. \A u \in Tag : cWorkers'[u] # "none" =>
        /\ Count(sMailq, u, v) = Count(sMailq, u, w)
        /\ Open(sMailq, u, w) => Open(sMailq, u, v)
  BY CountStep, OpenStep
<1>3. ASSUME NEW u \in Tag PROVE \E s \in Proxy : AnswersFor(u, s)' /\ HearsProxy(u, s, v)'
  <2>1. PICK s \in Proxy : AnswersFor(u, s) /\ HearsProxy(u, s, w)
    BY DEF ClientHears
  <2>2. AnswersFor(u, s)'
    BY <1>1, <2>1, AnswersStand
  <2>3. HearsProxy(u, s, v)'
    BY <1>1, <1>2, <2>1, HearsKept
  <2> QED BY <2>2, <2>3
<1>4. ClientHears(v)'
  BY <1>3 DEF ClientHears
<1>5. ClientOpen(v)'
  BY <1>1, <1>2 DEF ClientOpen
<1> QED BY <1>4, <1>5

\* A browser whose connection has just been accepted has been told nothing.
LEMMA AcceptHears ==
  ASSUME IInv, ClientSide, UNCHANGED <<server, proxySaid, world>>, CP!Accepts,
         NEW w \in 0 .. Len(sMailq), ClientHears(w), ClientOpen(w)
  PROVE  ClientHears(w)' /\ ClientOpen(w)'
<1>1. UNCHANGED <<sMailq, sWorkers, sRx, sFdTable, sTagToFd>>
  BY DEF server
<1>2. PICK n \in Tag :
        /\ n = cNextTag /\ cBacklog # <<>> /\ BrowserOf(n)' = Head(cBacklog)
        /\ UNCHANGED <<cRx, cTx>>
        /\ \A u \in Tag \ {n} : cWorkers'[u] = cWorkers[u]
  BY AcceptFacts
<1>3. n \in Nat /\ w \in Nat
  BY ConstantTypes
<1>4. n + 1 \in Browser /\ cTx[n+1] = <<>>
  <2>1. /\ Len(cBacklog) \in Nat /\ Len(cBacklog) # 0 /\ DOMAIN cBacklog = 1 .. Len(cBacklog)
        /\ cBacklog \in Seq(Browser)
    BY <1>2, ByteTypes, LenProperties, EmptySeq
  <2>2. 1 \in DOMAIN cBacklog
    BY <2>1
  <2>3. cBacklog[1] = n + 1 /\ cBacklog[1] \in Browser
    BY <1>2, <2>1, <2>2, ElementOfSeq DEF ClientSide, Numbered
  <2>4. ~(n + 1 <= cNextTag)
    BY <1>2, <1>3
  <2> QED BY <2>3, <2>4 DEF ClientSide, BrowsersCarry
<1>5. Count(sMailq, n, w) = 0 /\ Open(sMailq, n, w)
  <2>1. n \notin Tags(cMailq)
    <3>1. ~(n < cNextTag)
      BY <1>2, <1>3
    <3> QED BY <3>1 DEF IInv, Issued
  <2>2. n \notin Tags(sMailq)
    BY <2>1 DEF IInv, ServerTold
  <2> QED BY <2>2, ByteTypes, Untold
<1>6. ASSUME NEW u \in Tag PROVE \E s \in Proxy : AnswersFor(u, s)' /\ HearsProxy(u, s, w)'
  <2>1. PICK s \in Proxy : AnswersFor(u, s) /\ HearsProxy(u, s, w)
    BY DEF ClientHears
  <2>2. AnswersFor(u, s)'
    BY <1>1, <2>1, AnswersStand
  <2>3. HearsProxy(u, s, w)'
    <3>1. CASE u = n
      <4>1. /\ Within(<<>>, world.proxy[s], 0) /\ Aligned(<<>>, world.proxy[s], 0)
            /\ Len(<<>>) = 0
        BY NothingWritten
      <4> QED BY <1>1, <1>2, <1>4, <1>5, <3>1, <4>1 DEF HearsProxy
    <3>2. CASE u # n
      BY <1>1, <1>2, <2>1, <3>2 DEF HearsProxy, MayBe
    <3> QED BY <3>1, <3>2
  <2> QED BY <2>2, <2>3
<1>7. ASSUME NEW u \in Tag, cWorkers'[u] # "none" PROVE Open(sMailq, u, w)
  <2>1. CASE u = n
    BY <1>5, <2>1
  <2>2. CASE u # n
    BY <1>2, <1>7, <2>2 DEF ClientOpen
  <2> QED BY <2>1, <2>2
<1> QED BY <1>1, <1>6, <1>7 DEF ClientHears, ClientOpen

LEMMA DeliverFacts ==
  ASSUME IInv, Numbered, ClientReceives, NEW t \in Tag, t = Head(cWork).tag, CP!Puts(t)
  PROVE  /\ cWorkers[t] # "none" /\ t + 1 \in Browser /\ C!IsData(Head(cWork))
         /\ \/ cTx' = [cTx EXCEPT ![t+1] = Append(cTx[t+1], Head(cWork).body)]
            \/ cTx' = cTx /\ (MayBe("stall") \/ Closed(cRx[t+1]))
         /\ UNCHANGED cRx
         /\ \A u \in Tag : cWorkers'[u] = cWorkers[u]
<1>1. BrowserOf(t) = t + 1 /\ t + 1 \in Browser
  BY BrowserFound DEF CP!Puts
<1>2. /\ cWorkers[t] # "none" /\ C!IsData(Head(cWork))
      /\ CP!SockPut(t+1, Head(cWork)) /\ C!Deliver
      /\ UNCHANGED cRx /\ \A u \in Tag : cWorkers'[u] = cWorkers[u]
  BY <1>1, SameConns, SameData, SameDeliveries DEF CP!Puts, CP!KeepsOthers
<1>3. \/ cTx' = [cTx EXCEPT ![t+1] = Append(cTx[t+1], Head(cWork).body)]
      \/ cTx' = cTx
  BY <1>2, SameData DEF CP!SockPut, CP!Written
<1>4. cTx' = cTx => MayBe("stall") \/ Closed(cRx[t+1])
  <2>1. MayBe("stall") \/ ~ClientGivesUp
    BY DEF ClientReceives
  <2>2. C!PeerEnded(t+1) <=> Closed(cRx[t+1])
    BY SameClosed
  <2>3. cTx' = cTx /\ ~C!PeerEnded(t+1) => ClientGivesUp
    BY <1>1, <1>2 DEF ClientGivesUp
  <2> QED BY <2>1, <2>2, <2>3
<1> QED BY <1>1, <1>2, <1>3, <1>4

\* A packet of the server is written to its browser, or given up.
LEMMA DeliverHears ==
  ASSUME IInv, ClientSide, ClientReceives, NEW w \in Nat, ClientHears(w), ClientOpen(w),
         w + 1 \in 1 .. Len(sMailq), Head(cWork) = sMailq[w+1],
         NEW t \in Tag, t = sMailq[w+1].tag, CP!Puts(t)
  PROVE  ClientHears(w+1)' /\ ClientOpen(w+1)'
<1>1. /\ cWorkers[t] # "none" /\ t + 1 \in Browser /\ C!IsData(sMailq[w+1])
      /\ \/ cTx' = [cTx EXCEPT ![t+1] = Append(cTx[t+1], sMailq[w+1].body)]
         \/ cTx' = cTx /\ (MayBe("stall") \/ Closed(cRx[t+1]))
      /\ UNCHANGED cRx
      /\ \A u \in Tag : cWorkers'[u] = cWorkers[u]
  BY DeliverFacts DEF ClientSide
<1>2. UNCHANGED <<sMailq, sWorkers, sRx, sFdTable, sTagToFd, proxySaid, world>>
  BY DEF ClientReceives, server, history
<1>3. /\ \A u \in Tag : Open(sMailq, u, w+1) <=>
                          Open(sMailq, u, w) /\ (sMailq[w+1].tag = u => C!IsData(sMailq[w+1]))
      /\ \A u \in Tag : u # t => Count(sMailq, u, w+1) = Count(sMailq, u, w)
  BY OpenStep, CountStep
<1>4. ClientOpen(w+1)'
  BY <1>1, <1>2, <1>3 DEF ClientOpen
<1>5. ASSUME NEW u \in Tag
      PROVE  \E s \in Proxy : AnswersFor(u, s)' /\ HearsProxy(u, s, w+1)'
  <2>1. PICK s \in Proxy : AnswersFor(u, s) /\ HearsProxy(u, s, w)
    BY DEF ClientHears
  <2>2. AnswersFor(u, s)'
    BY <1>2, <2>1, AnswersStand
  <2>3. CASE u # t
    <3>1. u + 1 # t + 1
      BY <2>3, ConstantTypes
    <3>2. u + 1 \in Browser => cTx'[u+1] = cTx[u+1]
      BY <1>1, <3>1, ByteTypes
    <3>3. cWorkers'[u] # "none" => cWorkers[u] # "none" /\ u + 1 \in Browser
      BY <1>1, BrowserFound DEF ClientSide
    <3>4. w + 1 \in Nat
      OBVIOUS
    <3>5. HearsProxy(u, s, w+1)'
      BY <1>1, <1>2, <1>3, <2>1, <2>3, <3>2, <3>3, <3>4, HearsKept
    <3> QED BY <2>2, <3>5
  <2>4. CASE u = t
    <3> DEFINE q == sMailq
               says == world.proxy[s]
               data == cTx[t+1]
               b == sMailq[w+1].body
    <3>1. /\ q \in Seq(C!Packet) /\ data \in Seq(Body) /\ b = q[w+1].body
          /\ cTx \in [Browser -> Seq(Body)]
          /\ says \in Seq(Body) /\ proxySaid[s] \in Nat /\ proxySaid[s] <= Len(says)
          /\ Speaks(q, t, says, proxySaid[s])
          /\ Within(data, says, Count(q, t, w))
          /\ Open(q, t, w+1) /\ w + 1 \in 1 .. Len(q)
          /\ q[w+1].tag = t /\ C!IsData(q[w+1])
      BY <1>1, <1>3, <2>1, <2>4, ByteTypes, WorldTypes DEF ClientOpen, AnswersFor, HearsProxy
    <3>2. ~MayBe("stall") /\ ~Closed(cRx[t+1]) =>
            Aligned(data, says, Count(q, t, w)) /\ Len(data) = Count(q, t, w)
      BY <1>1, <2>1, <2>4 DEF HearsProxy
    <3>3. \/ cTx'[t+1] = Append(data, b)
          \/ cTx'[t+1] = data /\ (MayBe("stall") \/ Closed(cRx[t+1]))
      BY <1>1, <3>1
    <3> HIDE DEF q, says, data, b
    <3>4. /\ Count(q, t, w+1) = Count(q, t, w) + 1 /\ Len(Append(data, b)) = Len(data) + 1
          /\ Within(data, says, Count(q, t, w+1)) /\ Within(Append(data, b), says, Count(q, t, w+1))
          /\ Aligned(data, says, Count(q, t, w)) => Aligned(Append(data, b), says, Count(q, t, w+1))
      <4> DEFINE m == proxySaid[s]
      <4>1. /\ q \in Seq(C!Packet) /\ data \in Seq(Body)
            /\ says \in Seq(Body) /\ m \in Nat /\ m <= Len(says) /\ Speaks(q, t, says, m)
            /\ Within(data, says, Count(q, t, w))
            /\ Open(q, t, w+1) /\ w + 1 \in 1 .. Len(q)
            /\ q[w+1].tag = t /\ C!IsData(q[w+1])
        BY <3>1
      <4> HIDE DEF m
      <4>2. /\ Count(q, t, w+1) = Count(q, t, w) + 1
            /\ Len(Append(data, q[w+1].body)) = Len(data) + 1
            /\ Within(data, says, Count(q, t, w+1))
            /\ Within(Append(data, q[w+1].body), says, Count(q, t, w+1))
            /\ Aligned(data, says, Count(q, t, w)) =>
                 Aligned(Append(data, q[w+1].body), says, Count(q, t, w+1))
        BY <4>1, HearNext
      <4> QED BY <3>1, <4>2
    <3>5. Within(cTx'[t+1], says, Count(q, t, w+1))
      BY <3>3, <3>4, Zenon
    <3>6. ~MayBe("stall") /\ ~Closed(cRx[t+1]) =>
            /\ Aligned(cTx'[t+1], says, Count(q, t, w+1))
            /\ Len(cTx'[t+1]) = Count(q, t, w+1)
      BY <3>2, <3>3, <3>4
    <3>7. HearsProxy(t, s, w+1)'
      BY <1>1, <1>2, <3>5, <3>6 DEF HearsProxy, MayBe, q, says
    <3> QED BY <2>2, <2>4, <3>7
  <2> QED BY <2>3, <2>4
<1>6. ClientHears(w+1)'
  BY <1>5 DEF ClientHears
<1> QED BY <1>4, <1>6

\* What a step without a packet leaves of the client's connections.
LEMMA EventKeeps ==
  ASSUME IInv, ClientSide, CP!Idles \/ \E t \in Tag : CP!ReadsBody(t) \/ CP!ReadsEnd(t)
  PROVE  /\ UNCHANGED cTx
         /\ \A u \in Tag : cWorkers'[u] # "none" =>
              /\ cWorkers[u] # "none" /\ u + 1 \in Browser
              /\ Closed(cRx[u+1]) => Closed(cRx'[u+1])
<1> USE DEF ClientSide
<1>1. \A u \in Tag : cWorkers[u] # "none" => u + 1 \in Browser
  BY BrowserFound
<1>2. CASE CP!Idles
  BY <1>1, <1>2 DEF CP!Idles, CP!KeepsOthers
<1>3. ASSUME NEW t \in Tag, CP!ReadsBody(t) \/ CP!ReadsEnd(t)
      PROVE  /\ UNCHANGED cTx
             /\ \A u \in Tag : cWorkers'[u] # "none" =>
                  /\ cWorkers[u] # "none" /\ u + 1 \in Browser
                  /\ Closed(cRx[u+1]) => Closed(cRx'[u+1])
  <2>1. /\ CP!ConnOf(t) = t + 1 /\ t + 1 \in Browsers /\ t + 1 \in Browser /\ t \in Nat
    BY <1>3, BrowserFound, SameConns DEF CP!ReadsBody, CP!ReadsEnd
  <2>2. /\ UNCHANGED cTx
        /\ \A u \in Tag \ {t} : cWorkers'[u] = cWorkers[u]
        /\ \A c \in Browser \ {t+1} : cRx'[c] = cRx[c]
        /\ cWorkers'[t] # "none" =>
             /\ cWorkers[t] # "none" /\ cRx[t+1] # <<>> /\ Head(cRx[t+1]) \in Body
             /\ cRx'[t+1] = Tail(cRx[t+1])
    <3>1. cRx \in [Browser -> Seq(Body \cup Ends)]
      BY ByteTypes
    <3>2. CASE CP!ReadsBody(t)
      <4>1. /\ UNCHANGED cTx /\ cWorkers[t] # "none"
            /\ cRx[t+1] # <<>> /\ Head(cRx[t+1]) \in Body
            /\ cRx' = [cRx EXCEPT ![t+1] = Tail(cRx[t+1])]
        BY <2>1, <3>2 DEF CP!ReadsBody
      <4>2. \A u \in Tag \ {t} : cWorkers'[u] = cWorkers[u]
        BY <3>2 DEF CP!ReadsBody, CP!KeepsOthers
      <4> QED BY <2>1, <3>1, <4>1, <4>2
    <3>3. CASE CP!ReadsEnd(t)
      <4>1. /\ UNCHANGED cTx /\ cWorkers'[t] = "none"
            /\ cRx' = [cRx EXCEPT ![t+1] = <<>>]
        BY <2>1, <3>3 DEF CP!ReadsEnd
      <4>2. \A u \in Tag \ {t} : cWorkers'[u] = cWorkers[u]
        BY <3>3 DEF CP!ReadsEnd, CP!KeepsOthers
      <4> QED BY <2>1, <3>1, <4>1, <4>2
    <3> QED BY <1>3, <3>2, <3>3
  <2>3. cWorkers'[t] # "none" => (Closed(cRx[t+1]) => Closed(cRx'[t+1]))
    <3>1. /\ cRx[t+1] \in Seq(Body \cup Ends) /\ browserSaid[t+1] \in Nat
          /\ Carries(cRx[t+1], world.browsers[t+1], browserSaid[t+1])
      BY <2>1, ByteTypes, WorldTypes DEF BrowsersCarry
    <3> DEFINE r == cRx[t+1]
               says == world.browsers[t+1]
               m == browserSaid[t+1]
    <3>2. r \in Seq(Body \cup Ends) /\ m \in Nat /\ Carries(r, says, m)
      BY <3>1
    <3> HIDE DEF r, says, m
    <3>3. r # <<>> /\ Head(r) \in Body => (Closed(Tail(r)) <=> Closed(r))
      BY <3>2, CarriesRead
    <3> QED BY <2>2, <3>3 DEF r
  <2>4. ASSUME NEW u \in Tag, cWorkers'[u] # "none"
        PROVE  /\ cWorkers[u] # "none" /\ u + 1 \in Browser
               /\ Closed(cRx[u+1]) => Closed(cRx'[u+1])
    <3>1. CASE u = t
      BY <2>1, <2>2, <2>3, <2>4, <3>1
    <3>2. CASE u # t
      <4>1. u + 1 # t + 1
        BY <3>2, ConstantTypes
      <4> QED BY <1>1, <2>2, <2>4, <3>2, <4>1
    <3> QED BY <3>1, <3>2
  <2> QED BY <2>2, <2>4
<1> QED BY <1>2, <1>3

\* The client has taken in d packets, or one more.
LEMMA ClientDown ==
  ASSUME IInv, ClientSide, ClientReceives, CP!NothingAtHand, NEW d \in Nat, DownAt(d)
  PROVE  CP!NothingAtHand' /\ \E v \in Nat : DownAt(v)'
<1>1. C!Receive /\ UNCHANGED <<server, downGot, proxySaid, world>>
  BY DEF ClientReceives, history
<1>2. /\ d \in 0 .. Len(downGot) /\ CP!Pending(CP!Files, cSpool, cWork, downGot, d)
      /\ ClientHears(d) /\ ClientOpen(d)
  BY DEF DownAt
<1>3. d \in 0 .. Len(sMailq)
  BY <1>2, ByteTypes, PrefixLen
<1>4. CP!NothingAtHand'
  BY <1>1, <1>2, ClientDoes
<1>5. CASE /\ CP!Idles \/ CP!Accepts \/ \E t \in Tag : CP!ReadsBody(t) \/ CP!ReadsEnd(t)
           /\ CP!Pending(CP!Files', cSpool', cWork', downGot, d)
  <2>1. ClientHears(d)' /\ ClientOpen(d)'
    <3>1. CASE CP!Accepts
      BY <1>1, <1>2, <1>3, <3>1, AcceptHears
    <3>2. CASE CP!Idles \/ \E t \in Tag : CP!ReadsBody(t) \/ CP!ReadsEnd(t)
      <4>1. /\ UNCHANGED cTx
            /\ \A u \in Tag : cWorkers'[u] # "none" =>
                 /\ cWorkers[u] # "none" /\ u + 1 \in Browser
                 /\ Closed(cRx[u+1]) => Closed(cRx'[u+1])
        BY <3>2, EventKeeps
      <4>2. d # d + 1
        OBVIOUS
      <4> QED BY <1>1, <1>2, <4>1, <4>2, ClientHearsFrame
    <3> QED BY <1>5, <3>1, <3>2
  <2>2. DownAt(d)'
    BY <1>1, <1>2, <1>5, <2>1 DEF DownAt
  <2> QED BY <1>4, <2>2
<1>6. CASE /\ d + 1 \in 1 .. Len(downGot) /\ Head(cWork) = downGot[d+1]
           /\ \E t \in Tag : /\ t = downGot[d+1].tag
                             /\ CP!Drops(t) \/ CP!Puts(t) \/ CP!Closes(t)
           /\ CP!Pending(CP!Files', cSpool', cWork', downGot, d+1)
  <2>1. /\ d + 1 \in 1 .. Len(sMailq) /\ downGot[d+1] = sMailq[d+1]
        /\ sMailq[d+1].tag \in Tags(sMailq)
    BY <1>2, <1>6, ByteTypes, NextOfPrefix
  <2>2. PICK t \in Tag : t = sMailq[d+1].tag /\ (CP!Drops(t) \/ CP!Puts(t) \/ CP!Closes(t))
    BY <1>6, <2>1
  <2>3. Head(cWork) = sMailq[d+1] /\ t = Head(cWork).tag
    BY <1>6, <2>1, <2>2
  <2>4. ClientHears(d+1)' /\ ClientOpen(d+1)'
    <3>1. CASE CP!Puts(t)
      BY <1>2, <2>1, <2>2, <2>3, <3>1, DeliverHears
    <3>2. CASE CP!Drops(t) \/ CP!Closes(t)
      <4>1. cWorkers[t] # "kUnInit"
        BY <2>1, <2>2 DEF IInv, ServerTold, Issued
      <4>2. cWorkers[t] \in {"none", "kUnInit", "kGranted"}
        BY ByteTypes
      <4>3. /\ UNCHANGED <<cTx, cRx>> /\ cWorkers'[t] = "none"
            /\ \A u \in Tag \ {t} : cWorkers'[u] = cWorkers[u]
        BY <3>2, <4>1, <4>2 DEF CP!Drops, CP!Closes, CP!Idles, CP!KeepsOthers
      <4>4. \A u \in Tag : cWorkers'[u] # "none" =>
              /\ cWorkers[u] # "none" /\ u + 1 \in Browser
              /\ Closed(cRx[u+1]) => Closed(cRx'[u+1])
              /\ d + 1 = d + 1 => sMailq[d+1].tag # u
        BY <2>2, <4>3, BrowserFound DEF ClientSide
      <4>5. d + 1 \in Nat
        OBVIOUS
      <4> QED BY <1>1, <1>2, <4>3, <4>4, <4>5, ClientHearsFrame
    <3> QED BY <2>2, <3>1, <3>2
  <2>5. DownAt(d+1)'
    <3>1. d + 1 \in 0 .. Len(downGot)
      BY <1>6
    <3> QED BY <1>1, <1>6, <2>4, <3>1 DEF DownAt
  <2> QED BY <1>4, <2>5
<1> QED BY <1>1, <1>2, <1>5, <1>6, ClientDoes

\* Whatever leaves the server and what the proxy said alone.
LEMMA ProxyCarriesStands ==
  ASSUME ProxyCarries, UNCHANGED <<sRx, sTx, sUsed, proxySaid, world>> PROVE ProxyCarries'
BY DEF ProxyCarries, ReadS

LEMMA ClientReceivesBytes == ASSUME IInv, BytesInv, ClientReceives PROVE BytesInv'
<1>1. PICK w \in Nat : UpAt(w)
  BY DEF BytesInv
<1>2. PICK d \in Nat : DownAt(d)
  BY DEF BytesInv
<1>3. ClientSide /\ ProxyCarries /\ CP!NothingAtHand
  BY DEF BytesInv
<1>4. ClientSide'
  BY <1>3, ClientReceivesSide
<1>5. UNCHANGED <<sRx, sTx, sUsed, proxySaid, world, sReading, sPaths, sWork>>
  BY DEF ClientReceives, server, history
<1>6. ProxyCarries'
  BY <1>3, <1>5, ProxyCarriesStands
<1>7. UpAt(w)'
  BY <1>1, ClientUp
<1>8. CP!NothingAtHand' /\ \E v \in Nat : DownAt(v)'
  BY <1>2, <1>3, ClientDown
<1>9. SP!NothingAtHand'
  BY <1>5 DEF BytesInv, SP!NothingAtHand
<1> QED BY <1>4, <1>6, <1>7, <1>8, <1>9 DEF BytesInv


-----------------------------------------------------------------------------
(* Attachments arrive.                                                     *)

\* A stream is taken further.
LEMMA PrefixGrows ==
  ASSUME NEW q \in Seq(C!Packet), NEW got \in Seq(C!Packet), IsPrefix(got, q),
         NEW k \in (Len(got) + 1) .. Len(q), NEW got1, got1 = SubSeq(q, 1, k)
  PROVE  /\ got1 \in Seq(C!Packet) /\ Len(got1) = k /\ IsPrefix(got, got1)
         /\ SubSeq(q, Len(got) + 1, Len(got1)) = SubSeq(got1, Len(got) + 1, Len(got1))
<1> DEFINE l == Len(got)
<1>1. /\ l \in Nat /\ Len(q) \in Nat /\ l <= Len(q) /\ got = SubSeq(q, 1, l)
  BY LenProperties DEF IsPrefix
<1> HIDE DEF l
<1>2. k \in Nat /\ k \in 0 .. Len(q) /\ l <= k /\ l \in 0 .. Len(q) /\ 0 \in Nat
  BY <1>1 DEF l
<1>3. got1 = SubSeq(q, 0+1, k) /\ got = SubSeq(q, 0+1, l)
  BY <1>1
<1>4. /\ got1 \in Seq(C!Packet) /\ Len(got1) = k - 0
      /\ \A i \in 1 .. (k - 0) : got1[i] = q[0+i]
  BY <1>2, <1>3, CP!PieceFacts
<1>5. \A i \in 1 .. (l - 0) : got[i] = q[0+i]
  BY <1>1, <1>2, <1>3, CP!PieceFacts
<1>6. /\ Len(got1) = k /\ \A i \in 1 .. k : got1[i] = q[i]
      /\ \A i \in 1 .. l : got[i] = q[i]
  BY <1>1, <1>2, <1>4, <1>5
<1>7. IsPrefix(got, got1)
  <2>1. SubSeq(got1, 0+1, l) = got
    <3>1. l \in 0 .. Len(got1)
      BY <1>1, <1>2, <1>6
    <3>2. /\ SubSeq(got1, 0+1, l) \in Seq(C!Packet) /\ Len(SubSeq(got1, 0+1, l)) = l - 0
          /\ \A i \in 1 .. (l - 0) : SubSeq(got1, 0+1, l)[i] = got1[0+i]
      BY <1>2, <1>4, <3>1, CP!PieceFacts
    <3> DEFINE piece == SubSeq(got1, 0+1, l)
    <3> HIDE DEF piece
    <3>3. piece \in Seq(C!Packet) /\ Len(piece) = l /\ \A i \in 1 .. l : piece[i] = got1[i]
      BY <1>1, <3>2 DEF piece
    <3>4. Len(got) = l /\ \A i \in 1 .. l : i \in 1 .. k
      BY <1>1, <1>2 DEF l
    <3>5. piece = got
      BY <1>6, <3>3, <3>4, SeqEqual
    <3> QED BY <3>5 DEF piece
  <2>2. l <= Len(got1)
    BY <1>2, <1>6
  <2> QED BY <2>1, <2>2 DEF IsPrefix, l
<1>8. SubSeq(q, l+1, k) = SubSeq(got1, l+1, k)
  <2> DEFINE a == SubSeq(q, l+1, k)
             b == SubSeq(got1, l+1, k)
  <2>1. /\ a \in Seq(C!Packet) /\ Len(a) = k - l
        /\ \A i \in 1 .. (k - l) : a[i] = q[l+i]
    BY <1>1, <1>2, CP!PieceFacts
  <2>2. k \in 0 .. Len(got1)
    BY <1>2, <1>6
  <2>3. /\ b \in Seq(C!Packet) /\ Len(b) = k - l
        /\ \A i \in 1 .. (k - l) : b[i] = got1[l+i]
    BY <1>1, <1>2, <1>4, <2>2, CP!PieceFacts
  <2> HIDE DEF a, b
  <2>4. \A i \in 1 .. (k - l) : l + i \in 1 .. k
    BY <1>1, <1>2
  <2>5. \A i \in 1 .. (k - l) : a[i] = b[i]
    BY <1>6, <2>1, <2>3, <2>4
  <2>6. a = b
    BY <2>1, <2>3, <2>5, SeqEqual
  <2> QED BY <2>6 DEF a, b
<1> QED BY <1>4, <1>6, <1>7, <1>8 DEF l

\* Whatever leaves the connections and the streams alone.
LEMMA UpStands ==
  ASSUME UNCHANGED <<sRx, sTx, sMailq, sWorkers, sFdTable, sTagToFd, cMailq, world>>,
         NEW w \in Nat, ServerHears(w), NotReopened(w)
  PROVE  ServerHears(w)' /\ NotReopened(w)'
<1>1. ASSUME NEW s \in Proxy PROVE \E c \in Browsers : HearsBrowser(s, c, w)'
  <2>1. PICK c \in Browsers : HearsBrowser(s, c, w)
    BY DEF ServerHears
  <2>2. HearsBrowser(s, c, w)'
    BY <2>1 DEF HearsBrowser, ProxyOf, MayBe
  <2> QED BY <2>2
<1>2. ServerHears(w)'
  BY <1>1 DEF ServerHears, Browsers
<1>3. NotReopened(w)'
  BY DEF NotReopened
<1> QED BY <1>2, <1>3

LEMMA DownStands ==
  ASSUME UNCHANGED <<cRx, cTx, cWorkers, sRx, sMailq, sWorkers, sFdTable, sTagToFd,
                     proxySaid, world>>,
         NEW w \in Nat, ClientHears(w), ClientOpen(w)
  PROVE  ClientHears(w)' /\ ClientOpen(w)'
<1>1. ASSUME NEW u \in Tag PROVE \E s \in Proxy : AnswersFor(u, s)' /\ HearsProxy(u, s, w)'
  <2>1. PICK s \in Proxy : AnswersFor(u, s) /\ HearsProxy(u, s, w)
    BY DEF ClientHears
  <2>2. AnswersFor(u, s)'
    BY <2>1, AnswersStand
  <2>3. HearsProxy(u, s, w)'
    BY <2>1 DEF HearsProxy, MayBe
  <2> QED BY <2>2, <2>3
<1>2. ClientHears(w)'
  BY <1>1 DEF ClientHears
<1>3. ClientOpen(w)'
  BY DEF ClientOpen
<1> QED BY <1>2, <1>3

LEMMA MailReachesServerBytes == ASSUME IInv, BytesInv, MailReachesServer PROVE BytesInv'
<1>1. PICK w \in Nat : UpAt(w)
  BY DEF BytesInv
<1>2. PICK d \in Nat : DownAt(d)
  BY DEF BytesInv
<1>3. ClientSide /\ ProxyCarries /\ CP!NothingAtHand /\ SP!NothingAtHand
  BY DEF BytesInv
<1>4. UNCHANGED client /\ UNCHANGED <<downGot, browserSaid, proxySaid, world>>
  BY DEF MailReachesServer
<1>5. PICK n \in Name : /\ Unused(n, sNotices, sPaths)
                        /\ S!MailArrives(n, SubSeq(cMailq, Len(upGot) + 1, Len(upGot')))
  BY DEF MailReachesServer
<1>6. UNCHANGED <<sRx, sTx, sMailq, sWorkers, sFdTable, sTagToFd, sUsed>>
  BY <1>5 DEF S!MailArrives, S!kernel, S!peers, S!tables
<1>7. UNCHANGED <<cRx, cTx, cMailq, cWorkers, cReading, cPaths, cWork, cNotices, cSpool>>
  BY <1>4 DEF client
<1>8. /\ w \in 0 .. Len(upGot) /\ SP!Pending(SP!Files, sSpool, sWork, upGot, w)
      /\ ServerHears(w) /\ NotReopened(w)
  BY <1>1 DEF UpAt
<1>9. /\ d \in 0 .. Len(downGot) /\ CP!Pending(CP!Files, cSpool, cWork, downGot, d)
      /\ ClientHears(d) /\ ClientOpen(d)
  BY <1>2 DEF DownAt
<1>10. PICK k \in (Len(upGot) + 1) .. Len(cMailq) : upGot' = SubSeq(cMailq, 1, k)
  BY DEF MailReachesServer, Upward!Deliver
<1> DEFINE got1 == upGot'
<1>11. /\ upGot \in Seq(C!Packet) /\ got1 \in Seq(C!Packet) /\ Len(got1) = k
       /\ IsPrefix(upGot, got1)
       /\ SubSeq(cMailq, Len(upGot) + 1, Len(got1)) = SubSeq(got1, Len(upGot) + 1, Len(got1))
  <2>1. cMailq \in Seq(C!Packet) /\ upGot \in Seq(C!Packet) /\ IsPrefix(upGot, cMailq)
    BY ByteTypes
  <2>2. got1 = SubSeq(cMailq, 1, k)
    BY <1>10
  <2> HIDE DEF got1
  <2>3. k \in (Len(upGot) + 1) .. Len(cMailq)
    OBVIOUS
  <2>4. got1 \in Seq(C!Packet)
    BY <2>1, <2>2, <2>3, PrefixGrows
  <2>5. Len(got1) = k
    BY <2>1, <2>2, <2>3, PrefixGrows
  <2>6. IsPrefix(upGot, got1)
    BY <2>1, <2>2, <2>3, PrefixGrows
  <2>7. SubSeq(cMailq, Len(upGot) + 1, Len(got1)) = SubSeq(got1, Len(upGot) + 1, Len(got1))
    BY <2>1, <2>2, <2>3, PrefixGrows
  <2> QED BY <2>1, <2>4, <2>5, <2>6, <2>7
<1>12. SP!NothingAtHand' /\ SP!Pending(SP!Files', sSpool', sWork', got1, w)
  <2>1. SP!MailArrives(n, SubSeq(got1, Len(upGot) + 1, Len(got1)))
    BY <1>5, <1>11, ServerMail
  <2>2. n \notin SP!ToSet(sPaths) \cup SP!ToSet(sNotices)
    BY <1>5 DEF Unused, Range, SP!ToSet
  <2>3. /\ upGot \in Seq(SP!Packet) /\ got1 \in Seq(SP!Packet)
        /\ SP!IsPrefix(upGot, got1)
    BY <1>11, SamePackets DEF IsPrefix, SP!IsPrefix
  <2> HIDE DEF got1
  <2> QED BY <1>3, <1>8, <1>11, <2>1, <2>2, <2>3, ServerAssumptions, SP!MailPending DEF IInv
<1>13. UpAt(w)'
  <2>1. Len(upGot) \in Nat /\ w \in 0 .. Len(upGot')
    BY <1>8, <1>10, <1>11, LenProperties
  <2> QED BY <1>4, <1>6, <1>7, <1>8, <1>12, <2>1, UpStands DEF UpAt
<1>14. DownAt(d)'
  <2>1. CP!Files' = CP!Files
    BY <1>7 DEF CP!Files
  <2> QED BY <1>4, <1>6, <1>7, <1>9, <2>1, DownStands DEF DownAt
<1>15. ClientSide' /\ ProxyCarries'
  BY <1>3, <1>4, <1>6, ClientSideStands, ProxyCarriesStands
<1>16. CP!NothingAtHand'
  BY <1>3, <1>7 DEF CP!NothingAtHand
<1> QED BY <1>12, <1>13, <1>14, <1>15, <1>16 DEF BytesInv

LEMMA MailReachesClientBytes == ASSUME IInv, BytesInv, MailReachesClient PROVE BytesInv'
<1>1. PICK w \in Nat : UpAt(w)
  BY DEF BytesInv
<1>2. PICK d \in Nat : DownAt(d)
  BY DEF BytesInv
<1>3. ClientSide /\ ProxyCarries /\ CP!NothingAtHand /\ SP!NothingAtHand
  BY DEF BytesInv
<1>4. UNCHANGED server /\ UNCHANGED <<upGot, browserSaid, proxySaid, world>>
  BY DEF MailReachesClient
<1>5. PICK n \in Name : /\ Unused(n, cNotices, cPaths)
                        /\ C!MailArrives(n, SubSeq(sMailq, Len(downGot) + 1, Len(downGot')))
  BY DEF MailReachesClient
<1>6. UNCHANGED <<sRx, sTx, sMailq, sWorkers, sFdTable, sTagToFd, sUsed, sReading, sPaths,
                  sWork, sNotices, sSpool>>
  BY <1>4 DEF server
<1>7. UNCHANGED <<cRx, cTx, cMailq, cWorkers>>
  BY <1>5 DEF C!MailArrives, C!kernel, C!peers, C!tables
<1>8. /\ w \in 0 .. Len(upGot) /\ SP!Pending(SP!Files, sSpool, sWork, upGot, w)
      /\ ServerHears(w) /\ NotReopened(w)
  BY <1>1 DEF UpAt
<1>9. /\ d \in 0 .. Len(downGot) /\ CP!Pending(CP!Files, cSpool, cWork, downGot, d)
      /\ ClientHears(d) /\ ClientOpen(d)
  BY <1>2 DEF DownAt
<1>10. PICK k \in (Len(downGot) + 1) .. Len(sMailq) : downGot' = SubSeq(sMailq, 1, k)
  BY DEF MailReachesClient, Downward!Deliver
<1> DEFINE got1 == downGot'
<1>11. /\ downGot \in Seq(C!Packet) /\ got1 \in Seq(C!Packet) /\ Len(got1) = k
       /\ IsPrefix(downGot, got1)
       /\ SubSeq(sMailq, Len(downGot) + 1, Len(got1))
            = SubSeq(got1, Len(downGot) + 1, Len(got1))
  <2>1. sMailq \in Seq(C!Packet) /\ downGot \in Seq(C!Packet) /\ IsPrefix(downGot, sMailq)
    BY ByteTypes
  <2>2. got1 = SubSeq(sMailq, 1, k)
    BY <1>10
  <2> HIDE DEF got1
  <2>3. k \in (Len(downGot) + 1) .. Len(sMailq)
    OBVIOUS
  <2>4. got1 \in Seq(C!Packet)
    BY <2>1, <2>2, <2>3, PrefixGrows
  <2>5. Len(got1) = k
    BY <2>1, <2>2, <2>3, PrefixGrows
  <2>6. IsPrefix(downGot, got1)
    BY <2>1, <2>2, <2>3, PrefixGrows
  <2>7. SubSeq(sMailq, Len(downGot) + 1, Len(got1))
          = SubSeq(got1, Len(downGot) + 1, Len(got1))
    BY <2>1, <2>2, <2>3, PrefixGrows
  <2> QED BY <2>1, <2>4, <2>5, <2>6, <2>7
<1>12. CP!NothingAtHand' /\ CP!Pending(CP!Files', cSpool', cWork', got1, d)
  <2>1. CP!MailArrives(n, SubSeq(got1, Len(downGot) + 1, Len(got1)))
    BY <1>5, <1>11, ClientMail
  <2>2. n \notin CP!ToSet(cPaths) \cup CP!ToSet(cNotices)
    BY <1>5 DEF Unused, Range, CP!ToSet
  <2>3. /\ downGot \in Seq(CP!Packet) /\ got1 \in Seq(CP!Packet)
        /\ CP!IsPrefix(downGot, got1)
    BY <1>11, SamePackets DEF IsPrefix, CP!IsPrefix
  <2> HIDE DEF got1
  <2> QED BY <1>3, <1>9, <1>11, <2>1, <2>2, <2>3, ClientAssumptions, CP!MailPending DEF IInv
<1>13. UpAt(w)'
  <2>1. SP!Files' = SP!Files
    BY <1>6 DEF SP!Files
  <2> QED BY <1>4, <1>6, <1>7, <1>8, <2>1, UpStands DEF UpAt
<1>14. DownAt(d)'
  <2>1. Len(downGot) \in Nat /\ d \in 0 .. Len(downGot')
    BY <1>9, <1>10, <1>11, LenProperties
  <2> QED BY <1>4, <1>6, <1>7, <1>9, <1>12, <2>1, DownStands DEF DownAt
<1>15. ClientSide' /\ ProxyCarries'
  BY <1>3, <1>4, <1>6, MailSide, ProxyCarriesStands
<1>16. SP!NothingAtHand'
  BY <1>3, <1>6 DEF SP!NothingAtHand
<1> QED BY <1>12, <1>13, <1>14, <1>15, <1>16 DEF BytesInv

-----------------------------------------------------------------------------
(* Browsers and the proxy.                                                 *)

\* A browser says more, or leaves.
LEMMA BrowserStepBytes ==
  ASSUME IInv, BytesInv, ClientSide', UNCHANGED <<server, upGot, downGot, proxySaid, world>>,
         UNCHANGED <<cTx, cMailq, cWorkers, cReading, cPaths, cWork, cNotices, cSpool>>,
         \A c \in Browser : Closed(cRx[c]) => Closed(cRx'[c])
  PROVE  BytesInv'
<1>1. PICK w \in Nat : UpAt(w)
  BY DEF BytesInv
<1>2. PICK d \in Nat : DownAt(d)
  BY DEF BytesInv
<1>3. ClientSide /\ ProxyCarries /\ CP!NothingAtHand /\ SP!NothingAtHand
  BY DEF BytesInv
<1>4. UNCHANGED <<sRx, sTx, sMailq, sWorkers, sFdTable, sTagToFd, sUsed, sReading, sPaths,
                  sWork, sNotices, sSpool>>
  BY DEF server
<1>5. /\ w \in 0 .. Len(upGot) /\ SP!Pending(SP!Files, sSpool, sWork, upGot, w)
      /\ ServerHears(w) /\ NotReopened(w)
  BY <1>1 DEF UpAt
<1>6. /\ d \in 0 .. Len(downGot) /\ CP!Pending(CP!Files, cSpool, cWork, downGot, d)
      /\ ClientHears(d) /\ ClientOpen(d)
  BY <1>2 DEF DownAt
<1>7. UpAt(w)'
  <2>1. SP!Files' = SP!Files
    BY <1>4 DEF SP!Files
  <2> QED BY <1>4, <1>5, <2>1, UpStands DEF UpAt
<1>8. DownAt(d)'
  <2>1. CP!Files' = CP!Files
    BY DEF CP!Files
  <2>2. d # d + 1
    OBVIOUS
  <2>3. \A u \in Tag : cWorkers'[u] # "none" =>
          /\ cWorkers[u] # "none" /\ u + 1 \in Browser
          /\ Closed(cRx[u+1]) => Closed(cRx'[u+1])
    BY <1>3, BrowserFound DEF ClientSide
  <2>4. ClientHears(d)' /\ ClientOpen(d)'
    BY <1>6, <2>2, <2>3, ClientHearsFrame
  <2> QED BY <1>6, <2>1, <2>4 DEF DownAt
<1>9. ProxyCarries'
  BY <1>3, <1>4, ProxyCarriesStands
<1>10. CP!NothingAtHand' /\ SP!NothingAtHand'
  BY <1>3, <1>4 DEF CP!NothingAtHand, SP!NothingAtHand
<1> QED BY <1>7, <1>8, <1>9, <1>10 DEF BytesInv

LEMMA BrowserBytes ==
  ASSUME IInv, BytesInv, BrowserConnects \/ BrowserSends \/ BrowserLeaves
  PROVE  BytesInv'
<1>1. UNCHANGED <<server, upGot, downGot, proxySaid, world>>
  BY DEF BrowserConnects, BrowserSends, BrowserLeaves, history
<1>2. UNCHANGED <<cTx, cMailq, cWorkers, cReading, cPaths, cWork, cNotices, cSpool>>
  BY DEF BrowserConnects, BrowserSends, BrowserLeaves, C!BrowserConnects, C!PeerSends,
         C!PeerEnds, C!kernel, C!peers, C!tables, C!loop, C!mail
<1>3. ClientSide' /\ \A c \in Browser : Closed(cRx[c]) => Closed(cRx'[c])
  BY ConnectSide, BrowserSendsSide, BrowserLeavesSide DEF BytesInv
<1> QED BY <1>1, <1>2, <1>3, BrowserStepBytes

\* The proxy says more, or hangs up.
LEMMA ProxyStepBytes ==
  ASSUME IInv, BytesInv, UNCHANGED <<client, upGot, downGot, browserSaid, world>>,
         UNCHANGED <<sTx, sMailq, sWorkers, sFdTable, sTagToFd, sUsed, sReading, sPaths,
                     sWork, sNotices, sSpool>>,
         \A s \in Proxy : /\ Carries(sRx'[s], world.proxy[s], proxySaid'[s])
                          /\ ReadS(s)' = ReadS(s)
                          /\ proxySaid[s] <= proxySaid'[s] /\ proxySaid'[s] \in Nat
                          /\ Closed(sRx[s]) => Closed(sRx'[s])
  PROVE  BytesInv'
<1>1. PICK w \in Nat : UpAt(w)
  BY DEF BytesInv
<1>2. PICK d \in Nat : DownAt(d)
  BY DEF BytesInv
<1>3. ClientSide /\ ProxyCarries /\ CP!NothingAtHand /\ SP!NothingAtHand
  BY DEF BytesInv
<1>4. UNCHANGED <<cRx, cTx, cMailq, cWorkers, cReading, cPaths, cWork, cNotices, cSpool>>
  BY DEF client
<1>5. /\ w \in 0 .. Len(upGot) /\ SP!Pending(SP!Files, sSpool, sWork, upGot, w)
      /\ ServerHears(w) /\ NotReopened(w)
  BY <1>1 DEF UpAt
<1>6. /\ d \in 0 .. Len(downGot) /\ CP!Pending(CP!Files, cSpool, cWork, downGot, d)
      /\ ClientHears(d) /\ ClientOpen(d)
  BY <1>2 DEF DownAt
<1>7. UpAt(w)'
  <2>1. \A t \in Tag : sWorkers'[t] # "none" =>
          /\ sWorkers[t] # "none" /\ ProxyOf(t)' = ProxyOf(t)
          /\ Closed(sRx[ProxyOf(t)]) => Closed(sRx'[ProxyOf(t)])
          /\ Count(cMailq', t, w) = Count(cMailq, t, w)
    BY <1>4, ProxyFound DEF ProxyOf
  <2>2. \A t \in Nat : Count(cMailq, t, w) <= Count(cMailq', t, w)
    BY <1>4, CountMore
  <2>3. ServerHears(w)'
    BY <1>5, <2>1, <2>2, HearsFrame
  <2>4. NotReopened(w)'
    BY <1>4, <1>5 DEF NotReopened
  <2>5. SP!Files' = SP!Files
    BY DEF SP!Files
  <2> QED BY <1>5, <2>3, <2>4, <2>5 DEF UpAt
<1>8. ClientHears(d)'
  <2>1. ASSUME NEW t \in Tag, NEW s \in Proxy, AnswersFor(t, s), HearsProxy(t, s, d)
        PROVE  AnswersFor(t, s)' /\ HearsProxy(t, s, d)'
    <3>1. Speaks(sMailq, t, world.proxy[s], proxySaid'[s])
      <4> DEFINE m == proxySaid[s]
                 l == proxySaid'[s]
      <4>1. /\ sMailq \in Seq(C!Packet) /\ m \in Nat /\ l \in Nat /\ m <= l
            /\ Speaks(sMailq, t, world.proxy[s], m)
        BY <2>1, ByteTypes, WorldTypes DEF AnswersFor
      <4> HIDE DEF m, l
      <4>2. Speaks(sMailq, t, world.proxy[s], l)
        BY <4>1, SpeaksMore
      <4> QED BY <4>2 DEF l
    <3>2. AnswersFor(t, s)'
      BY <2>1, <3>1 DEF AnswersFor, ProxyOf
    <3>3. HearsProxy(t, s, d)'
      BY <1>4, <2>1 DEF HearsProxy, MayBe
    <3> QED BY <3>2, <3>3
  <2> QED BY <1>6, <2>1 DEF ClientHears
<1>9. DownAt(d)'
  <2>1. CP!Files' = CP!Files
    BY <1>4 DEF CP!Files
  <2>2. ClientOpen(d)'
    BY <1>4, <1>6 DEF ClientOpen
  <2> QED BY <1>4, <1>6, <1>8, <2>1, <2>2 DEF DownAt
<1>10. ProxyCarries'
  BY <1>3 DEF ProxyCarries
<1>11. ClientSide'
  BY <1>3, ClientSideStands
<1>12. CP!NothingAtHand' /\ SP!NothingAtHand'
  BY <1>3, <1>4 DEF CP!NothingAtHand, SP!NothingAtHand
<1> QED BY <1>7, <1>9, <1>10, <1>11, <1>12 DEF BytesInv

LEMMA ProxySendsBytes == ASSUME IInv, BytesInv, ProxySends PROVE BytesInv'
<1>1. PICK s \in Proxy :
        /\ proxySaid[s] < Len(world.proxy[s])
        /\ sRx'[s] = Append(sRx[s], world.proxy[s][proxySaid[s] + 1])
        /\ proxySaid' = [proxySaid EXCEPT ![s] = @ + 1]
  BY DEF ProxySends
<1>2. S!PeerSends /\ UNCHANGED <<client, upGot, downGot, browserSaid, world>>
  BY DEF ProxySends
<1>3. PICK s0 \in Proxy, b0 \in Body :
        ~Closed(sRx[s0]) /\ sRx' = [sRx EXCEPT ![s0] = Append(@, b0)]
  BY <1>2, SameClosed DEF S!PeerSends
<1>4. sRx \in [Proxy -> Seq(Body \cup Ends)]
  BY ByteTypes
<1>5. s = s0 /\ world.proxy[s][proxySaid[s] + 1] = b0
  BY <1>1, <1>3, <1>4, PeerSays
<1>6. /\ Carries(sRx'[s], world.proxy[s], proxySaid[s] + 1)
      /\ DataLen(sRx'[s]) = DataLen(sRx[s]) + 1 /\ ~Closed(sRx[s])
      /\ DataLen(sRx[s]) \in Nat
  <2> DEFINE r == sRx[s]
             says == world.proxy[s]
             m == proxySaid[s]
  <2>1. /\ r \in Seq(Body \cup Ends) /\ m \in Nat /\ Carries(r, says, m) /\ ~Closed(r)
        /\ b0 \in Body /\ b0 = says[m+1] /\ sRx'[s] = Append(r, b0)
    BY <1>1, <1>3, <1>4, <1>5, WorldTypes DEF BytesInv, ProxyCarries
  <2> HIDE DEF r, says, m
  <2>2. /\ Carries(Append(r, b0), says, m+1) /\ DataLen(Append(r, b0)) = DataLen(r) + 1
        /\ DataLen(r) \in Nat
    BY <2>1, CarriesSaid, DataLenFacts
  <2> QED BY <2>1, <2>2 DEF r, says, m
<1>7. \A z \in Proxy \ {s} : sRx'[z] = sRx[z] /\ proxySaid'[z] = proxySaid[z]
  BY <1>1, <1>3, <1>4, <1>5, WorldTypes
<1>8. proxySaid'[s] = proxySaid[s] + 1 /\ proxySaid[s] \in Nat
  BY <1>1, WorldTypes
<1>9. ReadS(s)' = ReadS(s)
  <2>1. (proxySaid[s] + 1) - (DataLen(sRx[s]) + 1) = proxySaid[s] - DataLen(sRx[s])
    BY <1>6, <1>8
  <2> QED BY <1>6, <1>8, <2>1 DEF ReadS
<1>10. \A z \in Proxy : /\ Carries(sRx'[z], world.proxy[z], proxySaid'[z])
                        /\ ReadS(z)' = ReadS(z)
                        /\ proxySaid[z] <= proxySaid'[z] /\ proxySaid'[z] \in Nat
                        /\ Closed(sRx[z]) => Closed(sRx'[z])
  <2> TAKE z \in Proxy
  <2>1. CASE z = s
    BY <1>6, <1>8, <1>9, <2>1
  <2>2. CASE z # s
    BY <1>7, <2>2, WorldTypes DEF BytesInv, ProxyCarries, ReadS
  <2> QED BY <2>1, <2>2
<1>11. UNCHANGED <<sTx, sMailq, sWorkers, sFdTable, sTagToFd, sUsed, sReading, sPaths, sWork,
                   sNotices, sSpool>>
  BY <1>2 DEF S!PeerSends, S!kernel, S!peers, S!tables, S!loop, S!mail
<1> QED BY <1>2, <1>10, <1>11, ProxyStepBytes

LEMMA ProxyHangsUpBytes == ASSUME IInv, BytesInv, ProxyHangsUp PROVE BytesInv'
<1>1. S!PeerEnds /\ UNCHANGED <<client, upGot, downGot, browserSaid, proxySaid, world>>
  BY DEF ProxyHangsUp, history
<1>2. PICK s \in Proxy, e \in Ends : ~Closed(sRx[s]) /\ sRx' = [sRx EXCEPT ![s] = Append(@, e)]
  BY <1>1, SameClosed DEF S!PeerEnds, Ends
<1>3. sRx \in [Proxy -> Seq(Body \cup Ends)]
  BY ByteTypes
<1>4. sRx'[s] = Append(sRx[s], e) /\ \A z \in Proxy \ {s} : sRx'[z] = sRx[z]
  BY <1>2, <1>3
<1>5. /\ Carries(sRx'[s], world.proxy[s], proxySaid[s])
      /\ DataLen(sRx'[s]) = DataLen(sRx[s])
  <2>1. proxySaid[s] \in Nat /\ Carries(sRx[s], world.proxy[s], proxySaid[s])
        /\ sRx[s] \in Seq(Body \cup Ends)
    BY <1>3, WorldTypes DEF BytesInv, ProxyCarries
  <2>2. /\ Carries(Append(sRx[s], e), world.proxy[s], proxySaid[s])
        /\ DataLen(Append(sRx[s], e)) = DataLen(sRx[s])
    BY <1>2, <2>1, CarriesClosed
  <2> QED BY <1>4, <2>2
<1>6. \A z \in Proxy : /\ Carries(sRx'[z], world.proxy[z], proxySaid'[z])
                       /\ ReadS(z)' = ReadS(z)
                       /\ proxySaid[z] <= proxySaid'[z] /\ proxySaid'[z] \in Nat
                       /\ Closed(sRx[z]) => Closed(sRx'[z])
  <2> TAKE z \in Proxy
  <2>1. proxySaid'[z] = proxySaid[z] /\ proxySaid[z] \in Nat /\ proxySaid[z] <= proxySaid[z]
    BY <1>1, WorldTypes
  <2>2. CASE z = s
    BY <1>2, <1>5, <2>1, <2>2 DEF ReadS
  <2>3. CASE z # s
    BY <1>4, <2>1, <2>3 DEF BytesInv, ProxyCarries, ReadS
  <2> QED BY <2>2, <2>3
<1>7. UNCHANGED <<sTx, sMailq, sWorkers, sFdTable, sTagToFd, sUsed, sReading, sPaths, sWork,
                  sNotices, sSpool>>
  BY <1>1 DEF S!PeerEnds, S!kernel, S!peers, S!tables, S!loop, S!mail
<1> QED BY <1>1, <1>6, <1>7, ProxyStepBytes

-----------------------------------------------------------------------------
(* The invariant holds.                                                    *)

LEMMA InitClientSide == ASSUME Init, IInv PROVE ClientSide
<1>1. /\ cUsed = {} /\ cNextTag = 0 /\ cBacklog = <<>> /\ cMailq = <<>>
      /\ cRx = [c \in Browser |-> <<>>] /\ cTx = [c \in Browser |-> <<>>]
      /\ cWorkers = [t \in Tag |-> "none"] /\ browserSaid = [c \in Browser |-> 0]
  BY DEF Init, C!Init
<1>2. Len(<<>>) = 0 /\ DOMAIN <<>> = {} /\ 1 .. 0 = {} /\ 0 + 0 = 0
  OBVIOUS
<1>3. \A t \in Tag : cWorkers[t] = "none"
  BY <1>1
<1>4. Numbered
  BY <1>1, <1>2, <1>3 DEF Numbered
<1>5. \A c \in Browser : cRx[c] = <<>> /\ cTx[c] = <<>> /\ browserSaid[c] = 0
  BY <1>1
<1>6. BrowsersCarry
  <2>1. \A c \in Browsers : Carries(cRx[c], world.browsers[c], browserSaid[c])
    BY <1>5, WorldTypes, CarriesNothing
  <2>2. \A c \in Browsers : ReadC(c) = 0
    <3>1. DataLen(<<>>) = 0 /\ 0 - 0 = 0
      BY CarriesNothing
    <3>2. \A c \in Browsers : cRx[c] = <<>> /\ browserSaid[c] = 0
      BY <1>5, WorldTypes
    <3> QED BY <3>1, <3>2 DEF ReadC
  <2>3. \A c \in Browser : cTx[c] # <<>> => c <= cNextTag /\ c - 1 \in Tag
    BY <1>5
  <2> QED BY <2>1, <2>2, <2>3 DEF BrowsersCarry
<1>7. BrowserSpeaks
  <2>1. \A t, says, m : Speaks(cMailq, t, says, m)
    BY <1>1, <1>2 DEF Speaks
  <2> QED BY <1>3, <2>1 DEF BrowserSpeaks
<1>8. CP!ControlIsLast
  BY <1>1, <1>2 DEF CP!ControlIsLast
<1> QED BY <1>4, <1>6, <1>7, <1>8 DEF ClientSide

LEMMA InitBytes == ASSUME Init, IInv PROVE BytesInv
<1>1. ClientSide
  BY InitClientSide
<1>2. /\ cMailq = <<>> /\ upGot = <<>> /\ downGot = <<>> /\ sMailq = <<>>
      /\ \A c \in Browser : cRx[c] = <<>> /\ cTx[c] = <<>>
      /\ \A s \in Proxy : sRx[s] = <<>> /\ sTx[s] = <<>> /\ proxySaid[s] = 0
      /\ \A t \in Tag : sWorkers[t] = "none" /\ cWorkers[t] = "none"
  BY DEF Init, C!Init, S!Init
<1>3. Len(<<>>) = 0 /\ 1 .. 0 = {} /\ 0 \in Nat /\ 0 \in 0 .. 0
  OBVIOUS
<1>4. ProxyCarries
  <2>1. \A s \in Proxy : /\ Carries(sRx[s], world.proxy[s], proxySaid[s])
                         /\ ReadS(s) = 0 /\ sTx[s] = <<>>
    BY <1>2, CarriesNothing DEF ReadS
  <2> QED BY <2>1 DEF ProxyCarries
<1>5. /\ CP!NothingAtHand /\ CP!Pending(CP!Files, cSpool, cWork, <<>>, 0)
      /\ SP!NothingAtHand /\ SP!Pending(SP!Files, sSpool, sWork, <<>>, 0)
  <2>1. CP!Init /\ SP!Init
    BY ClientInit, ServerInit DEF Init
  <2> QED BY <2>1, ClientAssumptions, ServerAssumptions, CP!InitPending, SP!InitPending
<1>6. ServerHears(0)
  <2>1. PICK c \in Browsers : TRUE
    BY WorldTypes
  <2>2. \A s \in Proxy : HearsBrowser(s, c, 0)
    BY <1>2, NothingWritten DEF HearsBrowser
  <2> QED BY <2>1, <2>2 DEF ServerHears
<1>7. NotReopened(0)
  <2>1. \A t \in Tag : Count(sMailq, t, Len(sMailq)) = 0
    BY <1>2, <1>3, CountStart
  <2> QED BY <2>1 DEF NotReopened
<1>8. ClientHears(0)
  <2>1. PICK s \in Proxy : TRUE
    BY ConstantTypes
  <2>2. \A t \in Tag : AnswersFor(t, s)
    BY <1>2, <1>3 DEF AnswersFor, Speaks
  <2>3. \A t \in Tag : HearsProxy(t, s, 0)
    BY <1>2, NothingWritten DEF HearsProxy
  <2> QED BY <2>1, <2>2, <2>3 DEF ClientHears
<1>9. ClientOpen(0)
  BY <1>2 DEF ClientOpen
<1>10. UpAt(0) /\ DownAt(0)
  BY <1>2, <1>3, <1>5, <1>6, <1>7, <1>8, <1>9 DEF UpAt, DownAt
<1> QED BY <1>1, <1>3, <1>4, <1>5, <1>10 DEF BytesInv

LEMMA StutterBytes == ASSUME IInv, BytesInv, UNCHANGED vars PROVE BytesInv'
<1>1. UNCHANGED <<client, server, upGot, downGot, browserSaid, proxySaid, world>>
  BY DEF vars, history
<1>2. UNCHANGED <<cTx, cMailq, cWorkers, cReading, cPaths, cWork, cNotices, cSpool, cRx>>
  BY <1>1 DEF client
<1>3. ClientSide'
  BY <1>1, ClientSideStands DEF BytesInv
<1>4. \A c \in Browser : Closed(cRx[c]) => Closed(cRx'[c])
  BY <1>2
<1> QED BY <1>1, <1>2, <1>3, <1>4, BrowserStepBytes

LEMMA NextBytes == IInv /\ BytesInv /\ [Next]_vars => BytesInv'
<1> SUFFICES ASSUME IInv, BytesInv, [Next]_vars PROVE BytesInv'
  OBVIOUS
<1>1. CASE UNCHANGED vars
  BY <1>1, StutterBytes
<1>2. CASE Next
  BY <1>2, ClientReceivesBytes, ServerReceivesBytes, MailReachesServerBytes,
     MailReachesClientBytes, BrowserBytes, ProxySendsBytes, ProxyHangsUpBytes DEF Next
<1> QED BY <1>1, <1>2

\* What is queued under a tag, and what is written to a connection, is counted
\* against what its peer has said.
THEOREM BytesInductive == Spec => [](IInv /\ BytesInv)
<1>1. Init => IInv /\ BytesInv
  BY InitIInv, InitBytes
<1>2. IInv /\ BytesInv /\ [Next]_vars => IInv' /\ BytesInv'
  BY NextIInv, NextBytes
<1> QED BY <1>1, <1>2, PTL DEF Spec

-----------------------------------------------------------------------------
(* The properties.                                                         *)

LEMMA OneBrowserHolds == ASSUME IInv, BytesInv PROVE OneBrowser
<1>1. PICK w \in Nat : ServerHears(w)
  BY DEF BytesInv, UpAt
<1> SUFFICES ASSUME NEW s \in Proxy
             PROVE  \E c \in Browsers :
                      /\ InOrder(sTx[s], world.browsers[c])
                      /\ s \in S!OpenConns /\ ~S!PeerEnded(s) /\ ~MayBe("stall")
                           => sTx[s] \in SubSeqs(world.browsers[c])
  BY DEF OneBrowser
<1>2. PICK c \in Browsers : HearsBrowser(s, c, w)
  BY <1>1 DEF ServerHears
<1>3. InOrder(sTx[s], world.browsers[c])
  BY <1>2, WithinInOrder DEF HearsBrowser
<1>4. ASSUME s \in S!OpenConns, ~S!PeerEnded(s), ~MayBe("stall")
      PROVE  sTx[s] \in SubSeqs(world.browsers[c])
  <2>1. s \in SP!OpenConns
    BY <1>4 DEF S!OpenConns, SP!OpenConns
  <2>2. PICK t \in Tag : sWorkers[t] # "none" /\ SP!ConnOf(t) = s
    BY <2>1, ServerAssumptions, SP!OpenHasTag DEF IInv
  <2>3. ProxyOf(t) = s
    BY <2>2, SameConns
  <2>4. ~Closed(sRx[s])
    BY <1>4, SameClosed
  <2>5. Aligned(sTx[s], world.browsers[c], Count(cMailq, t, w))
    BY <1>2, <1>4, <2>2, <2>3, <2>4 DEF HearsBrowser
  <2> QED BY <2>5, ByteTypes, WorldTypes, CountNat, AlignedPiece
<1> QED BY <1>3, <1>4

LEMMA OneProxyHolds == ASSUME IInv, BytesInv PROVE OneProxy
<1>1. PICK w \in Nat : ClientHears(w)
  BY DEF BytesInv, DownAt
<1> DEFINE Reads(c, s) ==
             /\ InOrder(cTx[c], world.proxy[s])
             /\ c \in C!OpenConns /\ ~C!PeerEnded(c) /\ ~MayBe("stall")
                  => IsPrefix(cTx[c], world.proxy[s])
<1> SUFFICES ASSUME NEW c \in Browser PROVE \E s \in Proxy : Reads(c, s)
  BY DEF OneProxy
<1>2. c \in Nat /\ c - 1 + 1 = c
  BY ConstantTypes
<1>3. CASE c - 1 \notin Tag
  <2>1. cTx[c] = <<>>
    BY <1>3 DEF BytesInv, ClientSide, BrowsersCarry
  <2>2. PICK s \in Proxy : TRUE
    BY ConstantTypes
  <2>3. Within(<<>>, world.proxy[s], 0) /\ Aligned(<<>>, world.proxy[s], 0)
    BY NothingWritten
  <2>4. <<>> \in Seq(Body) /\ Len(<<>>) = 0 /\ 0 \in Nat /\ world.proxy[s] \in Seq(Body)
    BY EmptySeq, WorldTypes
  <2>5. InOrder(<<>>, world.proxy[s]) /\ IsPrefix(<<>>, world.proxy[s])
    BY <2>3, <2>4, WithinInOrder, AlignedPiece
  <2> QED BY <2>1, <2>5
<1>4. CASE c - 1 \in Tag
  <2> DEFINE t == c - 1
  <2>1. PICK s \in Proxy : HearsProxy(t, s, w)
    BY <1>1, <1>4 DEF ClientHears
  <2>2. InOrder(cTx[c], world.proxy[s])
    BY <1>2, <2>1, WithinInOrder DEF HearsProxy
  <2>3. ASSUME c \in C!OpenConns, ~C!PeerEnded(c), ~MayBe("stall")
        PROVE  IsPrefix(cTx[c], world.proxy[s])
    <3>1. c \in CP!OpenConns
      BY <2>3 DEF C!OpenConns, CP!OpenConns
    <3>2. PICK u \in Tag : cWorkers[u] # "none" /\ CP!ConnOf(u) = c
      BY <3>1, ClientAssumptions, CP!OpenHasTag DEF IInv
    <3>3. u + 1 = c
      BY <3>2, SameConns, BrowserFound DEF BytesInv, ClientSide
    <3>4. u = t
      BY <1>2, <3>3, ConstantTypes
    <3>5. ~Closed(cRx[c])
      BY <2>3, SameClosed
    <3>6. /\ Aligned(cTx[c], world.proxy[s], Count(sMailq, t, w))
          /\ Len(cTx[c]) = Count(sMailq, t, w)
      BY <1>2, <2>1, <2>3, <3>2, <3>4, <3>5 DEF HearsProxy
    <3> QED BY <3>6, ByteTypes, WorldTypes, CountNat, AlignedPiece
  <2> QED BY <2>2, <2>3
<1> QED BY <1>3, <1>4

\* No connection to the proxy carries the bytes of two browsers, nor any twice
\* or out of order, whatever is reused on the way (OneBrowser).
THEOREM OneBrowserPerConnection == Spec => []OneBrowser
BY BytesInductive, OneBrowserHolds, PTL

\* A browser reads what one connection to the proxy has said, from its
\* beginning: answers of a second connection opened under its tag never reach
\* it (OneProxy).
THEOREM OneProxyPerBrowser == Spec => []OneProxy
BY BytesInductive, OneProxyHolds, PTL
=============================================================================
