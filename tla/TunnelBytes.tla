--------------------------- MODULE TunnelBytes ----------------------------
(***************************************************************************)
(* Proofs about the bytes in the tunnel: what is written to a connection   *)
(* at one end comes from one connection at the other end, in order.  The   *)
(* invariant counts: the data packets queued under a tag are what was said *)
(* on its connection up to what is still unread, and what was written is   *)
(* what the packets taken in carried.  Here are the invariant, what the    *)
(* client queues, and what the server writes; TunnelBytesProofs has the    *)
(* answers and the theorems.                                               *)
(***************************************************************************)
EXTENDS TunnelProofs

-----------------------------------------------------------------------------
(* Counting the packets of a tag.                                          *)

\* The data packets of t among the first k of a queue.
DataOf(q, t, k) == {j \in 1 .. k : q[j].tag = t /\ C!IsData(q[j])}
Count(q, t, k) == Cardinality(DataOf(q, t, k))

\* No Fini or Err of t is among the first k.
Open(q, t, k) == \A j \in 1 .. k : q[j].tag = t => C!IsData(q[j])

LEMMA CountNat ==
  ASSUME NEW q, NEW t, NEW k \in Nat
  PROVE  IsFiniteSet(DataOf(q, t, k)) /\ Count(q, t, k) \in Nat
<1>1. IsFiniteSet(1 .. k)
  BY FS_Interval
<1>2. IsFiniteSet(DataOf(q, t, k))
  BY <1>1, FS_Subset DEF DataOf
<1> QED BY <1>2, FS_CardinalityType DEF Count

LEMMA CountStart == ASSUME NEW q, NEW t PROVE Count(q, t, 0) = 0
<1>1. DataOf(q, t, 0) = {}
  BY DEF DataOf
<1> QED BY <1>1, FS_EmptySet DEF Count

LEMMA CountStep ==
  ASSUME NEW q, NEW t, NEW k \in Nat
  PROVE  /\ q[k+1].tag = t /\ C!IsData(q[k+1]) => Count(q, t, k+1) = Count(q, t, k) + 1
         /\ ~(q[k+1].tag = t /\ C!IsData(q[k+1])) => Count(q, t, k+1) = Count(q, t, k)
<1>1. \A j : j \in 1 .. (k+1) <=> j \in 1 .. k \/ j = k+1
  OBVIOUS
<1>2. k+1 \notin 1 .. k
  OBVIOUS
<1>3. IsFiniteSet(DataOf(q, t, k))
  BY CountNat
<1>4. ASSUME q[k+1].tag = t, C!IsData(q[k+1])
      PROVE  Count(q, t, k+1) = Count(q, t, k) + 1
  <2>1. DataOf(q, t, k+1) = DataOf(q, t, k) \cup {k+1}
    BY <1>1, <1>4 DEF DataOf
  <2>2. k+1 \notin DataOf(q, t, k)
    BY <1>2 DEF DataOf
  <2> QED BY <1>3, <2>1, <2>2, FS_AddElement DEF Count
<1>5. ASSUME ~(q[k+1].tag = t /\ C!IsData(q[k+1]))
      PROVE  Count(q, t, k+1) = Count(q, t, k)
  <2>1. DataOf(q, t, k+1) = DataOf(q, t, k)
    BY <1>1, <1>5 DEF DataOf
  <2> QED BY <2>1 DEF Count
<1> QED BY <1>4, <1>5

LEMMA CountSame ==
  ASSUME NEW q, NEW r, NEW t, NEW k \in Nat, \A j \in 1 .. k : q[j] = r[j]
  PROVE  Count(q, t, k) = Count(r, t, k) /\ (Open(q, t, k) <=> Open(r, t, k))
<1>1. DataOf(q, t, k) = DataOf(r, t, k)
  BY DEF DataOf
<1> QED BY <1>1 DEF Count, Open

LEMMA CountNone ==
  ASSUME NEW q, NEW t, NEW k \in Nat
  PROVE  Count(q, t, k) = 0 <=> \A j \in 1 .. k : ~(q[j].tag = t /\ C!IsData(q[j]))
<1>1. IsFiniteSet(DataOf(q, t, k))
  BY CountNat
<1>2. Count(q, t, k) = 0 <=> DataOf(q, t, k) = {}
  BY <1>1, FS_EmptySet DEF Count
<1> QED BY <1>2 DEF DataOf

\* A packet is queued.
LEMMA CountAppend ==
  ASSUME NEW q \in Seq(C!Packet), NEW pkt \in C!Packet, NEW t
  PROVE  /\ Len(q) \in Nat /\ Len(Append(q, pkt)) = Len(q) + 1
         /\ Append(q, pkt)[Len(q)+1] = pkt
         /\ \A j \in 1 .. Len(q) : Append(q, pkt)[j] = q[j]
         /\ \A k \in 0 .. Len(q) : /\ Count(Append(q, pkt), t, k) = Count(q, t, k)
                                   /\ Open(Append(q, pkt), t, k) <=> Open(q, t, k)
         /\ pkt.tag = t /\ C!IsData(pkt) =>
              Count(Append(q, pkt), t, Len(q)+1) = Count(q, t, Len(q)) + 1
         /\ ~(pkt.tag = t /\ C!IsData(pkt)) =>
              Count(Append(q, pkt), t, Len(q)+1) = Count(q, t, Len(q))
         /\ Open(Append(q, pkt), t, Len(q)+1) <=>
              Open(q, t, Len(q)) /\ (pkt.tag = t => C!IsData(pkt))
<1> DEFINE r == Append(q, pkt)
<1>1. /\ Len(q) \in Nat /\ Len(r) = Len(q) + 1 /\ r[Len(q)+1] = pkt
      /\ \A j \in 1 .. Len(q) : r[j] = q[j]
  BY AppendProperties, LenProperties
<1> HIDE DEF r
<1>2. ASSUME NEW k \in 0 .. Len(q)
      PROVE  Count(r, t, k) = Count(q, t, k) /\ (Open(r, t, k) <=> Open(q, t, k))
  <2>1. k \in Nat /\ \A j \in 1 .. k : r[j] = q[j]
    BY <1>1
  <2> QED BY <2>1, CountSame
<1>3. Len(q) \in 0 .. Len(q)
  BY <1>1
<1>4. Count(r, t, Len(q)) = Count(q, t, Len(q)) /\ (Open(r, t, Len(q)) <=> Open(q, t, Len(q)))
  BY <1>2, <1>3
<1>5. /\ pkt.tag = t /\ C!IsData(pkt) => Count(r, t, Len(q)+1) = Count(q, t, Len(q)) + 1
      /\ ~(pkt.tag = t /\ C!IsData(pkt)) => Count(r, t, Len(q)+1) = Count(q, t, Len(q))
  BY <1>1, <1>4, CountStep
<1>6. Open(r, t, Len(q)+1) <=> Open(q, t, Len(q)) /\ (pkt.tag = t => C!IsData(pkt))
  <2>1. \A j : j \in 1 .. (Len(q)+1) <=> j \in 1 .. Len(q) \/ j = Len(q)+1
    BY <1>1
  <2>2. Open(r, t, Len(q)+1) <=> Open(r, t, Len(q)) /\ (r[Len(q)+1].tag = t => C!IsData(r[Len(q)+1]))
    BY <2>1 DEF Open
  <2> QED BY <1>1, <1>4, <2>2
<1> QED BY <1>1, <1>2, <1>5, <1>6 DEF r

-----------------------------------------------------------------------------
(* The packets of a tag carry what was said.                               *)

\* Up to its first Fini or Err, t's data in q is the beginning of says, of
\* which m has been said.
Speaks(q, t, says, m) ==
  \A i \in 1 .. Len(q) : q[i].tag = t /\ C!IsData(q[i]) /\ Open(q, t, i) =>
    Count(q, t, i) <= m /\ q[i].body = says[Count(q, t, i)]

LEMMA SpeaksMore ==
  ASSUME NEW q \in Seq(C!Packet), NEW t, NEW says, NEW m \in Nat, NEW l \in Nat, m <= l,
         Speaks(q, t, says, m)
  PROVE  Speaks(q, t, says, l)
<1>1. Len(q) \in Nat
  BY LenProperties
<1>2. \A i \in 1 .. Len(q) : Count(q, t, i) \in Nat
  BY <1>1, CountNat
<1>3. \A i \in 1 .. Len(q) : Count(q, t, i) <= m => Count(q, t, i) <= l
  BY <1>2
<1> QED BY <1>3 DEF Speaks

LEMMA SpeaksNothing ==
  ASSUME NEW q \in Seq(C!Packet), NEW t, NEW says, NEW m, Count(q, t, Len(q)) = 0
  PROVE  Speaks(q, t, says, m)
<1>1. Len(q) \in Nat
  BY LenProperties
<1> QED BY <1>1, CountNone DEF Speaks

LEMMA SpeaksAppend ==
  ASSUME NEW q \in Seq(C!Packet), NEW pkt \in C!Packet, NEW t, NEW says, NEW m \in Nat,
         Speaks(q, t, says, m),
         pkt.tag = t /\ C!IsData(pkt) /\ Open(q, t, Len(q)) =>
           Count(q, t, Len(q)) + 1 <= m /\ pkt.body = says[Count(q, t, Len(q)) + 1]
  PROVE  Speaks(Append(q, pkt), t, says, m)
<1> DEFINE r == Append(q, pkt)
<1>1. /\ Len(q) \in Nat /\ Len(r) = Len(q) + 1 /\ r[Len(q)+1] = pkt
      /\ \A j \in 1 .. Len(q) : r[j] = q[j]
      /\ \A k \in 0 .. Len(q) : Count(r, t, k) = Count(q, t, k) /\ (Open(r, t, k) <=> Open(q, t, k))
      /\ pkt.tag = t /\ C!IsData(pkt) => Count(r, t, Len(q)+1) = Count(q, t, Len(q)) + 1
      /\ Open(r, t, Len(q)+1) <=> Open(q, t, Len(q)) /\ (pkt.tag = t => C!IsData(pkt))
  BY CountAppend
<1> HIDE DEF r
<1>2. ASSUME NEW i \in 1 .. Len(r), r[i].tag = t, C!IsData(r[i]), Open(r, t, i)
      PROVE  Count(r, t, i) <= m /\ r[i].body = says[Count(r, t, i)]
  <2>1. CASE i \in 1 .. Len(q)
    <3>1. i \in 0 .. Len(q)
      BY <2>1
    <3>2. r[i] = q[i] /\ Count(r, t, i) = Count(q, t, i) /\ Open(q, t, i)
      BY <1>1, <1>2, <2>1, <3>1
    <3> QED BY <1>2, <2>1, <3>2 DEF Speaks
  <2>2. CASE i = Len(q)+1
    BY <1>1, <1>2, <2>2
  <2> QED BY <1>1, <2>1, <2>2
<1>3. Speaks(r, t, says, m)
  BY <1>2 DEF Speaks
<1> QED BY <1>3 DEF r

-----------------------------------------------------------------------------
(* What a connection has received and not been read.                       *)

Ends == {"eof", "reset"}
Closed(r) == r # <<>> /\ r[Len(r)] \in Ends
DataLen(r) == IF Closed(r) THEN Len(r) - 1 ELSE Len(r)

\* r is the end of the first m bodies of says, and perhaps the connection's
\* end after them.
Carries(r, says, m) ==
  /\ DataLen(r) <= m
  /\ \A k \in 1 .. DataLen(r) : r[k] \notin Ends /\ r[k] = says[m - DataLen(r) + k]

LEMMA DataLenFacts ==
  ASSUME NEW r \in Seq(Body \cup Ends)
  PROVE  /\ Len(r) \in Nat /\ DataLen(r) \in Nat
         /\ Closed(r) => Len(r) = DataLen(r) + 1 /\ r[DataLen(r)+1] \in Ends
         /\ ~Closed(r) => Len(r) = DataLen(r)
         /\ r # <<>> => Head(r) = r[1] /\ Len(r) > 0
<1>1. Len(r) \in Nat /\ (r = <<>> <=> Len(r) = 0)
  BY LenProperties, EmptySeq
<1>2. r # <<>> => Head(r) = r[1] /\ Len(r) > 0
  BY <1>1
<1>3. CASE Closed(r)
  <2>1. r # <<>> /\ r[Len(r)] \in Ends /\ DataLen(r) = Len(r) - 1
    BY <1>3 DEF Closed, DataLen
  <2>2. Len(r) > 0
    BY <1>1, <2>1
  <2>3. DataLen(r) \in Nat /\ Len(r) = DataLen(r) + 1
    BY <1>1, <2>1, <2>2
  <2> QED BY <1>1, <1>2, <1>3, <2>1, <2>3
<1>4. CASE ~Closed(r)
  BY <1>1, <1>2, <1>4 DEF DataLen
<1> QED BY <1>3, <1>4

LEMMA CarriesNothing == ASSUME NEW says, NEW m \in Nat
                        PROVE  Carries(<<>>, says, m) /\ DataLen(<<>>) = 0 /\ ~Closed(<<>>)
<1>1. ~Closed(<<>>)
  BY DEF Closed
<1>2. DataLen(<<>>) = 0
  BY <1>1 DEF DataLen
<1> QED BY <1>1, <1>2 DEF Carries

\* recv() takes the next body.
LEMMA CarriesRead ==
  ASSUME NEW r \in Seq(Body \cup Ends), NEW says, NEW m \in Nat, Carries(r, says, m),
         r # <<>>, Head(r) \in Body
  PROVE  /\ Carries(Tail(r), says, m) /\ DataLen(Tail(r)) = DataLen(r) - 1
         /\ Closed(Tail(r)) <=> Closed(r)
         /\ DataLen(r) >= 1 /\ Head(r) = says[(m - DataLen(r)) + 1]
<1> DEFINE d == DataLen(r)
           s == Tail(r)
<1>1. /\ Len(r) \in Nat /\ d \in Nat
      /\ Closed(r) => Len(r) = d + 1 /\ r[d+1] \in Ends
      /\ ~Closed(r) => Len(r) = d
      /\ Head(r) = r[1] /\ Len(r) > 0
  BY DataLenFacts
<1>2. s \in Seq(Body \cup Ends) /\ Len(s) = Len(r)-1
      /\ \A i \in 1 .. Len(r)-1 : s[i] = r[i+1]
  BY HeadTailProperties
<1>3. Head(r) \notin Ends
  BY NameAssumption DEF Ends
<1>4. d <= m /\ \A k \in 1 .. d : r[k] \notin Ends /\ r[k] = says[m - d + k]
  BY DEF Carries
<1> HIDE DEF d, s
<1>5. d >= 1
  <2>1. CASE d = 0
    BY <1>1, <1>3, <2>1
  <2> QED BY <1>1, <2>1
<1>6. Closed(s) <=> Closed(r)
  <2>1. CASE Closed(r)
    <3>1. Len(s) = d /\ d \in 1 .. Len(r)-1
      BY <1>1, <1>2, <1>5, <2>1
    <3>2. s[Len(s)] \in Ends
      BY <1>1, <1>2, <2>1, <3>1
    <3>3. s # <<>>
      BY <1>2, <1>5, <3>1, EmptySeq
    <3> QED BY <2>1, <3>2, <3>3 DEF Closed
  <2>2. CASE ~Closed(r)
    <3>1. Len(s) = d - 1 /\ (s # <<>> => Len(s) # 0)
      BY <1>1, <1>2, <2>2, EmptySeq
    <3>2. s # <<>> => d - 1 \in 1 .. Len(r)-1 /\ (d-1)+1 = d /\ d \in 1 .. d
      BY <1>1, <1>5, <2>2, <3>1
    <3>3. s # <<>> => s[Len(s)] \notin Ends
      BY <1>2, <1>4, <3>1, <3>2
    <3> QED BY <2>2, <3>3 DEF Closed
  <2> QED BY <2>1, <2>2
<1>7. DataLen(s) = d - 1
  BY <1>1, <1>2, <1>6 DEF DataLen
<1>8. Carries(s, says, m)
  <2>1. ASSUME NEW k \in 1 .. (d-1)
        PROVE  s[k] \notin Ends /\ s[k] = says[m - (d-1) + k]
    <3>1. k \in 1 .. Len(r)-1 /\ k+1 \in 1 .. d /\ m - d + (k+1) = m - (d-1) + k
      BY <1>1, <1>5
    <3> QED BY <1>2, <1>4, <3>1
  <2>2. d - 1 <= m
    BY <1>1, <1>4
  <2> QED BY <1>7, <2>1, <2>2 DEF Carries
<1>9. Head(r) = says[(m - d) + 1]
  <2>1. 1 \in 1 .. d
    BY <1>1, <1>5
  <2> QED BY <1>1, <1>4, <2>1
<1> QED BY <1>5, <1>6, <1>7, <1>8, <1>9 DEF d, s

\* recv() finds the end: nothing was left before it.
LEMMA CarriesEnd ==
  ASSUME NEW r \in Seq(Body \cup Ends), NEW says, NEW m \in Nat, Carries(r, says, m),
         r # <<>>, Head(r) \in Ends
  PROVE  DataLen(r) = 0
<1>1. DataLen(r) \in Nat /\ Head(r) = r[1]
  BY DataLenFacts
<1>2. ~(1 \in 1 .. DataLen(r))
  BY <1>1 DEF Carries
<1> QED BY <1>1, <1>2

\* The peer says the next body, or ends the connection.
LEMMA CarriesSaid ==
  ASSUME NEW r \in Seq(Body \cup Ends), NEW says, NEW m \in Nat, Carries(r, says, m),
         ~Closed(r), NEW b \in Body, b = says[m+1]
  PROVE  /\ Carries(Append(r, b), says, m+1) /\ DataLen(Append(r, b)) = DataLen(r) + 1
         /\ ~Closed(Append(r, b))
<1> DEFINE s == Append(r, b)
           d == DataLen(r)
<1>1. Len(r) \in Nat /\ d \in Nat /\ Len(r) = d
  BY DataLenFacts
<1>2. /\ s \in Seq(Body \cup Ends) /\ Len(s) = d + 1 /\ s[d+1] = b
      /\ \A i \in 1 .. d : s[i] = r[i]
  BY <1>1, AppendProperties
<1>3. d <= m /\ \A k \in 1 .. d : r[k] \notin Ends /\ r[k] = says[m - d + k]
  BY DEF Carries
<1> HIDE DEF s, d
<1>4. b \notin Ends
  BY NameAssumption DEF Ends
<1>5. ~Closed(s) /\ DataLen(s) = d + 1
  BY <1>2, <1>4 DEF Closed, DataLen
<1>6. ASSUME NEW k \in 1 .. (d+1)
      PROVE  s[k] \notin Ends /\ s[k] = says[(m+1) - (d+1) + k]
  <2>1. (m+1) - (d+1) + k = m - d + k
    BY <1>1
  <2>2. CASE k \in 1 .. d
    BY <1>2, <1>3, <2>1, <2>2
  <2>3. CASE k = d+1
    <3>1. m - d + k = m + 1
      BY <1>1, <2>3
    <3> QED BY <1>2, <1>4, <2>1, <2>3, <3>1
  <2> QED BY <1>1, <2>2, <2>3
<1>7. d + 1 <= m + 1
  BY <1>1, <1>3
<1>8. Carries(s, says, m+1)
  BY <1>5, <1>6, <1>7 DEF Carries
<1> QED BY <1>5, <1>8 DEF s, d

LEMMA CarriesClosed ==
  ASSUME NEW r \in Seq(Body \cup Ends), NEW says, NEW m \in Nat, Carries(r, says, m),
         ~Closed(r), NEW e \in Ends
  PROVE  Carries(Append(r, e), says, m) /\ DataLen(Append(r, e)) = DataLen(r)
<1> DEFINE s == Append(r, e)
           d == DataLen(r)
<1>1. Len(r) \in Nat /\ d \in Nat /\ Len(r) = d
  BY DataLenFacts
<1>2. /\ s \in Seq(Body \cup Ends) /\ Len(s) = d + 1 /\ s[d+1] = e
      /\ \A i \in 1 .. d : s[i] = r[i]
  BY <1>1, AppendProperties
<1>3. s # <<>>
  <2>1. Len(s) # 0 /\ Len(<<>>) = 0
    BY <1>1, <1>2
  <2> QED BY <2>1
<1>4. d <= m /\ \A k \in 1 .. d : r[k] \notin Ends /\ r[k] = says[m - d + k]
  BY DEF Carries
<1> HIDE DEF s, d
<1>5. Closed(s)
  BY <1>2, <1>3 DEF Closed
<1>6. DataLen(s) = d
  BY <1>1, <1>2, <1>5 DEF DataLen
<1>7. Carries(s, says, m)
  BY <1>2, <1>4, <1>6 DEF Carries
<1> QED BY <1>6, <1>7 DEF s, d

-----------------------------------------------------------------------------
(* What a connection has been written.                                     *)

\* data is some of the first m of says, in their order.
Within(data, says, m) ==
  \E at \in [DOMAIN data -> DOMAIN says] :
    /\ \A i \in DOMAIN data : at[i] <= m /\ data[i] = says[at[i]]
    /\ \A i, j \in DOMAIN data : i < j => at[i] < at[j]

\* data is the last of the first m of says.
Aligned(data, says, m) ==
  data # <<>> =>
    /\ m <= Len(says) /\ Len(data) <= m
    /\ \A i \in 1 .. Len(data) : data[i] = says[m - Len(data) + i]

LEMMA NothingWritten ==
  ASSUME NEW says, NEW m PROVE Within(<<>>, says, m) /\ Aligned(<<>>, says, m)
<1>1. DOMAIN <<>> = {}
  OBVIOUS
<1>2. \E at : at \in [DOMAIN <<>> -> DOMAIN says]
  <2> DEFINE at == [i \in DOMAIN <<>> |-> 0]
  <2>1. at \in [DOMAIN <<>> -> DOMAIN says]
    BY <1>1
  <2> QED BY <2>1
<1> QED BY <1>1, <1>2 DEF Within, Aligned

LEMMA WithinMore ==
  ASSUME NEW says \in Seq(Body), NEW data, NEW m \in Nat, NEW l \in Nat, m <= l,
         Within(data, says, m)
  PROVE  Within(data, says, l)
<1>1. PICK at \in [DOMAIN data -> DOMAIN says] :
        /\ \A i \in DOMAIN data : at[i] <= m /\ data[i] = says[at[i]]
        /\ \A i, j \in DOMAIN data : i < j => at[i] < at[j]
  BY DEF Within
<1>2. DOMAIN says \subseteq Nat
  BY LenProperties
<1>3. \A i \in DOMAIN data : at[i] \in Nat
  BY <1>2
<1>4. \A i \in DOMAIN data : at[i] <= l
  <2>1. \A n \in Nat : n <= m => n <= l
    OBVIOUS
  <2> QED BY <1>1, <1>3, <2>1
<1> QED BY <1>1, <1>4 DEF Within

LEMMA WithinEmpty ==
  ASSUME NEW says \in Seq(Body), NEW data \in Seq(Body), Within(data, says, 0)
  PROVE  data = <<>>
<1>1. PICK at \in [DOMAIN data -> DOMAIN says] : \A i \in DOMAIN data : at[i] <= 0
  BY DEF Within
<1>2. DOMAIN data = 1 .. Len(data) /\ Len(data) \in Nat /\ (data = <<>> <=> Len(data) = 0)
  BY LenProperties, EmptySeq
<1>3. DOMAIN says = 1 .. Len(says)
  BY LenProperties
<1>4. 1 \notin DOMAIN data
  <2>1. 1 \in DOMAIN data => at[1] \in 1 .. Len(says) /\ at[1] <= 0
    BY <1>1, <1>3
  <2> QED BY <2>1
<1> QED BY <1>2, <1>4

\* The next of says is written.
LEMMA WithinAppend ==
  ASSUME NEW says \in Seq(Body), NEW data \in Seq(Body), NEW m \in Nat, m + 1 <= Len(says),
         Within(data, says, m), NEW b \in Body, b = says[m+1]
  PROVE  Within(Append(data, b), says, m+1)
<1>1. PICK at \in [DOMAIN data -> DOMAIN says] :
        /\ \A i \in DOMAIN data : at[i] <= m /\ data[i] = says[at[i]]
        /\ \A i, j \in DOMAIN data : i < j => at[i] < at[j]
  BY DEF Within
<1> DEFINE l == Len(data)
           data1 == Append(data, b)
<1>2. l \in Nat /\ DOMAIN data = 1 .. l /\ Len(says) \in Nat /\ DOMAIN says = 1 .. Len(says)
  BY LenProperties
<1>3. /\ data1 \in Seq(Body) /\ DOMAIN data1 = 1 .. (l+1) /\ data1[l+1] = b
      /\ \A i \in 1 .. l : data1[i] = data[i]
  BY AppendProperties, LenProperties
<1> HIDE DEF l, data1
<1> DEFINE at1 == [i \in 1 .. (l+1) |-> IF i = l+1 THEN m+1 ELSE at[i]]
<1>4. \A i \in 1 .. (l+1) : i \in 1 .. l \/ i = l+1
  BY <1>2
<1>5. /\ \A i \in 1 .. l : i # l+1 /\ i \in 1 .. (l+1)
      /\ l+1 \in 1 .. (l+1) /\ m+1 \in DOMAIN says
  BY <1>2
<1>6. /\ \A i \in 1 .. l : at1[i] = at[i] /\ at[i] \in DOMAIN says
      /\ at1[l+1] = m+1
  BY <1>1, <1>2, <1>5
<1>7. at1 \in [1 .. (l+1) -> DOMAIN says]
  BY <1>4, <1>5, <1>6
<1> HIDE DEF at1
<1>8. ASSUME NEW i \in 1 .. (l+1)
      PROVE  at1[i] <= m+1 /\ data1[i] = says[at1[i]]
  <2>1. CASE i \in 1 .. l
    <3>1. at1[i] = at[i] /\ at[i] \in DOMAIN says /\ at[i] <= m /\ data[i] = says[at[i]]
      BY <1>1, <1>2, <1>6, <2>1
    <3>2. at[i] \in Nat
      BY <1>2, <3>1
    <3>3. at[i] <= m+1
      BY <3>1, <3>2
    <3> QED BY <1>3, <2>1, <3>1, <3>3
  <2>2. CASE i = l+1
    BY <1>3, <1>6, <2>2
  <2> QED BY <1>4, <2>1, <2>2
<1>9. ASSUME NEW i \in 1 .. (l+1), NEW j \in 1 .. (l+1), i < j PROVE at1[i] < at1[j]
  <2>1. i \in 1 .. l
    BY <1>2, <1>9
  <2>2. at1[i] = at[i] /\ at[i] \in DOMAIN says /\ at[i] <= m
    BY <1>1, <1>2, <1>6, <2>1
  <2>3. CASE j \in 1 .. l
    BY <1>1, <1>2, <1>6, <1>9, <2>1, <2>3
  <2>4. CASE j = l+1
    <3>1. at[i] \in Nat
      BY <1>2, <2>2
    <3>2. at[i] < m+1
      BY <2>2, <3>1
    <3> QED BY <1>6, <2>2, <2>4, <3>2
  <2> QED BY <1>4, <2>3, <2>4
<1>10. Within(data1, says, m+1)
  BY <1>3, <1>7, <1>8, <1>9 DEF Within
<1> QED BY <1>10 DEF data1

LEMMA AlignedAppend ==
  ASSUME NEW says \in Seq(Body), NEW data \in Seq(Body), NEW m \in Nat, m + 1 <= Len(says),
         Aligned(data, says, m), NEW b \in Body, b = says[m+1]
  PROVE  Aligned(Append(data, b), says, m+1)
<1> DEFINE l == Len(data)
           data1 == Append(data, b)
<1>1. l \in Nat /\ (data = <<>> <=> l = 0)
  BY LenProperties, EmptySeq
<1>2. /\ Len(data1) = l+1 /\ data1[l+1] = b
      /\ \A i \in 1 .. l : data1[i] = data[i]
  BY AppendProperties
<1>3. l # 0 => l <= m /\ \A i \in 1 .. l : data[i] = says[m - l + i]
  BY <1>1 DEF Aligned
<1> HIDE DEF l, data1
<1>4. l + 1 <= m + 1
  BY <1>1, <1>3
<1>5. ASSUME NEW i \in 1 .. (l+1) PROVE data1[i] = says[(m+1) - (l+1) + i]
  <2>1. (m+1) - (l+1) + i = m - l + i
    BY <1>1
  <2>2. CASE i \in 1 .. l
    BY <1>1, <1>2, <1>3, <2>1, <2>2
  <2>3. CASE i = l+1
    <3>1. m - l + i = m + 1
      BY <1>1, <2>3
    <3> QED BY <1>2, <2>1, <2>3, <3>1
  <2> QED BY <1>1, <2>2, <2>3
<1>6. Aligned(data1, says, m+1)
  BY <1>2, <1>4, <1>5 DEF Aligned
<1> QED BY <1>6 DEF data1

\* What the properties say.
LEMMA WithinInOrder ==
  ASSUME NEW data, NEW says, NEW m, Within(data, says, m) PROVE InOrder(data, says)
BY DEF Within, InOrder

LEMMA AlignedPiece ==
  ASSUME NEW says \in Seq(Body), NEW data \in Seq(Body), NEW m \in Nat,
         Aligned(data, says, m)
  PROVE  data \in SubSeqs(says) /\ (Len(data) = m => IsPrefix(data, says))
<1> DEFINE l == Len(data)
<1>1. l \in Nat /\ (data = <<>> <=> l = 0) /\ Len(says) \in Nat
  BY LenProperties, EmptySeq
<1>2. SubSeqs(says) = {SubSeq(says, i+1, j) : i, j \in 0 .. Len(says)}
  BY DEF SubSeqs
<1>3. CASE data = <<>>
  <2>1. SubSeq(says, 0+1, 0) = <<>> /\ 0 \in 0 .. Len(says)
    BY <1>1
  <2>2. data \in SubSeqs(says)
    BY <1>2, <1>3, <2>1
  <2>3. IsPrefix(data, says)
    BY <1>1, <1>3, <2>1 DEF IsPrefix
  <2> QED BY <2>2, <2>3
<1>4. CASE data # <<>>
  <2>1. m <= Len(says) /\ l <= m /\ \A i \in 1 .. l : data[i] = says[m - l + i]
    BY <1>4 DEF Aligned
  <2> DEFINE k == m - l
             piece == SubSeq(says, k+1, m)
  <2>2. k \in Nat /\ k \in 0 .. Len(says) /\ m \in 0 .. Len(says) /\ k <= m /\ m - k = l
    BY <1>1, <2>1
  <2> HIDE DEF l
  <2>3. \A i \in 1 .. l : data[i] = says[k + i]
    BY <2>1
  <2> HIDE DEF k
  <2>4. /\ piece \in Seq(Body) /\ Len(piece) = m - k
        /\ \A i \in 1 .. (m - k) : piece[i] = says[k+i]
    BY <2>2, CP!PieceFacts
  <2> HIDE DEF piece
  <2>5. data = piece
    <3>1. Len(data) = l
      BY DEF l
    <3> QED BY <2>2, <2>3, <2>4, <3>1, SeqEqual
  <2>6. data \in SubSeqs(says)
    BY <1>2, <2>2, <2>5 DEF piece
  <2>7. ASSUME l = m PROVE IsPrefix(data, says)
    <3>1. k = 0
      BY <1>1, <2>7 DEF k
    <3>2. data = SubSeq(says, 1, l)
      BY <2>5, <2>7, <3>1 DEF piece
    <3> QED BY <1>1, <2>1, <2>7, <3>2 DEF IsPrefix, l
  <2> QED BY <2>6, <2>7 DEF l
<1> QED BY <1>3, <1>4
-----------------------------------------------------------------------------
(* A packet is queued or taken in: its body is the next one.               *)

\* What is read from a connection is queued under its tag.
LEMMA SpeakRead ==
  ASSUME NEW q \in Seq(C!Packet), NEW t \in Tag, NEW says, NEW m \in Nat,
         Speaks(q, t, says, m),
         NEW r \in Seq(Body \cup Ends), Carries(r, says, m), r # <<>>, Head(r) \in Body,
         Open(q, t, Len(q)) => Count(q, t, Len(q)) = m - DataLen(r),
         NEW q1, q1 = Append(q, [tag |-> t, type |-> "Data", body |-> Head(r)])
  PROVE  /\ q1 \in Seq(C!Packet) /\ Speaks(q1, t, says, m)
         /\ Count(q1, t, Len(q1)) = Count(q, t, Len(q)) + 1
         /\ Open(q1, t, Len(q1)) <=> Open(q, t, Len(q))
<1> DEFINE pkt == [tag |-> t, type |-> "Data", body |-> Head(r)]
<1>1. pkt \in C!Packet /\ pkt.tag = t /\ C!IsData(pkt) /\ pkt.body = Head(r)
  BY DEF C!Packet, C!IsData
<1>2. /\ DataLen(r) \in Nat /\ DataLen(r) >= 1 /\ DataLen(r) <= m
      /\ Head(r) = says[(m - DataLen(r)) + 1]
  <2>1. DataLen(r) \in Nat
    BY DataLenFacts
  <2>2. DataLen(r) >= 1 /\ Head(r) = says[(m - DataLen(r)) + 1]
    BY CarriesRead
  <2>3. DataLen(r) <= m
    BY DEF Carries
  <2> QED BY <2>1, <2>2, <2>3
<1>3. q1 = Append(q, pkt)
  OBVIOUS
<1> HIDE DEF pkt
<1>4. Open(q, t, Len(q)) =>
        Count(q, t, Len(q)) + 1 <= m /\ pkt.body = says[Count(q, t, Len(q)) + 1]
  <2>1. (m - DataLen(r)) + 1 <= m
    BY <1>2
  <2> QED BY <1>1, <1>2, <2>1
<1>5. Speaks(q1, t, says, m)
  BY <1>1, <1>3, <1>4, SpeaksAppend
<1>6. /\ Len(q1) = Len(q) + 1
      /\ Count(q1, t, Len(q)+1) = Count(q, t, Len(q)) + 1
      /\ Open(q1, t, Len(q)+1) <=> Open(q, t, Len(q))
  BY <1>1, <1>3, CountAppend
<1>7. q1 \in Seq(C!Packet)
  BY <1>1, <1>3, AppendProperties
<1> QED BY <1>5, <1>6, <1>7

\* A packet of another tag, or the last one of t.
LEMMA SpeakOther ==
  ASSUME NEW q \in Seq(C!Packet), NEW t, NEW says, NEW m \in Nat, Speaks(q, t, says, m),
         NEW pkt \in C!Packet, ~(pkt.tag = t /\ C!IsData(pkt))
  PROVE  /\ Speaks(Append(q, pkt), t, says, m)
         /\ Count(Append(q, pkt), t, Len(Append(q, pkt))) = Count(q, t, Len(q))
         /\ Open(Append(q, pkt), t, Len(Append(q, pkt))) <=>
              Open(q, t, Len(q)) /\ pkt.tag # t
<1>1. Speaks(Append(q, pkt), t, says, m)
  BY SpeaksAppend
<1>2. /\ Len(Append(q, pkt)) = Len(q) + 1
      /\ Count(Append(q, pkt), t, Len(q)+1) = Count(q, t, Len(q))
      /\ Open(Append(q, pkt), t, Len(q)+1) <=>
           Open(q, t, Len(q)) /\ (pkt.tag = t => C!IsData(pkt))
  BY CountAppend
<1> QED BY <1>1, <1>2

\* A data packet is taken in, and written or given up.
LEMMA HearNext ==
  ASSUME NEW q \in Seq(C!Packet), NEW t, NEW k \in Nat, k + 1 \in 1 .. Len(q),
         q[k+1].tag = t, C!IsData(q[k+1]), Open(q, t, k+1),
         NEW says \in Seq(Body), NEW m \in Nat, m <= Len(says), Speaks(q, t, says, m),
         NEW data \in Seq(Body), Within(data, says, Count(q, t, k))
  PROVE  LET data1 == Append(data, q[k+1].body) IN
         /\ Count(q, t, k+1) = Count(q, t, k) + 1 /\ Count(q, t, k) \in Nat
         /\ Len(data1) = Len(data) + 1
         /\ Within(data, says, Count(q, t, k+1)) /\ Within(data1, says, Count(q, t, k+1))
         /\ Aligned(data, says, Count(q, t, k)) => Aligned(data1, says, Count(q, t, k+1))
<1> DEFINE n == Count(q, t, k)
           b == q[k+1].body
<1>1. n \in Nat /\ Count(q, t, k+1) = n + 1
  BY CountNat, CountStep
<1>2. n + 1 <= m /\ b = says[n+1]
  BY <1>1 DEF Speaks
<1>3. Len(says) \in Nat
  BY LenProperties
<1>4. Within(data, says, n)
  OBVIOUS
<1> HIDE DEF n, b
<1>5. n + 1 <= Len(says) /\ n + 1 \in 1 .. Len(says)
  BY <1>1, <1>2, <1>3
<1>6. b \in Body
  BY <1>2, <1>5, ElementOfSeq
<1>7. Within(data, says, n+1)
  BY <1>1, <1>4, WithinMore
<1>8. Within(Append(data, b), says, n+1)
  BY <1>1, <1>2, <1>4, <1>5, <1>6, WithinAppend
<1>9. Aligned(data, says, n) => Aligned(Append(data, b), says, n+1)
  BY <1>1, <1>2, <1>5, <1>6, AlignedAppend
<1>10. Len(Append(data, b)) = Len(data) + 1
  BY <1>6, AppendProperties
<1> QED BY <1>1, <1>7, <1>8, <1>9, <1>10 DEF n, b

\* A packet is taken in and nothing is written.
LEMMA HearNothing ==
  ASSUME NEW q, NEW t, NEW k \in Nat, NEW says \in Seq(Body), NEW data,
         Within(data, says, Count(q, t, k))
  PROVE  Within(data, says, Count(q, t, k+1))
<1>1. Count(q, t, k) \in Nat /\ Count(q, t, k+1) \in Nat
  BY CountNat
<1>2. Count(q, t, k) <= Count(q, t, k+1)
  BY <1>1, CountStep
<1> QED BY <1>1, <1>2, WithinMore

LEMMA OpenStep ==
  ASSUME NEW q, NEW t, NEW k \in Nat
  PROVE  Open(q, t, k+1) <=> Open(q, t, k) /\ (q[k+1].tag = t => C!IsData(q[k+1]))
<1>1. \A j : j \in 1 .. (k+1) <=> j \in 1 .. k \/ j = k+1
  OBVIOUS
<1> QED BY <1>1 DEF Open

LEMMA NoneBefore ==
  ASSUME NEW q, NEW t, NEW k \in Nat, NEW l \in Nat, k <= l, Count(q, t, l) = 0
  PROVE  Count(q, t, k) = 0
<1>1. \A j \in 1 .. k : j \in 1 .. l
  OBVIOUS
<1> QED BY <1>1, CountNone

\* A tag nothing is queued under.
LEMMA Untold ==
  ASSUME NEW q \in Seq(C!Packet), NEW t, t \notin Tags(q), NEW k \in 0 .. Len(q)
  PROVE  Count(q, t, k) = 0 /\ Open(q, t, k)
<1>1. Len(q) \in Nat /\ DOMAIN q = 1 .. Len(q) /\ k \in Nat
  BY LenProperties
<1>2. \A j \in 1 .. k : j \in DOMAIN q
  BY <1>1
<1>3. \A j \in 1 .. k : q[j].tag # t
  BY <1>2 DEF Tags
<1> QED BY <1>1, <1>3, CountNone DEF Open

LEMMA CountPrefix ==
  ASSUME NEW q \in Seq(C!Packet), NEW pkt \in C!Packet, NEW t, NEW k \in 0 .. Len(q)
  PROVE  /\ Count(Append(q, pkt), t, k) = Count(q, t, k)
         /\ Open(Append(q, pkt), t, k) <=> Open(q, t, k)
BY CountAppend

\* The next packet of a stream.
LEMMA NextOfPrefix ==
  ASSUME NEW q \in Seq(C!Packet), NEW got \in Seq(C!Packet), IsPrefix(got, q),
         NEW w \in 0 .. Len(got), w + 1 \in 1 .. Len(got)
  PROVE  w + 1 \in 1 .. Len(q) /\ got[w+1] = q[w+1] /\ q[w+1] \in C!Packet
         /\ q[w+1].tag \in Tags(q)
<1>1. Len(q) \in Nat /\ Len(got) \in Nat /\ Len(got) <= Len(q)
      /\ got = SubSeq(q, 1, Len(got)) /\ DOMAIN q = 1 .. Len(q)
  BY LenProperties DEF IsPrefix
<1>2. \A i \in 1 .. Len(got) : SubSeq(q, 1, Len(got))[i] = q[i]
  BY <1>1
<1>3. w + 1 \in 1 .. Len(q) /\ got[w+1] = q[w+1]
  BY <1>1, <1>2
<1> QED BY <1>1, <1>3, ElementOfSeq DEF Tags

LEMMA PrefixLen ==
  ASSUME NEW q \in Seq(C!Packet), NEW got \in Seq(C!Packet), IsPrefix(got, q)
  PROVE  Len(got) \in Nat /\ Len(q) \in Nat /\ Len(got) <= Len(q)
BY LenProperties DEF IsPrefix

-----------------------------------------------------------------------------
(* The invariant.                                                          *)

\* How much has been read of a connection.
ReadC(c) == browserSaid[c] - DataLen(cRx[c])
ReadS(s) == proxySaid[s] - DataLen(sRx[s])

\* Browsers are numbered as they connect, and the client gives their
\* connections the tags in that order.
Numbered ==
  /\ cUsed = 1 .. (cNextTag + Len(cBacklog)) /\ cUsed \subseteq Browsers
  /\ \A i \in DOMAIN cBacklog : cBacklog[i] = cNextTag + i
  /\ \A t \in Tag : cWorkers[t] # "none" => BrowserOf(t) = t + 1

\* A connection that has no tag yet has not been read nor written.
BrowsersCarry ==
  /\ \A c \in Browsers : Carries(cRx[c], world.browsers[c], browserSaid[c])
  /\ \A c \in Browser : cTx[c] # <<>> => c <= cNextTag /\ c - 1 \in Tag
  /\ \A c \in Browsers : c > cNextTag => ReadC(c) = 0

\* What the client has queued under a tag is what it has read of its browser.
BrowserSpeaks ==
  \A t \in Tag : t + 1 \in Browsers =>
    /\ Speaks(cMailq, t, world.browsers[t+1], browserSaid[t+1])
    /\ cWorkers[t] # "none" => Count(cMailq, t, Len(cMailq)) = ReadC(t+1)

ClientSide == Numbered /\ BrowsersCarry /\ BrowserSpeaks /\ CP!ControlIsLast

\* A connection to the proxy that is still to be made is untouched.
ProxyCarries ==
  \A s \in Proxy :
    /\ Carries(sRx[s], world.proxy[s], proxySaid[s])
    /\ s \notin sUsed => ReadS(s) = 0 /\ sTx[s] = <<>>

\* The server has taken in the first w packets of the client: what it has
\* written to a connection comes from one browser, the one its tag stands
\* for, and is up to date unless the proxy does not read.
HearsBrowser(s, c, w) ==
  /\ Within(sTx[s], world.browsers[c], Count(cMailq, c-1, w))
  /\ \A t \in Tag : sWorkers[t] # "none" /\ ProxyOf(t) = s =>
       /\ t + 1 = c
       /\ ~MayBe("stall") /\ ~Closed(sRx[s])
            => Aligned(sTx[s], world.browsers[c], Count(cMailq, t, w))
ServerHears(w) == \A s \in Proxy : \E c \in Browsers : HearsBrowser(s, c, w)

\* A tag without a connection whose end the server has not announced has
\* carried nothing, or the browser is gone: its second connection, if there
\* is one, has nothing to answer to.
NotReopened(w) ==
  \A t \in Tag : sWorkers[t] = "none" /\ Open(sMailq, t, Len(sMailq)) =>
    Count(sMailq, t, Len(sMailq)) = 0 \/ ~Open(cMailq, t, w)

\* What the server has queued under a tag, up to the end it announces, is
\* what it has read of connection s.
AnswersFor(t, s) ==
  /\ Speaks(sMailq, t, world.proxy[s], proxySaid[s])
  /\ sWorkers[t] # "none" /\ Open(sMailq, t, Len(sMailq)) =>
       ProxyOf(t) = s /\ Count(sMailq, t, Len(sMailq)) = ReadS(s)

\* The client has taken in the first w packets of the server: what it has
\* written to the browser of a tag comes from s, from its beginning unless the
\* browser does not read.
HearsProxy(t, s, w) ==
  /\ t + 1 \in Browser => Within(cTx[t+1], world.proxy[s], Count(sMailq, t, w))
  /\ cWorkers[t] # "none" /\ ~MayBe("stall") /\ ~Closed(cRx[t+1]) =>
       /\ Aligned(cTx[t+1], world.proxy[s], Count(sMailq, t, w))
       /\ Len(cTx[t+1]) = Count(sMailq, t, w)
ClientHears(w) == \A t \in Tag : \E s \in Proxy : AnswersFor(t, s) /\ HearsProxy(t, s, w)

\* The client closes a connection when its tag is ended.
ClientOpen(w) == \A t \in Tag : cWorkers[t] # "none" => Open(sMailq, t, w)

UpAt(w) ==
  /\ w \in 0 .. Len(upGot) /\ SP!Pending(SP!Files, sSpool, sWork, upGot, w)
  /\ ServerHears(w) /\ NotReopened(w)
DownAt(w) ==
  /\ w \in 0 .. Len(downGot) /\ CP!Pending(CP!Files, cSpool, cWork, downGot, w)
  /\ ClientHears(w) /\ ClientOpen(w)

BytesInv ==
  /\ ClientSide /\ ProxyCarries
  /\ CP!NothingAtHand /\ SP!NothingAtHand
  /\ (\E w \in Nat : UpAt(w)) /\ (\E w \in Nat : DownAt(w))

-----------------------------------------------------------------------------
(* Types, and other names of the same things.                              *)

LEMMA ByteTypes ==
  ASSUME IInv
  PROVE  /\ cMailq \in Seq(C!Packet) /\ sMailq \in Seq(C!Packet)
         /\ upGot \in Seq(C!Packet) /\ IsPrefix(upGot, cMailq)
         /\ downGot \in Seq(C!Packet) /\ IsPrefix(downGot, sMailq)
         /\ cRx \in [Browser -> Seq(Body \cup Ends)] /\ cTx \in [Browser -> Seq(Body)]
         /\ sRx \in [Proxy -> Seq(Body \cup Ends)] /\ sTx \in [Proxy -> Seq(Body)]
         /\ cNextTag \in Nat /\ cBacklog \in Seq(Browser)
         /\ cWorkers \in [Tag -> {"none", "kUnInit", "kGranted"}]
         /\ sWorkers \in [Tag -> {"none", "kUnInit", "kGranted"}]
         /\ sUsed \subseteq Proxy /\ cUsed \subseteq Browser
BY Types DEF IInv, Streams, Ends, CP!IInv, SP!IInv, CP!TypeOK, SP!TypeOK

LEMMA ConstantTypes ==
  /\ Tag \subseteq Nat /\ Browser \subseteq Nat
  /\ IsFiniteSet(Browser) /\ Proxy # {}
<1>1. Cardinality(Browser) \in Nat /\ Browser = 1 .. Cardinality(Browser)
  BY ConnAssumption, FS_CardinalityType
<1>2. Browser \subseteq Nat
  BY <1>1
<1> QED BY <1>2, NameAssumption, ConnAssumption

LEMMA WorldTypes ==
  ASSUME IInv
  PROVE  /\ Browsers \subseteq Browser /\ Browsers \subseteq Nat
         /\ Browsers # {}
         /\ \A c \in Browsers : /\ world.browsers[c] \in Seq(Body)
                                /\ browserSaid[c] \in Nat
                                /\ browserSaid[c] <= Len(world.browsers[c])
                                /\ Len(world.browsers[c]) \in Nat
         /\ \A s \in Proxy : /\ world.proxy[s] \in Seq(Body)
                             /\ proxySaid[s] \in Nat
                             /\ proxySaid[s] <= Len(world.proxy[s])
                             /\ Len(world.proxy[s]) \in Nat
         /\ browserSaid \in [Browser -> Nat] /\ proxySaid \in [Proxy -> Nat]
<1>1. /\ world \in Worlds
      /\ browserSaid \in [Browser -> Nat] /\ proxySaid \in [Proxy -> Nat]
      /\ \A c \in Browsers : browserSaid[c] \in 0 .. Len(world.browsers[c])
      /\ \A s \in Proxy : proxySaid[s] \in 0 .. Len(world.proxy[s])
  BY DEF IInv, Counts
<1>2. /\ world.browsers \in Seq(Seq(Body)) /\ world.browsers # <<>>
      /\ DOMAIN world.browsers \subseteq Browser
      /\ world.proxy \in [Proxy -> Seq(Body)]
  BY <1>1, WorldAssumption
<1>3. Browsers \subseteq Browser /\ Browsers \subseteq Nat
  BY <1>2, ConstantTypes DEF Browsers
<1>4. Browsers # {}
  <2>1. Len(world.browsers) \in Nat /\ DOMAIN world.browsers = 1 .. Len(world.browsers)
        /\ Len(world.browsers) # 0
    BY <1>2, LenProperties, EmptySeq
  <2>2. 1 \in 1 .. Len(world.browsers)
    BY <2>1
  <2> QED BY <2>1, <2>2 DEF Browsers
<1>5. ASSUME NEW c \in Browsers
      PROVE  /\ world.browsers[c] \in Seq(Body) /\ Len(world.browsers[c]) \in Nat
             /\ browserSaid[c] \in Nat /\ browserSaid[c] <= Len(world.browsers[c])
  <2>1. world.browsers[c] \in Seq(Body)
    BY <1>2, LenProperties, ElementOfSeq DEF Browsers
  <2>2. Len(world.browsers[c]) \in Nat
    BY <2>1, LenProperties
  <2>3. browserSaid[c] \in 0 .. Len(world.browsers[c])
    BY <1>1
  <2> QED BY <2>1, <2>2, <2>3
<1>6. ASSUME NEW s \in Proxy
      PROVE  /\ world.proxy[s] \in Seq(Body) /\ Len(world.proxy[s]) \in Nat
             /\ proxySaid[s] \in Nat /\ proxySaid[s] <= Len(world.proxy[s])
  <2>1. world.proxy[s] \in Seq(Body)
    BY <1>2
  <2>2. Len(world.proxy[s]) \in Nat
    BY <2>1, LenProperties
  <2>3. proxySaid[s] \in 0 .. Len(world.proxy[s])
    BY <1>1
  <2> QED BY <2>1, <2>2, <2>3
<1> QED BY <1>1, <1>3, <1>4, <1>5, <1>6

LEMMA SameConns ==
  /\ \A t : CP!ConnOf(t) = BrowserOf(t) /\ CP!ConnNext(t) = BrowserOf(t)'
  /\ \A t : SP!ConnOf(t) = ProxyOf(t) /\ SP!ConnNext(t) = ProxyOf(t)'
BY DEF CP!ConnOf, CP!ConnNext, SP!ConnOf, SP!ConnNext, BrowserOf, ProxyOf

LEMMA SameClosed ==
  /\ \A c : C!PeerEnded(c) <=> Closed(cRx[c])
  /\ \A s : S!PeerEnded(s) <=> Closed(sRx[s])
BY DEF C!PeerEnded, S!PeerEnded, C!Last, S!Last, Closed, Ends

LEMMA SameData == \A pkt : CP!IsData(pkt) = C!IsData(pkt) /\ SP!IsData(pkt) = C!IsData(pkt)
                           /\ S!IsData(pkt) = C!IsData(pkt)
BY DEF C!IsData, S!IsData, CP!IsData, SP!IsData

LEMMA SameDeliveries ==
  /\ CP!Deliver => C!Deliver
  /\ SP!Deliver => S!Deliver
<1>1. CP!Deliver => C!Deliver
  BY DEF C!Deliver, CP!Deliver, C!Processing, CP!Processing, C!Up, CP!Up,
         C!IsData, CP!IsData, C!SockPut, CP!SockPut, C!Written, CP!Written,
         C!PeerEnded, CP!PeerEnded,
         C!Last, CP!Last, C!kernel, CP!kernel, C!peers, CP!peers, C!tables,
         CP!tables, C!mail, CP!mail
<1>2. SP!Deliver => S!Deliver
  BY DEF S!Deliver, SP!Deliver, S!Processing, SP!Processing, S!Up, SP!Up,
         S!IsData, SP!IsData, S!SockPut, SP!SockPut, S!Written, SP!Written,
         S!PeerEnded, SP!PeerEnded,
         S!Last, SP!Last, S!kernel, SP!kernel, S!peers, SP!peers, S!tables,
         SP!tables, S!mail, SP!mail
<1> QED BY <1>1, <1>2

-----------------------------------------------------------------------------
(* Steps of the client.                                                    *)

LEMMA ClientDoes ==
  ASSUME IInv, C!Receive, CP!NothingAtHand, NEW w \in 0 .. Len(downGot),
         CP!Pending(CP!Files, cSpool, cWork, downGot, w)
  PROVE  /\ CP!NothingAtHand'
         /\ \/ /\ CP!Idles \/ CP!Accepts \/ \E t \in Tag : CP!ReadsBody(t) \/ CP!ReadsEnd(t)
               /\ CP!Pending(CP!Files', cSpool', cWork', downGot, w)
            \/ /\ w + 1 \in 1 .. Len(downGot) /\ downGot[w+1] \in C!Packet
               /\ Head(cWork) = downGot[w+1]
               /\ \E t \in Tag : /\ t = downGot[w+1].tag
                                 /\ CP!Drops(t) \/ CP!Puts(t) \/ CP!Closes(t)
               /\ CP!Pending(CP!Files', cSpool', cWork', downGot, w+1)
<1>1. CP!IInv /\ CP!Receive /\ downGot \in Seq(CP!Packet)
  BY ClientReceive, ByteTypes, SamePackets DEF IInv
<1>2. /\ CP!NothingAtHand'
      /\ \/ ~CP!ProcessPacket /\ CP!Pending(CP!Files', cSpool', cWork', downGot, w)
         \/ /\ CP!ProcessPacket
            /\ w + 1 \in 1 .. Len(downGot) /\ Head(cWork) = downGot[w+1]
            /\ CP!Pending(CP!Files', cSpool', cWork', downGot, w+1)
  BY <1>1, ClientAssumptions, CP!ReceivePending
<1>3. CASE ~CP!ProcessPacket
  <2>1. CP!Idles \/ CP!Accepts \/ \E t \in Tag : CP!ReadsBody(t) \/ CP!ReadsEnd(t)
    BY <1>1, <1>3, ClientAssumptions, CP!EventSteps
  <2>2. CP!Pending(CP!Files', cSpool', cWork', downGot, w)
    BY <1>2, <1>3
  <2> QED BY <1>2, <2>1, <2>2
<1>4. CASE CP!ProcessPacket
  <2>1. /\ Head(cWork).tag \in Tag
        /\ \/ CP!Drops(Head(cWork).tag) \/ CP!Opens(Head(cWork).tag)
           \/ CP!Puts(Head(cWork).tag) \/ CP!Closes(Head(cWork).tag)
    BY <1>1, <1>4, ClientAssumptions, CP!PacketSteps
  <2>2. ~CP!Opens(Head(cWork).tag)
    BY DEF CP!Opens, CP!OpenConnection
  <2>3. w + 1 \in 1 .. Len(downGot) /\ downGot[w+1] \in C!Packet
    BY <1>1, <1>2, <1>4, ElementOfSeq, SamePackets
  <2> QED BY <1>2, <1>4, <2>1, <2>2, <2>3
<1> QED BY <1>3, <1>4

LEMMA ClientDoesSomething ==
  ASSUME IInv, C!Receive
  PROVE  \/ CP!Idles \/ CP!Accepts
         \/ \E t \in Tag : \/ CP!ReadsBody(t) \/ CP!ReadsEnd(t)
                           \/ CP!Drops(t) \/ CP!Puts(t) \/ CP!Closes(t)
<1>1. CP!IInv /\ CP!Receive
  BY ClientReceive DEF IInv
<1>2. CASE ~CP!ProcessPacket
  BY <1>1, <1>2, ClientAssumptions, CP!EventSteps
<1>3. CASE CP!ProcessPacket
  <2>1. /\ Head(cWork).tag \in Tag
        /\ \/ CP!Drops(Head(cWork).tag) \/ CP!Opens(Head(cWork).tag)
           \/ CP!Puts(Head(cWork).tag) \/ CP!Closes(Head(cWork).tag)
    BY <1>1, <1>3, ClientAssumptions, CP!PacketSteps
  <2>2. ~CP!Opens(Head(cWork).tag)
    BY DEF CP!Opens, CP!OpenConnection
  <2> QED BY <2>1, <2>2
<1> QED BY <1>2, <1>3

\* The connection of a tag at the client.
LEMMA BrowserFound ==
  ASSUME IInv, Numbered, NEW t \in Tag, cWorkers[t] # "none"
  PROVE  /\ BrowserOf(t) = t + 1 /\ t + 1 \in Browsers /\ t + 1 \in Browser
         /\ t \in Nat /\ t < cNextTag /\ t + 1 <= cNextTag
<1>1. BrowserOf(t) = t + 1
  BY DEF Numbered
<1>2. CP!ConnOf(t) \in cUsed
  BY ClientAssumptions, CP!OneTag DEF IInv
<1>3. t + 1 \in Browsers /\ t + 1 \in Browser
  BY <1>1, <1>2, SameConns, WorldTypes DEF Numbered
<1>4. t < cNextTag
  BY DEF IInv, CP!IInv, CP!TagsIssued
<1> QED BY <1>1, <1>3, <1>4, ConstantTypes, ByteTypes

\* A tag that is queued belongs to a browser.
LEMMA TagOfBrowser ==
  ASSUME IInv, Numbered, NEW t \in Tags(cMailq)
  PROVE  t \in Tag /\ t \in Nat /\ t + 1 \in Browsers /\ t < cNextTag
<1>1. t \in Tag /\ t \in Nat /\ t < cNextTag
  BY ByteTypes, TagsOfQueue, ConstantTypes DEF IInv, Issued
<1>2. t + 1 \in 1 .. (cNextTag + Len(cBacklog))
  BY <1>1, ByteTypes, LenProperties
<1> QED BY <1>1, <1>2 DEF Numbered

\* Steps that leave the client's connections and queue alone.
LEMMA ClientSideFrame ==
  ASSUME ClientSide, CP!ControlIsLast',
         UNCHANGED <<cUsed, cNextTag, cBacklog, cRx, cTx, cMailq, browserSaid, world>>,
         \A t \in Tag : /\ cWorkers'[t] # "none" => cWorkers[t] # "none"
                        /\ cWorkers'[t] # "none" => BrowserOf(t)' = BrowserOf(t)
  PROVE  ClientSide'
<1>1. Numbered'
  BY DEF ClientSide, Numbered, Browsers
<1>2. BrowsersCarry'
  BY DEF ClientSide, BrowsersCarry, Browsers, ReadC
<1>3. BrowserSpeaks'
  BY DEF ClientSide, BrowserSpeaks, Browsers, ReadC
<1> QED BY <1>1, <1>2, <1>3 DEF ClientSide

\* A browser is accepted.
LEMMA AcceptFacts ==
  ASSUME CP!Accepts
  PROVE  \E n \in Tag :
           /\ n = cNextTag /\ cNextTag' = n + 1
           /\ cBacklog # <<>> /\ cBacklog' = Tail(cBacklog)
           /\ cWorkers[n] = "none" /\ cWorkers'[n] = "kUnInit"
           /\ BrowserOf(n)' = Head(cBacklog)
           /\ UNCHANGED <<cRx, cTx, cMailq, cUsed>>
           /\ \A u \in Tag \ {n} : /\ cWorkers'[u] = cWorkers[u]
                                   /\ cWorkers[u] # "none" => BrowserOf(u)' = BrowserOf(u)
<1>1. PICK n \in Tag : n = cNextTag
  BY DEF CP!Accepts
<1>2. BrowserOf(n)' = Head(cBacklog)
  BY <1>1, SameConns DEF CP!Accepts
<1>3. \A u : CP!ConnOf(u) = BrowserOf(u) /\ CP!ConnNext(u) = BrowserOf(u)'
  BY SameConns
<1> QED BY <1>1, <1>2, <1>3 DEF CP!Accepts, CP!KeepsOthers

LEMMA AcceptSide ==
  ASSUME IInv, ClientSide, CP!ControlIsLast', CP!Accepts, UNCHANGED <<browserSaid, world>>
  PROVE  ClientSide'
<1> USE DEF ClientSide
<1>1. PICK n \in Tag :
        /\ n = cNextTag /\ cNextTag' = n + 1
        /\ cBacklog # <<>> /\ cBacklog' = Tail(cBacklog)
        /\ cWorkers'[n] = "kUnInit" /\ BrowserOf(n)' = Head(cBacklog)
        /\ UNCHANGED <<cRx, cTx, cMailq, cUsed>>
        /\ \A u \in Tag \ {n} : /\ cWorkers'[u] = cWorkers[u]
                                /\ cWorkers[u] # "none" => BrowserOf(u)' = BrowserOf(u)
  BY AcceptFacts
<1> DEFINE l == Len(cBacklog)
           rest == Tail(cBacklog)
<1>2. /\ l \in Nat /\ l # 0 /\ DOMAIN cBacklog = 1 .. l /\ Head(cBacklog) = cBacklog[1]
      /\ Len(rest) = l - 1 /\ DOMAIN rest = 1 .. (l-1)
      /\ \A i \in 1 .. (l-1) : rest[i] = cBacklog[i+1]
  <2>1. l \in Nat /\ l # 0 /\ DOMAIN cBacklog = 1 .. l /\ cBacklog \in Seq(Browser)
    BY <1>1, ByteTypes, LenProperties, EmptySeq
  <2>2. /\ rest \in Seq(Browser) /\ Len(rest) = l - 1 /\ Head(cBacklog) = cBacklog[1]
        /\ \A i \in 1 .. (l-1) : rest[i] = cBacklog[i+1]
    BY <1>1, <2>1, HeadTailProperties
  <2> QED BY <2>1, <2>2, LenProperties
<1>3. n \in Nat /\ n + 1 \in Nat
  BY <1>1, ByteTypes
<1> HIDE DEF l, rest
<1>4. Numbered'
  <2>1. \A i \in 1 .. l : cBacklog[i] = n + i
    BY <1>1, <1>2 DEF Numbered
  <2>2. cUsed = 1 .. (n + l) /\ cUsed \subseteq Browsers
    BY <1>1 DEF Numbered, l
  <2>3. (n + 1) + (l - 1) = n + l
    BY <1>2, <1>3
  <2>4. \A i \in 1 .. (l-1) : rest[i] = (n + 1) + i
    <3> TAKE i \in 1 .. (l-1)
    <3>1. i + 1 \in 1 .. l /\ n + (i + 1) = (n + 1) + i
      BY <1>2, <1>3
    <3> QED BY <1>2, <2>1, <3>1
  <2>5. cBacklog[1] = n + 1
    <3>1. 1 \in 1 .. l
      BY <1>2
    <3> QED BY <2>1, <3>1
  <2>6. cUsed' = 1 .. (cNextTag' + Len(cBacklog')) /\ cUsed' \subseteq Browsers'
    BY <1>1, <1>2, <2>2, <2>3 DEF rest, Browsers
  <2>7. \A i \in DOMAIN cBacklog' : cBacklog'[i] = cNextTag' + i
    BY <1>1, <1>2, <2>4 DEF rest
  <2>8. \A t \in Tag : cWorkers'[t] # "none" => BrowserOf(t)' = t + 1
    <3> TAKE t \in Tag
    <3>1. CASE t = n
      BY <1>1, <1>2, <2>5, <3>1
    <3>2. CASE t # n
      BY <1>1, <3>2 DEF Numbered
    <3> QED BY <3>1, <3>2
  <2> QED BY <2>6, <2>7, <2>8 DEF Numbered
<1>5. BrowsersCarry'
  <2>1. \A c \in Browser : c <= n => c <= n + 1
    BY <1>3, ConstantTypes
  <2>2. \A c \in Browsers : c > n + 1 => c > n
    BY <1>3, WorldTypes
  <2>3. \A c \in Browser : cTx'[c] # <<>> => c <= cNextTag' /\ c - 1 \in Tag
    BY <1>1, <2>1 DEF BrowsersCarry
  <2>4. \A c \in Browsers : c > cNextTag' => ReadC(c)' = 0
    BY <1>1, <2>2 DEF BrowsersCarry, ReadC
  <2> QED BY <1>1, <2>3, <2>4 DEF BrowsersCarry, Browsers
<1>6. BrowserSpeaks'
  <2>1. n + 1 \in Browsers => Count(cMailq, n, Len(cMailq)) = 0 /\ ReadC(n+1) = 0
    <3>1. n \notin Tags(cMailq)
      <4>1. ~(n < cNextTag)
        BY <1>1, <1>3
      <4> QED BY <4>1 DEF IInv, Issued
    <3>2. Len(cMailq) \in 0 .. Len(cMailq)
      BY ByteTypes, LenProperties
    <3>3. n + 1 > cNextTag
      BY <1>1, <1>3
    <3> QED BY <3>1, <3>2, <3>3, Untold, ByteTypes DEF BrowsersCarry
  <2>2. \A t \in Tag : t + 1 \in Browsers /\ cWorkers'[t] # "none" =>
          Count(cMailq, t, Len(cMailq)) = ReadC(t+1)
    <3> TAKE t \in Tag
    <3>1. CASE t = n
      BY <2>1, <3>1
    <3>2. CASE t # n
      BY <1>1, <3>2 DEF BrowserSpeaks
    <3> QED BY <3>1, <3>2
  <2>3. UNCHANGED <<cMailq, cRx>>
    BY <1>1
  <2> QED BY <2>2, <2>3 DEF BrowserSpeaks, Browsers, ReadC
<1> QED BY <1>4, <1>5, <1>6

\* A browser's connection is read.
LEMMA ReadBodySide ==
  ASSUME IInv, ClientSide, CP!ControlIsLast', NEW t \in Tag, CP!ReadsBody(t),
         UNCHANGED <<browserSaid, world>>
  PROVE  ClientSide'
<1> USE DEF ClientSide
<1> DEFINE c == t + 1
<1>1. /\ BrowserOf(t) = c /\ c \in Browsers /\ c \in Browser /\ t < cNextTag
      /\ t \in Nat /\ c <= cNextTag /\ cWorkers[t] # "none"
  BY BrowserFound DEF CP!ReadsBody
<1>2. /\ cRx[c] # <<>> /\ Head(cRx[c]) \in Body
      /\ cMailq' = Append(cMailq, [tag |-> t, type |-> "Data", body |-> Head(cRx[c])])
      /\ cRx' = [cRx EXCEPT ![c] = Tail(cRx[c])]
      /\ BrowserOf(t)' = BrowserOf(t) /\ cWorkers'[t] # "none"
      /\ UNCHANGED <<cTx, cUsed, cBacklog, cNextTag>>
      /\ \A u \in Tag \ {t} : /\ cWorkers'[u] = cWorkers[u]
                              /\ cWorkers[u] # "none" => BrowserOf(u)' = BrowserOf(u)
  BY <1>1, SameConns DEF CP!ReadsBody, CP!KeepsOthers, CP!DataPacket
<1> DEFINE r == cRx[c]
           says == world.browsers[c]
           m == browserSaid[c]
<1>3. /\ r \in Seq(Body \cup Ends) /\ m \in Nat /\ Carries(r, says, m)
      /\ Speaks(cMailq, t, says, m)
      /\ Count(cMailq, t, Len(cMailq)) = m - DataLen(r)
  BY <1>1, ByteTypes, WorldTypes DEF BrowsersCarry, BrowserSpeaks, ReadC
<1>4. /\ Carries(Tail(r), says, m) /\ DataLen(Tail(r)) = DataLen(r) - 1
      /\ DataLen(r) \in Nat
  BY <1>2, <1>3, CarriesRead, DataLenFacts
<1>5. /\ Speaks(cMailq', t, says, m)
      /\ Count(cMailq', t, Len(cMailq')) = Count(cMailq, t, Len(cMailq)) + 1
  <2>1. cMailq \in Seq(C!Packet)
    BY ByteTypes
  <2> HIDE DEF r, says, m, ClientSide
  <2> QED BY <1>2, <1>3, <2>1, SpeakRead DEF r
<1>6. cRx'[c] = Tail(r) /\ \A d \in Browser \ {c} : cRx'[d] = cRx[d]
  BY <1>1, <1>2, ByteTypes
<1>7. ReadC(c)' = (m - DataLen(r)) + 1 /\ \A d \in Browser \ {c} : ReadC(d)' = ReadC(d)
  <2>1. m - (DataLen(r) - 1) = (m - DataLen(r)) + 1
    BY <1>3, <1>4
  <2>2. ReadC(c)' = m - DataLen(Tail(r))
    BY <1>6 DEF ReadC
  <2>3. \A d \in Browser \ {c} : ReadC(d)' = ReadC(d)
    BY <1>6 DEF ReadC
  <2> QED BY <1>4, <2>1, <2>2, <2>3
<1>8. Numbered'
  BY <1>1, <1>2 DEF Numbered, Browsers
<1>9. BrowsersCarry'
  <2>1. \A d \in Browsers : Carries(cRx'[d], world.browsers[d], browserSaid[d])
    BY <1>4, <1>6, WorldTypes DEF BrowsersCarry
  <2>2. \A d \in Browsers : d > cNextTag => d # c
    BY <1>1, ByteTypes, WorldTypes
  <2>3. \A d \in Browsers : d > cNextTag => ReadC(d)' = 0
    BY <1>7, <2>2, WorldTypes DEF BrowsersCarry
  <2> QED BY <1>2, <2>1, <2>3 DEF BrowsersCarry, Browsers
<1>10. ASSUME NEW u \in Tag, u # t, u + 1 \in Browsers
       PROVE  /\ Speaks(cMailq', u, world.browsers[u+1], browserSaid[u+1])
              /\ Count(cMailq', u, Len(cMailq')) = Count(cMailq, u, Len(cMailq))
              /\ ReadC(u+1)' = ReadC(u+1)
  <2> DEFINE pkt == [tag |-> t, type |-> "Data", body |-> Head(r)]
  <2>1. pkt \in C!Packet /\ pkt.tag # u
    BY <1>2, <1>10 DEF C!Packet
  <2>2. cMailq' = Append(cMailq, pkt)
    BY <1>2
  <2> HIDE DEF pkt
  <2>3. u + 1 \in Browser \ {c}
    BY <1>10, ConstantTypes, WorldTypes
  <2>4. Speaks(cMailq, u, world.browsers[u+1], browserSaid[u+1]) /\ browserSaid[u+1] \in Nat
    BY <1>10, WorldTypes DEF BrowserSpeaks
  <2> QED BY <1>7, <2>1, <2>2, <2>3, <2>4, ByteTypes, SpeakOther
<1>11. BrowserSpeaks'
  <2> SUFFICES ASSUME NEW u \in Tag, u + 1 \in Browsers
               PROVE  /\ Speaks(cMailq', u, world.browsers[u+1], browserSaid[u+1])
                      /\ cWorkers'[u] # "none" =>
                           Count(cMailq', u, Len(cMailq')) = ReadC(u+1)'
    BY DEF BrowserSpeaks, Browsers, ReadC
  <2>1. CASE u = t
    BY <1>3, <1>5, <1>7, <2>1
  <2>2. CASE u # t
    BY <1>2, <1>10, <2>2 DEF BrowserSpeaks
  <2> QED BY <2>1, <2>2
<1> QED BY <1>8, <1>9, <1>11

LEMMA ReadEndSide ==
  ASSUME IInv, ClientSide, CP!ControlIsLast', NEW t \in Tag, CP!ReadsEnd(t),
         UNCHANGED <<browserSaid, world>>
  PROVE  ClientSide'
<1> USE DEF ClientSide
<1> DEFINE c == t + 1
<1>1. /\ BrowserOf(t) = c /\ c \in Browsers /\ c \in Browser /\ t \in Nat /\ c <= cNextTag
  BY BrowserFound DEF CP!ReadsEnd
<1>2. PICK pkt \in C!Packet :
        /\ pkt.tag = t /\ ~C!IsData(pkt)
        /\ cMailq' = Append(cMailq, pkt)
        /\ cRx[c] # <<>> /\ Head(cRx[c]) \in Ends
        /\ cRx' = [cRx EXCEPT ![c] = <<>>]
        /\ cWorkers'[t] = "none"
        /\ UNCHANGED <<cTx, cUsed, cBacklog, cNextTag>>
        /\ \A u \in Tag \ {t} : /\ cWorkers'[u] = cWorkers[u]
                                /\ cWorkers[u] # "none" => BrowserOf(u)' = BrowserOf(u)
  <2> DEFINE pkt == CP!EndPacket(t, Head(cRx[c]))
  <2>1. pkt \in C!Packet /\ pkt.tag = t /\ ~C!IsData(pkt)
    BY DEF CP!EndPacket, C!Packet, C!IsData
  <2>2. cMailq' = Append(cMailq, pkt)
    BY <1>1, SameConns DEF CP!ReadsEnd
  <2> HIDE DEF pkt
  <2>3. /\ cRx[c] # <<>> /\ Head(cRx[c]) \in Ends
        /\ cRx' = [cRx EXCEPT ![c] = <<>>]
        /\ cWorkers'[t] = "none"
        /\ UNCHANGED <<cTx, cUsed, cBacklog, cNextTag>>
        /\ \A u \in Tag \ {t} : /\ cWorkers'[u] = cWorkers[u]
                                /\ cWorkers[u] # "none" => BrowserOf(u)' = BrowserOf(u)
    BY <1>1, SameConns DEF CP!ReadsEnd, CP!KeepsOthers, Ends
  <2> QED BY <2>1, <2>2, <2>3
<1>3. cRx'[c] = <<>> /\ \A d \in Browser \ {c} : cRx'[d] = cRx[d]
  BY <1>1, <1>2, ByteTypes
<1>4. DataLen(cRx[c]) = 0
  <2>1. cRx[c] \in Seq(Body \cup Ends) /\ browserSaid[c] \in Nat
        /\ Carries(cRx[c], world.browsers[c], browserSaid[c])
    BY <1>1, ByteTypes, WorldTypes DEF BrowsersCarry
  <2> QED BY <1>2, <2>1, CarriesEnd
<1>5. \A d \in Browser : ReadC(d)' = ReadC(d)
  BY <1>3, <1>4, CarriesNothing DEF ReadC
<1>6. Numbered'
  BY <1>1, <1>2 DEF Numbered, Browsers
<1>7. BrowsersCarry'
  <2>1. \A d \in Browsers : Carries(cRx'[d], world.browsers[d], browserSaid[d])
    BY <1>3, CarriesNothing, WorldTypes DEF BrowsersCarry
  <2>2. \A d \in Browsers : d > cNextTag => ReadC(d)' = 0
    BY <1>5, WorldTypes DEF BrowsersCarry
  <2> QED BY <1>2, <2>1, <2>2 DEF BrowsersCarry, Browsers
<1>8. BrowserSpeaks'
  <2> SUFFICES ASSUME NEW u \in Tag, u + 1 \in Browsers
               PROVE  /\ Speaks(cMailq', u, world.browsers[u+1], browserSaid[u+1])
                      /\ cWorkers'[u] # "none" =>
                           Count(cMailq', u, Len(cMailq')) = ReadC(u+1)'
    BY DEF BrowserSpeaks, Browsers, ReadC
  <2>1. /\ Speaks(cMailq, u, world.browsers[u+1], browserSaid[u+1])
        /\ browserSaid[u+1] \in Nat /\ ReadC(u+1)' = ReadC(u+1)
    BY <1>5, WorldTypes DEF BrowserSpeaks
  <2>2. /\ Speaks(cMailq', u, world.browsers[u+1], browserSaid[u+1])
        /\ Count(cMailq', u, Len(cMailq')) = Count(cMailq, u, Len(cMailq))
    BY <1>2, <2>1, ByteTypes, SpeakOther
  <2> QED BY <1>2, <2>1, <2>2 DEF BrowserSpeaks
<1> QED BY <1>6, <1>7, <1>8

\* A packet is written to a browser's connection, or given up.
LEMMA PutSide ==
  ASSUME IInv, ClientSide, CP!ControlIsLast', NEW t \in Tag, CP!Puts(t),
         UNCHANGED <<browserSaid, world>>
  PROVE  ClientSide'
<1> USE DEF ClientSide
<1>1. /\ BrowserOf(t) = t + 1 /\ t + 1 \in Browser /\ t \in Nat /\ t + 1 <= cNextTag
  BY BrowserFound DEF CP!Puts
<1>2. /\ UNCHANGED <<cRx, cMailq, cUsed, cBacklog, cNextTag>>
      /\ \A u \in Tag : /\ cWorkers'[u] = cWorkers[u]
                        /\ cWorkers[u] # "none" => BrowserOf(u)' = BrowserOf(u)
  BY SameConns DEF CP!Puts, CP!KeepsOthers
<1>3. \A d \in Browser \ {t+1} : cTx'[d] = cTx[d]
  BY <1>1, SameConns, ByteTypes DEF CP!Puts, CP!SockPut, CP!Written
<1>4. Numbered'
  BY <1>2 DEF Numbered, Browsers
<1>5. (t + 1) - 1 = t
  BY <1>1
<1>6. BrowsersCarry'
  BY <1>1, <1>2, <1>3, <1>5 DEF BrowsersCarry, Browsers, ReadC
<1>7. BrowserSpeaks'
  BY <1>2 DEF BrowserSpeaks, Browsers, ReadC
<1> QED BY <1>4, <1>6, <1>7

LEMMA ClientReceivesSide ==
  ASSUME IInv, ClientSide, ClientReceives PROVE ClientSide'
<1>1. C!Receive /\ UNCHANGED <<browserSaid, world>>
  BY DEF ClientReceives, history
<1>2. CP!ControlIsLast'
  <2>1. CP!IInv /\ CP!ControlIsLast /\ CP!Next
    BY <1>1, ClientReceive DEF CP!Next, IInv, ClientSide
  <2> QED BY <2>1, ClientAssumptions, CP!LastStep
<1>3. ASSUME CP!Idles \/ \E t \in Tag : CP!Drops(t) \/ CP!Closes(t) PROVE ClientSide'
  <2>1. /\ UNCHANGED <<cUsed, cNextTag, cBacklog, cRx, cTx, cMailq>>
        /\ \A t \in Tag : /\ cWorkers'[t] # "none" => cWorkers[t] # "none"
                          /\ cWorkers'[t] # "none" => BrowserOf(t)' = BrowserOf(t)
    BY <1>3, SameConns DEF CP!Idles, CP!Drops, CP!Closes, CP!KeepsOthers
  <2> QED BY <1>1, <1>2, <2>1, ClientSideFrame
<1>4. CASE CP!Accepts
  BY <1>1, <1>2, <1>4, AcceptSide
<1>5. ASSUME NEW t \in Tag, CP!ReadsBody(t) \/ CP!ReadsEnd(t) \/ CP!Puts(t)
      PROVE  ClientSide'
  BY <1>1, <1>2, <1>5, ReadBodySide, ReadEndSide, PutSide
<1> QED BY <1>1, <1>3, <1>4, <1>5, ClientDoesSomething

\* Whatever leaves the client alone.
LEMMA ClientSideStands ==
  ASSUME IInv, ClientSide, UNCHANGED <<client, browserSaid, world>> PROVE ClientSide'
<1>1. UNCHANGED <<cUsed, cNextTag, cBacklog, cRx, cTx, cMailq, cWorkers, cFdTable, cTagToFd>>
  BY DEF client
<1>2. CP!ControlIsLast'
  BY <1>1 DEF ClientSide, CP!ControlIsLast
<1> QED BY <1>1, <1>2, ClientSideFrame DEF BrowserOf

LEMMA MailSide ==
  ASSUME IInv, ClientSide, MailReachesClient PROVE ClientSide'
<1>1. /\ UNCHANGED <<cUsed, cNextTag, cBacklog, cRx, cTx, cMailq, cWorkers, cFdTable, cTagToFd>>
      /\ UNCHANGED <<browserSaid, world>>
  BY DEF MailReachesClient, C!MailArrives, C!kernel, C!peers, C!tables
<1>2. CP!ControlIsLast'
  BY <1>1 DEF ClientSide, CP!ControlIsLast
<1> QED BY <1>1, <1>2, ClientSideFrame DEF BrowserOf

-----------------------------------------------------------------------------
(* Steps of browsers and of the proxy.                                     *)

\* What changes when a peer sends or ends its connection.
LEMMA PeerSays ==
  ASSUME NEW Con, NEW rx0 \in [Con -> Seq(Body \cup Ends)], NEW rx1,
         NEW c0 \in Con, NEW b0 \in Body, ~Closed(rx0[c0]),
         rx1 = [rx0 EXCEPT ![c0] = Append(@, b0)],
         NEW c \in Con, NEW b, rx1[c] = Append(rx0[c], b)
  PROVE  c = c0 /\ b = b0
<1>1. rx0[c] \in Seq(Body \cup Ends) /\ Len(rx0[c]) \in Nat
  BY LenProperties
<1>2. Len(Append(rx0[c], b)) = Len(rx0[c]) + 1
  BY <1>1
<1>3. c = c0
  BY <1>1, <1>2
<1>4. /\ Append(rx0[c], b)[Len(rx0[c])+1] = b
      /\ Append(rx0[c], b0)[Len(rx0[c])+1] = b0
  BY <1>1
<1> QED BY <1>3, <1>4

LEMMA ConnectSide ==
  ASSUME IInv, ClientSide, BrowserConnects
  PROVE  /\ ClientSide' /\ UNCHANGED <<cRx, browserSaid>>
<1> USE DEF ClientSide
<1>1. /\ cUsed' = 1 .. Cardinality(cUsed') /\ cUsed' \subseteq Browsers
      /\ UNCHANGED history /\ C!BrowserConnects
  BY DEF BrowserConnects
<1>2. PICK c \in Browser \ cUsed : cUsed' = cUsed \cup {c} /\ cBacklog' = Append(cBacklog, c)
  BY <1>1 DEF C!BrowserConnects
<1>3. /\ UNCHANGED <<cNextTag, cRx, cTx, cMailq, cWorkers, cFdTable, cTagToFd>>
      /\ UNCHANGED <<browserSaid, world>>
  BY <1>1 DEF C!BrowserConnects, C!kernel, C!tables, history
<1> DEFINE l == Len(cBacklog)
           n == cNextTag + l
<1>4. l \in Nat /\ n \in Nat /\ cNextTag \in Nat /\ cUsed = 1 .. n
  BY ByteTypes, LenProperties DEF Numbered
<1>5. /\ Append(cBacklog, c) \in Seq(Browser) /\ Len(Append(cBacklog, c)) = l + 1
      /\ DOMAIN Append(cBacklog, c) = 1 .. (l+1) /\ Append(cBacklog, c)[l+1] = c
      /\ \A i \in 1 .. l : Append(cBacklog, c)[i] = cBacklog[i]
  <2>1. /\ Append(cBacklog, c) \in Seq(Browser) /\ Len(Append(cBacklog, c)) = l + 1
        /\ Append(cBacklog, c)[l+1] = c
        /\ \A i \in 1 .. l : Append(cBacklog, c)[i] = cBacklog[i]
    BY <1>2, ByteTypes, AppendProperties
  <2> QED BY <2>1, LenProperties
<1>6. Cardinality(cUsed') = n + 1
  <2>1. IsFiniteSet(1 .. n) /\ Cardinality(1 .. n) = n
    BY <1>4, FS_Interval
  <2> HIDE DEF n
  <2> QED BY <1>2, <1>4, <2>1, FS_AddElement
<1>7. \A i \in 1 .. l : cBacklog[i] = cNextTag + i
  <2>1. DOMAIN cBacklog = 1 .. l
    BY ByteTypes, LenProperties
  <2> QED BY <2>1 DEF Numbered
<1>8. n + 1 = cNextTag + (l + 1)
  BY <1>4
<1> HIDE DEF l, n
<1>9. cUsed' = 1 .. (n+1) /\ c = n + 1
  <2>1. cUsed' = 1 .. (n+1)
    BY <1>1, <1>6
  <2>2. n + 1 \in 1 .. (n+1) /\ n + 1 \notin 1 .. n
    BY <1>4
  <2> QED BY <1>2, <1>4, <2>1, <2>2
<1>10. Numbered'
  <2>1. cUsed' = 1 .. (cNextTag' + Len(cBacklog'))
    BY <1>2, <1>3, <1>5, <1>8, <1>9
  <2>2. \A i \in 1 .. (l+1) : i \in 1 .. l \/ i = l + 1
    BY <1>4
  <2>3. \A i \in 1 .. (l+1) : cBacklog'[i] = cNextTag + i
    BY <1>2, <1>5, <1>7, <1>8, <1>9, <2>2
  <2>4. \A i \in DOMAIN cBacklog' : cBacklog'[i] = cNextTag' + i
    BY <1>2, <1>3, <1>5, <2>3
  <2>5. \A t \in Tag : cWorkers'[t] # "none" => BrowserOf(t)' = t + 1
    BY <1>3 DEF Numbered, BrowserOf
  <2>6. cUsed' \subseteq Browsers'
    BY <1>1, <1>3 DEF Browsers
  <2> QED BY <2>1, <2>4, <2>5, <2>6 DEF Numbered
<1>11. BrowsersCarry' /\ BrowserSpeaks'
  BY <1>3 DEF BrowsersCarry, BrowserSpeaks, Browsers, ReadC
<1>12. CP!ControlIsLast'
  BY <1>3 DEF CP!ControlIsLast
<1> QED BY <1>3, <1>10, <1>11, <1>12

\* A browser's connection receives.
LEMMA ReceivedSide ==
  ASSUME IInv, ClientSide,
         UNCHANGED <<cUsed, cNextTag, cBacklog, cTx, cMailq, cWorkers, cFdTable, cTagToFd,
                     world>>,
         \A c \in Browsers : /\ Carries(cRx'[c], world.browsers[c], browserSaid'[c])
                             /\ ReadC(c)' = ReadC(c)
                             /\ browserSaid[c] <= browserSaid'[c] /\ browserSaid'[c] \in Nat
  PROVE  ClientSide'
<1> USE DEF ClientSide
<1>1. Numbered'
  BY DEF Numbered, Browsers, BrowserOf
<1>2. BrowsersCarry'
  BY DEF BrowsersCarry, Browsers
<1>3. BrowserSpeaks'
  <2> SUFFICES ASSUME NEW u \in Tag, u + 1 \in Browsers
               PROVE  /\ Speaks(cMailq, u, world.browsers[u+1], browserSaid'[u+1])
                      /\ cWorkers[u] # "none" => Count(cMailq, u, Len(cMailq)) = ReadC(u+1)'
    BY DEF BrowserSpeaks, Browsers, ReadC
  <2>1. Speaks(cMailq, u, world.browsers[u+1], browserSaid[u+1])
        /\ (cWorkers[u] # "none" => Count(cMailq, u, Len(cMailq)) = ReadC(u+1))
    BY DEF BrowserSpeaks
  <2>2. Speaks(cMailq, u, world.browsers[u+1], browserSaid'[u+1])
    BY <2>1, ByteTypes, WorldTypes, SpeaksMore
  <2> QED BY <2>1, <2>2
<1>4. CP!ControlIsLast'
  BY DEF CP!ControlIsLast
<1> QED BY <1>1, <1>2, <1>3, <1>4

LEMMA BrowserSendsSide ==
  ASSUME IInv, ClientSide, BrowserSends
  PROVE  ClientSide' /\ \A c \in Browser : Closed(cRx[c]) => Closed(cRx'[c])
<1> USE DEF ClientSide
<1>1. PICK c \in Browsers :
        /\ browserSaid[c] < Len(world.browsers[c])
        /\ cRx'[c] = Append(cRx[c], world.browsers[c][browserSaid[c] + 1])
        /\ browserSaid' = [browserSaid EXCEPT ![c] = @ + 1]
  BY DEF BrowserSends
<1>2. /\ C!PeerSends /\ UNCHANGED world
  BY DEF BrowserSends
<1>3. PICK c0 \in Browser, b0 \in Body :
        ~Closed(cRx[c0]) /\ cRx' = [cRx EXCEPT ![c0] = Append(@, b0)]
  BY <1>2, SameClosed DEF C!PeerSends
<1>4. c \in Browser /\ cRx \in [Browser -> Seq(Body \cup Ends)]
  BY WorldTypes, ByteTypes
<1>5. c = c0 /\ world.browsers[c][browserSaid[c] + 1] = b0
  BY <1>1, <1>3, <1>4, PeerSays
<1>6. /\ Carries(cRx'[c], world.browsers[c], browserSaid[c] + 1)
      /\ DataLen(cRx'[c]) = DataLen(cRx[c]) + 1 /\ ~Closed(cRx[c])
      /\ DataLen(cRx[c]) \in Nat
  <2> DEFINE r == cRx[c]
             says == world.browsers[c]
             m == browserSaid[c]
  <2>1. /\ r \in Seq(Body \cup Ends) /\ m \in Nat /\ Carries(r, says, m) /\ ~Closed(r)
        /\ b0 \in Body /\ b0 = says[m+1] /\ cRx'[c] = Append(r, b0)
    BY <1>1, <1>3, <1>4, <1>5, WorldTypes DEF BrowsersCarry
  <2> HIDE DEF r, says, m
  <2>2. /\ Carries(Append(r, b0), says, m+1) /\ DataLen(Append(r, b0)) = DataLen(r) + 1
        /\ DataLen(r) \in Nat
    BY <2>1, CarriesSaid, DataLenFacts
  <2> QED BY <2>1, <2>2 DEF r, says, m
<1>7. \A d \in Browser \ {c} : cRx'[d] = cRx[d] /\ browserSaid'[d] = browserSaid[d]
  BY <1>1, <1>3, <1>4, <1>5, WorldTypes
<1>8. browserSaid'[c] = browserSaid[c] + 1 /\ browserSaid[c] \in Nat
  BY <1>1, <1>4, WorldTypes
<1>9. ReadC(c)' = ReadC(c)
  <2>1. (browserSaid[c] + 1) - (DataLen(cRx[c]) + 1) = browserSaid[c] - DataLen(cRx[c])
    BY <1>6, <1>8
  <2> QED BY <1>6, <1>8, <2>1 DEF ReadC
<1>10. \A d \in Browsers : /\ Carries(cRx'[d], world.browsers[d], browserSaid'[d])
                           /\ ReadC(d)' = ReadC(d)
                           /\ browserSaid[d] <= browserSaid'[d] /\ browserSaid'[d] \in Nat
  <2> TAKE d \in Browsers
  <2>1. CASE d = c
    BY <1>6, <1>8, <1>9, <2>1
  <2>2. CASE d # c
    BY <1>7, <2>2, WorldTypes DEF BrowsersCarry, ReadC
  <2> QED BY <2>1, <2>2
<1>11. ClientSide'
  <2>1. UNCHANGED <<cUsed, cNextTag, cBacklog, cTx, cMailq, cWorkers, cFdTable, cTagToFd, world>>
    BY <1>2 DEF C!PeerSends, C!kernel, C!peers, C!tables
  <2> QED BY <1>10, <2>1, ReceivedSide
<1> QED BY <1>6, <1>7, <1>11

LEMMA BrowserLeavesSide ==
  ASSUME IInv, ClientSide, BrowserLeaves
  PROVE  ClientSide' /\ \A c \in Browser : Closed(cRx[c]) => Closed(cRx'[c])
<1> USE DEF ClientSide
<1>1. C!PeerEnds /\ UNCHANGED <<world, browserSaid>>
  BY DEF BrowserLeaves, history
<1>2. PICK c \in Browser, e \in Ends : ~Closed(cRx[c]) /\ cRx' = [cRx EXCEPT ![c] = Append(@, e)]
  BY <1>1, SameClosed DEF C!PeerEnds, Ends
<1>3. cRx \in [Browser -> Seq(Body \cup Ends)]
  BY ByteTypes
<1>4. cRx'[c] = Append(cRx[c], e) /\ \A d \in Browser \ {c} : cRx'[d] = cRx[d]
  BY <1>2, <1>3
<1>5. c \in Browsers => /\ Carries(cRx'[c], world.browsers[c], browserSaid[c])
                        /\ DataLen(cRx'[c]) = DataLen(cRx[c])
  <2> SUFFICES ASSUME c \in Browsers
               PROVE  /\ Carries(Append(cRx[c], e), world.browsers[c], browserSaid[c])
                      /\ DataLen(Append(cRx[c], e)) = DataLen(cRx[c])
    BY <1>4
  <2>1. browserSaid[c] \in Nat /\ Carries(cRx[c], world.browsers[c], browserSaid[c])
        /\ cRx[c] \in Seq(Body \cup Ends)
    BY <1>3, WorldTypes DEF BrowsersCarry
  <2> QED BY <1>2, <2>1, CarriesClosed
<1>6. \A d \in Browsers : /\ Carries(cRx'[d], world.browsers[d], browserSaid'[d])
                          /\ ReadC(d)' = ReadC(d)
                          /\ browserSaid[d] <= browserSaid'[d] /\ browserSaid'[d] \in Nat
  <2> TAKE d \in Browsers
  <2>1. browserSaid'[d] = browserSaid[d] /\ browserSaid[d] \in Nat /\ d \in Browser
    BY <1>1, WorldTypes
  <2>2. CASE d = c
    BY <1>5, <2>1, <2>2 DEF ReadC
  <2>3. CASE d # c
    BY <1>4, <2>1, <2>3 DEF BrowsersCarry, ReadC
  <2> QED BY <2>1, <2>2, <2>3
<1>7. ClientSide'
  <2>1. UNCHANGED <<cUsed, cNextTag, cBacklog, cTx, cMailq, cWorkers, cFdTable, cTagToFd, world>>
    BY <1>1 DEF C!PeerEnds, C!kernel, C!peers, C!tables
  <2> QED BY <1>6, <2>1, ReceivedSide
<1> QED BY <1>2, <1>4, <1>7

-----------------------------------------------------------------------------
(* Steps of the server.                                                    *)

LEMMA ServerDoes ==
  ASSUME IInv, S!Receive, SP!NothingAtHand, NEW w \in 0 .. Len(upGot),
         SP!Pending(SP!Files, sSpool, sWork, upGot, w)
  PROVE  /\ SP!NothingAtHand'
         /\ \/ /\ SP!Idles \/ \E t \in Tag : SP!ReadsBody(t) \/ SP!ReadsEnd(t)
               /\ SP!Pending(SP!Files', sSpool', sWork', upGot, w)
            \/ /\ w + 1 \in 1 .. Len(upGot)
               /\ Head(sWork) = upGot[w+1]
               /\ \E t \in Tag : /\ t = upGot[w+1].tag
                                 /\ \/ sWorkers[t] = "none" /\ SP!Idles
                                    \/ SP!Opens(t) \/ SP!Puts(t)
                                    \/ SP!Closes(t) /\ ~C!IsData(upGot[w+1])
               /\ SP!Pending(SP!Files', sSpool', sWork', upGot, w+1)
<1>1. SP!IInv /\ SP!Receive /\ upGot \in Seq(SP!Packet)
  BY ServerReceive, ByteTypes, SamePackets DEF IInv
<1>2. /\ SP!NothingAtHand'
      /\ \/ ~SP!ProcessPacket /\ SP!Pending(SP!Files', sSpool', sWork', upGot, w)
         \/ /\ SP!ProcessPacket
            /\ w + 1 \in 1 .. Len(upGot) /\ Head(sWork) = upGot[w+1]
            /\ SP!Pending(SP!Files', sSpool', sWork', upGot, w+1)
  BY <1>1, ServerAssumptions, SP!ReceivePending
<1>3. CASE ~SP!ProcessPacket
  <2>1. SP!Idles \/ SP!Accepts \/ \E t \in Tag : SP!ReadsBody(t) \/ SP!ReadsEnd(t)
    BY <1>1, <1>3, ServerAssumptions, SP!EventSteps
  <2>2. ~SP!Accepts
    BY DEF SP!Accepts
  <2>3. SP!Pending(SP!Files', sSpool', sWork', upGot, w)
    BY <1>2, <1>3
  <2> QED BY <1>2, <2>1, <2>2, <2>3
<1>4. CASE SP!ProcessPacket
  <2>1. /\ Head(sWork).tag \in Tag
        /\ \/ SP!Drops(Head(sWork).tag) \/ SP!Opens(Head(sWork).tag)
           \/ SP!Puts(Head(sWork).tag) \/ SP!Closes(Head(sWork).tag)
    BY <1>1, <1>4, ServerAssumptions, SP!PacketSteps
  <2>2. PICK t \in Tag : /\ t = Head(sWork).tag
                         /\ SP!Drops(t) \/ SP!Opens(t) \/ SP!Puts(t) \/ SP!Closes(t)
    BY <2>1
  <2>3. sWorkers[t] # "kUnInit" /\ sWorkers[t] \in {"none", "kUnInit", "kGranted"}
    BY ByteTypes DEF IInv, NeverUninit
  <2>4. SP!Drops(t) => sWorkers[t] = "none" /\ SP!Idles
    BY <2>3 DEF SP!Drops
  <2>5. SP!Closes(t) => ~C!IsData(Head(sWork))
    BY <2>3, SameData DEF SP!Closes
  <2> QED BY <1>2, <1>4, <2>2, <2>4, <2>5
<1> QED BY <1>3, <1>4

\* The connection of a tag at the server.
LEMMA ProxyFound ==
  ASSUME IInv, NEW t \in Tag, sWorkers[t] # "none"
  PROVE  /\ ProxyOf(t) \in Proxy /\ ProxyOf(t) \in sUsed
         /\ \A u \in Tag : sWorkers[u] # "none" /\ ProxyOf(u) = ProxyOf(t) => u = t
<1>1. /\ SP!ConnOf(t) \in Proxy /\ SP!ConnOf(t) \in sUsed
      /\ \A u \in Tag : sWorkers[u] # "none" /\ SP!ConnOf(u) = SP!ConnOf(t) => u = t
  BY ServerAssumptions, SP!OneTag DEF IInv
<1> QED BY <1>1, SameConns

\* What the steps do, in the terms of Tunnel.
LEMMA IdleFacts ==
  ASSUME SP!Idles
  PROVE  /\ UNCHANGED <<sRx, sTx, sMailq, sUsed>>
         /\ \A u \in Tag : /\ sWorkers'[u] = sWorkers[u]
                           /\ sWorkers[u] # "none" => ProxyOf(u)' = ProxyOf(u)
BY SameConns DEF SP!Idles, SP!KeepsOthers

LEMMA ReadBodyFacts ==
  ASSUME IInv, NEW t \in Tag, SP!ReadsBody(t)
  PROVE  \E s \in Proxy :
           /\ s = ProxyOf(t) /\ s \in sUsed /\ sWorkers[t] # "none"
           /\ sRx[s] \in Seq(Body \cup Ends) /\ sRx[s] # <<>> /\ Head(sRx[s]) \in Body
           /\ sMailq' = Append(sMailq, [tag |-> t, type |-> "Data", body |-> Head(sRx[s])])
           /\ sRx'[s] = Tail(sRx[s]) /\ \A z \in Proxy \ {s} : sRx'[z] = sRx[z]
           /\ sWorkers'[t] # "none" /\ ProxyOf(t)' = s /\ UNCHANGED <<sTx, sUsed>>
           /\ \A u \in Tag \ {t} : /\ sWorkers'[u] = sWorkers[u]
                                   /\ sWorkers[u] # "none" =>
                                        ProxyOf(u)' = ProxyOf(u) /\ ProxyOf(u) # s
<1>1. PICK s \in Proxy : s = ProxyOf(t)
  BY ProxyFound DEF SP!ReadsBody
<1>2. s \in sUsed /\ \A u \in Tag \ {t} : sWorkers[u] # "none" => ProxyOf(u) # s
  BY <1>1, ProxyFound DEF SP!ReadsBody
<1>3. /\ sRx[s] # <<>> /\ Head(sRx[s]) \in Body
      /\ sMailq' = Append(sMailq, [tag |-> t, type |-> "Data", body |-> Head(sRx[s])])
      /\ sRx' = [sRx EXCEPT ![s] = Tail(sRx[s])]
      /\ sWorkers[t] # "none" /\ sWorkers'[t] # "none" /\ ProxyOf(t)' = s
      /\ UNCHANGED <<sTx, sUsed>>
      /\ \A u \in Tag \ {t} : /\ sWorkers'[u] = sWorkers[u]
                              /\ sWorkers[u] # "none" => ProxyOf(u)' = ProxyOf(u)
  BY <1>1, SameConns DEF SP!ReadsBody, SP!KeepsOthers, SP!DataPacket
<1>4. sRx \in [Proxy -> Seq(Body \cup Ends)]
  BY ByteTypes
<1>5. sRx'[s] = Tail(sRx[s]) /\ \A z \in Proxy \ {s} : sRx'[z] = sRx[z]
  BY <1>3, <1>4
<1> QED BY <1>1, <1>2, <1>3, <1>4, <1>5

LEMMA ReadEndFacts ==
  ASSUME IInv, NEW t \in Tag, SP!ReadsEnd(t)
  PROVE  \E s \in Proxy :
           /\ s = ProxyOf(t) /\ s \in sUsed /\ sWorkers[t] # "none"
           /\ sRx[s] \in Seq(Body \cup Ends) /\ sRx[s] # <<>> /\ Head(sRx[s]) \in Ends
           /\ \E pkt \in C!Packet : /\ pkt.tag = t /\ ~C!IsData(pkt)
                                    /\ sMailq' = Append(sMailq, pkt)
           /\ sRx'[s] = <<>> /\ \A z \in Proxy \ {s} : sRx'[z] = sRx[z]
           /\ sWorkers'[t] = "none" /\ UNCHANGED <<sTx, sUsed>>
           /\ \A u \in Tag \ {t} : /\ sWorkers'[u] = sWorkers[u]
                                   /\ sWorkers[u] # "none" =>
                                        ProxyOf(u)' = ProxyOf(u) /\ ProxyOf(u) # s
<1>1. PICK s \in Proxy : s = ProxyOf(t)
  BY ProxyFound DEF SP!ReadsEnd
<1>2. s \in sUsed /\ \A u \in Tag \ {t} : sWorkers[u] # "none" => ProxyOf(u) # s
  BY <1>1, ProxyFound DEF SP!ReadsEnd
<1>3. /\ sRx[s] # <<>> /\ Head(sRx[s]) \in Ends
      /\ sMailq' = Append(sMailq, SP!EndPacket(t, Head(sRx[s])))
      /\ sRx' = [sRx EXCEPT ![s] = <<>>]
      /\ sWorkers[t] # "none" /\ sWorkers'[t] = "none"
      /\ UNCHANGED <<sTx, sUsed>>
      /\ \A u \in Tag \ {t} : /\ sWorkers'[u] = sWorkers[u]
                              /\ sWorkers[u] # "none" => ProxyOf(u)' = ProxyOf(u)
  BY <1>1, SameConns DEF SP!ReadsEnd, SP!KeepsOthers, Ends
<1>4. sRx \in [Proxy -> Seq(Body \cup Ends)]
  BY ByteTypes
<1>5. sRx'[s] = <<>> /\ \A z \in Proxy \ {s} : sRx'[z] = sRx[z]
  BY <1>3, <1>4
<1>6. \E pkt \in C!Packet : /\ pkt.tag = t /\ ~C!IsData(pkt)
                            /\ sMailq' = Append(sMailq, pkt)
  <2> DEFINE pkt == SP!EndPacket(t, Head(sRx[s]))
  <2>1. pkt \in C!Packet /\ pkt.tag = t /\ ~C!IsData(pkt)
    BY DEF SP!EndPacket, C!Packet, C!IsData
  <2>2. sMailq' = Append(sMailq, pkt)
    BY <1>3
  <2> HIDE DEF pkt
  <2> QED BY <2>1, <2>2
<1> QED BY <1>1, <1>2, <1>3, <1>4, <1>5, <1>6

LEMMA OpenFacts ==
  ASSUME IInv, NEW t \in Tag, SP!Opens(t)
  PROVE  \E s \in Proxy :
           /\ s \notin sUsed /\ sUsed' = sUsed \cup {s}
           /\ sWorkers[t] = "none" /\ sWorkers'[t] # "none" /\ ProxyOf(t)' = s
           /\ \/ ~C!IsData(Head(sWork)) /\ sTx' = sTx
              \/ /\ C!IsData(Head(sWork))
                 /\ sTx' = [sTx EXCEPT ![s] = Append(sTx[s], Head(sWork).body)]
           /\ UNCHANGED <<sRx, sMailq>>
           /\ \A u \in Tag \ {t} : /\ sWorkers'[u] = sWorkers[u]
                                   /\ sWorkers[u] # "none" =>
                                        ProxyOf(u)' = ProxyOf(u) /\ ProxyOf(u) # s
<1>1. PICK s \in Proxy \ sUsed : /\ ProxyOf(t)' = s /\ sUsed' = sUsed \cup {s}
                                 /\ SP!Written(s, Head(sWork))
  BY SameConns DEF SP!Opens
<1>2. \A u \in Tag : sWorkers[u] # "none" => ProxyOf(u) # s
  BY <1>1, ProxyFound
<1>3. /\ sWorkers[t] = "none" /\ sWorkers'[t] # "none" /\ UNCHANGED <<sRx, sMailq>>
      /\ \A u \in Tag \ {t} : /\ sWorkers'[u] = sWorkers[u]
                              /\ sWorkers[u] # "none" => ProxyOf(u)' = ProxyOf(u)
  BY SameConns DEF SP!Opens, SP!KeepsOthers
<1>4. \/ ~C!IsData(Head(sWork)) /\ sTx' = sTx
      \/ /\ C!IsData(Head(sWork))
         /\ sTx' = [sTx EXCEPT ![s] = Append(sTx[s], Head(sWork).body)]
  BY <1>1, SameData DEF SP!Written
<1> QED BY <1>1, <1>2, <1>3, <1>4

LEMMA PutFacts ==
  ASSUME IInv, ServerReceives, NEW t \in Tag, t = Head(sWork).tag, SP!Puts(t)
  PROVE  \E s \in Proxy :
           /\ s = ProxyOf(t) /\ s \in sUsed /\ sWorkers[t] # "none"
           /\ C!IsData(Head(sWork))
           /\ \/ sTx' = [sTx EXCEPT ![s] = Append(sTx[s], Head(sWork).body)]
              \/ sTx' = sTx /\ (MayBe("stall") \/ Closed(sRx[s]))
           /\ UNCHANGED <<sRx, sMailq, sUsed>>
           /\ \A u \in Tag : /\ sWorkers'[u] = sWorkers[u]
                             /\ sWorkers[u] # "none" => ProxyOf(u)' = ProxyOf(u)
<1>1. PICK s \in Proxy : s = ProxyOf(t) /\ s \in sUsed
  BY ProxyFound DEF SP!Puts
<1>2. /\ sWorkers[t] # "none" /\ C!IsData(Head(sWork))
      /\ SP!SockPut(s, Head(sWork)) /\ S!Deliver
      /\ UNCHANGED <<sRx, sMailq, sUsed>>
      /\ \A u \in Tag : /\ sWorkers'[u] = sWorkers[u]
                        /\ sWorkers[u] # "none" => ProxyOf(u)' = ProxyOf(u)
  BY <1>1, SameConns, SameData, SameDeliveries DEF SP!Puts, SP!KeepsOthers
<1>3. \/ sTx' = [sTx EXCEPT ![s] = Append(sTx[s], Head(sWork).body)]
      \/ sTx' = sTx
  BY <1>2, SameData DEF SP!SockPut, SP!Written
<1>4. sTx' = sTx => MayBe("stall") \/ Closed(sRx[s])
  <2>1. MayBe("stall") \/ ~ServerGivesUp
    BY DEF ServerReceives
  <2>2. S!PeerEnded(s) <=> Closed(sRx[s])
    BY SameClosed
  <2>3. sTx' = sTx /\ ~S!PeerEnded(s) => ServerGivesUp
    BY <1>1, <1>2 DEF ServerGivesUp
  <2> QED BY <2>1, <2>2, <2>3
<1> QED BY <1>1, <1>2, <1>3, <1>4

LEMMA CloseFacts ==
  ASSUME IInv, NEW t \in Tag, SP!Closes(t)
  PROVE  /\ UNCHANGED <<sRx, sTx, sMailq, sUsed>> /\ sWorkers'[t] = "none"
         /\ \A u \in Tag \ {t} : /\ sWorkers'[u] = sWorkers[u]
                                 /\ sWorkers[u] # "none" => ProxyOf(u)' = ProxyOf(u)
BY SameConns DEF SP!Closes, SP!KeepsOthers

\* A connection that is read, or opened, or left alone.
LEMMA ServerCarries ==
  ASSUME IInv, ProxyCarries, UNCHANGED <<proxySaid, world>>,
         \/ SP!Idles
         \/ ServerReceives /\ \E t \in Tag : t = Head(sWork).tag /\ SP!Puts(t)
         \/ \E t \in Tag : \/ SP!ReadsBody(t) \/ SP!ReadsEnd(t)
                           \/ SP!Opens(t) \/ SP!Closes(t)
  PROVE  ProxyCarries'
<1>1. \A s \in Proxy : /\ Carries(sRx[s], world.proxy[s], proxySaid[s])
                       /\ s \notin sUsed => ReadS(s) = 0 /\ sTx[s] = <<>>
  BY DEF ProxyCarries
<1> DEFINE Kept(s) == /\ Carries(sRx'[s], world.proxy[s], proxySaid[s])
                      /\ s \notin sUsed' => ReadS(s)' = 0 /\ sTx'[s] = <<>>
<1>2. SUFFICES ASSUME NEW z \in Proxy PROVE Kept(z)
  BY DEF ProxyCarries
<1>3. CASE UNCHANGED <<sRx, sTx, sUsed>>
  BY <1>1, <1>3 DEF ReadS
<1>4. ASSUME NEW t \in Tag, SP!ReadsBody(t) PROVE Kept(z)
  <2>1. PICK s \in Proxy :
          /\ s \in sUsed /\ sRx[s] \in Seq(Body \cup Ends) /\ sRx[s] # <<>>
          /\ Head(sRx[s]) \in Body
          /\ sRx'[s] = Tail(sRx[s]) /\ \A y \in Proxy \ {s} : sRx'[y] = sRx[y]
          /\ UNCHANGED <<sTx, sUsed>>
    BY <1>4, ReadBodyFacts
  <2>2. Carries(sRx'[s], world.proxy[s], proxySaid[s])
    BY <1>1, <2>1, WorldTypes, CarriesRead
  <2> QED BY <1>1, <2>1, <2>2 DEF ReadS
<1>5. ASSUME NEW t \in Tag, SP!ReadsEnd(t) PROVE Kept(z)
  <2>1. PICK s \in Proxy :
          /\ s \in sUsed /\ sRx'[s] = <<>> /\ \A y \in Proxy \ {s} : sRx'[y] = sRx[y]
          /\ UNCHANGED <<sTx, sUsed>>
    BY <1>5, ReadEndFacts
  <2>2. Carries(sRx'[s], world.proxy[s], proxySaid[s])
    BY <2>1, WorldTypes, CarriesNothing
  <2> QED BY <1>1, <2>1, <2>2 DEF ReadS
<1>6. ASSUME NEW t \in Tag, SP!Opens(t) PROVE Kept(z)
  <2>1. PICK s \in Proxy :
          /\ sUsed' = sUsed \cup {s} /\ UNCHANGED sRx
          /\ \/ sTx' = sTx
             \/ sTx' = [sTx EXCEPT ![s] = Append(sTx[s], Head(sWork).body)]
    BY <1>6, OpenFacts
  <2>2. z \notin sUsed' => sTx'[z] = sTx[z] /\ z \notin sUsed
    BY <2>1, ByteTypes
  <2> QED BY <1>1, <2>1, <2>2 DEF ReadS
<1>7. ASSUME NEW t \in Tag, t = Head(sWork).tag, ServerReceives, SP!Puts(t) PROVE Kept(z)
  <2>1. PICK s \in Proxy :
          /\ s \in sUsed /\ UNCHANGED <<sRx, sUsed>>
          /\ \/ sTx' = sTx
             \/ sTx' = [sTx EXCEPT ![s] = Append(sTx[s], Head(sWork).body)]
    BY <1>7, PutFacts
  <2>2. z \notin sUsed' => sTx'[z] = sTx[z]
    BY <2>1, ByteTypes
  <2> QED BY <1>1, <2>1, <2>2 DEF ReadS
<1>8. ASSUME NEW t \in Tag, SP!Closes(t) PROVE Kept(z)
  BY <1>3, <1>8, CloseFacts
<1>9. CASE SP!Idles
  BY <1>3, <1>9, IdleFacts
<1> QED BY <1>4, <1>5, <1>6, <1>7, <1>8, <1>9

-----------------------------------------------------------------------------
(* What the server's connections have been written.                        *)

\* The server writes nothing; the packets taken in are none of those of the
\* connections that stay.
LEMMA HearsFrame ==
  ASSUME NEW w \in Nat, NEW v \in Nat, ServerHears(w), IInv, UNCHANGED <<sTx, world>>,
         \A t \in Tag : sWorkers'[t] # "none" =>
           /\ sWorkers[t] # "none" /\ ProxyOf(t)' = ProxyOf(t)
           /\ Closed(sRx[ProxyOf(t)]) => Closed(sRx'[ProxyOf(t)])
           /\ Count(cMailq', t, v) = Count(cMailq, t, w),
         \A t \in Nat : Count(cMailq, t, w) <= Count(cMailq', t, v)
  PROVE  ServerHears(v)'
<1> SUFFICES ASSUME NEW s \in Proxy PROVE \E c \in Browsers : HearsBrowser(s, c, v)'
  BY DEF ServerHears, Browsers
<1>1. PICK c \in Browsers : HearsBrowser(s, c, w)
  BY DEF ServerHears
<1>2. Within(sTx'[s], world.browsers[c], Count(cMailq', c-1, v))
  <2>1. c \in Nat /\ c - 1 \in Nat
    <3>1. c \in Browser /\ Browser = 1 .. Cardinality(Browser) /\ Cardinality(Browser) \in Nat
      BY WorldTypes, ConnAssumption, FS_CardinalityType
    <3> QED BY <3>1
  <2>2. Count(cMailq, c-1, w) \in Nat /\ Count(cMailq', c-1, v) \in Nat
    BY CountNat
  <2>3. Count(cMailq, c-1, w) <= Count(cMailq', c-1, v)
    BY <2>1
  <2>4. Within(sTx[s], world.browsers[c], Count(cMailq, c-1, w))
    BY <1>1 DEF HearsBrowser
  <2> QED BY <2>2, <2>3, <2>4, WorldTypes, WithinMore
<1>3. ASSUME NEW t \in Tag, sWorkers'[t] # "none", ProxyOf(t)' = s
      PROVE  /\ t + 1 = c
             /\ ~MayBe("stall") /\ ~Closed(sRx'[s])
                  => Aligned(sTx'[s], world.browsers[c], Count(cMailq', t, v))
  BY <1>1, <1>3 DEF HearsBrowser
<1> QED BY <1>2, <1>3 DEF HearsBrowser, MayBe

\* Counts of a tag along a stream.
LEMMA CountMore ==
  ASSUME NEW q, NEW t, NEW k \in Nat
  PROVE  Count(q, t, k) <= Count(q, t, k) /\ Count(q, t, k) <= Count(q, t, k+1)
<1>1. Count(q, t, k) \in Nat /\ Count(q, t, k+1) \in Nat
  BY CountNat
<1> QED BY <1>1, CountStep

\* On the client's stream nothing follows a tag's Fini or Err.
LEMMA EndIsLast ==
  ASSUME IInv, CP!ControlIsLast, NEW k \in Nat, k + 1 \in 1 .. Len(cMailq)
  PROVE  /\ Open(cMailq, cMailq[k+1].tag, k)
         /\ C!IsData(cMailq[k+1]) => Open(cMailq, cMailq[k+1].tag, k+1)
<1>1. Len(cMailq) \in Nat /\ DOMAIN cMailq = 1 .. Len(cMailq)
  BY ByteTypes, LenProperties
<1>2. Open(cMailq, cMailq[k+1].tag, k)
  <2> SUFFICES ASSUME NEW j \in 1 .. k, cMailq[j].tag = cMailq[k+1].tag
               PROVE  C!IsData(cMailq[j])
    BY DEF Open
  <2>1. j \in DOMAIN cMailq /\ k + 1 \in DOMAIN cMailq /\ k + 1 > j
    BY <1>1
  <2> QED BY <2>1, SameData DEF CP!ControlIsLast
<1>3. C!IsData(cMailq[k+1]) => Open(cMailq, cMailq[k+1].tag, k+1)
  BY <1>2, OpenStep
<1> QED BY <1>2, <1>3

\* A browser's packet is written to the proxy, or given up.
LEMMA PutHears ==
  ASSUME IInv, ClientSide, ServerReceives, NEW w \in Nat, ServerHears(w),
         w + 1 \in 1 .. Len(cMailq), Head(sWork) = cMailq[w+1],
         NEW t \in Tag, t = cMailq[w+1].tag, SP!Puts(t)
  PROVE  ServerHears(w+1)'
<1>1. PICK s \in Proxy :
        /\ s = ProxyOf(t) /\ sWorkers[t] # "none" /\ C!IsData(Head(sWork))
        /\ \/ sTx' = [sTx EXCEPT ![s] = Append(sTx[s], Head(sWork).body)]
           \/ sTx' = sTx /\ (MayBe("stall") \/ Closed(sRx[s]))
        /\ UNCHANGED sRx
        /\ \A u \in Tag : /\ sWorkers'[u] = sWorkers[u]
                          /\ sWorkers[u] # "none" => ProxyOf(u)' = ProxyOf(u)
  BY PutFacts
<1>2. UNCHANGED <<cMailq, world>>
  BY DEF ServerReceives, client, history
<1> DEFINE q == cMailq
           b == cMailq[w+1].body
           c == t + 1
           says == world.browsers[c]
<1>3. /\ q[w+1].tag = t /\ C!IsData(q[w+1]) /\ Open(q, t, w+1)
  BY <1>1, EndIsLast DEF ClientSide
<1>4. c \in Browsers /\ t \in Nat
  <2>1. w + 1 \in DOMAIN cMailq
    BY ByteTypes, LenProperties
  <2>2. t \in Tags(cMailq)
    BY <2>1 DEF Tags
  <2> QED BY <2>2, TagOfBrowser DEF ClientSide
<1>5. /\ says \in Seq(Body) /\ browserSaid[c] \in Nat /\ browserSaid[c] <= Len(says)
      /\ Speaks(q, t, says, browserSaid[c])
  BY <1>4, WorldTypes DEF ClientSide, BrowserSpeaks
<1>6. /\ sTx[s] \in Seq(Body) /\ sTx \in [Proxy -> Seq(Body)]
      /\ q \in Seq(C!Packet)
  BY ByteTypes
<1> SUFFICES ASSUME NEW z \in Proxy PROVE \E d \in Browsers : HearsBrowser(z, d, w+1)'
  BY <1>2 DEF ServerHears, Browsers
<1>7. PICK d \in Browsers : HearsBrowser(z, d, w)
  BY DEF ServerHears
<1>8. CASE z # s
  <2>1. sTx'[z] = sTx[z]
    BY <1>1, <1>6, <1>8
  <2>2. Within(sTx[z], world.browsers[d], Count(q, d-1, w+1))
    BY <1>7, WorldTypes, HearNothing DEF HearsBrowser
  <2>3. ASSUME NEW u \in Tag, sWorkers'[u] # "none", ProxyOf(u)' = z
        PROVE  /\ u + 1 = d
               /\ ~MayBe("stall") /\ ~Closed(sRx'[z])
                    => Aligned(sTx'[z], world.browsers[d], Count(q, u, w+1))
    <3>1. sWorkers[u] # "none" /\ ProxyOf(u) = z /\ u # t
      BY <1>1, <1>8, <2>3
    <3>2. Count(q, u, w+1) = Count(q, u, w)
      BY <1>3, <3>1, CountStep
    <3> QED BY <1>1, <1>7, <2>1, <3>1, <3>2 DEF HearsBrowser
  <2> QED BY <1>2, <2>1, <2>2, <2>3 DEF HearsBrowser, MayBe
<1>9. CASE z = s
  <2>1. d = c /\ d - 1 = t
    BY <1>1, <1>4, <1>7, <1>9 DEF HearsBrowser
  <2>2. Within(sTx[s], says, Count(q, t, w))
    BY <1>7, <1>9, <2>1 DEF HearsBrowser
  <2>3. ~MayBe("stall") /\ ~Closed(sRx[s]) => Aligned(sTx[s], says, Count(q, t, w))
    BY <1>1, <1>7, <1>9, <2>1 DEF HearsBrowser
  <2> HIDE DEF q, says, c
  <2>4. /\ Within(sTx[s], says, Count(q, t, w+1))
        /\ Within(Append(sTx[s], q[w+1].body), says, Count(q, t, w+1))
        /\ Aligned(sTx[s], says, Count(q, t, w)) =>
             Aligned(Append(sTx[s], q[w+1].body), says, Count(q, t, w+1))
    <3>1. w + 1 \in 1 .. Len(q)
      BY DEF q
    <3> QED BY <1>3, <1>5, <1>6, <2>2, <3>1, HearNext
  <2>5. \/ sTx'[s] = Append(sTx[s], q[w+1].body)
        \/ sTx'[s] = sTx[s] /\ (MayBe("stall") \/ Closed(sRx[s]))
    BY <1>1, <1>6 DEF q
  <2>6. Within(sTx'[s], says, Count(q, t, w+1))
    BY <2>4, <2>5
  <2>7. ~MayBe("stall") /\ ~Closed(sRx[s]) => Aligned(sTx'[s], says, Count(q, t, w+1))
    BY <2>3, <2>4, <2>5
  <2>8. \A u \in Tag : sWorkers'[u] # "none" /\ ProxyOf(u)' = s => u = t
    BY <1>1, ProxyFound
  <2>9. HearsBrowser(s, c, w+1)'
    <3>1. Within(sTx'[s], world.browsers[c], Count(cMailq, c-1, w+1))
      BY <2>1, <2>6 DEF q, says
    <3>2. \A u \in Tag : sWorkers'[u] # "none" /\ ProxyOf(u)' = s =>
            /\ u + 1 = c
            /\ ~MayBe("stall") /\ ~Closed(sRx'[s])
                 => Aligned(sTx'[s], world.browsers[c], Count(cMailq, u, w+1))
      BY <1>1, <2>7, <2>8 DEF q, says, c
    <3> QED BY <1>2, <3>1, <3>2 DEF HearsBrowser, MayBe
  <2> QED BY <1>4, <1>9, <2>9 DEF c
<1> QED BY <1>8, <1>9

\* The first packet of a tag opens a connection.
LEMMA OpenHears ==
  ASSUME IInv, ClientSide, ProxyCarries, UNCHANGED <<cMailq, world>>,
         NEW w \in Nat, ServerHears(w),
         w + 1 \in 1 .. Len(cMailq), Head(sWork) = cMailq[w+1],
         NEW t \in Tag, t = cMailq[w+1].tag, SP!Opens(t)
  PROVE  ServerHears(w+1)'
<1>1. PICK s \in Proxy :
        /\ s \notin sUsed /\ sWorkers[t] = "none" /\ ProxyOf(t)' = s
        /\ \/ ~C!IsData(Head(sWork)) /\ sTx' = sTx
           \/ /\ C!IsData(Head(sWork))
              /\ sTx' = [sTx EXCEPT ![s] = Append(sTx[s], Head(sWork).body)]
        /\ UNCHANGED sRx
        /\ \A u \in Tag \ {t} : /\ sWorkers'[u] = sWorkers[u]
                                /\ sWorkers[u] # "none" =>
                                     ProxyOf(u)' = ProxyOf(u) /\ ProxyOf(u) # s
  BY OpenFacts
<1> DEFINE q == cMailq
           c == t + 1
           says == world.browsers[c]
<1>2. c \in Browsers /\ t \in Nat
  <2>1. w + 1 \in DOMAIN cMailq
    BY ByteTypes, LenProperties
  <2>2. t \in Tags(cMailq)
    BY <2>1 DEF Tags
  <2> QED BY <2>2, TagOfBrowser DEF ClientSide
<1>3. /\ says \in Seq(Body) /\ browserSaid[c] \in Nat /\ browserSaid[c] <= Len(says)
      /\ Speaks(q, t, says, browserSaid[c])
  BY <1>2, WorldTypes DEF ClientSide, BrowserSpeaks
<1>4. sTx[s] = <<>> /\ sTx \in [Proxy -> Seq(Body)] /\ q \in Seq(C!Packet)
  BY <1>1, ByteTypes DEF ProxyCarries
<1> SUFFICES ASSUME NEW z \in Proxy PROVE \E d \in Browsers : HearsBrowser(z, d, w+1)'
  BY DEF ServerHears, Browsers
<1>5. PICK d \in Browsers : HearsBrowser(z, d, w)
  BY DEF ServerHears
<1>6. CASE z # s
  <2>1. sTx'[z] = sTx[z]
    BY <1>1, <1>4, <1>6
  <2>2. Within(sTx[z], world.browsers[d], Count(q, d-1, w+1))
    BY <1>5, WorldTypes, HearNothing DEF HearsBrowser
  <2>3. ASSUME NEW u \in Tag, sWorkers'[u] # "none", ProxyOf(u)' = z
        PROVE  /\ u + 1 = d
               /\ ~MayBe("stall") /\ ~Closed(sRx'[z])
                    => Aligned(sTx'[z], world.browsers[d], Count(q, u, w+1))
    <3>1. sWorkers[u] # "none" /\ ProxyOf(u) = z /\ u # t
      BY <1>1, <1>6, <2>3
    <3>2. Count(q, u, w+1) = Count(q, u, w)
      BY <3>1, CountStep
    <3> QED BY <1>1, <1>5, <2>1, <3>1, <3>2 DEF HearsBrowser
  <2> QED BY <2>1, <2>2, <2>3 DEF HearsBrowser, MayBe
<1>7. CASE z = s
  <2>1. (t + 1) - 1 = t
    BY <1>2
  <2> HIDE DEF q, says, c
  <2>2. Within(<<>>, says, Count(q, t, w)) /\ Aligned(<<>>, says, Count(q, t, w))
        /\ Within(<<>>, says, Count(q, t, w+1)) /\ Aligned(<<>>, says, Count(q, t, w+1))
    BY NothingWritten
  <2>3. Within(sTx'[s], says, Count(q, t, w+1)) /\ Aligned(sTx'[s], says, Count(q, t, w+1))
    <3>1. CASE sTx' = sTx
      BY <1>4, <2>2, <3>1
    <3>2. CASE /\ C!IsData(Head(sWork))
               /\ sTx' = [sTx EXCEPT ![s] = Append(sTx[s], Head(sWork).body)]
      <4>1. q[w+1].tag = t /\ C!IsData(q[w+1]) /\ Open(q, t, w+1) /\ w + 1 \in 1 .. Len(q)
        BY <3>2, EndIsLast DEF ClientSide, q
      <4>2. <<>> \in Seq(Body)
        BY EmptySeq
      <4>3. /\ Within(Append(<<>>, q[w+1].body), says, Count(q, t, w+1))
            /\ Aligned(Append(<<>>, q[w+1].body), says, Count(q, t, w+1))
        BY <1>3, <1>4, <2>2, <4>1, <4>2, HearNext
      <4>4. sTx'[s] = Append(<<>>, q[w+1].body)
        BY <1>4, <3>2 DEF q
      <4> QED BY <4>3, <4>4
    <3> QED BY <1>1, <3>1, <3>2
  <2>4. HearsBrowser(s, c, w+1)'
    <3>1. Within(sTx'[s], world.browsers[c], Count(cMailq, c-1, w+1))
      BY <2>1, <2>3 DEF q, says, c
    <3>2. \A u \in Tag : sWorkers'[u] # "none" /\ ProxyOf(u)' = s => u = t
      BY <1>1
    <3>3. \A u \in Tag : sWorkers'[u] # "none" /\ ProxyOf(u)' = s =>
            /\ u + 1 = c
            /\ ~MayBe("stall") /\ ~Closed(sRx'[s])
                 => Aligned(sTx'[s], world.browsers[c], Count(cMailq, u, w+1))
      BY <2>3, <3>2 DEF q, says, c
    <3> QED BY <3>1, <3>3 DEF HearsBrowser, MayBe
  <2> QED BY <1>2, <1>7, <2>4 DEF c
<1> QED BY <1>6, <1>7

=============================================================================
