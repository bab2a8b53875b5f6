-------------------------- MODULE TunnelDataProofs --------------------------
(***************************************************************************)
(* Theorems about TunnelData, for every set of data sets and every number  *)
(* of times the file is written.                                           *)
(***************************************************************************)
EXTENDS TunnelData, SequenceTheorems, WellFoundedInduction, TLAPS

-----------------------------------------------------------------------------
(* Concatenation.                                                          *)

\* A set of naturals that is not empty has a least element.
LEMMA Least == ASSUME NEW T \in SUBSET Nat, T # {}
               PROVE  \E m \in T : \A k \in T : m <= k
<1> DEFINE R == OpToRel(<, Nat)
<1>1. IsWellFoundedOn(R, Nat)
  BY NatLessThanWellFounded
<1>2. R = {ss \in Nat \X Nat : ss[1] < ss[2]}
  BY DEF OpToRel
<1> HIDE DEF R
<1>3. PICK m \in T : \A k \in T : <<k, m>> \notin R
  BY <1>1, WFMin
<1>4. \A k \in T : ~ (k < m)
  BY <1>2, <1>3
<1> QED BY <1>4

\* A part of a sequence, cell by cell.
LEMMA PartOf ==
  ASSUME NEW S, NEW s \in Seq(S), NEW first \in 1 .. Len(s) + 1, NEW last \in first - 1 .. Len(s)
  PROVE  /\ SubSeq(s, first, last) \in Seq(S)
         /\ Len(SubSeq(s, first, last)) = last - first + 1
         /\ \A i \in 1 .. last - first + 1 : SubSeq(s, first, last)[i] = s[first + i - 1]
BY SubSeqProperties

\* Two sequences, cell by cell.
LEMMA ConcatFacts ==
  ASSUME NEW S, NEW s \in Seq(S), NEW t \in Seq(S)
  PROVE  /\ s \o t \in Seq(S) /\ Len(s) \in Nat /\ Len(t) \in Nat
         /\ Len(s \o t) = Len(s) + Len(t)
         /\ \A i \in 1 .. Len(s) : (s \o t)[i] = s[i]
         /\ \A i \in 1 .. Len(t) : (s \o t)[Len(s) + i] = t[i]
<1>1. /\ s \o t \in Seq(S) /\ Len(s) \in Nat /\ Len(t) \in Nat
      /\ Len(s \o t) = Len(s) + Len(t)
      /\ \A i \in 1 .. Len(s) + Len(t) :
           (s \o t)[i] = IF i <= Len(s) THEN s[i] ELSE t[i - Len(s)]
  BY ConcatProperties, LenProperties
<1>2. \A i \in 1 .. Len(t) :
        /\ Len(s) + i \in 1 .. Len(s) + Len(t) /\ ~(Len(s) + i <= Len(s))
        /\ Len(s) + i - Len(s) = i
  BY <1>1
<1> QED BY <1>1, <1>2

LEMMA ConcatCells ==
  ASSUME NEW s \in Seq(Nat), NEW t \in Seq(Nat)
  PROVE  /\ s \o t \in Seq(Nat) /\ Len(s) \in Nat /\ Len(t) \in Nat
         /\ Len(s \o t) = Len(s) + Len(t)
         /\ \A i \in 1 .. Len(s) : (s \o t)[i] = s[i]
         /\ \A i \in 1 .. Len(t) : (s \o t)[Len(s) + i] = t[i]
<1>1. Len(s) \in Nat /\ Len(t) \in Nat
  BY LenProperties
<1>2. s \o t \in Seq(Nat) /\ Len(s \o t) = Len(s) + Len(t)
  BY ConcatProperties
<1>3. \A i \in 1 .. Len(s) : (s \o t)[i] = s[i]
  BY <1>1, ConcatProperties
<1>4. \A i \in 1 .. Len(t) : (s \o t)[Len(s) + i] = t[i]
  BY <1>1, ConcatProperties
<1> QED BY <1>1, <1>2, <1>3, <1>4

\* The sequences f[1], f[2], ... are seqs[1], seqs[1] \o seqs[2], ...
Chain(seqs, f, n) ==
  \A i \in 1 .. n : f[i] = IF i = 1 THEN seqs[i] ELSE f[i - 1] \o seqs[i]

LEMMA ChainExists ==
  ASSUME NEW S, NEW seqs \in Seq(Seq(S))
  PROVE  \E f \in [1 .. Len(seqs) -> Seq(S)] : Chain(seqs, f, Len(seqs))
<1> DEFINE Bad == {n \in 1 .. Len(seqs) : ~ \E f \in [1 .. n -> Seq(S)] : Chain(seqs, f, n)}
<1>1. Len(seqs) \in Nat /\ \A i \in 1 .. Len(seqs) : seqs[i] \in Seq(S)
  BY LenProperties, ElementOfSeq
<1>2. CASE Len(seqs) = 0
  <2> DEFINE f == [i \in 1 .. 0 |-> seqs]
  <2>1. f \in [1 .. Len(seqs) -> Seq(S)] /\ Chain(seqs, f, Len(seqs))
    BY <1>2 DEF Chain
  <2> QED BY <2>1
<1>3. Bad = {}
  <2> SUFFICES ASSUME Bad # {} PROVE FALSE
    OBVIOUS
  <2>1. Bad \subseteq 1 .. Len(seqs)
    OBVIOUS
  <2>2. PICK m \in Bad : \A k \in Bad : m <= k
    <3> HIDE DEF Bad
    <3> QED BY Least, <1>1, <2>1
  <2>3. /\ m \in 1 .. Len(seqs)
        /\ ~ \E f \in [1 .. m -> Seq(S)] : Chain(seqs, f, m)
    BY <2>2
  <2>4. CASE m = 1
    <3> DEFINE f == [i \in 1 .. 1 |-> seqs[1]]
    <3>1. f \in [1 .. m -> Seq(S)] /\ Chain(seqs, f, m)
      BY <2>3, <2>4, <1>1 DEF Chain
    <3> QED BY <2>3, <3>1
  <2>5. CASE m # 1
    <3>1. m - 1 \in 1 .. Len(seqs) /\ m - 1 \notin Bad /\ m \in 1 .. Len(seqs)
      <4> HIDE DEF Bad
      <4>1. m - 1 \in 1 .. Len(seqs) /\ m \in 1 .. Len(seqs)
        BY <2>3, <2>5, <1>1
      <4> QED BY <4>1, <2>2
    <3>2. PICK g \in [1 .. m - 1 -> Seq(S)] : Chain(seqs, g, m - 1)
      BY <3>1
    <3> DEFINE f == [i \in 1 .. m |-> IF i < m THEN g[i] ELSE g[m - 1] \o seqs[m]]
    <3>3. g[m - 1] \o seqs[m] \in Seq(S)
      BY <3>1, <1>1, ConcatProperties
    <3>4. f \in [1 .. m -> Seq(S)]
      BY <3>1, <3>3
    <3>5. ASSUME NEW i \in 1 .. m
          PROVE  f[i] = IF i = 1 THEN seqs[i] ELSE f[i - 1] \o seqs[i]
      <4>1. CASE i = m
        <5>1. f[i] = g[m - 1] \o seqs[m] /\ i # 1
          <6>1. ~(m < m)
            BY <3>1, <1>1
          <6> QED BY <6>1, <4>1, <2>5
        <5>2. m - 1 \in 1 .. m /\ m - 1 < m
          BY <3>1, <1>1
        <5>3. f[m - 1] = g[m - 1]
          BY <5>2
        <5> QED BY <5>1, <5>3, <4>1
      <4>2. CASE i # m
        <5>1. i \in 1 .. m - 1 /\ f[i] = g[i] /\ (i # 1 => f[i - 1] = g[i - 1])
          BY <4>2, <3>1, <1>1
        <5> QED BY <5>1, <3>2 DEF Chain
      <4> QED BY <4>1, <4>2
    <3>6. Chain(seqs, f, m)
      BY <3>5 DEF Chain
    <3> QED BY <2>3, <3>4, <3>6
  <2> QED BY <2>4, <2>5
<1>4. CASE Len(seqs) # 0
  <2>1. Len(seqs) \in 1 .. Len(seqs)
    BY <1>1, <1>4
  <2>2. Len(seqs) \notin Bad
    <3> HIDE DEF Bad
    <3> QED BY <1>3
  <2> QED BY <2>1, <2>2
<1> QED BY <1>2, <1>4

\* FlattenSeq is the end of the chain.
LEMMA FlattenIsChain ==
  ASSUME NEW S, NEW seqs \in Seq(Seq(S)), seqs # <<>>,
         NEW f \in [1 .. Len(seqs) -> Seq(S)], Chain(seqs, f, Len(seqs))
  PROVE  FlattenSeq(seqs) = f[Len(seqs)]
<1> DEFINE n == Len(seqs)
           Step(h) == [i \in 1 .. n |-> IF i = 1 THEN seqs[i] ELSE h[i - 1] \o seqs[i]]
           g == CHOOSE g : g = Step(g)
           Bad == {i \in 1 .. n : g[i] # f[i]}
<1>1. n \in Nat /\ n # 0
  BY LenProperties, EmptySeq
<1>2. f = Step(f)
  BY <1>1 DEF Chain
<1>3. g = Step(g)
  BY <1>2
<1>4. FlattenSeq(seqs) = g[n]
  BY <1>1, Zenon DEF FlattenSeq
<1>5. \A i \in 1 .. n : g[i] = IF i = 1 THEN seqs[i] ELSE g[i - 1] \o seqs[i]
  BY <1>3
<1> HIDE DEF g, n, Step
<1>6. Bad = {}
  <2> SUFFICES ASSUME Bad # {} PROVE FALSE
    OBVIOUS
  <2>1. Bad \subseteq 1 .. n
    OBVIOUS
  <2>2. PICK m \in Bad : \A k \in Bad : m <= k
    <3> HIDE DEF Bad
    <3>1. Bad \in SUBSET Nat
      BY <1>1, <2>1
    <3> QED BY <3>1, Least
  <2>3. m \in 1 .. n /\ (m # 1 => m - 1 \in 1 .. n /\ m - 1 \notin Bad)
    <3> HIDE DEF Bad
    <3> QED BY <2>1, <2>2, <1>1
  <2>4. m # 1 => g[m - 1] = f[m - 1]
    BY <2>3
  <2>5. f[m] = IF m = 1 THEN seqs[m] ELSE f[m - 1] \o seqs[m]
    BY <2>3 DEF Chain, n
  <2>6. g[m] = f[m]
    BY <2>3, <2>4, <2>5, <1>5
  <2> QED BY <2>2, <2>6
<1>7. g[n] = f[n]
  <2>1. n \in 1 .. n
    BY <1>1
  <2> QED BY <2>1, <1>6
<1> QED BY <1>4, <1>7 DEF n

\* Where each sequence starts in the concatenation of all.
Starts(seqs, all, at) ==
  /\ at \in [1 .. Len(seqs) + 1 -> Nat]
  /\ at[1] = 0 /\ at[Len(seqs) + 1] = Len(all)
  /\ \A k \in 1 .. Len(seqs) :
       /\ at[k + 1] = at[k] + Len(seqs[k])
       /\ at[k + 1] <= Len(all)
       /\ \A i \in 1 .. Len(seqs[k]) : all[at[k] + i] = seqs[k][i]

LEMMA FlattenStarts ==
  ASSUME NEW S, NEW seqs \in Seq(Seq(S)), seqs # <<>>
  PROVE  /\ FlattenSeq(seqs) \in Seq(S)
         /\ \E at : Starts(seqs, FlattenSeq(seqs), at)
<1> DEFINE n == Len(seqs)
<1>1. n \in Nat /\ n # 0 /\ n \in 1 .. n
      /\ \A i \in 1 .. n : seqs[i] \in Seq(S) /\ Len(seqs[i]) \in Nat
  BY LenProperties, EmptySeq, ElementOfSeq
<1>2. PICK f \in [1 .. n -> Seq(S)] : Chain(seqs, f, n)
  BY ChainExists
<1>3. FlattenSeq(seqs) = f[n]
  BY <1>2, FlattenIsChain
<1> DEFINE all == f[n]
           at == [k \in 1 .. n + 1 |-> IF k = 1 THEN 0 ELSE Len(f[k - 1])]
           Inside(k) == /\ Len(f[k]) <= Len(all)
                        /\ \A i \in 1 .. Len(f[k]) : all[i] = f[k][i]
           Bad == {d \in 0 .. n - 1 : ~Inside(n - d)}
<1>4. \A k \in 1 .. n : f[k] \in Seq(S) /\ Len(f[k]) \in Nat
  BY <1>2, LenProperties
<1>5. \A k \in 1 .. n : f[k] = IF k = 1 THEN seqs[k] ELSE f[k - 1] \o seqs[k]
  BY <1>2 DEF Chain
<1>6. all \in Seq(S) /\ Len(all) \in Nat /\ Inside(n)
  BY <1>1, <1>4
<1>7. /\ at \in [1 .. n + 1 -> Nat] /\ at[1] = 0 /\ at[n + 1] = Len(all)
      /\ \A k \in 1 .. n : at[k + 1] = Len(f[k])
  BY <1>1, <1>4
<1> HIDE DEF n, all, at
<1>8. ASSUME NEW k \in 1 .. n, k # 1
      PROVE  /\ k - 1 \in 1 .. n
             /\ Len(f[k]) = Len(f[k - 1]) + Len(seqs[k])
             /\ \A i \in 1 .. Len(f[k - 1]) : f[k][i] = f[k - 1][i]
             /\ \A i \in 1 .. Len(seqs[k]) : f[k][Len(f[k - 1]) + i] = seqs[k][i]
  <2>1. k - 1 \in 1 .. n
    BY <1>1, <1>8
  <2>2. f[k] = f[k - 1] \o seqs[k]
    BY <1>5, <1>8
  <2>3. f[k - 1] \in Seq(S) /\ seqs[k] \in Seq(S)
    BY <2>1, <1>1, <1>4
  <2> DEFINE s == f[k - 1]
             t == seqs[k]
  <2> HIDE DEF s, t
  <2>4. /\ Len(s \o t) = Len(s) + Len(t)
        /\ \A i \in 1 .. Len(s) : (s \o t)[i] = s[i]
        /\ \A i \in 1 .. Len(t) : (s \o t)[Len(s) + i] = t[i]
    <3>1. s \in Seq(S) /\ t \in Seq(S)
      BY <2>3 DEF s, t
    <3> QED BY <3>1, ConcatFacts
  <2> QED BY <2>1, <2>2, <2>4 DEF s, t
<1>9. ASSUME NEW k \in 1 .. n, k # 1, Inside(k) PROVE Inside(k - 1)
  <2> DEFINE s == f[k - 1]
             t == f[k]
  <2>1. Len(s) \in Nat /\ Len(seqs[k]) \in Nat /\ Len(t) = Len(s) + Len(seqs[k])
    BY <1>1, <1>4, <1>8, <1>9
  <2>2. \A i \in 1 .. Len(s) : t[i] = s[i]
    BY <1>8, <1>9
  <2>3. Len(t) <= Len(all) /\ Len(all) \in Nat /\ \A i \in 1 .. Len(t) : all[i] = t[i]
    BY <1>6, <1>9
  <2> HIDE DEF s, t
  <2>4. Len(s) <= Len(all) /\ \A i \in 1 .. Len(s) : i \in 1 .. Len(t)
    BY <2>1, <2>3
  <2>5. \A i \in 1 .. Len(s) : all[i] = s[i]
    BY <2>2, <2>3, <2>4
  <2> QED BY <2>4, <2>5 DEF s
<1> HIDE DEF Inside
<1>10. ASSUME NEW k \in 1 .. n PROVE Inside(k)
  <2>1. n - k \in 0 .. n - 1 /\ n - (n - k) = k
    BY <1>1
  <2> SUFFICES ASSUME Bad # {} PROVE FALSE
    BY <2>1
  <2>2. Bad \in SUBSET Nat
    BY <1>1
  <2>3. PICK d \in Bad : \A j \in Bad : d <= j
    BY <2>2, Least
  <2>4. d \in 0 .. n - 1 /\ ~Inside(n - d)
    BY <2>3
  <2>5. d # 0
    <3>1. d = 0 => n - d = n
      BY <1>1
    <3> QED BY <3>1, <2>4, <1>6
  <2>6. d - 1 \in 0 .. n - 1 /\ ~(d <= d - 1)
    BY <2>4, <2>5, <1>1
  <2>7. Inside(n - (d - 1))
    BY <2>3, <2>6
  <2>8. /\ n - (d - 1) \in 1 .. n /\ n - (d - 1) # 1 /\ n - (d - 1) - 1 = n - d
    BY <2>4, <2>5, <1>1
  <2>9. Inside(n - (d - 1) - 1)
    BY <2>7, <2>8, <1>9
  <2> QED BY <2>4, <2>8, <2>9
<1>11. ASSUME NEW k \in 1 .. n
       PROVE  /\ at[k + 1] = at[k] + Len(seqs[k])
              /\ at[k + 1] <= Len(all)
              /\ \A i \in 1 .. Len(seqs[k]) : all[at[k] + i] = seqs[k][i]
  <2>1. at[k + 1] = Len(f[k])
    BY <1>7
  <2>2. at[k + 1] <= Len(all) /\ \A i \in 1 .. Len(f[k]) : all[i] = f[k][i]
    BY <2>1, <1>10 DEF Inside
  <2>3. CASE k = 1
    <3>1. at[k] = 0 /\ f[k] = seqs[k]
      BY <2>3, <1>5, <1>7
    <3>2. Len(seqs[k]) \in Nat
      BY <1>1
    <3> QED BY <2>1, <2>2, <3>1, <3>2
  <2>4. CASE k # 1
    <3>1. k - 1 \in 1 .. n /\ k - 1 + 1 = k
      BY <2>4, <1>1
    <3>2. at[k] = Len(f[k - 1])
      BY <3>1, <1>7
    <3>3. Len(f[k - 1]) \in Nat /\ Len(seqs[k]) \in Nat
      BY <3>1, <1>1, <1>4
    <3>4. /\ Len(f[k]) = Len(f[k - 1]) + Len(seqs[k])
          /\ \A i \in 1 .. Len(seqs[k]) : f[k][Len(f[k - 1]) + i] = seqs[k][i]
      BY <2>4, <1>8
    <3>5. ASSUME NEW i \in 1 .. Len(seqs[k])
          PROVE  all[at[k] + i] = seqs[k][i]
      <4>1. Len(f[k - 1]) + i \in 1 .. Len(f[k])
        BY <3>1, <3>3, <3>4, <1>1
      <4> QED BY <4>1, <3>2, <3>4, <2>2
    <3> QED BY <2>1, <2>2, <3>2, <3>4, <3>5
  <2> QED BY <2>3, <2>4
<1>12. Starts(seqs, all, at)
  BY <1>7, <1>11 DEF Starts, n
<1> QED BY <1>3, <1>6, <1>12 DEF all

-----------------------------------------------------------------------------
(* The inductive invariant.                                                *)

\* Where each packet starts in the file of ds: behind the header of the data
\* set, and each behind the one before.
Layout(ds, at) ==
  /\ at[1] = 2 /\ at[Len(ds) + 1] = Len(Encode(ds))
  /\ \A k \in 1 .. Len(ds) :
       /\ at[k] <= at[Len(ds)]
       /\ at[k + 1] = at[k] + kProxyDataMember + Len(ds[k].bytes)
       /\ \A i \in 1 .. kProxyDataMember : Encode(ds)[at[k] + i] = Words(ds[k])[i]
       /\ \A i \in 1 .. Len(ds[k].bytes) :
            Encode(ds)[at[k] + kProxyDataMember + i] = ds[k].bytes[i]
Layouts(ds) == {at \in [1 .. Len(ds) + 1 -> 0 .. Len(Encode(ds))] : Layout(ds, at)}

\* What is in the file and what is still to be written is the encoding of the
\* data set, as far as the writer came.
Written ==
  /\ file \in Seq(Nat) /\ toWrite \in Seq(Nat)
  /\ writing \in BOOLEAN /\ still \in BOOLEAN
  /\ versions \in 0 .. MaxVersions
  /\ version = <<>> => file = <<>> /\ ~writing /\ versions = 0
  /\ version # <<>> =>
       /\ version \in DataSets
       /\ Len(file) <= Len(Encode(version))
       /\ \A i \in 1 .. Len(file) : file[i] = Encode(version)[i]
       /\ writing =>
            /\ Len(file) + Len(toWrite) = Len(Encode(version))
            /\ \A i \in 1 .. Len(toWrite) :
                 toWrite[i] = Encode(version)[Len(file) + i]

\* The packets before k have been read, and no other.
ReadUpTo(k) == \A i \in 1 .. Len(dataset) : dataset[i] = None <=> i >= k

\* Where the reader is, whatever it reads.
Place ==
  /\ pos \in Nat /\ buf \in Seq(Nat)
  /\ pc \in {"idle", "set", "header", "body", "done"}
  /\ ret \in {"none", "ok", "error", "bad free"}
  /\ pc = "done" <=> ret # "none"
  /\ pc = "idle" => pos = 0 /\ buf = <<>>
  /\ pc = "set" => Len(buf) < 2 /\ pos = Len(buf)
  /\ pc = "header" => Len(buf) < kProxyDataMember
  /\ pc = "body" =>
       /\ header \in Seq(Nat) /\ Len(header) = kProxyDataMember
       /\ Len(buf) <= header[2]
  /\ pc \in {"header", "body"} =>
       /\ dataset \in Seq(Content(Nat \cup {None}) \cup {None})
       /\ \E k \in 1 .. Len(dataset) : ReadUpTo(k)

\* The cells in buf are those of the data set behind start, and so is what the
\* reader gets next.
InPlace(start) ==
  /\ pos <= Len(file) /\ pos = start + Len(buf)
  /\ \A i \in 1 .. Len(buf) : buf[i] = Encode(version)[start + i]

\* What a reader knows of a file nobody writes.
StillPlace ==
  still /\ pc # "idle" =>
    /\ ~writing /\ version # <<>>
    /\ pc = "set" => InPlace(0)
    /\ pc \in {"header", "body"} =>
         /\ Len(dataset) = Len(version)
         /\ \E at \in Layouts(version), k \in 1 .. Len(version) :
              /\ ReadUpTo(k)
              /\ \A i \in 1 .. k - 1 : dataset[i] = version[i]
              /\ pc = "header" => InPlace(at[k])
              /\ pc = "body" =>
                   InPlace(at[k] + kProxyDataMember) /\ header = Words(version[k])

IInv == Written /\ Place /\ StillPlace /\ StillFileIsRead

-----------------------------------------------------------------------------
(* The layout of a file.                                                   *)

LEMMA Increasing ==
  ASSUME NEW n \in Nat, NEW f \in [1 .. n -> Nat],
         \A k \in 1 .. n : k # n => f[k] <= f[k + 1]
  PROVE  \A k \in 1 .. n : f[k] <= f[n]
<1> SUFFICES ASSUME NEW k \in 1 .. n PROVE f[k] <= f[n]
  OBVIOUS
<1> DEFINE Bad == {d \in 0 .. n - 1 : ~(f[n - d] <= f[n])}
<1>1. n - k \in 0 .. n - 1 /\ n - (n - k) = k /\ n \in 1 .. n
  OBVIOUS
<1> SUFFICES ASSUME Bad # {} PROVE FALSE
  BY <1>1
<1>2. Bad \in SUBSET Nat
  OBVIOUS
<1>3. PICK d \in Bad : \A j \in Bad : d <= j
  BY <1>2, Least
<1>4. d \in 0 .. n - 1 /\ ~(f[n - d] <= f[n])
  BY <1>3
<1>5. d # 0
  <2>1. f[n] \in Nat /\ n - 0 = n
    BY <1>1
  <2> QED BY <2>1, <1>4
<1>6. d - 1 \in 0 .. n - 1 /\ ~(d <= d - 1)
  BY <1>4, <1>5
<1>7. f[n - (d - 1)] <= f[n]
  BY <1>3, <1>6
<1>8. /\ n - d \in 1 .. n /\ n - d # n /\ n - d + 1 = n - (d - 1)
      /\ n - (d - 1) \in 1 .. n
  BY <1>4, <1>5
<1>9. f[n - d] <= f[n - (d - 1)]
  BY <1>8
<1>10. f[n - d] \in Nat /\ f[n - (d - 1)] \in Nat /\ f[n] \in Nat
  BY <1>1, <1>8
<1> QED BY <1>4, <1>7, <1>9, <1>10

\* A packet of a data set.
LEMMA ContentFacts ==
  ASSUME NEW p \in Content(Nat)
  PROVE  /\ Words(p) \in Seq(Nat) /\ Len(Words(p)) = kProxyDataMember
         /\ p.bytes \in Seq(Nat) /\ Len(p.bytes) \in Nat
         /\ p.type \in Nat /\ p.tag \in Nat /\ p.seq \in Nat
         /\ Words(p)[1] = kProxyDataTag /\ Words(p)[2] = Len(p.bytes)
         /\ Words(p)[3] = p.type /\ Words(p)[4] = p.tag /\ Words(p)[5] = p.seq
<1>1. p.bytes \in Seq(Nat) /\ p.type \in Nat /\ p.tag \in Nat /\ p.seq \in Nat
  BY DEF Content
<1>2. Len(p.bytes) \in Nat
  BY <1>1, LenProperties
<1>3. kProxyDataTag \in Nat
  BY DEF kProxyDataTag
<1> QED BY <1>1, <1>2, <1>3 DEF Words, kProxyDataMember

\* A data set.
LEMMA DataSetFacts ==
  ASSUME NEW ds \in DataSets
  PROVE  /\ ds \in Seq(Content(Nat)) /\ ds # <<>>
         /\ Len(ds) \in Nat /\ Len(ds) \in 1 .. Len(ds) /\ 1 \in 1 .. Len(ds)
         /\ \A k \in 1 .. Len(ds) : ds[k] \in Content(Nat)
         /\ Last(ds) = ds[Len(ds)]
<1>1. ds \in Seq(Content(Nat)) /\ ds # <<>>
  BY DataAssumption
<1>2. Len(ds) \in Nat /\ Len(ds) # 0
  BY <1>1, LenProperties, EmptySeq
<1>3. \A k \in 1 .. Len(ds) : ds[k] \in Content(Nat)
  BY <1>1, ElementOfSeq
<1> QED BY <1>1, <1>2, <1>3 DEF Last

\* Its encoding.
LEMMA EncodeFacts ==
  ASSUME NEW ds \in DataSets
  PROVE  /\ Encode(ds) \in Seq(Nat) /\ Len(Encode(ds)) \in Nat
         /\ 2 <= Len(Encode(ds))
         /\ Encode(ds)[1] = kProxyDataSetTag /\ Encode(ds)[2] = Len(ds)
         /\ Layouts(ds) # {}
<1> DEFINE n == Len(ds)
           E == Encode(ds)
           first == <<kProxyDataSetTag, n>>
           packets == [i \in DOMAIN ds |-> Words(ds[i]) \o ds[i].bytes]
           all == FlattenSeq(packets)
<1>1. /\ n \in Nat /\ n \in 1 .. n /\ 1 \in 1 .. n /\ DOMAIN ds = 1 .. n
      /\ \A k \in 1 .. n : ds[k] \in Content(Nat)
  BY DataSetFacts, LenProperties
<1>2. ASSUME NEW k \in 1 .. n
      PROVE  LET p == ds[k] IN
             /\ Words(p) \o p.bytes \in Seq(Nat) /\ Len(p.bytes) \in Nat
             /\ Len(Words(p) \o p.bytes) = kProxyDataMember + Len(p.bytes)
             /\ \A i \in 1 .. kProxyDataMember : (Words(p) \o p.bytes)[i] = Words(p)[i]
             /\ \A i \in 1 .. Len(p.bytes) :
                  (Words(p) \o p.bytes)[kProxyDataMember + i] = p.bytes[i]
  <2>1. ds[k] \in Content(Nat)
    BY <1>1
  <2>2. /\ Words(ds[k]) \in Seq(Nat) /\ Len(Words(ds[k])) = kProxyDataMember
        /\ ds[k].bytes \in Seq(Nat) /\ Len(ds[k].bytes) \in Nat
    BY <2>1, ContentFacts
  <2> DEFINE w == Words(ds[k])
             b == ds[k].bytes
  <2> HIDE DEF w, b
  <2>3. /\ w \in Seq(Nat) /\ b \in Seq(Nat) /\ Len(w) = kProxyDataMember
    BY <2>2 DEF w, b
  <2>4. /\ w \o b \in Seq(Nat)
        /\ Len(w \o b) = Len(w) + Len(b)
        /\ \A i \in 1 .. Len(w) : (w \o b)[i] = w[i]
        /\ \A i \in 1 .. Len(b) : (w \o b)[Len(w) + i] = b[i]
    BY <2>3, ConcatCells
  <2>5. /\ w \o b \in Seq(Nat)
        /\ Len(w \o b) = kProxyDataMember + Len(b)
        /\ \A i \in 1 .. kProxyDataMember : (w \o b)[i] = w[i]
        /\ \A i \in 1 .. Len(b) : (w \o b)[kProxyDataMember + i] = b[i]
    BY <2>3, <2>4
  <2> QED BY <2>2, <2>5 DEF w, b
<1>3. packets \in Seq(Seq(Nat)) /\ Len(packets) = n
  <2>1. packets \in [1 .. n -> Seq(Nat)]
    BY <1>1, <1>2
  <2> QED BY <2>1, <1>1, IsASeq, LenProperties
<1>4. packets # <<>>
  BY <1>1, <1>3, EmptySeq
<1>5. all \in Seq(Nat) /\ \E at : Starts(packets, all, at)
  BY <1>3, <1>4, FlattenStarts
<1>6. PICK at : Starts(packets, all, at)
  BY <1>5
<1>7. first \in Seq(Nat) /\ Len(first) = 2 /\ first[1] = kProxyDataSetTag /\ first[2] = n
  BY <1>1 DEF kProxyDataSetTag
<1>8. E = first \o all
  BY Zenon DEF Encode
<1>9. \A k \in 1 .. n : packets[k] = Words(ds[k]) \o ds[k].bytes
  BY <1>1
<1> HIDE DEF E, first, packets, all, n
<1>10. /\ E \in Seq(Nat) /\ Len(all) \in Nat /\ Len(E) = 2 + Len(all)
       /\ \A i \in 1 .. 2 : E[i] = first[i]
       /\ \A i \in 1 .. Len(all) : E[2 + i] = all[i]
  <2>1. /\ first \o all \in Seq(Nat) /\ Len(all) \in Nat
        /\ Len(first \o all) = Len(first) + Len(all)
        /\ \A i \in 1 .. Len(first) : (first \o all)[i] = first[i]
        /\ \A i \in 1 .. Len(all) : (first \o all)[Len(first) + i] = all[i]
    BY <1>5, <1>7, ConcatCells
  <2>2. /\ first \o all \in Seq(Nat) /\ Len(all) \in Nat
        /\ Len(first \o all) = 2 + Len(all)
        /\ \A i \in 1 .. 2 : (first \o all)[i] = first[i]
        /\ \A i \in 1 .. Len(all) : (first \o all)[2 + i] = all[i]
    BY <1>7, <2>1
  <2> QED BY <2>2, <1>8
<1>11. 2 <= Len(E) /\ Len(E) \in Nat /\ E[1] = kProxyDataSetTag /\ E[2] = n
  BY <1>7, <1>10
<1> DEFINE at2 == [k \in 1 .. n + 1 |-> 2 + at[k]]
<1>12. at \in [1 .. n + 1 -> Nat] /\ at[1] = 0 /\ at[n + 1] = Len(all)
  BY <1>3, <1>6 DEF Starts
<1>13. ASSUME NEW k \in 1 .. n
       PROVE  /\ at[k + 1] = at[k] + kProxyDataMember + Len(ds[k].bytes)
              /\ at[k] \in Nat /\ at[k + 1] \in Nat /\ at[k + 1] <= Len(all)
              /\ Len(ds[k].bytes) \in Nat
  <2>1. /\ at[k + 1] = at[k] + Len(packets[k])
        /\ at[k + 1] <= Len(all)
    BY <1>3, <1>6 DEF Starts
  <2>2. Len(packets[k]) = kProxyDataMember + Len(ds[k].bytes) /\ Len(ds[k].bytes) \in Nat
    BY <1>2, <1>9
  <2>3. at[k] \in Nat /\ at[k + 1] \in Nat
    BY <1>1, <1>12
  <2> DEFINE here == at[k]
             next == at[k + 1]
             size == Len(packets[k])
             body == Len(ds[k].bytes)
             whole == Len(all)
  <2>4. /\ next = here + size /\ size = kProxyDataMember + body /\ next <= whole
        /\ here \in Nat /\ next \in Nat /\ body \in Nat
    BY <2>1, <2>2, <2>3
  <2> HIDE DEF here, next, size, body, whole
  <2>5. next = here + kProxyDataMember + body
    BY <2>4 DEF kProxyDataMember
  <2> QED BY <2>4, <2>5 DEF here, next, body, whole
<1>14. ASSUME NEW k \in 1 .. n PROVE at[k] <= at[n]
  <2> DEFINE f == [j \in 1 .. n |-> at[j]]
  <2>1. f \in [1 .. n -> Nat]
    BY <1>13
  <2>2. \A j \in 1 .. n : j # n => f[j] <= f[j + 1]
    <3> SUFFICES ASSUME NEW j \in 1 .. n, j # n PROVE f[j] <= f[j + 1]
      OBVIOUS
    <3>1. j + 1 \in 1 .. n
      BY <1>1
    <3>2. at[j] <= at[j + 1]
      <4>1. /\ at[j + 1] = at[j] + kProxyDataMember + Len(ds[j].bytes)
            /\ at[j] \in Nat /\ Len(ds[j].bytes) \in Nat
        BY <1>13
      <4> QED BY <4>1 DEF kProxyDataMember
    <3> QED BY <3>1, <3>2
  <2>3. \A j \in 1 .. n : f[j] <= f[n]
    <3> HIDE DEF f
    <3> QED BY <1>1, <2>1, <2>2, Increasing
  <2> QED BY <2>3, <1>1
<1>15. at2 \in [1 .. n + 1 -> 0 .. Len(E)]
  <2>1. ASSUME NEW k \in 1 .. n + 1 PROVE 2 + at[k] \in 0 .. Len(E)
    <3>1. CASE k \in 1 .. n
      <4>1. at[k] <= at[k + 1]
        BY <1>13, <3>1 DEF kProxyDataMember
      <4> QED BY <4>1, <1>10, <1>13, <3>1
    <3>2. CASE k = n + 1
      BY <3>2, <1>10, <1>12
    <3> QED BY <3>1, <3>2, <1>1
  <2> QED BY <2>1
<1>16. at2[1] = 2 /\ at2[n + 1] = Len(E)
  <2>1. 1 \in 1 .. n + 1 /\ n + 1 \in 1 .. n + 1
    BY <1>1
  <2>2. at2[1] = 2 + at[1] /\ at2[n + 1] = 2 + at[n + 1]
    BY <2>1
  <2> HIDE DEF at2
  <2> QED BY <2>2, <1>10, <1>12
<1>17. ASSUME NEW k \in 1 .. n
       PROVE  /\ at2[k] <= at2[n]
              /\ at2[k + 1] = at2[k] + kProxyDataMember + Len(ds[k].bytes)
              /\ \A i \in 1 .. kProxyDataMember : E[at2[k] + i] = Words(ds[k])[i]
              /\ \A i \in 1 .. Len(ds[k].bytes) :
                   E[at2[k] + kProxyDataMember + i] = ds[k].bytes[i]
  <2> DEFINE b == ds[k].bytes
             w == Words(ds[k])
             size == Len(b)
             p == at[k]
             p2 == at2[k]
  <2>1. /\ p2 = 2 + p /\ at2[k + 1] = 2 + at[k + 1] /\ at2[n] = 2 + at[n]
        /\ at[n] \in Nat /\ p \in Nat /\ at[k + 1] \in Nat /\ size \in Nat
    BY <1>1, <1>13
  <2>2. at[k + 1] = p + kProxyDataMember + size /\ p <= at[n] /\ at[k + 1] <= Len(all)
    BY <1>13, <1>14
  <2>3. /\ packets[k] = w \o b /\ Len(packets[k]) = kProxyDataMember + size
        /\ \A i \in 1 .. kProxyDataMember : packets[k][i] = w[i]
        /\ \A i \in 1 .. size : packets[k][kProxyDataMember + i] = b[i]
    BY <1>2, <1>9
  <2>4. \A i \in 1 .. Len(packets[k]) : all[p + i] = packets[k][i]
    BY <1>3, <1>6 DEF Starts
  <2> HIDE DEF at2, b, w, size, p, p2
  <2>5. p2 <= at2[n] /\ at2[k + 1] = p2 + kProxyDataMember + size
    BY <2>1, <2>2 DEF kProxyDataMember
  <2>6. ASSUME NEW i \in 1 .. kProxyDataMember + size
        PROVE  E[p2 + i] = packets[k][i]
    <3>1. p + i \in 1 .. Len(all) /\ p2 + i = 2 + (p + i)
      BY <2>1, <2>2, <1>10 DEF kProxyDataMember
    <3>2. E[p2 + i] = all[p + i]
      BY <3>1, <1>10
    <3> QED BY <3>2, <2>3, <2>4
  <2>7. ASSUME NEW i \in 1 .. kProxyDataMember PROVE E[p2 + i] = w[i]
    <3>1. i \in 1 .. kProxyDataMember + size
      BY <2>1 DEF kProxyDataMember
    <3> QED BY <3>1, <2>3, <2>6
  <2>8. ASSUME NEW i \in 1 .. size PROVE E[p2 + kProxyDataMember + i] = b[i]
    <3>1. /\ kProxyDataMember + i \in 1 .. kProxyDataMember + size
          /\ p2 + kProxyDataMember + i = p2 + (kProxyDataMember + i)
      BY <2>1 DEF kProxyDataMember
    <3> QED BY <3>1, <2>3, <2>6
  <2> QED BY <2>5, <2>7, <2>8 DEF p2, w, b, size
<1>18. at2 \in Layouts(ds)
  <2> HIDE DEF at2
  <2> QED BY <1>15, <1>16, <1>17 DEF Layouts, Layout, E, n
<1> QED BY <1>10, <1>11, <1>18 DEF E, n

\* Layouts, packet by packet.
LEMMA LayoutFacts ==
  ASSUME NEW ds \in DataSets, NEW at \in Layouts(ds), NEW k \in 1 .. Len(ds)
  PROVE  /\ at[k] \in Nat /\ at[k] + kProxyDataMember \in Nat
         /\ ds[k] \in Content(Nat) /\ Len(ds[k].bytes) \in Nat
         /\ at[k] <= at[Len(ds)]
         /\ at[k] + kProxyDataMember + Len(ds[k].bytes) =
              IF k = Len(ds) THEN Len(Encode(ds)) ELSE at[k + 1]
         /\ \A i \in 1 .. kProxyDataMember : Encode(ds)[at[k] + i] = Words(ds[k])[i]
         /\ \A i \in 1 .. Len(ds[k].bytes) :
              Encode(ds)[at[k] + kProxyDataMember + i] = ds[k].bytes[i]
<1>1. /\ Len(ds) \in Nat /\ ds[k] \in Content(Nat) /\ Len(Encode(ds)) \in Nat
  BY DataSetFacts, EncodeFacts
<1>2. at \in [1 .. Len(ds) + 1 -> 0 .. Len(Encode(ds))] /\ Layout(ds, at)
  BY DEF Layouts
<1>3. k \in 1 .. Len(ds) + 1
  BY <1>1
<1>4. at[k] \in 0 .. Len(Encode(ds))
  BY <1>2, <1>3
<1>5. at[k] \in Nat /\ at[k] + kProxyDataMember \in Nat
  BY <1>1, <1>4 DEF kProxyDataMember
<1>6. Len(ds[k].bytes) \in Nat
  BY <1>1, ContentFacts
<1> QED BY <1>1, <1>2, <1>5, <1>6 DEF Layout

\* A packet that is not the last is followed by the next one.
LEMMA NextPacket ==
  ASSUME NEW ds \in DataSets, NEW at \in Layouts(ds), NEW k \in 1 .. Len(ds), k # Len(ds)
  PROVE  /\ at[k] + kProxyDataMember \in Nat
         /\ at[k] + kProxyDataMember + Len(ds[k].bytes) = at[k + 1]
BY LayoutFacts

-----------------------------------------------------------------------------
(* stable_read.                                                            *)

\* The reader gets n more cells.
LEMMA MoreRead ==
  ASSUME file \in Seq(Nat), buf \in Seq(Nat), pos \in Nat,
         NEW n \in Nat, n # 0 => n <= Available
  PROVE  LET got == buf \o Following(n) IN
         /\ got \in Seq(Nat) /\ Len(got) = Len(buf) + n
         /\ \A i \in 1 .. Len(buf) : got[i] = buf[i]
         /\ \A i \in 1 .. n : got[Len(buf) + i] = file[pos + i]
<1> DEFINE more == Following(n)
<1>1. Len(file) \in Nat
  BY LenProperties
<1>2. /\ more \in Seq(Nat) /\ Len(more) = n
      /\ \A i \in 1 .. n : more[i] = file[pos + i]
  <2>1. CASE n = 0
    <3>1. SubSeq(file, pos + 1, pos) = <<>>
      BY SubSeqEmpty
    <3>2. more = <<>>
      BY <2>1, <3>1 DEF Following
    <3>3. <<>> \in Seq(Nat) /\ Len(<<>>) = 0
      OBVIOUS
    <3> HIDE DEF more
    <3>4. 1 .. n = {}
      BY <2>1
    <3> QED BY <2>1, <3>2, <3>3, <3>4
  <2>2. CASE n # 0
    <3> DEFINE first == pos + 1
               last == pos + n
    <3>1. /\ first \in 1 .. Len(file) + 1 /\ last \in first - 1 .. Len(file)
          /\ last - first + 1 = n
      BY <1>1, <2>2 DEF Available
    <3>2. \A i \in 1 .. n : first + i - 1 = pos + i
      OBVIOUS
    <3>3. more = SubSeq(file, first, last)
      BY DEF Following
    <3> HIDE DEF first, last, more
    <3>4. /\ SubSeq(file, first, last) \in Seq(Nat)
          /\ Len(SubSeq(file, first, last)) = last - first + 1
          /\ \A i \in 1 .. last - first + 1 :
               SubSeq(file, first, last)[i] = file[first + i - 1]
      BY <3>1, <1>1, PartOf
    <3> QED BY <3>1, <3>2, <3>3, <3>4
  <2> QED BY <2>1, <2>2
<1> HIDE DEF more
<1>3. /\ buf \o more \in Seq(Nat) /\ Len(buf \o more) = Len(buf) + Len(more)
      /\ \A i \in 1 .. Len(buf) : (buf \o more)[i] = buf[i]
      /\ \A i \in 1 .. Len(more) : (buf \o more)[Len(buf) + i] = more[i]
  BY <1>2, ConcatCells
<1> QED BY <1>2, <1>3 DEF more

\* What is read in place stays in place.
LEMMA MoreInPlace ==
  ASSUME Written, version # <<>>, buf \in Seq(Nat), pos \in Nat,
         NEW n \in Nat, n # 0 => n <= Available, NEW start \in Nat, InPlace(start)
  PROVE  /\ start + Len(buf) + n <= Len(file)
         /\ \A i \in 1 .. Len(buf) + n :
              (buf \o Following(n))[i] = Encode(version)[start + i]
<1>1. Len(file) \in Nat /\ Len(buf) \in Nat /\ file \in Seq(Nat)
  BY LenProperties DEF Written
<1>2. start + Len(buf) + n <= Len(file)
  BY <1>1 DEF InPlace, Available
<1> DEFINE got == buf \o Following(n)
<1>3. /\ \A i \in 1 .. Len(buf) : got[i] = buf[i]
      /\ \A i \in 1 .. n : got[Len(buf) + i] = file[pos + i]
  BY <1>1, MoreRead
<1> HIDE DEF got
<1>4. ASSUME NEW i \in 1 .. Len(buf) + n PROVE got[i] = Encode(version)[start + i]
  <2>1. CASE i <= Len(buf)
    <3>1. i \in 1 .. Len(buf)
      BY <1>1, <2>1
    <3> QED BY <3>1, <1>3 DEF InPlace
  <2>2. CASE ~(i <= Len(buf))
    <3> DEFINE j == i - Len(buf)
    <3>1. /\ j \in 1 .. n /\ Len(buf) + j = i /\ pos + j = start + i
          /\ pos + j \in 1 .. Len(file)
      <4>1. pos = start + Len(buf)
        BY DEF InPlace
      <4> QED BY <4>1, <1>1, <1>2, <2>2
    <3>2. file[pos + j] = Encode(version)[pos + j]
      BY <3>1 DEF Written
    <3> QED BY <3>1, <3>2, <1>3
  <2> QED BY <2>1, <2>2
<1> QED BY <1>2, <1>4 DEF got

\* A read() that returns less.
LEMMA SomeRead ==
  ASSUME Written, buf \in Seq(Nat), pos \in Nat, NEW want \in Nat, ReadSome(want)
  PROVE  /\ buf' \in Seq(Nat) /\ pos' \in Nat /\ Len(buf') < want
         /\ pos' - Len(buf') = pos - Len(buf)
         /\ \A start \in Nat : version # <<>> /\ InPlace(start) => InPlace(start)'
<1>1. Len(file) \in Nat /\ Len(buf) \in Nat /\ file \in Seq(Nat)
  BY LenProperties DEF Written
<1>2. Available \in Nat /\ Available < want - Len(buf)
  BY <1>1 DEF ReadSome, Available
<1>3. buf' = buf \o Following(Available) /\ pos' = Len(file) /\ UNCHANGED <<file, version>>
  BY DEF ReadSome, writer
<1>4. buf' \in Seq(Nat) /\ Len(buf') = Len(buf) + Available
  BY <1>1, <1>2, <1>3, MoreRead
<1>5. Len(buf') < want /\ pos' - Len(buf') = pos - Len(buf)
  BY <1>1, <1>2, <1>3, <1>4 DEF Available
<1>6. ASSUME NEW start \in Nat, version # <<>>, InPlace(start) PROVE InPlace(start)'
  <2>1. /\ start + Len(buf) + Available <= Len(file)
        /\ \A i \in 1 .. Len(buf) + Available :
             (buf \o Following(Available))[i] = Encode(version)[start + i]
    <3> DEFINE n == Available
    <3>1. n \in Nat /\ (n # 0 => n <= Available)
      BY <1>2
    <3> HIDE DEF n
    <3>2. /\ start + Len(buf) + n <= Len(file)
          /\ \A i \in 1 .. Len(buf) + n :
               (buf \o Following(n))[i] = Encode(version)[start + i]
      BY <3>1, <1>6, MoreInPlace
    <3> QED BY <3>2 DEF n
  <2>2. pos' <= Len(file)' /\ pos' = start + Len(buf')
    <3> DEFINE size == Len(file)
               had == Len(buf)
               has == Len(buf')
    <3>1. /\ pos' = size /\ Len(file)' = size /\ has = had + Available
          /\ Available = size - pos /\ pos = start + had
          /\ size \in Nat /\ had \in Nat
      BY <1>1, <1>3, <1>4, <1>6 DEF InPlace, Available
    <3> HIDE DEF size, had, has
    <3>2. pos' <= Len(file)' /\ pos' = start + has
      BY <3>1, <1>1
    <3> QED BY <3>2 DEF has
  <2>3. \A i \in 1 .. Len(buf') : buf'[i] = Encode(version)[start + i]
    BY <1>3, <1>4, <2>1
  <2>4. Len(file)' = Len(file) /\ Encode(version)' = Encode(version)
    BY <1>3
  <2> QED BY <2>2, <2>3, <2>4 DEF InPlace
<1> QED BY <1>1, <1>3, <1>4, <1>5, <1>6

\* stable_read has got all that was asked for.
LEMMA AllRead ==
  ASSUME Written, buf \in Seq(Nat), pos \in Nat, NEW want \in Nat,
         Len(buf) <= want, Complete(want)
  PROVE  /\ Cells(want) \in Seq(Nat) /\ Len(Cells(want)) = want
         /\ pos + want - Len(buf) \in Nat
         /\ \A i \in 1 .. want - Len(buf) : Cells(want)[Len(buf) + i] = file[pos + i]
         /\ want # Len(buf) => pos + want - Len(buf) <= Len(file)
         /\ \A start \in Nat : version # <<>> /\ InPlace(start) =>
              /\ start + want <= Len(file)
              /\ pos + want - Len(buf) = start + want
              /\ \A i \in 1 .. want : Cells(want)[i] = Encode(version)[start + i]
<1> DEFINE n == want - Len(buf)
<1>1. Len(file) \in Nat /\ Len(buf) \in Nat /\ file \in Seq(Nat)
  BY LenProperties DEF Written
<1>2. n \in Nat /\ (n # 0 => n <= Available)
  BY <1>1 DEF Complete, Available
<1>3. Cells(want) = buf \o Following(n) /\ Len(buf) + n = want
  BY <1>1 DEF Cells
<1> HIDE DEF n
<1>4. /\ Cells(want) \in Seq(Nat) /\ Len(Cells(want)) = Len(buf) + n
      /\ \A i \in 1 .. n : Cells(want)[Len(buf) + i] = file[pos + i]
  BY <1>1, <1>2, <1>3, MoreRead
<1>5. ASSUME NEW start \in Nat, version # <<>>, InPlace(start)
      PROVE  /\ start + want <= Len(file)
             /\ pos + want - Len(buf) = start + want
             /\ \A i \in 1 .. want : Cells(want)[i] = Encode(version)[start + i]
  <2>1. /\ start + Len(buf) + n <= Len(file)
        /\ \A i \in 1 .. Len(buf) + n :
             (buf \o Following(n))[i] = Encode(version)[start + i]
    BY <1>2, <1>5, MoreInPlace
  <2>2. start + Len(buf) + n = start + want
    <3>1. Len(buf) + n = want
      BY <1>3
    <3> QED BY <3>1, <1>1, <1>2
  <2>3. pos + want - Len(buf) = start + want
    BY <1>1, <1>5 DEF InPlace
  <2> QED BY <1>3, <2>1, <2>2, <2>3
<1>6. want # Len(buf) => pos + want - Len(buf) <= Len(file)
  BY <1>1, <1>2 DEF n, Available
<1>7. pos + want - Len(buf) \in Nat
  BY <1>1
<1> QED BY <1>3, <1>4, <1>5, <1>6, <1>7 DEF n

\* The end of the file in front of what was asked for.
LEMMA EndRead ==
  ASSUME Written, buf \in Seq(Nat), NEW want \in Nat, AtEnd(want),
         NEW start \in Nat, InPlace(start)
  PROVE  Len(file) = start + Len(buf) /\ Len(file) < start + want
<1>1. Len(file) \in Nat /\ Len(buf) \in Nat
  BY LenProperties DEF Written
<1> QED BY <1>1 DEF AtEnd, Available, InPlace

-----------------------------------------------------------------------------
(* The writer.                                                             *)

LEMMA InitIInv == Init => IInv
<1> SUFFICES ASSUME Init PROVE IInv
  OBVIOUS
<1>1. <<>> \in Seq(Nat) /\ Len(<<>>) = 0
  OBVIOUS
<1>2. Written
  <2>1. versions \in 0 .. MaxVersions
    BY VersionAssumption DEF Init
  <2> QED BY <1>1, <2>1 DEF Init, Written
<1>3. Place
  BY <1>1 DEF Init, Place
<1> QED BY <1>2, <1>3 DEF Init, IInv, StillPlace, StillFileIsRead

\* Steps of the writer leave the reader alone; what the reader knows of the
\* file, it knows of a file nobody writes.
LEMMA WriterFrame ==
  ASSUME IInv, Written', UNCHANGED reader,
         ~still' \/ (still' = still /\ writing)
  PROVE  IInv'
<1>1. Place'
  BY DEF IInv, Place, ReadUpTo, reader
<1>2. still' => pc' = "idle"
  BY DEF IInv, StillPlace, reader
<1> QED BY <1>1, <1>2 DEF IInv, StillPlace, StillFileIsRead

LEMMA OpenTruncateIInv == ASSUME IInv, OpenTruncate PROVE IInv'
<1>1. PICK ds \in DataSets : version' = ds /\ toWrite' = Encode(ds)
  BY DEF OpenTruncate
<1>2. /\ Encode(ds) \in Seq(Nat) /\ Len(Encode(ds)) \in Nat /\ ds # <<>>
  BY EncodeFacts, DataSetFacts
<1>3. /\ file' = <<>> /\ writing' = TRUE /\ still' = FALSE
      /\ versions' = versions + 1 /\ versions < MaxVersions
  BY DEF OpenTruncate
<1>4. <<>> \in Seq(Nat) /\ Len(<<>>) = 0
  OBVIOUS
<1>5. versions' \in 0 .. MaxVersions
  BY <1>3, VersionAssumption DEF IInv, Written
<1>6. Encode(version)' = Encode(ds)
  BY <1>1
<1> HIDE DEF Encode
<1>7. Written'
  <2>1. /\ file' \in Seq(Nat) /\ Len(file') = 0 /\ toWrite' \in Seq(Nat)
        /\ writing' \in BOOLEAN /\ still' \in BOOLEAN
        /\ version' # <<>> /\ version' \in DataSets
    BY <1>1, <1>2, <1>3, <1>4
  <2>2. /\ Len(file') <= Len(Encode(ds))
        /\ \A i \in 1 .. Len(file') : file'[i] = Encode(ds)[i]
        /\ Len(file') + Len(toWrite') = Len(Encode(ds))
    BY <2>1, <1>1, <1>2
  <2>3. \A i \in 1 .. Len(toWrite') : toWrite'[i] = Encode(ds)[Len(file') + i]
    <3> SUFFICES ASSUME NEW i \in 1 .. Len(toWrite')
                 PROVE  toWrite'[i] = Encode(ds)[Len(file') + i]
      OBVIOUS
    <3>1. Len(file') + i = i
      BY <2>1, <1>1, <1>2
    <3> QED BY <3>1, <1>1
  <2> QED BY <2>1, <2>2, <2>3, <1>5, <1>6 DEF Written
<1> QED BY <1>3, <1>7, WriterFrame DEF OpenTruncate

LEMMA WriteIInv == ASSUME IInv, Write PROVE IInv'
<1>1. PICK n \in 1 .. Len(toWrite) :
        /\ file' = file \o SubSeq(toWrite, 1, n)
        /\ toWrite' = SubSeq(toWrite, n + 1, Len(toWrite))
  BY DEF Write
<1> DEFINE E == Encode(version)
           some == SubSeq(toWrite, 1, n)
           rest == SubSeq(toWrite, n + 1, Len(toWrite))
<1>2. /\ writing /\ UNCHANGED <<writing, version, versions, still>>
  BY DEF Write
<1>3. /\ file \in Seq(Nat) /\ toWrite \in Seq(Nat) /\ version # <<>> /\ version \in DataSets
      /\ Len(file) \in Nat /\ Len(toWrite) \in Nat
      /\ Len(file) + Len(toWrite) = Len(E)
      /\ \A i \in 1 .. Len(file) : file[i] = E[i]
      /\ \A i \in 1 .. Len(toWrite) : toWrite[i] = E[Len(file) + i]
  BY <1>2, LenProperties DEF IInv, Written
<1>4. n \in Nat /\ 1 <= n /\ n <= Len(toWrite)
  BY <1>3
<1>5. \A i \in 1 .. Len(toWrite) : toWrite[i] \in Nat
  BY <1>3, ElementOfSeq
<1>6. /\ some \in Seq(Nat) /\ Len(some) = n
      /\ \A i \in 1 .. n : some[i] = toWrite[i]
  <2>1. \A i \in 1 .. n : toWrite[i] \in Nat
    BY <1>3, <1>4, <1>5
  <2>2. /\ some \in Seq(Nat) /\ Len(some) = n - 1 + 1
        /\ \A i \in 1 .. n - 1 + 1 : some[i] = toWrite[1 + i - 1]
    BY <2>1, <1>4, SubSeqProperties
  <2> HIDE DEF some
  <2>3. n - 1 + 1 = n /\ \A i \in 1 .. n : 1 + i - 1 = i
    BY <1>4
  <2> QED BY <2>2, <2>3
<1>7. /\ rest \in Seq(Nat) /\ Len(rest) = Len(toWrite) - n
      /\ \A i \in 1 .. Len(toWrite) - n : rest[i] = toWrite[n + i]
  <2>1. \A i \in n + 1 .. Len(toWrite) : toWrite[i] \in Nat
    BY <1>3, <1>4, <1>5
  <2> DEFINE m == n + 1
             l == Len(toWrite)
  <2>2. m \in Int /\ l \in Int /\ \A i \in m .. l : toWrite[i] \in Nat
    BY <2>1, <1>3, <1>4
  <2>3. /\ (IF m <= l THEN l - m + 1 ELSE 0) = Len(toWrite) - n
        /\ l - m + 1 = Len(toWrite) - n
        /\ \A i \in 1 .. l - m + 1 : m + i - 1 = n + i
    BY <1>3, <1>4
  <2> HIDE DEF m, l
  <2>4. /\ SubSeq(toWrite, m, l) \in Seq(Nat)
        /\ Len(SubSeq(toWrite, m, l)) = IF m <= l THEN l - m + 1 ELSE 0
        /\ \A i \in 1 .. l - m + 1 : SubSeq(toWrite, m, l)[i] = toWrite[m + i - 1]
    BY <2>2, SubSeqProperties
  <2> QED BY <2>3, <2>4 DEF m, l
<1>8. file' = file \o some /\ toWrite' = rest
  BY <1>1
<1> HIDE DEF some, rest, E
<1>9. /\ file' \in Seq(Nat) /\ Len(file') = Len(file) + n
      /\ \A i \in 1 .. Len(file) : file'[i] = file[i]
      /\ \A i \in 1 .. n : file'[Len(file) + i] = some[i]
  <2>1. /\ file \o some \in Seq(Nat) /\ Len(file \o some) = Len(file) + Len(some)
        /\ \A i \in 1 .. Len(file) : (file \o some)[i] = file[i]
        /\ \A i \in 1 .. Len(some) : (file \o some)[Len(file) + i] = some[i]
    BY <1>3, <1>6, ConcatCells
  <2> QED BY <2>1, <1>6, <1>8
<1>10. ASSUME NEW i \in 1 .. Len(file') PROVE file'[i] = E[i]
  <2>1. CASE i <= Len(file)
    <3>1. i \in 1 .. Len(file)
      BY <1>3, <1>9, <2>1
    <3> QED BY <3>1, <1>3, <1>9
  <2>2. CASE ~(i <= Len(file))
    <3> DEFINE j == i - Len(file)
    <3>1. j \in 1 .. n /\ j \in 1 .. Len(toWrite) /\ Len(file) + j = i
      BY <1>3, <1>4, <1>9, <2>2
    <3> HIDE DEF j
    <3>2. file'[Len(file) + j] = toWrite[j] /\ toWrite[j] = E[Len(file) + j]
      BY <3>1, <1>3, <1>6, <1>9
    <3> QED BY <3>1, <3>2
  <2> QED BY <2>1, <2>2
<1>11. ASSUME NEW i \in 1 .. Len(toWrite') PROVE toWrite'[i] = E[Len(file') + i]
  <2>1. /\ i \in 1 .. Len(toWrite) - n /\ n + i \in 1 .. Len(toWrite)
        /\ Len(file') + i = Len(file) + (n + i)
    BY <1>3, <1>4, <1>7, <1>8, <1>9
  <2> QED BY <2>1, <1>3, <1>7, <1>8
<1>12. /\ Len(file') <= Len(E) /\ Len(file') + Len(toWrite') = Len(E)
  <2>1. Len(toWrite') = Len(toWrite) - n /\ Len(file') = Len(file) + n
    BY <1>7, <1>8, <1>9
  <2>2. /\ Len(file) \in Nat /\ Len(toWrite) \in Nat
        /\ Len(file) + Len(toWrite) = Len(E)
    BY <1>3
  <2> QED BY <2>1, <2>2, <1>4
<1>13. Written'
  <2>1. E = Encode(version)'
    BY <1>2 DEF E
  <2>2. versions' \in 0 .. MaxVersions /\ writing' \in BOOLEAN /\ still' \in BOOLEAN
        /\ version' # <<>> /\ version' \in DataSets /\ toWrite' \in Seq(Nat)
    BY <1>2, <1>3, <1>7, <1>8 DEF IInv, Written
  <2> HIDE DEF Encode
  <2> QED BY <2>1, <2>2, <1>9, <1>10, <1>11, <1>12 DEF Written
<1> QED BY <1>2, <1>13, WriterFrame DEF Write

LEMMA CloseIInv == ASSUME IInv, Close PROVE IInv'
<1>1. <<>> \in Seq(Nat) /\ Len(<<>>) = 0
  OBVIOUS
<1>2. /\ writing /\ writing' = FALSE /\ toWrite' = <<>>
      /\ UNCHANGED <<file, version, versions, still>>
  BY DEF Close
<1>3. Written'
  <2>1. Written
    BY DEF IInv
  <2>2. toWrite' \in Seq(Nat) /\ writing' \in BOOLEAN
    BY <1>1, <1>2
  <2> QED BY <2>1, <2>2, <1>2 DEF Written
<1> QED BY <1>2, <1>3, WriterFrame DEF Close

-----------------------------------------------------------------------------
(* The reader.                                                             *)

LEMMA OpenIInv == ASSUME IInv, Open PROVE IInv'
<1>1. /\ pc = "idle" /\ pc' = "set" /\ still' = ~writing /\ writing \in BOOLEAN
      /\ UNCHANGED <<pos, buf, header, dataset, ret, file, toWrite, writing,
                     version, versions>>
  BY DEF Open, writer, IInv, Written
<1>2. Written'
  BY <1>1 DEF IInv, Written
<1>3. pos = 0 /\ buf = <<>> /\ Len(buf) = 0 /\ ret = "none"
  BY <1>1 DEF IInv, Place
<1>4. Place'
  BY <1>1, <1>3 DEF IInv, Place
<1>5. version # <<>>
  BY DEF IInv, Written, Open
<1>6. InPlace(0)'
  <2>1. Len(file) \in Nat
    BY LenProperties DEF IInv, Written
  <2> QED BY <2>1, <1>1, <1>3 DEF InPlace
<1>7. StillPlace'
  BY <1>1, <1>5, <1>6 DEF StillPlace
<1> QED BY <1>1, <1>2, <1>4, <1>7 DEF IInv, StillFileIsRead

\* The words of a header are naturals.
LEMMA HeaderFacts == ASSUME Place, pc = "body"
                     PROVE  header \in Seq(Nat) /\ \A i \in 1 .. 5 : header[i] \in Nat
<1>1. header \in Seq(Nat) /\ Len(header) = 5
  BY DEF Place, kProxyDataMember
<1>2. \A i \in 1 .. Len(header) : header[i] \in Nat
  BY <1>1, ElementOfSeq
<1> QED BY <1>1, <1>2

\* A read that goes on.
LEMMA ReadSomeIInv ==
  ASSUME IInv,
         \/ pc = "set" /\ ReadSome(2)
         \/ pc = "header" /\ ReadSome(kProxyDataMember)
         \/ pc = "body" /\ ReadSome(header[2])
  PROVE  IInv'
<1> DEFINE want == CASE pc = "set" -> 2 [] pc = "header" -> kProxyDataMember
                     [] pc = "body" -> header[2]
<1>1. want \in Nat /\ ReadSome(want) /\ pc # "idle" /\ pc # "done"
      /\ (pc = "set" => want = 2) /\ (pc = "header" => want = kProxyDataMember)
      /\ (pc = "body" => want = header[2])
  <2>1. pc = "body" => header[2] \in Nat
    BY HeaderFacts DEF IInv
  <2>2. CASE pc = "set"
    BY <2>2
  <2>3. CASE pc = "header"
    BY <2>3 DEF kProxyDataMember
  <2>4. CASE pc = "body"
    BY <2>1, <2>4
  <2> QED BY <2>2, <2>3, <2>4
<1> HIDE DEF want
<1>2. /\ buf \in Seq(Nat) /\ pos \in Nat /\ Written
      /\ UNCHANGED <<pc, header, dataset, ret, file, toWrite, writing, version,
                     versions, still>>
  BY <1>1 DEF IInv, Place, ReadSome, writer
<1>3. /\ buf' \in Seq(Nat) /\ pos' \in Nat /\ Len(buf') < want
      /\ pos' - Len(buf') = pos - Len(buf)
      /\ \A start \in Nat : version # <<>> /\ InPlace(start) => InPlace(start)'
  BY <1>1, <1>2, SomeRead
<1>4. Written'
  BY <1>2 DEF Written
<1>5. Len(buf') \in Nat /\ Len(buf) \in Nat
  BY <1>2, <1>3, LenProperties
<1>6. Place'
  <2>1. pc = "set" => pos' = Len(buf') /\ Len(buf') < 2
    BY <1>1, <1>2, <1>3, <1>5 DEF IInv, Place
  <2>2. pc = "header" => Len(buf') < kProxyDataMember
    BY <1>1, <1>3
  <2>3. pc = "body" => Len(buf') <= header[2]
    BY <1>1, <1>3, <1>5
  <2> QED BY <1>1, <1>2, <1>3, <2>1, <2>2, <2>3 DEF IInv, Place, ReadUpTo
<1>7. StillPlace'
  <2> SUFFICES ASSUME still PROVE StillPlace'
    BY <1>2 DEF StillPlace
  <2>1. ~writing /\ version # <<>>
    BY <1>1 DEF IInv, StillPlace
  <2>2. CASE pc = "set"
    <3>1. InPlace(0)'
      BY <1>3, <2>1, <2>2 DEF IInv, StillPlace
    <3> QED BY <3>1, <1>2, <2>1, <2>2 DEF StillPlace
  <2>3. CASE pc \in {"header", "body"}
    <3>1. Len(dataset) = Len(version)
      BY <2>3 DEF IInv, StillPlace
    <3>2. PICK at \in Layouts(version), k \in 1 .. Len(version) :
            /\ ReadUpTo(k)
            /\ \A i \in 1 .. k - 1 : dataset[i] = version[i]
            /\ pc = "header" => InPlace(at[k])
            /\ pc = "body" =>
                 InPlace(at[k] + kProxyDataMember) /\ header = Words(version[k])
      BY <2>3 DEF IInv, StillPlace
    <3>3. at[k] \in Nat /\ at[k] + kProxyDataMember \in Nat
      BY LayoutFacts, <2>1 DEF IInv, Written
    <3>4. /\ pc = "header" => InPlace(at[k])'
          /\ pc = "body" => InPlace(at[k] + kProxyDataMember)'
      BY <1>3, <2>1, <3>2, <3>3
    <3>5. ReadUpTo(k)' /\ Layouts(version)' = Layouts(version)
      BY <1>2, <3>2 DEF ReadUpTo
    <3> QED BY <1>2, <2>1, <2>3, <3>1, <3>2, <3>4, <3>5 DEF StillPlace
  <2> QED BY <2>2, <2>3, <1>1, <1>2 DEF StillPlace, IInv, Place
<1> QED BY <1>1, <1>2, <1>4, <1>6, <1>7 DEF IInv, StillFileIsRead

\* A file that ends before the body of the last packet is rejected.
LEMMA Rejected ==
  ASSUME IInv, version # <<>>, NEW at \in Layouts(version),
         Len(file) < at[Len(version)] + kProxyDataMember,
         UNCHANGED writer, ret' # "ok"
  PROVE  StillFileIsRead'
<1> DEFINE n == Len(version)
<1>1. version \in DataSets /\ Len(file) \in Nat
  BY LenProperties DEF IInv, Written
<1>2. n \in 1 .. n /\ Last(version) = version[n] /\ Len(Encode(version)) \in Nat
  BY <1>1, DataSetFacts, EncodeFacts
<1>3. /\ at[n] \in Nat /\ Len(version[n].bytes) \in Nat
      /\ at[n] + kProxyDataMember + Len(version[n].bytes) = Len(Encode(version))
  BY <1>1, <1>2, LayoutFacts
<1> DEFINE kept == Len(Last(version).bytes) - Lacks
<1>4. ~(kept >= 0)
  <2> DEFINE b == Len(version[n].bytes)
             e == Len(Encode(version))
             a == at[n]
             l == Len(file)
  <2>1. /\ kept = b - (e - l) /\ a \in Nat /\ b \in Nat /\ e \in Nat /\ l \in Nat
        /\ a + kProxyDataMember + b = e /\ l < a + kProxyDataMember
    BY <1>1, <1>2, <1>3 DEF Lacks
  <2> HIDE DEF a, b, e, l, kept
  <2> QED BY <2>1 DEF kProxyDataMember
<1>5. kept' = kept
  BY DEF writer, Lacks
<1> QED BY <1>4, <1>5 DEF StillFileIsRead

\* In place of the header of the data set.
LEMMA SetHeaderIInv == ASSUME IInv, ReadSetHeader PROVE IInv'
<1>1. CASE ReadSome(2)
  BY <1>1, ReadSomeIInv DEF ReadSetHeader
<1>2. /\ pc = "set" /\ UNCHANGED <<file, toWrite, writing, version, versions, still>>
  <2>1. pc = "set" /\ (UNCHANGED writer /\ UNCHANGED still)
    BY Zenon DEF ReadSetHeader, ReadSome, Return
  <2> QED BY <2>1 DEF writer
<1>3. /\ Written /\ pos \in Nat /\ buf \in Seq(Nat) /\ Len(buf) < 2 /\ pos = Len(buf)
      /\ Len(buf) \in Nat /\ Len(file) \in Nat /\ ret = "none"
  BY <1>2, LenProperties DEF IInv, Place, Written
<1>4. Written'
  BY <1>2, <1>3 DEF Written
<1>5. still => ~writing /\ version # <<>> /\ InPlace(0)
  BY <1>2 DEF IInv, StillPlace
<1>6. version # <<>> =>
        /\ version \in DataSets /\ Encode(version)[1] = kProxyDataSetTag
        /\ Encode(version)[2] = Len(version) /\ Len(version) \in Nat
        /\ 1 \in 1 .. Len(version) /\ Len(version) \in 1 .. Len(version)
        /\ \E at : at \in Layouts(version)
  BY <1>3, EncodeFacts, DataSetFacts DEF Written
<1>7. CASE AtEnd(2) /\ Return("error") /\ UNCHANGED <<pos, buf, dataset>>
  <2>1. ret' = "error" /\ pc' = "done"
    BY <1>7 DEF Return
  <2>2. Place'
    BY <2>1, <1>3, <1>7
    DEF Place
  <2>3. StillPlace'
    BY <2>1, <1>2, <1>5 DEF StillPlace
  <2>4. ASSUME still PROVE StillFileIsRead'
    <3>1. version # <<>> /\ InPlace(0) /\ version \in DataSets
      BY <2>4, <1>5, <1>6
    <3>2. PICK at : at \in Layouts(version)
      BY <3>1, <1>6
    <3>3. Len(file) < 0 + 2
      BY <3>1, <1>3, <1>7, EndRead
    <3>4. at[Len(version)] \in Nat
      BY <3>1, <3>2, <1>6, LayoutFacts
    <3>5. Len(file) < at[Len(version)] + kProxyDataMember
      BY <3>3, <3>4, <1>3 DEF kProxyDataMember
    <3> QED BY <2>1, <3>1, <3>2, <3>5, <1>2, Rejected DEF writer
  <2>5. StillFileIsRead'
    BY <2>4, <1>2 DEF StillFileIsRead
  <2> QED BY <2>2, <2>3, <2>5, <1>4 DEF IInv
<1>8. ASSUME Complete(2), Advance(2),
             \/ /\ Cells(2)[1] # kProxyDataSetTag
                /\ Return("error") /\ UNCHANGED dataset
             \/ /\ dataset' = [i \in 1 .. Cells(2)[2] |-> None]
                /\ pc' = "header" /\ UNCHANGED <<header, ret, writer, still>>
      PROVE  IInv'
  <2> DEFINE w == Cells(2)
  <2>1. /\ w \in Seq(Nat) /\ Len(w) = 2 /\ pos + 2 - Len(buf) \in Nat
        /\ \A i \in 1 .. 2 - Len(buf) : w[Len(buf) + i] = file[pos + i]
        /\ pos + 2 - Len(buf) <= Len(file)
        /\ \A start \in Nat : version # <<>> /\ InPlace(start) =>
             /\ start + 2 <= Len(file)
             /\ pos + 2 - Len(buf) = start + 2
             /\ \A i \in 1 .. 2 : w[i] = Encode(version)[start + i]
    <3>1. Len(buf) <= 2 /\ Len(buf) # 2
      BY <1>3
    <3> QED BY <3>1, <1>3, <1>8, AllRead
  <2> HIDE DEF w
  <2>2. pos' = 2 /\ buf' = <<>> /\ Len(buf') = 0 /\ buf' \in Seq(Nat) /\ 2 <= Len(file)
    BY <2>1, <1>3, <1>8 DEF Advance
  <2>3. version # <<>>
    <3>1. version = <<>> => Len(file) = 0
      BY <1>3 DEF Written
    <3> QED BY <3>1, <2>2
  <2>4. w[2] = Len(version)
    <3>1. /\ 2 - Len(buf) \in 1 .. 2 - Len(buf) /\ Len(buf) + (2 - Len(buf)) = 2
          /\ pos + (2 - Len(buf)) = 2
      BY <1>3
    <3>2. w[2] = file[2]
      BY <3>1, <2>1
    <3>3. 2 \in 1 .. Len(file)
      BY <2>2, <1>3
    <3> QED BY <3>2, <3>3, <2>3, <1>3, <1>6 DEF Written
  <2>5. still => w[1] = kProxyDataSetTag /\ InPlace(2)'
    <3> SUFFICES ASSUME still PROVE w[1] = kProxyDataSetTag /\ InPlace(2)'
      OBVIOUS
    <3>1. \A i \in 1 .. 2 : w[i] = Encode(version)[0 + i]
      BY <2>1, <2>3, <1>5
    <3>2. w[1] = kProxyDataSetTag
      BY <3>1, <2>3, <1>6
    <3>3. InPlace(2)'
      BY <2>2, <1>2, <1>3 DEF InPlace
    <3> QED BY <3>2, <3>3
  <2>6. CASE w[1] # kProxyDataSetTag /\ Return("error") /\ UNCHANGED dataset
    <3>1. ret' = "error" /\ pc' = "done" /\ ~still'
      BY <2>5, <2>6, <1>2 DEF Return
    <3>2. Place'
      BY <3>1, <2>2 DEF Place
    <3> QED BY <3>1, <3>2, <1>4 DEF IInv, StillPlace, StillFileIsRead
  <2>7. CASE /\ dataset' = [i \in 1 .. w[2] |-> None]
             /\ pc' = "header" /\ UNCHANGED <<header, ret, writer, still>>
    <3>1. /\ dataset' \in Seq(Content(Nat \cup {None}) \cup {None})
          /\ Len(dataset') = Len(version)
          /\ \A i \in 1 .. Len(version) : dataset'[i] = None
      <4>1. dataset' \in [1 .. Len(version) -> Content(Nat \cup {None}) \cup {None}]
        BY <2>4, <2>7
      <4>2. \A i \in 1 .. Len(version) : dataset'[i] = None
        BY <2>4, <2>7
      <4> QED BY <4>1, <4>2, <2>3, <1>6, IsASeq, LenProperties
    <3>2. ReadUpTo(1)'
      <4>1. \A i \in 1 .. Len(dataset') : i >= 1
        BY <3>1, <2>3, <1>6
      <4> QED BY <4>1, <3>1 DEF ReadUpTo
    <3>3. Place'
      BY <3>1, <3>2, <2>2, <2>3, <2>7, <1>3, <1>6 DEF Place, kProxyDataMember
    <3>4. StillPlace'
      <4> SUFFICES ASSUME still PROVE StillPlace'
        BY <1>2 DEF StillPlace
      <4>1. PICK at : at \in Layouts(version)
        BY <2>3, <1>6
      <4>2. at[1] = 2
        BY <4>1 DEF Layouts, Layout
      <4>3. InPlace(at[1])' /\ ~writing'
        BY <4>2, <2>5, <1>2, <1>5
      <4>4. Layouts(version)' = Layouts(version) /\ UNCHANGED version
        BY <1>2
      <4> QED BY <4>1, <4>3, <4>4, <3>1, <3>2, <2>3, <2>7, <1>6 DEF StillPlace
    <3> QED BY <3>3, <3>4, <2>7, <1>4 DEF IInv, StillFileIsRead
  <2> QED BY <2>6, <2>7, <1>8 DEF w
<1> QED BY <1>1, <1>7, <1>8 DEF ReadSetHeader

\* What the reader knows in front of packet k of a file nobody writes.
Known(at, k) ==
  /\ ~writing /\ version # <<>> /\ version \in DataSets
  /\ Len(dataset) = Len(version)
  /\ at \in Layouts(version) /\ k \in 1 .. Len(version)
  /\ ReadUpTo(k)
  /\ \A i \in 1 .. k - 1 : dataset[i] = version[i]
  /\ pc = "header" => InPlace(at[k])
  /\ pc = "body" => InPlace(at[k] + kProxyDataMember) /\ header = Words(version[k])

LEMMA KnownFacts ==
  ASSUME IInv, still, pc \in {"header", "body"}
  PROVE  \E at, k : Known(at, k)
<1>1. ~writing /\ version # <<>> /\ Len(dataset) = Len(version)
  BY DEF IInv, StillPlace
<1>2. PICK at \in Layouts(version), k \in 1 .. Len(version) :
        /\ ReadUpTo(k)
        /\ \A i \in 1 .. k - 1 : dataset[i] = version[i]
        /\ pc = "header" => InPlace(at[k])
        /\ pc = "body" =>
             InPlace(at[k] + kProxyDataMember) /\ header = Words(version[k])
  BY DEF IInv, StillPlace
<1> QED BY <1>1, <1>2 DEF Known, IInv, Written

\* In place of a packet's header.
LEMMA HeaderIInv == ASSUME IInv, ReadHeader PROVE IInv'
<1> DEFINE want == kProxyDataMember
<1>1. CASE ReadSome(want)
  BY <1>1, ReadSomeIInv DEF ReadHeader
<1>2. /\ pc = "header" /\ UNCHANGED <<file, toWrite, writing, version, versions, still>>
  <2>1. pc = "header" /\ (UNCHANGED writer /\ UNCHANGED still)
    BY Zenon DEF ReadHeader, ReadSome, Return
  <2> QED BY <2>1 DEF writer
<1>3. /\ Written /\ pos \in Nat /\ buf \in Seq(Nat) /\ Len(buf) < want
      /\ Len(buf) \in Nat /\ Len(file) \in Nat /\ ret = "none" /\ want \in Nat
      /\ dataset \in Seq(Content(Nat \cup {None}) \cup {None})
      /\ \E k \in 1 .. Len(dataset) : ReadUpTo(k)
  BY <1>2, LenProperties DEF IInv, Place, Written, kProxyDataMember
<1>4. Written'
  BY <1>2, <1>3 DEF Written
<1> HIDE DEF want
<1>5. CASE AtEnd(want) /\ Return("bad free") /\ UNCHANGED <<pos, buf, dataset>>
  <2>1. ret' = "bad free" /\ pc' = "done"
    BY <1>5 DEF Return
  <2>2. Place'
    BY <2>1, <1>3, <1>5 DEF Place
  <2>3. ASSUME still PROVE StillFileIsRead' /\ StillPlace'
    <3>1. PICK at, k : Known(at, k)
      BY <2>3, <1>2, KnownFacts
    <3>2. /\ at[k] \in Nat /\ at[Len(version)] \in Nat /\ at[k] <= at[Len(version)]
      BY <3>1, LayoutFacts, DataSetFacts DEF Known
    <3>3. Len(file) < at[k] + want
      BY <3>1, <3>2, <1>2, <1>3, <1>5, EndRead DEF Known
    <3>4. Len(file) < at[Len(version)] + kProxyDataMember
      BY <3>2, <3>3, <1>3 DEF want
    <3>5. StillFileIsRead'
      BY <2>1, <3>1, <3>4, <1>2, Rejected DEF writer, Known
    <3>6. StillPlace'
      BY <2>1, <3>1, <1>2 DEF StillPlace, Known
    <3> QED BY <3>5, <3>6
  <2> QED BY <2>2, <2>3, <1>2, <1>4 DEF IInv, StillFileIsRead, StillPlace
<1>6. ASSUME Complete(want), Advance(want),
             \/ /\ Cells(want)[1] # kProxyDataTag
                /\ Return("bad free") /\ UNCHANGED dataset
             \/ /\ header' = Cells(want)
                /\ pc' = "body" /\ UNCHANGED <<dataset, ret, writer, still>>
      PROVE  IInv'
  <2> DEFINE w == Cells(want)
  <2>1. /\ w \in Seq(Nat) /\ Len(w) = want /\ pos + want - Len(buf) \in Nat
        /\ \A start \in Nat : version # <<>> /\ InPlace(start) =>
             /\ start + want <= Len(file)
             /\ pos + want - Len(buf) = start + want
             /\ \A i \in 1 .. want : w[i] = Encode(version)[start + i]
    <3>1. Len(buf) <= want
      BY <1>3
    <3> QED BY <3>1, <1>3, <1>6, AllRead
  <2> HIDE DEF w
  <2>2. buf' = <<>> /\ Len(buf') = 0 /\ buf' \in Seq(Nat)
        /\ pos' = pos + want - Len(buf) /\ pos' \in Nat
    <3>1. buf' = <<>> /\ pos' = pos + want - Len(buf)
      BY <1>6 DEF Advance
    <3>2. pos' \in Nat
      BY <3>1, <2>1
    <3>3. <<>> \in Seq(Nat) /\ Len(<<>>) = 0
      OBVIOUS
    <3> QED BY <3>1, <3>2, <3>3
  <2>3. ASSUME NEW at, NEW k, Known(at, k)
        PROVE  w = Words(version[k]) /\ w[1] = kProxyDataTag
               /\ InPlace(at[k] + kProxyDataMember)'
    <3>1. at[k] \in Nat /\ version[k] \in Content(Nat) /\ InPlace(at[k]) /\ version # <<>>
          /\ \A i \in 1 .. kProxyDataMember : Encode(version)[at[k] + i] = Words(version[k])[i]
      <4>1. /\ version \in DataSets /\ at \in Layouts(version) /\ k \in 1 .. Len(version)
            /\ InPlace(at[k]) /\ version # <<>>
        BY <2>3, <1>2 DEF Known
      <4> QED BY <4>1, LayoutFacts
    <3>2. Words(version[k]) \in Seq(Nat) /\ Len(Words(version[k])) = want
          /\ Words(version[k])[1] = kProxyDataTag
      BY <3>1, ContentFacts DEF want
    <3>3. /\ at[k] + want <= Len(file)
          /\ pos + want - Len(buf) = at[k] + want
          /\ \A i \in 1 .. want : w[i] = Encode(version)[at[k] + i]
      BY <2>1, <3>1
    <3>4. \A i \in 1 .. want : w[i] = Words(version[k])[i]
      BY <3>1, <3>3 DEF want
    <3>5. w = Words(version[k])
      <4> DEFINE v == Words(version[k])
      <4>1. v \in Seq(Nat) /\ Len(v) = Len(w) /\ \A i \in 1 .. Len(w) : w[i] = v[i]
        BY <2>1, <3>2, <3>4
      <4> HIDE DEF v
      <4>2. w = v
        BY <4>1, <2>1, SeqEqual
      <4> QED BY <4>2 DEF v
    <3>6. InPlace(at[k] + want)'
      BY <2>2, <3>3, <3>1, <1>2, <1>3 DEF InPlace
    <3> QED BY <3>2, <3>5, <3>6 DEF want
  <2>4. CASE w[1] # kProxyDataTag /\ Return("bad free") /\ UNCHANGED dataset
    <3>1. ret' = "bad free" /\ pc' = "done"
      BY <2>4, Zenon DEF Return
    <3>2. still' = FALSE
      <4>1. ~still
        <5> SUFFICES ASSUME still PROVE FALSE
          OBVIOUS
        <5>1. PICK at, k : Known(at, k)
          BY <1>2, KnownFacts
        <5> QED BY <5>1, <2>3, <2>4
      <4> QED BY <4>1, <1>2, <1>4 DEF Written
    <3>3. Place'
      BY <3>1, <2>2 DEF Place
    <3> QED BY <3>1, <3>2, <3>3, <1>4 DEF IInv, StillPlace, StillFileIsRead
  <2>5. CASE header' = w /\ pc' = "body" /\ UNCHANGED <<dataset, ret, writer, still>>
    <3>1. header' \in Seq(Nat) /\ Len(header') = kProxyDataMember /\ header'[2] \in Nat
      <4>1. w[2] \in Nat
        <5>1. 2 \in 1 .. Len(w)
          BY <2>1 DEF want, kProxyDataMember
        <5> QED BY <5>1, <2>1, ElementOfSeq
      <4> QED BY <4>1, <2>1, <2>5 DEF want
    <3>2. Len(buf') <= header'[2]
      BY <3>1, <2>2
    <3>3. \E k \in 1 .. Len(dataset') : ReadUpTo(k)'
      BY <2>5, <1>3 DEF ReadUpTo
    <3>4. Place'
      BY <3>1, <3>2, <3>3, <2>2, <2>5, <1>3 DEF Place
    <3>5. ASSUME still PROVE StillPlace'
      <4>1. PICK at, k : Known(at, k)
        BY <3>5, <1>2, KnownFacts
      <4>2. InPlace(at[k] + kProxyDataMember)' /\ header' = Words(version[k])
        BY <4>1, <2>3, <2>5
      <4>3. Layouts(version)' = Layouts(version) /\ UNCHANGED <<version, dataset, writing>>
        BY <1>2, <2>5
      <4>4. ReadUpTo(k)'
        BY <4>1, <4>3 DEF Known, ReadUpTo
      <4> QED BY <4>1, <4>2, <4>3, <4>4, <2>5 DEF StillPlace, Known
    <3> QED BY <3>4, <3>5, <2>5, <1>2, <1>4 DEF IInv, StillFileIsRead, StillPlace
  <2> QED BY <2>4, <2>5, <1>6 DEF w
<1> QED BY <1>1, <1>5, <1>6 DEF ReadHeader, want

\* The entry that is to be set is the one in front of which the reader is.
LEMMA CurrentIs ==
  ASSUME NEW S, dataset \in Seq(S), NEW k \in 1 .. Len(dataset), ReadUpTo(k)
  PROVE  Current = k
<1>1. DOMAIN dataset = 1 .. Len(dataset) /\ Len(dataset) \in Nat
  BY LenProperties
<1> DEFINE First(i) == dataset[i] = None /\ \A j \in 1 .. i - 1 : dataset[j] # None
<1>2. First(k)
  BY <1>1 DEF ReadUpTo
<1>3. ASSUME NEW i \in DOMAIN dataset, First(i) PROVE i = k
  <2>1. i >= k /\ i \in 1 .. Len(dataset)
    BY <1>1, <1>3 DEF ReadUpTo
  <2>2. k \notin 1 .. i - 1
    BY <1>2, <1>3
  <2> QED BY <2>1, <2>2, <1>1
<1> HIDE DEF First
<1>4. (CHOOSE i \in DOMAIN dataset : First(i)) = k
  BY <1>1, <1>2, <1>3
<1> QED BY <1>4 DEF Current, First

\* The packet made of a header and of the bytes that were read.
LEMMA PacketFacts ==
  ASSUME Place, pc = "body", NEW b \in Seq(Nat)
  PROVE  Packet(b) \in Content(Nat \cup {None}) /\ Packet(b) # None
<1> DEFINE h == header
           bytes == [i \in 1 .. h[2] |-> IF i \in DOMAIN b THEN b[i] ELSE None]
<1>1. h[2] \in Nat /\ h[3] \in Nat /\ h[4] \in Nat /\ h[5] \in Nat
  BY HeaderFacts
<1>2. \A i \in DOMAIN b : b[i] \in Nat
  BY LenProperties, ElementOfSeq
<1>3. bytes \in [1 .. h[2] -> Nat \cup {None}]
  BY <1>2
<1>4. bytes \in Seq(Nat \cup {None})
  <2> DEFINE m == h[2]
  <2>1. m \in Nat /\ bytes \in [1 .. m -> Nat \cup {None}]
    BY <1>1, <1>3
  <2> HIDE DEF m, bytes, h
  <2> QED BY <2>1, IsASeq
<1>5. Packet(b) = [type |-> h[3], tag |-> h[4], seq |-> h[5], bytes |-> bytes]
  BY DEF Packet
<1> HIDE DEF bytes, h
<1>6. Packet(b) \in Content(Nat \cup {None})
  BY <1>1, <1>4, <1>5 DEF Content
<1> QED BY <1>6, NoneAssumption

\* A packet whose words and bytes have been read is the one that was written.
LEMMA PacketRead ==
  ASSUME NEW p \in Content(Nat), header = Words(p), NEW b \in Seq(Nat),
         Len(b) <= Len(p.bytes), \A i \in 1 .. Len(b) : b[i] = p.bytes[i]
  PROVE  Packet(b) = [p EXCEPT !.bytes =
                        [i \in 1 .. Len(p.bytes) |-> IF i <= Len(b) THEN p.bytes[i] ELSE None]]
<1>1. /\ header[2] = Len(p.bytes) /\ header[3] = p.type /\ header[4] = p.tag
      /\ header[5] = p.seq /\ Len(p.bytes) \in Nat
  BY ContentFacts
<1>2. DOMAIN b = 1 .. Len(b) /\ Len(b) \in Nat
  BY LenProperties
<1> DEFINE c == [i \in 1 .. Len(p.bytes) |-> IF i <= Len(b) THEN p.bytes[i] ELSE None]
           d == [i \in 1 .. Len(p.bytes) |-> IF i \in DOMAIN b THEN b[i] ELSE None]
<1>3. c = d
  BY <1>1, <1>2
<1>4. Packet(b) = [type |-> p.type, tag |-> p.tag, seq |-> p.seq, bytes |-> d]
  BY <1>1 DEF Packet
<1> HIDE DEF c, d
<1>5. [p EXCEPT !.bytes = c] = [type |-> p.type, tag |-> p.tag, seq |-> p.seq, bytes |-> c]
  <2>1. p = [type |-> p.type, tag |-> p.tag, seq |-> p.seq, bytes |-> p.bytes]
    BY DEF Content
  <2> QED BY <2>1
<1> QED BY <1>3, <1>4, <1>5 DEF c

\* In the body of a packet.
LEMMA BodyIInv == ASSUME IInv, ReadBody PROVE IInv'
<1> DEFINE want == header[2]
           S == Content(Nat \cup {None}) \cup {None}
<1>1. CASE ReadSome(want)
  BY <1>1, ReadSomeIInv DEF ReadBody
<1>2. /\ pc = "body" /\ UNCHANGED <<file, toWrite, writing, version, versions, still>>
  <2>1. pc = "body" /\ (UNCHANGED writer /\ UNCHANGED still)
    BY Zenon DEF ReadBody, ReadSome, Return
  <2> QED BY <2>1 DEF writer
<1>3. /\ Written /\ pos \in Nat /\ buf \in Seq(Nat) /\ Len(buf) <= want
      /\ Len(buf) \in Nat /\ Len(file) \in Nat /\ ret = "none" /\ want \in Nat
      /\ dataset \in Seq(S) /\ Place
  BY <1>2, LenProperties, HeaderFacts DEF IInv, Place, Written
<1>4. Written'
  BY <1>2, <1>3 DEF Written
<1> HIDE DEF want
<1>5. PICK k \in 1 .. Len(dataset) : ReadUpTo(k)
  BY <1>2 DEF IInv, Place
<1>6. Current = k /\ Len(dataset) \in Nat
  BY <1>3, <1>5, CurrentIs, LenProperties
<1> HIDE DEF S
\* What is known when the file has not been touched.
<1>7. ASSUME still
      PROVE  /\ version # <<>> /\ version \in DataSets /\ Len(version) = Len(dataset)
             /\ ~writing /\ version[k] \in Content(Nat) /\ want = Len(version[k].bytes)
             /\ header = Words(version[k])
             /\ \A i \in 1 .. k - 1 : dataset[i] = version[i]
             /\ \E at : at \in Layouts(version) /\ InPlace(at[k] + kProxyDataMember)
  <2>1. PICK at, j : Known(at, j)
    BY <1>2, <1>7, KnownFacts
  <2>2. j = k
    <3>1. j \in 1 .. Len(dataset) /\ ReadUpTo(j)
      BY <2>1 DEF Known
    <3> QED BY <3>1, <1>3, <1>6, CurrentIs
  <2>3. version[k] \in Content(Nat) /\ header = Words(version[k])
    BY <2>1, <2>2, <1>2, LayoutFacts DEF Known
  <2>4. want = Len(version[k].bytes)
    BY <2>3, ContentFacts DEF want
  <2> QED BY <2>1, <2>2, <2>3, <2>4, <1>2 DEF Known
<1>8. CASE AtEnd(want) /\ ~IsLast /\ Return("error") /\ UNCHANGED <<dataset, pos, buf>>
  <2>1. ret' = "error" /\ pc' = "done"
    BY <1>8 DEF Return
  <2>2. Place'
    BY <2>1, <1>3, <1>8 DEF Place
  <2>3. ASSUME still PROVE StillFileIsRead' /\ StillPlace'
    <3>1. PICK at : at \in Layouts(version) /\ InPlace(at[k] + kProxyDataMember)
      BY <2>3, <1>7
    <3>2. /\ version # <<>> /\ version \in DataSets /\ Len(version) = Len(dataset)
          /\ want = Len(version[k].bytes) /\ ~writing
      BY <2>3, <1>7
    <3>3. k \in 1 .. Len(version) /\ k # Len(version) /\ k + 1 \in 1 .. Len(version)
      BY <3>2, <1>5, <1>6, <1>8 DEF IsLast
    <3> DEFINE last == at[Len(version)]
               next == at[k + 1]
               start == at[k] + kProxyDataMember
    <3>4. start \in Nat /\ start + want = next
      <4>1. at \in Layouts(version) /\ version \in DataSets /\ k \in 1 .. Len(version)
            /\ k # Len(version) /\ want = Len(version[k].bytes)
        BY <3>1, <3>2, <3>3
      <4> QED BY <4>1, NextPacket
    <3>5. next \in Nat /\ last \in Nat /\ next <= last
      BY <3>1, <3>2, <3>3, LayoutFacts, DataSetFacts
    <3>6. InPlace(start)
      BY <3>1
    <3> HIDE DEF start
    <3>7. Len(file) < start + want
      BY <3>4, <3>6, <1>3, <1>8, EndRead
    <3>8. Len(file) < last + kProxyDataMember
      <4> HIDE DEF last, next
      <4> QED BY <3>4, <3>5, <3>7, <1>3 DEF kProxyDataMember
    <3>9. StillFileIsRead'
      BY <2>1, <3>1, <3>2, <3>8, <1>2, Rejected DEF writer
    <3> QED BY <2>1, <3>2, <3>9, <1>2 DEF StillPlace
  <2> QED BY <2>2, <2>3, <1>2, <1>4 DEF IInv, StillFileIsRead, StillPlace
\* The entry is set.
<1>9. ASSUME NEW b \in Seq(Nat), dataset' = [dataset EXCEPT ![Current] = Packet(b)]
      PROVE  /\ dataset' \in Seq(S) /\ Len(dataset') = Len(dataset)
             /\ dataset'[k] = Packet(b)
             /\ \A i \in 1 .. Len(dataset) : i # k => dataset'[i] = dataset[i]
             /\ k # Len(dataset) => k + 1 \in 1 .. Len(dataset') /\ ReadUpTo(k + 1)'
  <2>1. Packet(b) \in S /\ Packet(b) # None
    BY <1>2, <1>3, PacketFacts DEF S
  <2>2. dataset' = [dataset EXCEPT ![k] = Packet(b)]
    BY <1>6, <1>9
  <2>3. DOMAIN dataset = 1 .. Len(dataset)
    BY <1>3, LenProperties
  <2>4. dataset' \in Seq(S) /\ Len(dataset') = Len(dataset)
    BY <2>1, <2>2, <2>3, <1>3, <1>5, ExceptSeq
  <2>5. /\ dataset'[k] = Packet(b)
        /\ \A i \in 1 .. Len(dataset) : i # k => dataset'[i] = dataset[i]
    BY <2>2, <2>3
  <2>6. \A i \in 1 .. Len(dataset) : dataset'[i] = None <=> i >= k + 1
    BY <2>1, <2>5, <1>5, <1>6 DEF ReadUpTo
  <2> QED BY <2>4, <2>5, <2>6, <1>6 DEF ReadUpTo
\* The last entry is set.
<1>10. ASSUME NEW b \in Seq(Nat), dataset' = [dataset EXCEPT ![Current] = Packet(b)],
              IsLast, Return("ok"), pos' \in Nat, buf' \in Seq(Nat),
              NEW start \in Nat,
              still => /\ Len(b) <= want /\ Len(file) = start + Len(b)
                       /\ \A i \in 1 .. Len(b) : b[i] = Encode(version)[start + i]
                       /\ \E at \in Layouts(version) : start = at[k] + kProxyDataMember
       PROVE  IInv'
  <2>1. ret' = "ok" /\ pc' = "done"
    BY <1>10 DEF Return
  <2>2. Place'
    BY <2>1, <1>10 DEF Place
  <2>3. ASSUME still PROVE StillFileIsRead' /\ StillPlace'
    <3>1. /\ version # <<>> /\ version \in DataSets /\ Len(version) = Len(dataset)
          /\ version[k] \in Content(Nat) /\ want = Len(version[k].bytes)
          /\ ~writing /\ header = Words(version[k])
          /\ \A i \in 1 .. k - 1 : dataset[i] = version[i]
      BY <2>3, <1>7
    <3>2. k = Len(version) /\ Last(version) = version[k] /\ Len(Encode(version)) \in Nat
      BY <3>1, <1>6, <1>10, DataSetFacts, EncodeFacts DEF IsLast
    <3>3. PICK at \in Layouts(version) : start = at[k] + kProxyDataMember
      BY <2>3, <1>10
    <3>4. /\ start + want = Len(Encode(version))
          /\ \A i \in 1 .. want : Encode(version)[start + i] = version[k].bytes[i]
      BY <3>1, <3>2, <3>3, <1>5, LayoutFacts
    <3>5. Len(b) \in Nat /\ Len(b) <= want /\ Len(file) = start + Len(b)
          /\ \A i \in 1 .. Len(b) : b[i] = Encode(version)[start + i]
      BY <2>3, <1>10, LenProperties
    <3> DEFINE kept == Len(Last(version).bytes) - Lacks
               bytes == [i \in 1 .. want |->
                           IF i <= Len(b) THEN version[k].bytes[i] ELSE None]
               right == [version EXCEPT ![Len(version)].bytes =
                          [i \in DOMAIN Last(version).bytes |->
                             IF i <= kept THEN Last(version).bytes[i] ELSE None]]
    <3>6. kept = Len(b)
      <4> DEFINE total == Len(Encode(version))
                 got == Len(b)
                 size == Len(file)
      <4>1. kept = want - (total - size)
        BY <3>1, <3>2 DEF Lacks
      <4>2. total = start + want /\ size = start + got /\ got \in Nat
            /\ start \in Nat /\ want \in Nat
        BY <3>4, <3>5, <1>3, <1>10
      <4> HIDE DEF total, got, size, kept
      <4>3. kept = got
        BY <4>1, <4>2
      <4> QED BY <4>3 DEF got
    <3>7. \A i \in 1 .. Len(b) : b[i] = version[k].bytes[i]
      BY <3>4, <3>5, <1>3
    <3>8. Packet(b) = [version[k] EXCEPT !.bytes = bytes]
      BY <3>1, <3>5, <3>7, PacketRead
    <3>9. DOMAIN version[k].bytes = 1 .. want
      BY <3>1, ContentFacts, LenProperties
    <3>10. right = [version EXCEPT ![k] = [version[k] EXCEPT !.bytes = bytes]]
      <4>1. [i \in DOMAIN Last(version).bytes |->
               IF i <= kept THEN Last(version).bytes[i] ELSE None] = bytes
        BY <3>2, <3>6, <3>9
      <4> HIDE DEF kept, bytes
      <4> QED BY <4>1, <3>2
    <3> HIDE DEF bytes, right, kept
    <3>11. right = [version EXCEPT ![k] = Packet(b)]
      BY <3>8, <3>10
    <3>12. /\ DOMAIN version = 1 .. Len(dataset) /\ DOMAIN dataset' = 1 .. Len(dataset)
           /\ dataset' \in Seq(S)
      BY <3>1, <1>9, <1>10, DataSetFacts, LenProperties
    <3>13. \A i \in 1 .. Len(dataset) : i # k => dataset'[i] = version[i]
      BY <3>1, <3>2, <1>6, <1>9, <1>10
    <3>14. dataset' = right
      <4>1. dataset' = [i \in DOMAIN dataset' |-> dataset'[i]]
        BY <3>12, LenProperties
      <4>2. dataset'[k] = Packet(b)
        BY <1>9, <1>10
      <4> QED BY <4>1, <4>2, <3>11, <3>12, <3>13
    <3>15. kept >= 0
      BY <3>5, <3>6
    <3>16. kept' = kept /\ right' = right
      BY <1>2 DEF kept, right, Lacks
    <3>17. StillFileIsRead'
      <4> DEFINE last1 == Last(version')
                 kept1 == Len(last1.bytes) - Lacks'
      <4>1. kept1 = kept /\ dataset' = [version' EXCEPT ![Len(version')].bytes =
                          [i \in DOMAIN last1.bytes |->
                             IF i <= kept1 THEN last1.bytes[i] ELSE None]]
        BY <3>14, <3>16 DEF kept, right
      <4> QED BY <4>1, <3>15, <2>1 DEF StillFileIsRead
    <3> QED BY <2>1, <3>1, <3>17, <1>2 DEF StillPlace
  <2> QED BY <2>2, <2>3, <1>2, <1>4 DEF IInv, StillFileIsRead, StillPlace
<1>11. CASE /\ AtEnd(want) /\ IsLast /\ Return("ok") /\ UNCHANGED <<pos, buf>>
            /\ dataset' = [dataset EXCEPT ![Current] = Packet(buf)]
  <2>1. CASE still
    <3>1. PICK at : at \in Layouts(version) /\ InPlace(at[k] + kProxyDataMember)
      BY <2>1, <1>7
    <3> DEFINE start == at[k] + kProxyDataMember
    <3>2. start \in Nat
      BY <2>1, <3>1, <1>5, <1>7, LayoutFacts
    <3>3. InPlace(start) /\ \E at1 \in Layouts(version) : start = at1[k] + kProxyDataMember
      BY <3>1
    <3> HIDE DEF start
    <3>4. Len(file) = start + Len(buf)
      BY <3>2, <3>3, <1>3, <1>11, EndRead
    <3>5. \A i \in 1 .. Len(buf) : buf[i] = Encode(version)[start + i]
      BY <3>3 DEF InPlace
    <3>6. /\ Len(buf) <= want /\ Len(file) = start + Len(buf)
          /\ \A i \in 1 .. Len(buf) : buf[i] = Encode(version)[start + i]
          /\ \E at1 \in Layouts(version) : start = at1[k] + kProxyDataMember
      BY <3>3, <3>4, <3>5, <1>3
    <3>7. /\ buf \in Seq(Nat) /\ dataset' = [dataset EXCEPT ![Current] = Packet(buf)]
          /\ IsLast /\ Return("ok") /\ pos' \in Nat /\ buf' \in Seq(Nat)
      BY <1>3, <1>11
    <3> QED BY <3>2, <3>6, <3>7, <1>10
  <2>2. CASE ~still
    BY <2>2, <1>3, <1>10, <1>11
  <2> QED BY <2>1, <2>2
<1>12. ASSUME Complete(want), Advance(want),
              dataset' = [dataset EXCEPT ![Current] = Packet(Cells(want))],
              IF IsLast THEN Return("ok")
              ELSE pc' = "header" /\ UNCHANGED <<header, ret, writer, still>>
       PROVE  IInv'
  <2> DEFINE b == Cells(want)
  <2>1. /\ b \in Seq(Nat) /\ Len(b) = want /\ pos + want - Len(buf) \in Nat
        /\ \A start \in Nat : version # <<>> /\ InPlace(start) =>
             /\ start + want <= Len(file)
             /\ pos + want - Len(buf) = start + want
             /\ \A i \in 1 .. want : b[i] = Encode(version)[start + i]
    BY <1>3, <1>12, AllRead
  <2>2. dataset' = [dataset EXCEPT ![Current] = Packet(b)]
    BY <1>12
  <2> HIDE DEF b
  <2>3. buf' = <<>> /\ Len(buf') = 0 /\ buf' \in Seq(Nat)
        /\ pos' = pos + want - Len(buf) /\ pos' \in Nat
    <3>1. buf' = <<>> /\ pos' = pos + want - Len(buf)
      BY <1>12 DEF Advance
    <3>2. pos' \in Nat
      BY <3>1, <2>1
    <3>3. <<>> \in Seq(Nat) /\ Len(<<>>) = 0
      OBVIOUS
    <3> QED BY <3>1, <3>2, <3>3
  \* What is known of a file nobody writes.
  <2>4. ASSUME still
        PROVE  \E at \in Layouts(version) :
                 LET start == at[k] + kProxyDataMember IN
                 /\ start \in Nat /\ version # <<>> /\ version \in DataSets
                 /\ start + want <= Len(file) /\ pos' = start + want
                 /\ \A i \in 1 .. want : b[i] = Encode(version)[start + i]
    <3>1. PICK at : at \in Layouts(version) /\ InPlace(at[k] + kProxyDataMember)
      BY <2>4, <1>7
    <3>2. version # <<>> /\ version \in DataSets /\ k \in 1 .. Len(version)
      BY <2>4, <1>5, <1>7
    <3> DEFINE start == at[k] + kProxyDataMember
    <3>3. start \in Nat /\ InPlace(start)
      BY <3>1, <3>2, LayoutFacts
    <3> HIDE DEF start
    <3>4. /\ start + want <= Len(file) /\ pos' = start + want
          /\ \A i \in 1 .. want : b[i] = Encode(version)[start + i]
      BY <3>2, <3>3, <2>1, <2>3
    <3> QED BY <3>1, <3>2, <3>3, <3>4 DEF start
  <2>5. CASE IsLast
    <3>1. Return("ok")
      BY <2>5, <1>12
    <3>2. CASE still
      <4>1. PICK at \in Layouts(version) :
                 LET start == at[k] + kProxyDataMember IN
                 /\ start \in Nat /\ version # <<>> /\ version \in DataSets
                 /\ start + want <= Len(file) /\ pos' = start + want
                 /\ \A i \in 1 .. want : b[i] = Encode(version)[start + i]
        BY <2>4, <3>2
      <4> DEFINE start == at[k] + kProxyDataMember
      <4>2. /\ start \in Nat /\ version # <<>> /\ version \in DataSets
            /\ start + want <= Len(file)
            /\ \A i \in 1 .. want : b[i] = Encode(version)[start + i]
            /\ \E at1 \in Layouts(version) : start = at1[k] + kProxyDataMember
        BY <4>1
      <4>3. start + want = Len(Encode(version))
        <5>1. k = Len(version) /\ want = Len(version[k].bytes) /\ k \in 1 .. Len(version)
          BY <2>5, <3>2, <1>5, <1>6, <1>7 DEF IsLast
        <5> QED BY <5>1, <4>2, LayoutFacts
      <4> HIDE DEF start
      <4>4. Len(file) <= Len(Encode(version)) /\ Len(Encode(version)) \in Nat
        BY <4>2, <1>3, EncodeFacts DEF Written
      <4>5. Len(file) = start + Len(b)
        BY <4>2, <4>3, <4>4, <2>1, <1>3
      <4>6. /\ Len(b) <= want /\ Len(file) = start + Len(b)
            /\ \A i \in 1 .. Len(b) : b[i] = Encode(version)[start + i]
            /\ \E at1 \in Layouts(version) : start = at1[k] + kProxyDataMember
        BY <4>2, <4>5, <2>1, <1>3
      <4> QED BY <4>2, <4>6, <3>1, <2>1, <2>2, <2>3, <2>5, <1>10
    <3>3. CASE ~still
      BY <3>1, <3>3, <2>1, <2>2, <2>3, <2>5, <1>10
    <3> QED BY <3>2, <3>3
  <2>6. CASE ~IsLast
    <3>1. pc' = "header" /\ UNCHANGED <<header, ret, writer, still>>
      BY <2>6, <1>12
    <3>2. k # Len(dataset)
      BY <2>6, <1>6 DEF IsLast
    <3>3. /\ dataset' \in Seq(S) /\ Len(dataset') = Len(dataset)
          /\ dataset'[k] = Packet(b)
          /\ \A i \in 1 .. Len(dataset) : i # k => dataset'[i] = dataset[i]
          /\ k + 1 \in 1 .. Len(dataset') /\ ReadUpTo(k + 1)'
      BY <3>2, <2>1, <2>2, <1>9
    <3>4. Place'
      BY <3>1, <3>3, <2>3, <1>3 DEF Place, S, kProxyDataMember
    <3>5. ASSUME still PROVE StillPlace'
      <4>1. PICK at \in Layouts(version) :
                 LET start == at[k] + kProxyDataMember IN
                 /\ start \in Nat /\ version # <<>> /\ version \in DataSets
                 /\ start + want <= Len(file) /\ pos' = start + want
                 /\ \A i \in 1 .. want : b[i] = Encode(version)[start + i]
        BY <2>4, <3>5
      <4> DEFINE start == at[k] + kProxyDataMember
      <4>2. /\ start \in Nat /\ version # <<>> /\ version \in DataSets
            /\ start + want <= Len(file) /\ pos' = start + want
            /\ \A i \in 1 .. want : b[i] = Encode(version)[start + i]
        BY <4>1
      <4>3. /\ Len(version) = Len(dataset) /\ version[k] \in Content(Nat)
            /\ want = Len(version[k].bytes) /\ header = Words(version[k]) /\ ~writing
            /\ \A i \in 1 .. k - 1 : dataset[i] = version[i]
        BY <3>5, <1>7
      <4>4. /\ start + want = at[k + 1]
            /\ \A i \in 1 .. want : Encode(version)[start + i] = version[k].bytes[i]
        <5>1. at \in Layouts(version) /\ version \in DataSets /\ k \in 1 .. Len(version)
              /\ k # Len(version) /\ want = Len(version[k].bytes)
          BY <4>2, <4>3, <3>2, <1>5
        <5>2. start + want = at[k + 1]
          BY <5>1, NextPacket
        <5>3. \A i \in 1 .. want : Encode(version)[start + i] = version[k].bytes[i]
          BY <5>1, LayoutFacts
        <5> QED BY <5>2, <5>3
      <4> HIDE DEF start
      <4>5. InPlace(at[k + 1])'
        BY <4>2, <4>4, <2>3, <1>2, <1>3 DEF InPlace
      <4>6. Packet(b) = version[k]
        <5> DEFINE p == version[k]
                   c == [i \in 1 .. Len(p.bytes) |-> IF i <= Len(b) THEN p.bytes[i] ELSE None]
        <5>1. Packet(b) = [p EXCEPT !.bytes = c]
          <6>1. p \in Content(Nat) /\ header = Words(p) /\ b \in Seq(Nat)
            BY <4>3, <2>1
          <6>2. Len(b) = Len(p.bytes) /\ Len(b) <= Len(p.bytes)
            <7>1. Len(b) = want /\ want = Len(p.bytes)
              BY <4>3, <2>1
            <7> HIDE DEF p
            <7> QED BY <7>1, <1>3
          <6>3. \A i \in 1 .. Len(b) : b[i] = p.bytes[i]
            BY <4>2, <4>4, <2>1
          <6> HIDE DEF p
          <6> QED BY <6>1, <6>2, <6>3, PacketRead
        <5>2. p \in Content(Nat) /\ p.bytes \in Seq(Nat) /\ DOMAIN p.bytes = 1 .. Len(p.bytes)
          BY <4>3, ContentFacts, LenProperties
        <5>3. c = [i \in 1 .. Len(p.bytes) |-> p.bytes[i]]
          BY <4>3, <2>1
        <5>4. c = p.bytes
          BY <5>2, <5>3, LenProperties
        <5> HIDE DEF c, p
        <5>5. [p EXCEPT !.bytes = p.bytes] = p
          BY <5>2 DEF Content
        <5> QED BY <5>1, <5>4, <5>5 DEF p
      <4>7. \A i \in 1 .. k + 1 - 1 : dataset'[i] = version[i]
        <5> SUFFICES ASSUME NEW i \in 1 .. k + 1 - 1 PROVE dataset'[i] = version[i]
          OBVIOUS
        <5>1. i \in 1 .. Len(dataset) /\ (i # k => i \in 1 .. k - 1)
          BY <1>5, <1>6
        <5> QED BY <5>1, <4>3, <4>6, <3>3
      <4>8. Layouts(version)' = Layouts(version) /\ UNCHANGED <<version, writing>>
        BY <1>2
      <4>9. k + 1 \in 1 .. Len(version)' /\ Len(dataset') = Len(version')
        BY <4>3, <4>8, <3>3
      <4> QED BY <4>2, <4>3, <4>5, <4>7, <4>8, <4>9, <3>1, <3>3 DEF StillPlace
    <3> QED BY <3>1, <3>4, <3>5, <1>2, <1>4 DEF IInv, StillFileIsRead, StillPlace
  <2> QED BY <2>5, <2>6
<1> QED BY <1>1, <1>8, <1>11, <1>12 DEF ReadBody, want

-----------------------------------------------------------------------------
(* Theorems.                                                               *)

LEMMA NextIInv == ASSUME IInv, [Next]_vars PROVE IInv'
<1>1. CASE UNCHANGED vars
  <2>1. /\ UNCHANGED <<file, toWrite, writing, version, versions, still>>
        /\ UNCHANGED <<pc, pos, buf, header, dataset, ret>>
    BY <1>1 DEF vars, writer, reader
  <2>2. Written'
    BY <2>1 DEF IInv, Written
  <2>3. Place'
    BY <2>1, Zenon DEF IInv, Place, ReadUpTo
  <2>4. StillPlace'
    <3>1. \A k : ReadUpTo(k)' <=> ReadUpTo(k)
      BY <2>1 DEF ReadUpTo
    <3>2. \A start : InPlace(start)' <=> InPlace(start)
      BY <2>1 DEF InPlace
    <3>3. Layouts(version)' = Layouts(version)
      BY <2>1
    <3> QED BY <2>1, <3>1, <3>2, <3>3 DEF IInv, StillPlace
  <2>5. StillFileIsRead'
    BY <2>1, Zenon DEF IInv, StillFileIsRead, Lacks
  <2> QED BY <2>2, <2>3, <2>4, <2>5 DEF IInv
<1> QED BY <1>1, OpenTruncateIInv, WriteIInv, CloseIInv, OpenIInv, SetHeaderIInv,
           HeaderIInv, BodyIInv
    DEF Next, Writing, Reading

\* The reader, wherever it is in a file that may be cut or written again.
THEOREM Inductive == Spec => []IInv
<1>1. IInv /\ [Next]_vars => IInv'
  BY NextIInv
<1> QED BY <1>1, InitIInv, PTL DEF Spec

\* The types of the reader's and the writer's variables (tunnel_data.cc), and
\* that do_read_proxy_data has an unset entry of dataset to set whenever it
\* runs, even in a file that is written again while it is read.
THEOREM TypeCorrect == Spec => []TypeOK
<1>1. IInv => TypeOK
  <2> SUFFICES ASSUME IInv PROVE TypeOK
    OBVIOUS
  <2>1. pc \in {"header", "body"} => \E i \in DOMAIN dataset : dataset[i] = None
    <3> SUFFICES ASSUME pc \in {"header", "body"}
                 PROVE  \E i \in DOMAIN dataset : dataset[i] = None
      OBVIOUS
    <3>1. PICK k \in 1 .. Len(dataset) : ReadUpTo(k)
      BY DEF IInv, Place
    <3>2. dataset \in Seq(Content(Nat \cup {None}) \cup {None})
      BY DEF IInv, Place
    <3>3. DOMAIN dataset = 1 .. Len(dataset) /\ Len(dataset) \in Nat
      BY <3>2, LenProperties
    <3> QED BY <3>1, <3>3 DEF ReadUpTo
  <2> QED BY <2>1 DEF IInv, Written, Place, TypeOK
<1> QED BY <1>1, Inductive, PTL

\* A file nobody writes while it is read is accepted exactly when it lacks no
\* more than bytes of its last packet's body, and what is accepted is what was
\* written (proxy_data_to_file, proxy_data_from_file), for data sets of every
\* length with bodies of every length: Layouts says where in the file each
\* packet starts, and InPlace that the reader is there.
THEOREM StillFilesAreRead == Spec => []StillFileIsRead
<1>1. IInv => StillFileIsRead
  BY DEF IInv
<1> QED BY <1>1, Inductive, PTL
=============================================================================
