--------------------------- MODULE MailPathProofs ---------------------------
(***************************************************************************)
(* Theorems about MailPath, for every choice of its constants.             *)
(***************************************************************************)
EXTENDS MailPath, SequenceTheorems, TLAPS

-----------------------------------------------------------------------------
(* The inductive invariant.                                                *)

Writing == pc \in {"write", "hand"}

\* Every second in which a file was opened has taken a packet, so that the
\* names last.
Left == made - Len(queue) - (IF pc \in {"fetch", "open"} THEN Len(dataset) ELSE 0)
SecondsCounted ==
  /\ Len(queue) + Len(dataset) <= made
  /\ pc = "wait" => dataset = <<>>
  /\ pc = "open" => dataset # <<>>
  /\ second <= Left + 1
  /\ outbox[second] # None => second <= Left
  /\ \A n \in Name : n > second => outbox[n] = None
  /\ fname <= second

\* A name that a stage has still to read is that of a file, and mails carry
\* files that were closed.
FilesExist ==
  /\ Writing => outbox[fname] # None
  /\ pc = "hand" => outbox[fname].state = "whole"
  /\ \A i \in DOMAIN dgrams : outbox[dgrams[i]] # None
  /\ daemon = "none" => dgrams = <<>>
  /\ \A i \in DOMAIN notices : inbox[notices[i]] # None
  /\ \A i \in DOMAIN mails :
       mails[i].file.state # "open" /\ outbox[mails[i].name] # None
  /\ script # None =>
       script.file.state # "open" /\ outbox[script.name] # None

\* As long as no file was reopened in flight, the attachment of a name that
\* is in flight is everywhere the file as the mail thread closed it.
Faithful ==
  /\ \A i \in DOMAIN dgrams : outbox[dgrams[i]].state = "whole"
  /\ \A i \in DOMAIN mails :
       mails[i].file = outbox[mails[i].name] /\ mails[i].file.state = "whole"
  /\ script # None =>
       script.file = outbox[script.name] /\ script.file.state = "whole"
  /\ \A i \in DOMAIN notices :
       /\ inbox[notices[i]] = outbox[notices[i]]
       /\ outbox[notices[i]] # None /\ outbox[notices[i]].state = "whole"

Sorted(s) == \A i, j \in DOMAIN s : i < j => s[i] < s[j]
Precedes(s, t) == \A i \in DOMAIN s, j \in DOMAIN t : s[i] < t[j]
Disjoint(s, t) == \A i \in DOMAIN s, j \in DOMAIN t : s[i] # t[j]
Distinct(s) == \A i, j \in DOMAIN s : s[i] = s[j] => i = j
UpTo(s, k) == \A i \in DOMAIN s : s[i] <= k
Under(s, e) == \A i \in DOMAIN s : s[i] < e
Over(e, s) == \A i \in DOMAIN s : e < s[i]

\* A name is in one place only.
OnePlace ==
  /\ Distinct(dgrams) /\ Distinct(notices)
  /\ \A i, j \in DOMAIN mails : mails[i].name = mails[j].name => i = j
  /\ \A i \in DOMAIN dgrams, j \in DOMAIN mails : dgrams[i] # mails[j].name
  /\ Disjoint(dgrams, notices)
  /\ \A i \in DOMAIN mails, j \in DOMAIN notices : mails[i].name # notices[j]
  /\ script # None =>
       /\ \A i \in DOMAIN dgrams : dgrams[i] # script.name
       /\ \A i \in DOMAIN mails : mails[i].name # script.name
       /\ \A i \in DOMAIN notices : notices[i] # script.name

Data(n) == outbox[n].data

\* The names in flight are older than the file being written, and the older
\* a file, the older its packets; the youngest ones are in the queue.
SourceOrder ==
  /\ Sorted(queue) /\ Sorted(dataset) /\ Precedes(dataset, queue)
  /\ UpTo(queue, made) /\ UpTo(dataset, made)
FlightOrder ==
  /\ Writing => Data(fname) = dataset
  /\ \A n \in Name : InFlight(n) =>
       /\ n <= second
       /\ Writing => n < fname
       /\ Sorted(Data(n))
       /\ Precedes(Data(n), dataset) /\ Precedes(Data(n), queue)
       /\ UpTo(Data(n), made)
  /\ \A m, n \in Name :
       InFlight(m) /\ InFlight(n) /\ m < n => Precedes(Data(m), Data(n))

\* What has been read is older than what is still to be written, and not in
\* flight.
GotOnce ==
  /\ Distinct(got) /\ UpTo(got, made)
  /\ \A i \in DOMAIN got : got[i] # Garbled
  /\ Precedes(got, dataset) /\ Precedes(got, queue)
  /\ \A n \in Name : InFlight(n) => Disjoint(got, Data(n))

Untorn == Faithful /\ OnePlace /\ FlightOrder /\ GotOnce

\* As long as mails keep their order too, names are in flight in the order
\* of their seconds.
NamesInOrder ==
  /\ Sorted(dgrams) /\ Sorted(notices)
  /\ \A i, j \in DOMAIN mails : i < j => mails[i].name < mails[j].name
  /\ Precedes(notices, dgrams)
  /\ \A i \in DOMAIN notices, j \in DOMAIN mails : notices[i] < mails[j].name
  /\ \A i \in DOMAIN mails, j \in DOMAIN dgrams : mails[i].name < dgrams[j]
  /\ script # None =>
       /\ Under(notices, script.name) /\ Over(script.name, dgrams)
       /\ \A i \in DOMAIN mails : script.name < mails[i].name
GotSorted ==
  /\ Sorted(got)
  /\ \A n \in Name : InFlight(n) => Precedes(got, Data(n))
  /\ reader = "up"
Orderly == NamesInOrder /\ GotSorted

IInv ==
  /\ TypeOK /\ SecondsCounted /\ FilesExist /\ SourceOrder
  /\ "torn" \notin broken => Untorn
  /\ broken \subseteq {"dropped"} => Orderly

-----------------------------------------------------------------------------
(* Sequences.                                                              *)

LEMMA SeqFacts == ASSUME NEW S, NEW s \in Seq(S)
                  PROVE  /\ DOMAIN s = 1..Len(s) /\ Len(s) \in Nat
                         /\ \A i \in DOMAIN s : s[i] \in S
                         /\ s = <<>> <=> Len(s) = 0
<1>1. DOMAIN s = 1..Len(s) /\ Len(s) \in Nat
  BY LenProperties
<1>2. \A i \in DOMAIN s : s[i] \in S
  BY <1>1, ElementOfSeq
<1>3. s = <<>> <=> Len(s) = 0
  BY EmptySeq
<1> QED BY <1>1, <1>2, <1>3

LEMMA SeqMono == ASSUME NEW S, NEW T, S \subseteq T, NEW s \in Seq(S)
                 PROVE  s \in Seq(T)
<1>1. PICK n \in Nat : s \in [1..n -> S]
  BY SeqDef
<1>2. s \in [1..n -> T]
  BY <1>1
<1> QED BY <1>2, SeqDef

LEMMA AppendFacts == ASSUME NEW S, NEW s \in Seq(S), NEW e \in S
                     PROVE  /\ Append(s, e) \in Seq(S)
                            /\ Len(Append(s, e)) = Len(s) + 1
                            /\ DOMAIN Append(s, e) = 1..(Len(s) + 1)
                            /\ \A i \in DOMAIN s : Append(s, e)[i] = s[i]
                            /\ Append(s, e)[Len(s) + 1] = e
<1>1. /\ Append(s, e) \in Seq(S) /\ Len(Append(s, e)) = Len(s) + 1
      /\ \A i \in 1..Len(s) : Append(s, e)[i] = s[i]
      /\ Append(s, e)[Len(s) + 1] = e
  BY AppendProperties
<1>2. DOMAIN Append(s, e) = 1..(Len(s) + 1)
  BY <1>1, SeqFacts
<1> QED BY <1>1, <1>2, SeqFacts

LEMMA TailFacts == ASSUME NEW S, NEW s \in Seq(S), s # <<>>
                   PROVE  /\ Tail(s) \in Seq(S) /\ Len(Tail(s)) = Len(s) - 1
                          /\ DOMAIN Tail(s) = 1..(Len(s) - 1)
                          /\ \A i \in DOMAIN Tail(s) : Tail(s)[i] = s[i + 1]
                          /\ Head(s) = s[1] /\ Head(s) \in S
                          /\ Len(s) >= 1
<1>1. /\ Tail(s) \in Seq(S) /\ Len(Tail(s)) = Len(s) - 1
      /\ \A i \in 1..Len(Tail(s)) : Tail(s)[i] = s[i + 1]
      /\ Head(s) \in S
  BY HeadTailProperties
<1>2. DOMAIN Tail(s) = 1..(Len(s) - 1) /\ Len(s) >= 1
  BY <1>1, SeqFacts
<1>3. Head(s) = s[1]
  OBVIOUS
<1> QED BY <1>1, <1>2, <1>3

LEMMA ConcatFacts ==
  ASSUME NEW S, NEW s \in Seq(S), NEW t \in Seq(S)
  PROVE  /\ s \o t \in Seq(S) /\ Len(s \o t) = Len(s) + Len(t)
         /\ DOMAIN (s \o t) = 1..(Len(s) + Len(t))
         /\ \A i \in DOMAIN s : (s \o t)[i] = s[i]
         /\ \A i \in DOMAIN (s \o t) :
              i \notin DOMAIN s => i - Len(s) \in DOMAIN t
                                     /\ (s \o t)[i] = t[i - Len(s)]
<1>1. /\ s \o t \in Seq(S) /\ Len(s \o t) = Len(s) + Len(t)
      /\ \A i \in 1..(Len(s) + Len(t)) :
           (s \o t)[i] = IF i <= Len(s) THEN s[i] ELSE t[i - Len(s)]
  BY ConcatProperties
<1>2. DOMAIN (s \o t) = 1..(Len(s) + Len(t))
  BY <1>1, SeqFacts
<1>3. /\ DOMAIN s = 1..Len(s) /\ DOMAIN t = 1..Len(t)
      /\ Len(s) \in Nat /\ Len(t) \in Nat
  BY SeqFacts
<1>4. \A i \in DOMAIN s : (s \o t)[i] = s[i]
  BY <1>1, <1>3
<1>5. \A i \in DOMAIN (s \o t) :
        i \notin DOMAIN s => i - Len(s) \in DOMAIN t
                               /\ (s \o t)[i] = t[i - Len(s)]
  BY <1>1, <1>2, <1>3
<1> QED BY <1>1, <1>2, <1>4, <1>5

\* RemoveAt moves the elements behind the hole by one place.
LEMMA RemoveFacts ==
  ASSUME NEW S, NEW s \in Seq(S), NEW k \in DOMAIN s
  PROVE  /\ RemoveAt(s, k) \in Seq(S)
         /\ DOMAIN RemoveAt(s, k) = 1..(Len(s) - 1)
         /\ Len(RemoveAt(s, k)) = Len(s) - 1
         /\ \A i \in DOMAIN RemoveAt(s, k) :
              /\ i < k => i \in DOMAIN s /\ RemoveAt(s, k)[i] = s[i]
              /\ i >= k => i + 1 \in DOMAIN s /\ RemoveAt(s, k)[i] = s[i + 1]
<1> DEFINE l == SubSeq(s, 1, k - 1)
           r == SubSeq(s, k + 1, Len(s))
<1>1. DOMAIN s = 1..Len(s) /\ Len(s) \in Nat /\ k \in 1..Len(s)
      /\ \A i \in 1..Len(s) : s[i] \in S
  BY SeqFacts
<1>2. /\ l \in Seq(S) /\ Len(l) = k - 1
      /\ \A i \in 1..(k - 1) : l[i] = s[i]
  <2>1. \A i \in 1..(k - 1) : s[i] \in S
    BY <1>1
  <2>2. /\ l \in Seq(S)
        /\ Len(l) = (IF 1 <= k - 1 THEN (k - 1) - 1 + 1 ELSE 0)
        /\ \A i \in 1..((k - 1) - 1 + 1) : l[i] = s[1 + i - 1]
    BY <1>1, <2>1, SubSeqProperties
  <2> QED BY <1>1, <2>2
<1>3. /\ r \in Seq(S) /\ Len(r) = Len(s) - k
      /\ \A i \in 1..(Len(s) - k) : r[i] = s[k + i]
  <2>1. \A i \in (k + 1)..Len(s) : s[i] \in S
    BY <1>1
  <2>2. /\ r \in Seq(S)
        /\ Len(r) = (IF k + 1 <= Len(s) THEN Len(s) - (k + 1) + 1 ELSE 0)
        /\ \A i \in 1..(Len(s) - (k + 1) + 1) : r[i] = s[k + 1 + i - 1]
    BY <1>1, <2>1, SubSeqProperties
  <2>3. Len(r) = Len(s) - k
    BY <1>1, <2>2
  <2>4. \A i \in 1..(Len(s) - k) : i \in 1..(Len(s) - (k + 1) + 1) /\ k + 1 + i - 1 = k + i
    BY <1>1
  <2>5. \A i \in 1..(Len(s) - k) : r[i] = s[k + i]
    BY <2>2, <2>4
  <2> QED BY <2>2, <2>3, <2>5
<1>4. RemoveAt(s, k) = l \o r
  BY DEF RemoveAt
<1> HIDE DEF l, r
<1>5. /\ l \o r \in Seq(S) /\ Len(l \o r) = Len(s) - 1
      /\ \A i \in 1..(Len(s) - 1) :
           (l \o r)[i] = IF i <= k - 1 THEN l[i] ELSE r[i - (k - 1)]
  <2>1. Len(l) + Len(r) = Len(s) - 1
    BY <1>1, <1>2, <1>3
  <2>2. /\ l \o r \in Seq(S) /\ Len(l \o r) = Len(l) + Len(r)
        /\ \A i \in 1..(Len(l) + Len(r)) :
             (l \o r)[i] = IF i <= Len(l) THEN l[i] ELSE r[i - Len(l)]
    BY <1>2, <1>3, ConcatProperties
  <2> QED BY <1>2, <2>1, <2>2
<1>6. DOMAIN (l \o r) = 1..(Len(s) - 1)
  BY <1>5, SeqFacts
<1>7. \A i \in 1..(Len(s) - 1) :
        /\ i < k => i \in DOMAIN s /\ (l \o r)[i] = s[i]
        /\ i >= k => i + 1 \in DOMAIN s /\ (l \o r)[i] = s[i + 1]
  BY <1>1, <1>2, <1>3, <1>5
<1> QED BY <1>4, <1>5, <1>6, <1>7

-----------------------------------------------------------------------------
(* Sequences of numbers.                                                   *)

LEMMA Empty ==
  /\ Sorted(<<>>)
  /\ \A s : Precedes(<<>>, s) /\ Precedes(s, <<>>)
  /\ \A k : UpTo(<<>>, k) /\ Under(<<>>, k) /\ Over(k, <<>>)
BY DEF Sorted, Precedes, UpTo, Under, Over

LEMMA UpToFacts ==
  ASSUME NEW s \in Seq(Nat), NEW k \in Nat, UpTo(s, k)
  PROVE  UpTo(s, k + 1) /\ Under(s, k + 1)
<1>1. \A i \in DOMAIN s : s[i] \in Nat
  BY SeqFacts
<1> QED BY <1>1 DEF UpTo, Under

LEMMA SortedDistinct ==
  ASSUME NEW s \in Seq(Nat), Sorted(s) PROVE Distinct(s)
<1>1. \A i, j \in DOMAIN s : i \in Nat /\ j \in Nat /\ s[i] \in Nat /\ s[j] \in Nat
  BY SeqFacts
<1>2. \A i, j \in DOMAIN s : i = j \/ i < j \/ j < i
  BY <1>1
<1>3. \A i, j \in DOMAIN s : i < j => s[i] # s[j]
  BY <1>1 DEF Sorted
<1> QED BY <1>2, <1>3 DEF Distinct

LEMMA OrderAppend ==
  ASSUME NEW s \in Seq(Nat), NEW e \in Nat
  PROVE  /\ Sorted(s) /\ Under(s, e) => Sorted(Append(s, e))
         /\ \A k : UpTo(s, k) /\ e <= k => UpTo(Append(s, e), k)
         /\ \A t \in Seq(Nat) :
              /\ Precedes(t, s) /\ Under(t, e) => Precedes(t, Append(s, e))
              /\ Precedes(s, t) /\ Over(e, t) => Precedes(Append(s, e), t)
<1> DEFINE a == Append(s, e)
<1>1. /\ DOMAIN s = 1..Len(s) /\ Len(s) \in Nat
      /\ \A i \in DOMAIN s : s[i] \in Nat /\ a[i] = s[i]
      /\ DOMAIN a = 1..(Len(s) + 1) /\ a[Len(s) + 1] = e
  BY SeqFacts, AppendFacts
<1> HIDE DEF a
<1>2. \A i \in DOMAIN a : i \in DOMAIN s \/ i = Len(s) + 1
  BY <1>1
<1>3. Sorted(s) /\ Under(s, e) => Sorted(a)
  BY <1>1, <1>2 DEF Sorted, Under
<1>4. \A k : UpTo(s, k) /\ e <= k => UpTo(a, k)
  BY <1>1, <1>2 DEF UpTo
<1>5. \A t \in Seq(Nat) :
        /\ Precedes(t, s) /\ Under(t, e) => Precedes(t, a)
        /\ Precedes(s, t) /\ Over(e, t) => Precedes(a, t)
  BY <1>1, <1>2 DEF Precedes, Under, Over
<1> QED BY <1>3, <1>4, <1>5 DEF a

LEMMA OrderTail ==
  ASSUME NEW s \in Seq(Nat), s # <<>>
  PROVE  /\ Sorted(s) => Sorted(Tail(s)) /\ Over(Head(s), Tail(s))
         /\ \A k : UpTo(s, k) => UpTo(Tail(s), k) /\ Head(s) <= k
         /\ \A t : Precedes(s, t) => Precedes(Tail(s), t) /\ Over(Head(s), t)
         /\ \A t : Precedes(t, s) => Precedes(t, Tail(s)) /\ Under(t, Head(s))
<1> DEFINE a == Tail(s)
           h == Head(s)
<1>1. /\ DOMAIN s = 1..Len(s) /\ Len(s) \in Nat /\ Len(s) >= 1
      /\ DOMAIN a = 1..(Len(s) - 1)
      /\ \A i \in DOMAIN a : a[i] = s[i + 1]
      /\ h = s[1]
  BY SeqFacts, TailFacts
<1> HIDE DEF a, h
<1>2. \A i \in DOMAIN a : i + 1 \in DOMAIN s /\ 1 < i + 1 /\ 1 \in DOMAIN s
  BY <1>1
<1>3. \A i, j \in DOMAIN a : i < j => i + 1 < j + 1
  BY <1>1
<1>4. 1 \in DOMAIN s
  BY <1>1
<1>5. Sorted(s) => Sorted(a) /\ Over(h, a)
  BY <1>1, <1>2, <1>3 DEF Sorted, Over
<1>6. \A k : UpTo(s, k) => UpTo(a, k) /\ h <= k
  BY <1>1, <1>2, <1>4 DEF UpTo
<1>7. \A t : Precedes(s, t) => Precedes(a, t) /\ Over(h, t)
  BY <1>1, <1>2, <1>4 DEF Precedes, Over
<1>8. \A t : Precedes(t, s) => Precedes(t, a) /\ Under(t, h)
  BY <1>1, <1>2, <1>4 DEF Precedes, Under
<1> QED BY <1>5, <1>6, <1>7, <1>8 DEF a, h

LEMMA OrderConcat ==
  ASSUME NEW s \in Seq(Nat), NEW t \in Seq(Nat)
  PROVE  /\ Sorted(s) /\ Sorted(t) /\ Precedes(s, t) => Sorted(s \o t)
         /\ Distinct(s) /\ Distinct(t) /\ Disjoint(s, t) => Distinct(s \o t)
         /\ \A k : UpTo(s, k) /\ UpTo(t, k) => UpTo(s \o t, k)
         /\ \A u : Precedes(s, u) /\ Precedes(t, u) => Precedes(s \o t, u)
         /\ \A u : Disjoint(s, u) /\ Disjoint(t, u) => Disjoint(s \o t, u)
<1> DEFINE a == s \o t
<1>1. /\ DOMAIN s = 1..Len(s) /\ DOMAIN t = 1..Len(t)
      /\ Len(s) \in Nat /\ Len(t) \in Nat
      /\ DOMAIN a = 1..(Len(s) + Len(t))
      /\ \A i \in DOMAIN s : a[i] = s[i]
      /\ \A i \in DOMAIN a :
           i \notin DOMAIN s => i - Len(s) \in DOMAIN t /\ a[i] = t[i - Len(s)]
  BY SeqFacts, ConcatFacts
<1> HIDE DEF a
<1>2. \A i, j \in DOMAIN a : i < j =>
        /\ j \in DOMAIN s => i \in DOMAIN s
        /\ i - Len(s) < j - Len(s)
  BY <1>1
<1>3. Sorted(s) /\ Sorted(t) /\ Precedes(s, t) => Sorted(a)
  <2> SUFFICES ASSUME Sorted(s), Sorted(t), Precedes(s, t),
                      NEW i \in DOMAIN a, NEW j \in DOMAIN a, i < j
               PROVE  a[i] < a[j]
    BY DEF Sorted
  <2>1. CASE j \in DOMAIN s
    BY <1>1, <1>2, <2>1 DEF Sorted
  <2>2. CASE i \notin DOMAIN s /\ j \notin DOMAIN s
    BY <1>1, <1>2, <2>2 DEF Sorted
  <2>3. CASE i \in DOMAIN s /\ j \notin DOMAIN s
    BY <1>1, <2>3 DEF Precedes
  <2> QED BY <2>1, <2>2, <2>3
<1>4. Distinct(s) /\ Distinct(t) /\ Disjoint(s, t) => Distinct(a)
  <2> SUFFICES ASSUME Distinct(s), Distinct(t), Disjoint(s, t),
                      NEW i \in DOMAIN a, NEW j \in DOMAIN a, a[i] = a[j]
               PROVE  i = j
    BY DEF Distinct
  <2>1. CASE i \in DOMAIN s /\ j \in DOMAIN s
    BY <1>1, <2>1 DEF Distinct
  <2>2. CASE i \notin DOMAIN s /\ j \notin DOMAIN s
    <3>1. i - Len(s) = j - Len(s)
      BY <1>1, <2>2 DEF Distinct
    <3> QED BY <1>1, <3>1
  <2>3. CASE i \in DOMAIN s /\ j \notin DOMAIN s
    BY <1>1, <2>3 DEF Disjoint
  <2>4. CASE i \notin DOMAIN s /\ j \in DOMAIN s
    BY <1>1, <2>4 DEF Disjoint
  <2> QED BY <2>1, <2>2, <2>3, <2>4
<1>5. \A k : UpTo(s, k) /\ UpTo(t, k) => UpTo(a, k)
  BY <1>1 DEF UpTo
<1>6. \A u : Precedes(s, u) /\ Precedes(t, u) => Precedes(a, u)
  BY <1>1 DEF Precedes
<1>7. \A u : Disjoint(s, u) /\ Disjoint(t, u) => Disjoint(a, u)
  BY <1>1 DEF Disjoint
<1> QED BY <1>3, <1>4, <1>5, <1>6, <1>7 DEF a

-----------------------------------------------------------------------------
(* Files.                                                                  *)

LEMMA FileFields ==
  /\ \A f \in File : f.data \in Seq(Packet) /\ f.state \in Cut \cup {"whole", "open"}
  /\ \A m \in Mail : m.name \in Name /\ m.file \in File
  /\ None \notin File /\ None \notin Mail
  /\ None \notin Seq(Packet \cup {Garbled})
BY NoneAssumption DEF File, Mail

LEMMA CopiesFacts ==
  ASSUME NEW f \in File, NEW end \in Cut \cup {"whole"}, NEW c \in Copies(f, end)
  PROVE  /\ c \in File /\ c.state # "open" /\ c.data = f.data
         /\ f.state # "open" => c = f
<1>1. CASE f.state # "open"
  BY <1>1 DEF Copies
<1>2. CASE f.state = "open"
  <2>1. PICK s \in Cut \cup {"whole"} : c = [f EXCEPT !.state = s]
    BY <1>2 DEF Copies, Cut
  <2>2. c = [data |-> f.data, state |-> s]
    BY <2>1 DEF File
  <2>3. s # "open"
    BY DEF Cut
  <2> QED BY <1>2, <2>2, <2>3, FileFields DEF File
<1> QED BY <1>1, <1>2

LEMMA ParsesFacts ==
  ASSUME NEW f \in File, f.state # "open", NEW ps \in Parses(f)
  PROVE  /\ ps # None => ps \in Seq(Packet \cup {Garbled})
         /\ f.state = "whole" => ps = f.data /\ ps # None
<1>1. /\ f.data \in Seq(Packet) /\ f.data \in Seq(Packet \cup {Garbled})
      /\ f.state \in Cut \cup {"whole"}
  <2>1. f.data \in Seq(Packet) /\ f.state \in Cut \cup {"whole"}
    BY FileFields
  <2> QED BY <2>1, SeqMono
<1>2. CASE f.state = "whole"
  <2>1. ps = f.data
    BY <1>2 DEF Parses
  <2> QED BY <1>1, <1>2, <2>1, FileFields
<1>3. CASE f.state = "body"
  <2>1. ps = Append(Front(f.data), Garbled)
    BY <1>3 DEF Parses
  <2>2. Front(f.data) \in Seq(Packet \cup {Garbled})
    <3>1. \A i \in 1 .. (Len(f.data) - 1) : f.data[i] \in Packet \cup {Garbled}
      BY <1>1, SeqFacts
    <3> QED BY <1>1, <3>1, SubSeqProperties, SeqFacts DEF Front
  <2> QED BY <1>3, <2>1, <2>2, AppendFacts
<1>4. CASE f.state \in {"early", "header"}
  BY <1>4, EmptySeq DEF Parses
<1> QED BY <1>1, <1>2, <1>3, <1>4 DEF Cut

\* The constants as the provers need them.
LEMMA Bounds == /\ MaxPackets \in Nat /\ MaxPackets >= 1
                /\ MaxCount \in Nat /\ MaxDgrams \in Nat
                /\ Name \subseteq Nat \ {0} /\ Packet \subseteq Nat \ {0}
                /\ Garbled \notin Packet
BY BoundAssumption DEF Name, Packet, Garbled

-----------------------------------------------------------------------------
(* Steps that leave the files and the other end alone.                     *)

LEMMA Typed ==
  ASSUME TypeOK
  PROVE  /\ made \in Nat /\ second \in Nat /\ fname \in Nat
         /\ queue \in Seq(Nat) /\ dataset \in Seq(Nat) /\ got \in Seq(Nat)
         /\ dgrams \in Seq(Nat) /\ notices \in Seq(Nat)
         /\ \A n \in Name : outbox[n] # None => Data(n) \in Seq(Nat)
<1>1. /\ Packet \subseteq Nat /\ Name \subseteq Nat
      /\ Packet \cup {Garbled} \subseteq Nat
  BY Bounds DEF Garbled
<1>2. made \in Nat /\ second \in Nat /\ fname \in Nat
  BY <1>1, Bounds DEF TypeOK
<1>3. queue \in Seq(Nat) /\ dataset \in Seq(Nat) /\ got \in Seq(Nat)
  BY <1>1, SeqMono DEF TypeOK
<1>4. dgrams \in Seq(Nat) /\ notices \in Seq(Nat)
  BY <1>1, SeqMono DEF TypeOK
<1>5. \A n \in Name : outbox[n] # None => Data(n) \in Seq(Packet)
  BY FileFields DEF TypeOK, Data
<1>6. \A n \in Name : outbox[n] # None => Data(n) \in Seq(Nat)
  BY <1>1, <1>5, SeqMono
<1> QED BY <1>2, <1>3, <1>4, <1>6

LEMMA FarSame ==
  ASSUME UNCHANGED <<outbox, dgrams, mails, script, inbox, notices, got, reader>>
  PROVE  /\ \A n : InFlight(n)' <=> InFlight(n)
         /\ \A n : Data(n)' = Data(n)
         /\ Faithful => Faithful'
         /\ OnePlace => OnePlace'
         /\ Orderly => Orderly'
<1>1. \A n : InFlight(n)' <=> InFlight(n)
  BY DEF InFlight
<1>2. \A n : Data(n)' = Data(n)
  BY DEF Data
<1>3. Faithful => Faithful'
  BY DEF Faithful
<1>4. OnePlace => OnePlace'
  BY DEF OnePlace
<1>5. Orderly => Orderly'
  BY <1>1, <1>2 DEF Orderly, NamesInOrder, GotSorted
<1> QED BY <1>1, <1>2, <1>3, <1>4, <1>5

\* A file in flight has been written.
LEMMA Flying ==
  ASSUME TypeOK, FilesExist, Untorn, NEW n \in Name, InFlight(n)
  PROVE  outbox[n] # None /\ outbox[n] \in File /\ Data(n) \in Seq(Nat)
<1>1. outbox[n] # None
  <2>1. CASE n \in Range(dgrams) \cup Range(notices)
    BY <2>1 DEF FilesExist, Untorn, Faithful, Range
  <2>2. CASE \E i \in DOMAIN mails : mails[i].name = n
    BY <2>2 DEF FilesExist
  <2>3. CASE script # None /\ script.name = n
    BY <2>3 DEF FilesExist
  <2> QED BY <2>1, <2>2, <2>3 DEF InFlight
<1> QED BY <1>1, Typed DEF TypeOK

LEMMA PutDataInv == ASSUME IInv, PutData PROVE IInv'
<1>0. /\ TypeOK /\ SecondsCounted /\ FilesExist /\ SourceOrder
      /\ made' = made + 1 /\ made' <= MaxPackets
      /\ made' \in Packet /\ made' \in Nat /\ made \in Nat
      /\ queue' = Append(queue, made')
      /\ UNCHANGED <<pc, due, dataset, fname, half, second, outbox, dgrams,
                     daemon, mails, script, inbox, notices, got, reader, broken>>
  BY Bounds DEF IInv, TypeOK, Packet, PutData, clock, relay, far
<1>1. queue' \in Seq(Packet) /\ Len(queue') = Len(queue) + 1
  BY <1>0, AppendFacts DEF TypeOK
<1>2. Len(queue) \in Nat /\ Len(dataset) \in Nat
  BY <1>0, SeqFacts DEF TypeOK
<1>3. TypeOK'
  BY <1>0, <1>1 DEF TypeOK
<1>4. SecondsCounted'
  <2>1. Left' = Left
    BY <1>0, <1>1, <1>2 DEF Left
  <2> QED BY <1>0, <1>1, <1>2, <2>1 DEF SecondsCounted
<1>5. FilesExist'
  BY <1>0 DEF FilesExist, Writing
<1>6. /\ Under(queue, made') /\ Under(dataset, made')
      /\ UpTo(queue, made') /\ UpTo(dataset, made')
  BY <1>0, Typed, UpToFacts DEF SourceOrder
<1>7. SourceOrder'
  <2>1. Sorted(queue') /\ UpTo(queue', made') /\ Precedes(dataset, queue')
    BY <1>0, <1>6, Typed, OrderAppend DEF SourceOrder
  <2> QED BY <1>0, <1>6, <2>1 DEF SourceOrder
<1>8. Untorn => Untorn'
  <2> SUFFICES ASSUME Untorn PROVE Untorn'
    OBVIOUS
  <2>1. \A n : (InFlight(n)' <=> InFlight(n)) /\ Data(n)' = Data(n)
    BY <1>0, FarSame
  <2>2. Faithful' /\ OnePlace'
    BY <1>0, FarSame DEF Untorn
  <2>3. ASSUME NEW n \in Name, InFlight(n)
        PROVE  Precedes(Data(n), queue') /\ UpTo(Data(n), made')
    <3>1. /\ Data(n) \in Seq(Nat) /\ UpTo(Data(n), made)
          /\ Precedes(Data(n), queue)
      BY <1>0, <2>3, Flying DEF Untorn, FlightOrder
    <3>2. Under(Data(n), made') /\ UpTo(Data(n), made')
      BY <1>0, <3>1, UpToFacts
    <3> QED BY <1>0, <3>1, <3>2, Typed, OrderAppend
  <2>4. FlightOrder'
    BY <1>0, <2>1, <2>3 DEF Untorn, FlightOrder, Writing
  <2>5. UpTo(got, made') /\ Precedes(got, queue')
    BY <1>0, Typed, UpToFacts, OrderAppend DEF Untorn, GotOnce
  <2>6. GotOnce'
    BY <1>0, <2>1, <2>5 DEF Untorn, GotOnce
  <2> QED BY <2>2, <2>4, <2>6 DEF Untorn
<1>9. Orderly => Orderly'
  BY <1>0, FarSame
<1> QED BY <1>0, <1>3, <1>4, <1>5, <1>7, <1>8, <1>9 DEF IInv

LEMMA TickInv == ASSUME IInv, Tick PROVE IInv'
<1>0. /\ TypeOK /\ SecondsCounted /\ FilesExist /\ SourceOrder
      /\ half' = 1 - half /\ due' \in BOOLEAN
      /\ \/ second' = second
         \/ second' = second + 1 /\ outbox[second] # None
      /\ UNCHANGED <<made, queue, pc, dataset, fname, outbox, dgrams,
                     daemon, mails, script, inbox, notices, got, reader, broken>>
  BY DEF IInv, Tick, relay, far
<1>1. /\ made \in 0 .. MaxPackets /\ Len(queue) \in Nat /\ Len(dataset) \in Nat
      /\ second \in Nat /\ second \in 1 .. MaxPackets + 1
  BY <1>0, SeqFacts, Bounds DEF TypeOK, Name
<1>2. Left' = Left /\ Left <= made /\ Left \in Int
  BY <1>0, <1>1 DEF Left
<1>3. second' \in Name /\ second' \in Nat /\ second <= second' /\ second' <= Left + 1
  BY <1>0, <1>1, <1>2, Bounds DEF SecondsCounted, Name
<1>4. half' \in {0, 1}
  BY <1>0 DEF TypeOK
<1>5. TypeOK'
  BY <1>0, <1>3, <1>4 DEF TypeOK
<1>6. \A n \in Name : n > second' => n > second
  BY <1>1, <1>3, Bounds
<1>7. outbox[second'] # None => second' <= Left
  <2>1. CASE second' = second
    BY <1>0, <2>1 DEF SecondsCounted
  <2>2. CASE second' = second + 1
    BY <1>0, <1>1, <1>3, <2>2 DEF SecondsCounted
  <2> QED BY <1>0, <2>1, <2>2
<1>8. fname <= second'
  BY <1>0, <1>1, <1>3, Typed DEF SecondsCounted
<1>9. SecondsCounted'
  BY <1>0, <1>2, <1>3, <1>6, <1>7, <1>8 DEF SecondsCounted
<1>10. FilesExist' /\ SourceOrder'
  BY <1>0 DEF FilesExist, Writing, SourceOrder
<1>11. Untorn => Untorn'
  <2> SUFFICES ASSUME Untorn PROVE Untorn'
    OBVIOUS
  <2>1. \A n : (InFlight(n)' <=> InFlight(n)) /\ Data(n)' = Data(n)
    BY <1>0, FarSame
  <2>2. Faithful' /\ OnePlace'
    BY <1>0, FarSame DEF Untorn
  <2>3. \A n \in Name : n <= second => n <= second'
    BY <1>1, <1>3, Bounds
  <2>4. FlightOrder'
    BY <1>0, <2>1, <2>3 DEF Untorn, FlightOrder, Writing
  <2>5. GotOnce'
    BY <1>0, <2>1 DEF Untorn, GotOnce
  <2> QED BY <2>2, <2>4, <2>5 DEF Untorn
<1>12. Orderly => Orderly'
  BY <1>0, FarSame
<1> QED BY <1>0, <1>5, <1>9, <1>10, <1>11, <1>12 DEF IInv

\* The thread goes to the next place of do_flush_data.
LEMMA AdvanceInv == ASSUME IInv, FlushBegins \/ FetchEnds PROVE IInv'
<1>0. /\ TypeOK /\ SecondsCounted /\ FilesExist /\ SourceOrder
      /\ \/ pc = "wait" /\ pc' = "fetch"
         \/ pc = "fetch" /\ pc' = "open" /\ dataset # <<>>
      /\ due' \in BOOLEAN
      /\ UNCHANGED <<made, queue, dataset, fname, half, second, outbox, dgrams,
                     daemon, mails, script, inbox, notices, got, reader, broken>>
  BY DEF IInv, TypeOK, FlushBegins, FetchEnds, clock, relay, far
<1>1. made \in Nat /\ Len(queue) \in Nat /\ Len(dataset) \in Nat
      /\ (dataset = <<>> => Len(dataset) = 0)
  BY <1>0, SeqFacts, Typed DEF TypeOK
<1>2. TypeOK'
  BY <1>0 DEF TypeOK
<1>3. SecondsCounted'
  <2>1. Left' = Left
    BY <1>0, <1>1 DEF Left, SecondsCounted
  <2> QED BY <1>0, <1>1, <2>1 DEF SecondsCounted
<1>4. FilesExist' /\ SourceOrder'
  BY <1>0 DEF FilesExist, Writing, SourceOrder
<1>5. Untorn => Untorn'
  <2> SUFFICES ASSUME Untorn PROVE Untorn'
    OBVIOUS
  <2>1. \A n : (InFlight(n)' <=> InFlight(n)) /\ Data(n)' = Data(n)
    BY <1>0, FarSame
  <2>2. Faithful' /\ OnePlace'
    BY <1>0, FarSame DEF Untorn
  <2>3. FlightOrder'
    BY <1>0, <2>1 DEF Untorn, FlightOrder, Writing
  <2>4. GotOnce'
    BY <1>0, <2>1 DEF Untorn, GotOnce
  <2> QED BY <2>2, <2>3, <2>4 DEF Untorn
<1>6. Orderly => Orderly'
  BY <1>0, FarSame
<1> QED BY <1>0, <1>2, <1>3, <1>4, <1>5, <1>6 DEF IInv

LEMMA FetchInv == ASSUME IInv, Fetch PROVE IInv'
<1>0. /\ TypeOK /\ SecondsCounted /\ FilesExist /\ SourceOrder
      /\ pc = "fetch" /\ queue # <<>> /\ Len(dataset) < MaxCount
      /\ dataset' = Append(dataset, Head(queue)) /\ queue' = Tail(queue)
      /\ UNCHANGED <<made, pc, due, fname, half, second, outbox, dgrams,
                     daemon, mails, script, inbox, notices, got, reader, broken>>
  BY DEF IInv, Fetch, clock, relay, far
<1>1. /\ queue \in Seq(Packet) /\ dataset \in Seq(Packet)
      /\ Len(queue) \in Nat /\ Len(dataset) \in Nat /\ made \in Nat
  BY <1>0, SeqFacts, Typed DEF TypeOK
<1>2. /\ Head(queue) \in Packet /\ Head(queue) \in Nat
      /\ queue' \in Seq(Packet) /\ Len(queue') = Len(queue) - 1
      /\ dataset' \in Seq(Packet) /\ Len(dataset') = Len(dataset) + 1
  <2>1. /\ Head(queue) \in Packet
        /\ Tail(queue) \in Seq(Packet) /\ Len(Tail(queue)) = Len(queue) - 1
    BY <1>0, <1>1, TailFacts
  <2>2. /\ Append(dataset, Head(queue)) \in Seq(Packet)
        /\ Len(Append(dataset, Head(queue))) = Len(dataset) + 1
    BY <1>1, <2>1, AppendFacts
  <2> QED BY <1>0, <2>1, <2>2, Bounds
<1>3. TypeOK'
  BY <1>0, <1>1, <1>2, Bounds DEF TypeOK
<1>4. SecondsCounted'
  <2>1. Left' = Left
    BY <1>0, <1>1, <1>2 DEF Left
  <2>2. Len(queue') + Len(dataset') <= made'
    BY <1>0, <1>1, <1>2 DEF SecondsCounted
  <2> QED BY <1>0, <2>1, <2>2 DEF SecondsCounted
<1>5. FilesExist'
  BY <1>0 DEF FilesExist, Writing
<1>6. /\ Sorted(queue') /\ Over(Head(queue), queue') /\ UpTo(queue', made)
      /\ Head(queue) <= made /\ Under(dataset, Head(queue))
      /\ Precedes(dataset, queue')
  BY <1>0, Typed, OrderTail DEF SourceOrder
<1>7. SourceOrder'
  <2>1. queue' \in Seq(Nat)
    BY <1>0, Typed, TailFacts
  <2>2. Sorted(dataset') /\ UpTo(dataset', made) /\ Precedes(dataset', queue')
    BY <1>0, <1>2, <1>6, <2>1, Typed, OrderAppend DEF SourceOrder
  <2> QED BY <1>0, <1>6, <2>2 DEF SourceOrder
<1>8. ASSUME NEW s \in Seq(Nat), Precedes(s, dataset), Precedes(s, queue)
      PROVE  Precedes(s, dataset') /\ Precedes(s, queue')
  <2>1. Precedes(s, queue') /\ Under(s, Head(queue))
    BY <1>0, <1>8, Typed, OrderTail
  <2> QED BY <1>0, <1>2, <1>8, <2>1, Typed, OrderAppend
<1>9. Untorn => Untorn'
  <2> SUFFICES ASSUME Untorn PROVE Untorn'
    OBVIOUS
  <2>1. \A n : (InFlight(n)' <=> InFlight(n)) /\ Data(n)' = Data(n)
    BY <1>0, FarSame
  <2>2. Faithful' /\ OnePlace'
    BY <1>0, FarSame DEF Untorn
  <2>3. ASSUME NEW n \in Name, InFlight(n)
        PROVE  Precedes(Data(n), dataset') /\ Precedes(Data(n), queue')
    BY <1>0, <1>8, <2>3, Flying DEF Untorn, FlightOrder
  <2>4. FlightOrder'
    BY <1>0, <2>1, <2>3 DEF Untorn, FlightOrder, Writing
  <2>5. Precedes(got, dataset') /\ Precedes(got, queue')
    BY <1>0, <1>8, Typed DEF Untorn, GotOnce
  <2>6. GotOnce'
    BY <1>0, <2>1, <2>5 DEF Untorn, GotOnce
  <2> QED BY <2>2, <2>4, <2>6 DEF Untorn
<1>10. Orderly => Orderly'
  BY <1>0, FarSame
<1> QED BY <1>0, <1>3, <1>4, <1>5, <1>7, <1>9, <1>10 DEF IInv

\* What has been marked as broken stays so.
LEMMA BreaksStay ==
  ASSUME NEW b, broken' \in {broken, broken \cup {b}}
  PROVE  /\ "torn" \notin broken' => "torn" \notin broken
         /\ broken' \subseteq {"dropped"} => broken \subseteq {"dropped"}
OBVIOUS

LEMMA RestCounted ==
  ASSUME TypeOK, SecondsCounted, Rest,
         UNCHANGED <<made, queue, fname, second>>,
         \A n \in Name : outbox'[n] = None <=> outbox[n] = None
  PROVE  SecondsCounted'
<1>1. /\ made \in Nat /\ Len(queue) \in Nat /\ Len(dataset) \in Nat
      /\ second \in Nat /\ second \in Name
  BY SeqFacts, Typed DEF TypeOK
<1>2. dataset' = <<>> /\ Len(dataset') = 0 /\ pc' = "wait"
  BY DEF Rest
<1>3. Left' = made - Len(queue) /\ Left <= Left' /\ Left \in Int /\ Left' \in Int
  BY <1>1, <1>2 DEF Left
<1>4. second <= Left' + 1 /\ (outbox[second] # None => second <= Left')
  BY <1>1, <1>3 DEF SecondsCounted
<1>5. Len(queue') + Len(dataset') <= made'
  BY <1>1, <1>2 DEF SecondsCounted
<1> QED BY <1>1, <1>2, <1>4, <1>5 DEF SecondsCounted

\* do_flush_data ends without having handed anything on.
LEMMA RestInv ==
  ASSUME IInv, FlushNothing \/ OpenFails \/ SendemailFails PROVE IInv'
<1>0. /\ TypeOK /\ SecondsCounted /\ FilesExist /\ SourceOrder /\ Rest
      /\ broken' \in {broken, broken \cup {"dropped"}}
      /\ UNCHANGED <<made, queue, fname, half, second, outbox, dgrams,
                     daemon, mails, script, inbox, notices, got, reader>>
  BY DEF IInv, FlushNothing, OpenFails, SendemailFails, Break, clock, relay, far
<1>1. pc' = "wait" /\ ~Writing' /\ due' = FALSE /\ dataset' = <<>>
      /\ dataset' \in Seq(Packet) /\ Len(dataset') = 0
  BY <1>0, EmptySeq DEF Rest, Writing
<1>2. TypeOK'
  <2>1. broken' \subseteq Breaks
    BY <1>0 DEF TypeOK, Breaks
  <2>2. Len(dataset') <= MaxCount
    BY <1>1, Bounds
  <2> QED BY <1>0, <1>1, <2>1, <2>2 DEF TypeOK
<1>3. SecondsCounted'
  BY <1>0, RestCounted
<1>4. FilesExist' /\ SourceOrder'
  BY <1>0, <1>1, Empty DEF FilesExist, SourceOrder
<1>5. Untorn => Untorn'
  <2> SUFFICES ASSUME Untorn PROVE Untorn'
    OBVIOUS
  <2>1. \A n : (InFlight(n)' <=> InFlight(n)) /\ Data(n)' = Data(n)
    BY <1>0, FarSame
  <2>2. Faithful' /\ OnePlace'
    BY <1>0, FarSame DEF Untorn
  <2>3. FlightOrder'
    BY <1>0, <1>1, <2>1, Empty DEF Untorn, FlightOrder
  <2>4. GotOnce'
    BY <1>0, <1>1, <2>1, Empty DEF Untorn, GotOnce
  <2> QED BY <2>2, <2>3, <2>4 DEF Untorn
<1>6. Orderly => Orderly'
  BY <1>0, FarSame
<1> QED BY <1>0, <1>2, <1>3, <1>4, <1>5, <1>6, BreaksStay DEF IInv

-----------------------------------------------------------------------------
(* Steps that change the file being written.                               *)

LEMMA OutboxSame ==
  ASSUME TypeOK, NEW x \in Name, ~InFlight(x), NEW v,
         outbox' = [outbox EXCEPT ![x] = v],
         UNCHANGED <<dgrams, mails, script, inbox, notices, got, reader>>
  PROVE  /\ \A n : InFlight(n)' <=> InFlight(n)
         /\ \A n \in Name : InFlight(n) => Data(n)' = Data(n) /\ n # x
         /\ Faithful => Faithful'
         /\ OnePlace => OnePlace'
         /\ Orderly => Orderly'
<1>1. \A n : InFlight(n)' <=> InFlight(n)
  BY DEF InFlight
<1>2. \A n \in Name : InFlight(n) => outbox'[n] = outbox[n] /\ n # x
  BY DEF TypeOK
<1>3. \A n \in Name : InFlight(n) => Data(n)' = Data(n) /\ n # x
  BY <1>2 DEF Data
<1>4. /\ \A i \in DOMAIN dgrams : dgrams[i] \in Name /\ InFlight(dgrams[i])
      /\ \A i \in DOMAIN notices : notices[i] \in Name /\ InFlight(notices[i])
      /\ \A i \in DOMAIN mails : mails[i].name \in Name /\ InFlight(mails[i].name)
      /\ script # None => script.name \in Name /\ InFlight(script.name)
  <2>1. /\ \A i \in DOMAIN dgrams : dgrams[i] \in Name
        /\ \A i \in DOMAIN notices : notices[i] \in Name
        /\ \A i \in DOMAIN mails : mails[i] \in Mail
    BY SeqFacts DEF TypeOK
  <2>2. script # None => script.name \in Name
    BY FileFields DEF TypeOK
  <2>3. \A i \in DOMAIN mails : mails[i].name \in Name
    BY <2>1, FileFields
  <2> QED BY <2>1, <2>2, <2>3 DEF InFlight, Range
<1>5. Faithful => Faithful'
  BY <1>2, <1>4 DEF Faithful
<1>6. OnePlace => OnePlace'
  BY DEF OnePlace
<1>7. Orderly => Orderly'
  BY <1>1, <1>3 DEF Orderly, NamesInOrder, GotSorted
<1> QED BY <1>1, <1>3, <1>5, <1>6, <1>7

\* The file being written is not in flight.
LEMMA WritingAlone ==
  ASSUME IInv, Writing, "torn" \notin broken PROVE ~InFlight(fname)
<1>1. fname \in Name /\ fname \in Nat
  BY Bounds DEF IInv, TypeOK
<1>2. InFlight(fname) => fname < fname
  BY <1>1 DEF IInv, Untorn, FlightOrder
<1> QED BY <1>1, <1>2

LEMMA OpenFileInv == ASSUME IInv, OpenFile PROVE IInv'
<1> DEFINE v == [data |-> dataset, state |-> "open"]
<1>0. /\ TypeOK /\ SecondsCounted /\ FilesExist /\ SourceOrder
      /\ pc = "open" /\ pc' = "write" /\ fname' = second
      /\ outbox' = [outbox EXCEPT ![second] = v]
      /\ broken' \in {broken, broken \cup {"torn"}}
      /\ "torn" \notin broken' => ~InFlight(second)
      /\ UNCHANGED <<made, queue, due, dataset, half, second, dgrams,
                     daemon, mails, script, inbox, notices, got, reader>>
  BY DEF IInv, OpenFile, Break, clock, relay, far
<1>1. /\ second \in Name /\ second \in Nat /\ made \in Nat
      /\ dataset \in Seq(Packet) /\ Len(dataset) \in Nat /\ Len(queue) \in Nat
      /\ dataset # <<>> /\ Len(dataset) # 0
  BY <1>0, SeqFacts, Typed DEF TypeOK, SecondsCounted
<1>2. v \in File /\ v # None
  BY <1>1, FileFields DEF File
<1>3. /\ outbox' \in [Name -> File \cup {None}]
      /\ outbox'[second] = v
      /\ \A n \in Name : n # second => outbox'[n] = outbox[n]
  BY <1>0, <1>1, <1>2 DEF TypeOK
<1> HIDE DEF v
<1>4. TypeOK'
  <2>1. broken' \subseteq Breaks
    BY <1>0 DEF TypeOK, Breaks
  <2> QED BY <1>0, <1>1, <1>3, <2>1 DEF TypeOK
<1>5. SecondsCounted'
  <2>1. Left' = made - Len(queue) /\ Left = made - Len(queue) - Len(dataset)
    BY <1>0, <1>1 DEF Left
  <2>2. second <= Left' + 1 /\ second <= Left'
    BY <1>0, <1>1, <2>1 DEF SecondsCounted
  <2>3. \A n \in Name : n > second => n # second
    BY <1>1, Bounds
  <2> QED BY <1>0, <1>1, <1>3, <2>2, <2>3 DEF SecondsCounted
<1>6. FilesExist'
  <2>1. \A n \in Name : outbox[n] # None => outbox'[n] # None
    BY <1>2, <1>3
  <2>2. \A i \in DOMAIN dgrams : dgrams[i] \in Name
    BY <1>0, SeqFacts DEF TypeOK
  <2>3. \A i \in DOMAIN mails : mails[i].name \in Name
    BY <1>0, SeqFacts, FileFields DEF TypeOK
  <2>4. script # None => script.name \in Name
    BY <1>0, FileFields DEF TypeOK
  <2> QED BY <1>0, <1>2, <1>3, <2>1, <2>2, <2>3, <2>4 DEF FilesExist, Writing
<1>7. SourceOrder'
  BY <1>0 DEF SourceOrder
<1>8. ASSUME Untorn, "torn" \notin broken' PROVE Untorn'
  <2>1. /\ \A n : InFlight(n)' <=> InFlight(n)
        /\ \A n \in Name : InFlight(n) => Data(n)' = Data(n) /\ n # second
        /\ Faithful' /\ OnePlace'
    BY <1>0, <1>1, <1>8, OutboxSame DEF Untorn
  <2>2. Writing' /\ Data(fname)' = dataset
    BY <1>0, <1>3 DEF Writing, Data, v
  <2>3. \A n \in Name : InFlight(n) => n < second
    BY <1>1, <1>8, <2>1, Bounds DEF Untorn, FlightOrder
  <2>4. FlightOrder'
    BY <1>0, <1>8, <2>1, <2>2, <2>3 DEF Untorn, FlightOrder
  <2>5. GotOnce'
    BY <1>0, <1>8, <2>1 DEF Untorn, GotOnce
  <2> QED BY <2>1, <2>4, <2>5 DEF Untorn
<1>9. ASSUME Orderly, broken' \subseteq {"dropped"} PROVE Orderly'
  BY <1>0, <1>1, <1>9, OutboxSame
<1> QED BY <1>0, <1>4, <1>5, <1>6, <1>7, <1>8, <1>9, BreaksStay DEF IInv

\* The file is closed, or the writing ends with an error.
LEMMA WriteInv == ASSUME IInv, WriteFile \/ WriteFails PROVE IInv'
<1>0. PICK s \in Cut \cup {"whole"} :
      /\ TypeOK /\ SecondsCounted /\ FilesExist /\ SourceOrder
      /\ pc = "write" /\ Writing
      /\ \/ pc' = "hand" /\ s = "whole" /\ UNCHANGED <<due, dataset>>
         \/ Rest /\ pc' = "wait" /\ dataset' = <<>> /\ due' = FALSE
      /\ outbox' = [outbox EXCEPT ![fname].state = s]
      /\ broken' \in {broken, broken \cup {"dropped"}}
      /\ UNCHANGED <<made, queue, fname, half, second, dgrams,
                     daemon, mails, script, inbox, notices, got, reader>>
  BY DEF IInv, WriteFile, WriteFails, Break, clock, relay, far, Rest, Writing
<1> DEFINE v == [data |-> outbox[fname].data, state |-> s]
<1>1. fname \in Name /\ outbox[fname] \in File /\ outbox \in [Name -> File \cup {None}]
  BY <1>0 DEF TypeOK, FilesExist
<1>2. v \in File /\ v # None
  BY <1>1, FileFields DEF File, Cut
<1>3. outbox' = [outbox EXCEPT ![fname] = v]
  <2>1. [outbox[fname] EXCEPT !.state = s] = v
    BY <1>1 DEF File
  <2> QED BY <1>0, <1>1, <2>1
<1>4. /\ outbox' \in [Name -> File \cup {None}]
      /\ outbox'[fname] = v
      /\ \A n \in Name : n # fname => outbox'[n] = outbox[n]
  BY <1>1, <1>2, <1>3
<1>5. v.state = s /\ v.data = Data(fname)
  BY DEF Data
<1> HIDE DEF v
<1>6. dataset' \in Seq(Packet) /\ Len(dataset') <= MaxCount
  <2>1. CASE dataset' = <<>>
    BY <2>1, EmptySeq, Bounds
  <2>2. CASE dataset' = dataset
    BY <1>0, <2>2 DEF TypeOK
  <2> QED BY <1>0, <2>1, <2>2
<1>7. TypeOK'
  <2>1. broken' \subseteq Breaks
    BY <1>0 DEF TypeOK, Breaks
  <2>2. pc' \in {"wait", "hand"} /\ due' \in BOOLEAN
    BY <1>0 DEF TypeOK
  <2> QED BY <1>0, <1>4, <1>6, <2>1, <2>2 DEF TypeOK
<1>8. \A n \in Name : outbox'[n] = None <=> outbox[n] = None
  BY <1>0, <1>2, <1>4 DEF FilesExist
<1>9. SecondsCounted'
  <2>1. CASE Rest
    BY <1>0, <1>8, <2>1, RestCounted
  <2>2. CASE pc' = "hand" /\ UNCHANGED dataset
    <3>1. Left' = Left
      BY <1>0, <2>2 DEF Left
    <3>2. second \in Name
      BY <1>0 DEF TypeOK
    <3> QED BY <1>0, <1>8, <2>2, <3>1, <3>2 DEF SecondsCounted
  <2> QED BY <1>0, <2>1, <2>2
<1>10. FilesExist'
  <2>1. \A i \in DOMAIN dgrams : dgrams[i] \in Name
    BY <1>0, SeqFacts DEF TypeOK
  <2>2. \A i \in DOMAIN mails : mails[i].name \in Name
    BY <1>0, SeqFacts, FileFields DEF TypeOK
  <2>3. script # None => script.name \in Name
    BY <1>0, FileFields DEF TypeOK
  <2>4. Writing' => outbox'[fname'] # None /\ outbox'[fname'].state = "whole"
    BY <1>0, <1>2, <1>4, <1>5 DEF Writing
  <2> QED BY <1>0, <1>8, <2>1, <2>2, <2>3, <2>4 DEF FilesExist, Writing
<1>11. SourceOrder'
  BY <1>0, Empty DEF SourceOrder
<1>12. ASSUME Untorn, "torn" \notin broken' PROVE Untorn'
  <2>1. ~InFlight(fname)
    BY <1>0, <1>12, WritingAlone, BreaksStay
  <2>2. /\ \A n : InFlight(n)' <=> InFlight(n)
        /\ \A n \in Name : InFlight(n) => Data(n)' = Data(n)
        /\ Faithful' /\ OnePlace'
    BY <1>0, <1>1, <1>3, <1>12, <2>1, OutboxSame DEF Untorn
  <2>3. Writing' => Data(fname)' = dataset'
    BY <1>0, <1>4, <1>5, <1>12 DEF Writing, Data, Untorn, FlightOrder
  <2>4. /\ \A s1 : Precedes(s1, dataset) => Precedes(s1, dataset')
    BY <1>0, Empty
  <2>5. FlightOrder'
    BY <1>0, <1>12, <2>2, <2>3, <2>4 DEF Untorn, FlightOrder
  <2>6. GotOnce'
    BY <1>0, <1>12, <2>2, <2>4 DEF Untorn, GotOnce
  <2> QED BY <2>2, <2>5, <2>6 DEF Untorn
<1>13. ASSUME Orderly, broken' \subseteq {"dropped"} PROVE Orderly'
  <2>1. ~InFlight(fname)
    BY <1>0, <1>13, WritingAlone, BreaksStay
  <2> QED BY <1>0, <1>1, <1>3, <1>13, <2>1, OutboxSame
<1> QED BY <1>0, <1>7, <1>9, <1>10, <1>11, <1>12, <1>13, BreaksStay DEF IInv

-----------------------------------------------------------------------------
(* Steps that hand a name on.                                              *)

\* Where the names are.
LEMMA NamesTyped ==
  ASSUME TypeOK
  PROVE  /\ \A i \in DOMAIN dgrams : dgrams[i] \in Name
         /\ \A i \in DOMAIN notices : notices[i] \in Name
         /\ \A i \in DOMAIN mails : /\ mails[i] \in Mail /\ mails[i].name \in Name
                                    /\ mails[i].file \in File
         /\ script # None => /\ script \in Mail /\ script.name \in Name
                             /\ script.file \in File
<1>1. /\ \A i \in DOMAIN dgrams : dgrams[i] \in Name
      /\ \A i \in DOMAIN notices : notices[i] \in Name
      /\ \A i \in DOMAIN mails : mails[i] \in Mail
      /\ script # None => script \in Mail
  BY SeqFacts DEF TypeOK
<1> QED BY <1>1, FileFields

LEMMA FlightFacts ==
  /\ \A i \in DOMAIN dgrams : InFlight(dgrams[i])
  /\ \A i \in DOMAIN notices : InFlight(notices[i])
  /\ \A i \in DOMAIN mails : InFlight(mails[i].name)
  /\ script # None => InFlight(script.name)
BY DEF InFlight, Range

LEMMA FlightShrinks ==
  ASSUME UNCHANGED <<outbox, made, queue, dataset, pc, fname, second, got>>,
         \A n \in Name : InFlight(n)' => InFlight(n)
  PROVE  /\ FlightOrder => FlightOrder'
         /\ GotOnce => GotOnce'
         /\ GotSorted /\ reader' = "up" => GotSorted'
<1>1. \A n : Data(n)' = Data(n)
  BY DEF Data
<1> QED BY <1>1 DEF FlightOrder, GotOnce, GotSorted, Writing

LEMMA SourceSame ==
  ASSUME UNCHANGED <<made, queue, dataset, pc, fname, second, outbox>>
  PROVE  /\ SecondsCounted => SecondsCounted'
         /\ SourceOrder => SourceOrder'
BY DEF SecondsCounted, SourceOrder, Left

\* The mail thread has handed a file on.
LEMMA FlightGrows ==
  ASSUME IInv, Untorn, pc = "hand", Rest,
         UNCHANGED <<outbox, made, queue, fname, second, got>>,
         \A n \in Name : InFlight(n)' => InFlight(n) \/ n = fname
  PROVE  /\ FlightOrder' /\ GotOnce'
         /\ GotSorted /\ reader' = "up" => GotSorted'
<1>1. /\ TypeOK /\ SecondsCounted /\ SourceOrder /\ Writing
      /\ fname \in Name /\ fname \in Nat /\ fname <= second
      /\ pc' = "wait" /\ ~Writing' /\ dataset' = <<>>
      /\ Data(fname) = dataset
  BY Bounds DEF IInv, TypeOK, SecondsCounted, Writing, Rest, Untorn, FlightOrder
<1>2. \A n : Data(n)' = Data(n)
  BY DEF Data
<1>3. \A n \in Name : InFlight(n) => n < fname /\ ~(fname < n)
  BY <1>1, Bounds DEF Untorn, FlightOrder
<1>4. /\ Sorted(Data(fname)) /\ Precedes(Data(fname), queue)
      /\ UpTo(Data(fname), made)
  BY <1>1 DEF SourceOrder
<1>5. \A m, n \in Name :
        InFlight(m)' /\ InFlight(n)' /\ m < n => Precedes(Data(m), Data(n))
  <2> SUFFICES ASSUME NEW m \in Name, NEW n \in Name,
                      InFlight(m)', InFlight(n)', m < n
               PROVE  Precedes(Data(m), Data(n))
    OBVIOUS
  <2>1. InFlight(m) /\ m # fname
    BY <1>1, <1>3, Bounds
  <2> QED BY <1>1, <2>1 DEF Untorn, FlightOrder
<1>6. FlightOrder'
  BY <1>1, <1>2, <1>4, <1>5, Empty DEF Untorn, FlightOrder
<1>7. Disjoint(got, dataset)
  <2>1. \A i \in DOMAIN got, j \in DOMAIN dataset :
          got[i] \in Nat /\ dataset[j] \in Nat /\ got[i] < dataset[j]
    BY <1>1, Typed, SeqFacts DEF Untorn, GotOnce, Precedes
  <2> QED BY <2>1 DEF Disjoint
<1>8. GotOnce'
  BY <1>1, <1>2, <1>7, Empty DEF Untorn, GotOnce
<1>9. GotSorted /\ reader' = "up" => GotSorted'
  BY <1>1, <1>2 DEF Untorn, GotOnce, GotSorted
<1> QED BY <1>6, <1>8, <1>9

\* A datagram that is not taken is a file that is given up.
LEMMA TellDaemonInv == ASSUME IInv, TellDaemon PROVE IInv'
<1>0. /\ TypeOK /\ SecondsCounted /\ FilesExist /\ SourceOrder
      /\ Rest /\ pc = "hand" /\ Writing
      /\ \/ dgrams' = dgrams
         \/ dgrams' = Append(dgrams, fname) /\ Len(dgrams) < MaxDgrams
            /\ daemon = "up"
      /\ broken' \in {broken, broken \cup {"dropped"}}
      /\ UNCHANGED <<made, queue, fname, half, second, outbox, daemon,
                     mails, script, inbox, notices, got, reader>>
  BY DEF IInv, TellDaemon, Break, clock, far, Writing
<1>1. /\ pc' = "wait" /\ ~Writing' /\ due' = FALSE /\ dataset' = <<>>
      /\ dataset' \in Seq(Packet) /\ Len(dataset') = 0 /\ Len(dataset') <= MaxCount
  BY <1>0, EmptySeq, Bounds DEF Rest, Writing
<1>2. fname \in Name /\ dgrams \in Seq(Name) /\ Len(dgrams) \in Nat
  BY <1>0, SeqFacts DEF TypeOK
<1>3. /\ dgrams' \in Seq(Name) /\ Len(dgrams') <= MaxDgrams
      /\ \A i \in DOMAIN dgrams' :
           \/ dgrams'[i] = fname
           \/ i \in DOMAIN dgrams /\ dgrams'[i] = dgrams[i]
  <2>1. CASE dgrams' = dgrams
    BY <1>0, <1>2, <2>1 DEF TypeOK
  <2>2. CASE dgrams' = Append(dgrams, fname) /\ Len(dgrams) < MaxDgrams
    <3>1. /\ dgrams' \in Seq(Name) /\ Len(dgrams') = Len(dgrams) + 1
          /\ DOMAIN dgrams' = 1 .. (Len(dgrams) + 1)
          /\ DOMAIN dgrams = 1 .. Len(dgrams)
          /\ \A i \in DOMAIN dgrams : dgrams'[i] = dgrams[i]
          /\ dgrams'[Len(dgrams) + 1] = fname
      BY <1>2, <2>2, AppendFacts, SeqFacts
    <3>2. Len(dgrams') <= MaxDgrams
      BY <1>2, <2>2, <3>1, Bounds
    <3>3. \A i \in DOMAIN dgrams' : i \in DOMAIN dgrams \/ i = Len(dgrams) + 1
      BY <1>2, <3>1
    <3> QED BY <3>1, <3>2, <3>3
  <2> QED BY <1>0, <2>1, <2>2
<1>4. TypeOK'
  <2>1. broken' \subseteq Breaks
    BY <1>0 DEF TypeOK, Breaks
  <2> QED BY <1>0, <1>1, <1>3, <2>1 DEF TypeOK
<1>5. SecondsCounted'
  BY <1>0, RestCounted
<1>6. FilesExist'
  BY <1>0, <1>1, <1>3 DEF FilesExist
<1>7. SourceOrder'
  BY <1>0, <1>1, Empty DEF SourceOrder
<1>8. \A n \in Name : InFlight(n)' => InFlight(n) \/ n = fname
  BY <1>0, <1>3 DEF InFlight, Range
<1>9. ASSUME Untorn PROVE Untorn'
  <2>1. FlightOrder' /\ GotOnce'
    BY <1>0, <1>8, <1>9, FlightGrows
  <2>2. Faithful'
    BY <1>0, <1>3, <1>9 DEF Untorn, Faithful, FilesExist
  <2>3. \A n \in Name : InFlight(n) => n < fname /\ n # fname
    BY <1>0, <1>2, <1>9, Bounds DEF Untorn, FlightOrder
  <2>4. OnePlace'
    <3>1. /\ \A i \in DOMAIN dgrams : dgrams[i] # fname
          /\ \A i \in DOMAIN notices : notices[i] # fname
          /\ \A i \in DOMAIN mails : mails[i].name # fname
          /\ script # None => script.name # fname
      BY <1>0, <2>3, FlightFacts, NamesTyped
    <3>2. Distinct(dgrams')
      <4>1. CASE dgrams' = dgrams
        BY <1>9, <4>1 DEF Untorn, OnePlace
      <4>2. CASE dgrams' = Append(dgrams, fname)
        <5>1. /\ DOMAIN dgrams' = 1 .. (Len(dgrams) + 1)
              /\ DOMAIN dgrams = 1 .. Len(dgrams)
              /\ \A i \in DOMAIN dgrams : dgrams'[i] = dgrams[i]
              /\ dgrams'[Len(dgrams) + 1] = fname
          BY <1>2, <4>2, AppendFacts, SeqFacts
        <5>2. \A i \in DOMAIN dgrams' : i \in DOMAIN dgrams \/ i = Len(dgrams) + 1
          BY <1>2, <5>1
        <5>3. Distinct(dgrams)
          BY <1>9 DEF Untorn, OnePlace
        <5> HIDE <1>0, <1>3
        <5> QED BY <3>1, <5>1, <5>2, <5>3 DEF Distinct
      <4> QED BY <1>0, <4>1, <4>2
    <3>3. Disjoint(dgrams', notices)
      BY <1>3, <1>9, <3>1 DEF Untorn, OnePlace, Disjoint
    <3> QED BY <1>0, <1>3, <1>9, <3>1, <3>2, <3>3 DEF Untorn, OnePlace
  <2> QED BY <2>1, <2>2, <2>4 DEF Untorn
<1>10. ASSUME Untorn, Orderly PROVE Orderly'
  <2>1. GotSorted'
    BY <1>0, <1>8, <1>10, FlightGrows DEF Orderly, GotSorted
  <2>2. \A n \in Name : InFlight(n) => n < fname
    BY <1>0, <1>10 DEF Untorn, FlightOrder
  <2>3. /\ Under(dgrams, fname) /\ Under(notices, fname)
        /\ \A i \in DOMAIN mails : mails[i].name < fname
        /\ script # None => script.name < fname
    BY <1>0, <2>2, FlightFacts, NamesTyped DEF Under
  <2>4. Sorted(dgrams') /\ Precedes(notices, dgrams')
    BY <1>0, <1>10, <2>3, Typed, OrderAppend DEF Orderly, NamesInOrder
  <2>5. script # None => Over(script.name, dgrams')
    BY <1>3, <1>10, <2>3 DEF Orderly, NamesInOrder, Over
  <2>6. NamesInOrder'
    BY <1>0, <1>3, <1>10, <2>3, <2>4, <2>5 DEF Orderly, NamesInOrder
  <2> QED BY <2>1, <2>6 DEF Orderly
<1>11. broken' \subseteq {"dropped"} => Untorn
  BY <1>0, BreaksStay DEF IInv
<1> QED BY <1>0, <1>4, <1>5, <1>6, <1>7, <1>9, <1>10, <1>11, BreaksStay DEF IInv

\* A mail is sent.
LEMMA MailAppended ==
  ASSUME TypeOK, NEW m \in Mail, mails' = Append(mails, m)
  PROVE  /\ mails' \in Seq(Mail)
         /\ DOMAIN mails = 1 .. Len(mails) /\ Len(mails) \in Nat
         /\ DOMAIN mails' = 1 .. (Len(mails) + 1)
         /\ \A i \in DOMAIN mails : mails'[i] = mails[i]
         /\ mails'[Len(mails) + 1] = m
         /\ \A i \in DOMAIN mails' : i \in DOMAIN mails \/ i = Len(mails) + 1
<1>1. /\ mails' \in Seq(Mail)
      /\ DOMAIN mails = 1 .. Len(mails) /\ Len(mails) \in Nat
      /\ DOMAIN mails' = 1 .. (Len(mails) + 1)
      /\ \A i \in DOMAIN mails : mails'[i] = mails[i]
      /\ mails'[Len(mails) + 1] = m
  BY AppendFacts, SeqFacts DEF TypeOK
<1> QED BY <1>1

LEMMA RunSendemailInv == ASSUME IInv, RunSendemail PROVE IInv'
<1> DEFINE m == [name |-> fname, file |-> outbox[fname]]
<1>0. /\ TypeOK /\ SecondsCounted /\ FilesExist /\ SourceOrder
      /\ Rest /\ pc = "hand" /\ Writing /\ dgrams = <<>>
      /\ mails' = Append(mails, m)
      /\ UNCHANGED <<made, queue, fname, half, second, outbox, daemon, dgrams,
                     script, inbox, notices, got, reader, broken>>
  BY DEF IInv, RunSendemail, clock, relay, far, Writing, FilesExist, UseDaemon
<1>1. /\ pc' = "wait" /\ ~Writing' /\ due' = FALSE /\ dataset' = <<>>
      /\ dataset' \in Seq(Packet) /\ Len(dataset') = 0 /\ Len(dataset') <= MaxCount
  BY <1>0, EmptySeq, Bounds DEF Rest, Writing
<1>2. /\ fname \in Name /\ m \in Mail /\ m.name = fname /\ m.file = outbox[fname]
      /\ outbox[fname] # None /\ outbox[fname].state = "whole"
  BY <1>0 DEF TypeOK, FilesExist, Mail
<1> HIDE DEF m
<1>3. /\ mails' \in Seq(Mail)
      /\ DOMAIN mails = 1 .. Len(mails) /\ Len(mails) \in Nat
      /\ DOMAIN mails' = 1 .. (Len(mails) + 1)
      /\ \A i \in DOMAIN mails : mails'[i] = mails[i]
      /\ mails'[Len(mails) + 1] = m
      /\ \A i \in DOMAIN mails' : i \in DOMAIN mails \/ i = Len(mails) + 1
  BY <1>0, <1>2, MailAppended
<1>4. TypeOK'
  BY <1>0, <1>1, <1>3 DEF TypeOK
<1>5. SecondsCounted'
  BY <1>0, RestCounted
<1>6. FilesExist'
  BY <1>0, <1>1, <1>2, <1>3 DEF FilesExist
<1>7. SourceOrder'
  BY <1>0, <1>1, Empty DEF SourceOrder
<1>8. \A n \in Name : InFlight(n)' => InFlight(n) \/ n = fname
  BY <1>0, <1>2, <1>3 DEF InFlight
<1>9. ASSUME Untorn PROVE Untorn'
  <2>1. FlightOrder' /\ GotOnce'
    BY <1>0, <1>8, <1>9, FlightGrows
  <2>2. Faithful'
    BY <1>0, <1>2, <1>3, <1>9 DEF Untorn, Faithful
  <2>3. \A n \in Name : InFlight(n) => n < fname /\ n # fname
    BY <1>0, <1>2, <1>9, Bounds DEF Untorn, FlightOrder
  <2>4. /\ \A i \in DOMAIN notices : notices[i] # fname
        /\ \A i \in DOMAIN mails : mails[i].name # fname
        /\ script # None => script.name # fname
    BY <1>0, <2>3, FlightFacts, NamesTyped
  <2>5. OnePlace'
    BY <1>0, <1>2, <1>3, <1>9, <2>4 DEF Untorn, OnePlace
  <2> QED BY <2>1, <2>2, <2>5 DEF Untorn
<1>10. ASSUME Untorn, Orderly PROVE Orderly'
  <2>1. GotSorted'
    BY <1>0, <1>8, <1>10, FlightGrows DEF Orderly, GotSorted
  <2>2. \A n \in Name : InFlight(n) => n < fname
    BY <1>0, <1>10 DEF Untorn, FlightOrder
  <2>3. /\ \A i \in DOMAIN notices : notices[i] < fname
        /\ \A i \in DOMAIN mails : mails[i].name < fname
        /\ script # None => script.name < fname
    BY <1>0, <2>2, FlightFacts, NamesTyped
  <2>4. \A i, j \in DOMAIN mails' : i < j => mails'[i].name < mails'[j].name
    <3> SUFFICES ASSUME NEW i \in DOMAIN mails', NEW j \in DOMAIN mails', i < j
                 PROVE  mails'[i].name < mails'[j].name
      OBVIOUS
    <3>1. i \in DOMAIN mails
      BY <1>3
    <3>2. CASE j \in DOMAIN mails
      BY <1>3, <1>10, <3>1, <3>2 DEF Orderly, NamesInOrder
    <3>3. CASE j = Len(mails) + 1
      BY <1>2, <1>3, <2>3, <3>1, <3>3
    <3> QED BY <1>3, <3>2, <3>3
  <2>5. NamesInOrder'
    BY <1>0, <1>2, <1>3, <1>10, <2>3, <2>4 DEF Orderly, NamesInOrder
  <2> QED BY <2>1, <2>5 DEF Orderly
<1>11. broken \subseteq {"dropped"} => Untorn
  BY DEF IInv
<1> QED BY <1>0, <1>4, <1>5, <1>6, <1>7, <1>9, <1>10, <1>11 DEF IInv

LEMMA DaemonMailsInv == ASSUME IInv, DaemonMails PROVE IInv'
<1> DEFINE h == Head(dgrams)
<1>0. /\ TypeOK /\ SecondsCounted /\ FilesExist /\ SourceOrder
      /\ daemon = "up" /\ dgrams # <<>>
      /\ dgrams' = Tail(dgrams)
      /\ UNCHANGED <<made, queue, pc, due, dataset, fname, half, second, outbox,
                     daemon, script, inbox, notices, got, reader, broken>>
  BY DEF IInv, DaemonMails, thread, clock, far
<1>1. /\ h \in Name /\ dgrams' \in Seq(Name) /\ Len(dgrams') <= MaxDgrams
      /\ 1 \in DOMAIN dgrams /\ h = dgrams[1]
      /\ \A i \in DOMAIN dgrams' :
           i + 1 \in DOMAIN dgrams /\ dgrams'[i] = dgrams[i + 1] /\ i + 1 # 1
      /\ \A i, j \in DOMAIN dgrams' : i + 1 = j + 1 => i = j
      /\ \A i \in DOMAIN dgrams' : 1 < i + 1
  <2>1. /\ h \in Name /\ Tail(dgrams) \in Seq(Name)
        /\ Len(Tail(dgrams)) = Len(dgrams) - 1 /\ Len(dgrams) \in Nat
        /\ DOMAIN dgrams = 1 .. Len(dgrams) /\ Len(dgrams) >= 1
        /\ DOMAIN Tail(dgrams) = 1 .. (Len(dgrams) - 1)
        /\ \A i \in DOMAIN Tail(dgrams) : Tail(dgrams)[i] = dgrams[i + 1]
        /\ h = dgrams[1]
    BY <1>0, TailFacts, SeqFacts DEF TypeOK
  <2>2. Len(dgrams') <= MaxDgrams
    BY <1>0, <2>1, Bounds DEF TypeOK
  <2>3. \A i \in DOMAIN dgrams' : i \in Nat /\ i >= 1 /\ i + 1 \in 1 .. Len(dgrams)
    BY <1>0, <2>1
  <2> QED BY <1>0, <2>1, <2>2, <2>3
<1> HIDE DEF h
<1>2. outbox[h] \in File /\ outbox[h] # None
  BY <1>0, <1>1 DEF TypeOK, FilesExist
<1>3. PICK f \in Copies(outbox[h], "whole") :
        mails' = Append(mails, [name |-> h, file |-> f])
  BY DEF DaemonMails, h
<1> DEFINE m == [name |-> h, file |-> f]
<1>4. /\ f \in File /\ f.state # "open"
      /\ outbox[h].state # "open" => f = outbox[h]
  BY <1>2, CopiesFacts
<1>5. m \in Mail /\ m.name = h /\ m.file = f
  BY <1>1, <1>4 DEF Mail
<1> HIDE DEF m
<1>6. /\ mails' \in Seq(Mail)
      /\ DOMAIN mails = 1 .. Len(mails) /\ Len(mails) \in Nat
      /\ DOMAIN mails' = 1 .. (Len(mails) + 1)
      /\ \A i \in DOMAIN mails : mails'[i] = mails[i]
      /\ mails'[Len(mails) + 1] = m
      /\ \A i \in DOMAIN mails' : i \in DOMAIN mails \/ i = Len(mails) + 1
  BY <1>0, <1>3, <1>5, MailAppended DEF m
<1>7. TypeOK'
  BY <1>0, <1>1, <1>6 DEF TypeOK
<1>8. SecondsCounted' /\ SourceOrder'
  BY <1>0, SourceSame
<1>9. FilesExist'
  BY <1>0, <1>1, <1>2, <1>4, <1>5, <1>6 DEF FilesExist, Writing
<1>10. \A n \in Name : InFlight(n)' => InFlight(n)
  BY <1>0, <1>1, <1>5, <1>6 DEF InFlight, Range
<1>11. ASSUME Untorn PROVE Untorn'
  <2>1. FlightOrder' /\ GotOnce'
    BY <1>0, <1>10, <1>11, FlightShrinks DEF Untorn
  <2>2. outbox[h].state = "whole" /\ f = outbox[h]
    BY <1>1, <1>4, <1>11 DEF Untorn, Faithful
  <2>3. Faithful'
    BY <1>0, <1>1, <1>5, <1>6, <1>11, <2>2 DEF Untorn, Faithful
  <2>4. /\ \A i \in DOMAIN dgrams' : dgrams'[i] # h
        /\ \A i \in DOMAIN notices : notices[i] # h
        /\ \A i \in DOMAIN mails : mails[i].name # h
        /\ script # None => script.name # h
    BY <1>1, <1>11 DEF Untorn, OnePlace, Distinct, Disjoint
  <2>5. /\ Distinct(dgrams') /\ Disjoint(dgrams', notices)
        /\ \A i \in DOMAIN dgrams', j \in DOMAIN mails : dgrams'[i] # mails[j].name
        /\ script # None => \A i \in DOMAIN dgrams' : dgrams'[i] # script.name
    BY <1>1, <1>11 DEF Untorn, OnePlace, Distinct, Disjoint
  <2>6. /\ \A i, j \in DOMAIN mails' : mails'[i].name = mails'[j].name => i = j
        /\ \A i \in DOMAIN dgrams', j \in DOMAIN mails' : dgrams'[i] # mails'[j].name
        /\ \A i \in DOMAIN mails', j \in DOMAIN notices : mails'[i].name # notices[j]
        /\ script # None => \A i \in DOMAIN mails' : mails'[i].name # script.name
    BY <1>5, <1>6, <1>11, <2>4, <2>5 DEF Untorn, OnePlace
  <2>7. OnePlace'
    BY <1>0, <1>11, <2>5, <2>6 DEF Untorn, OnePlace
  <2> QED BY <2>1, <2>3, <2>7 DEF Untorn
<1>12. ASSUME Orderly PROVE Orderly'
  <2>1. GotSorted'
    BY <1>0, <1>10, <1>12, FlightShrinks DEF Orderly, GotSorted
  <2>2. Sorted(dgrams') /\ Precedes(notices, dgrams') /\ Over(h, dgrams')
    BY <1>0, <1>12, Typed, OrderTail DEF Orderly, NamesInOrder, h
  <2>3. /\ \A i \in DOMAIN notices : notices[i] < h
        /\ \A i \in DOMAIN mails : mails[i].name < h
        /\ script # None => script.name < h /\ Over(script.name, dgrams')
    BY <1>1, <1>12 DEF Orderly, NamesInOrder, Precedes, Over
  <2>4. \A i, j \in DOMAIN mails' : i < j => mails'[i].name < mails'[j].name
    <3> SUFFICES ASSUME NEW i \in DOMAIN mails', NEW j \in DOMAIN mails', i < j
                 PROVE  mails'[i].name < mails'[j].name
      OBVIOUS
    <3>1. i \in DOMAIN mails
      BY <1>6
    <3>2. CASE j \in DOMAIN mails
      BY <1>6, <1>12, <3>1, <3>2 DEF Orderly, NamesInOrder
    <3>3. CASE j = Len(mails) + 1
      BY <1>5, <1>6, <2>3, <3>1, <3>3
    <3> QED BY <1>6, <3>2, <3>3
  <2>5. \A i \in DOMAIN mails', j \in DOMAIN dgrams' : mails'[i].name < dgrams'[j]
    BY <1>1, <1>5, <1>6, <1>12, <2>2 DEF Orderly, NamesInOrder, Over
  <2>6. NamesInOrder'
    BY <1>0, <1>5, <1>6, <1>12, <2>2, <2>3, <2>4, <2>5 DEF Orderly, NamesInOrder
  <2> QED BY <2>1, <2>6 DEF Orderly
<1> QED BY <1>0, <1>7, <1>8, <1>9, <1>11, <1>12 DEF IInv

-----------------------------------------------------------------------------
(* Steps that lose names.                                                  *)

LEMMA DaemonDiesInv == ASSUME IInv, DaemonDies PROVE IInv'
<1>0. /\ TypeOK /\ SecondsCounted /\ FilesExist /\ SourceOrder
      /\ daemon' = "dead" /\ dgrams' = <<>>
      /\ broken' \in {broken, broken \cup {"dropped"}}
      /\ UNCHANGED <<made, queue, pc, due, dataset, fname, half, second, outbox,
                     mails, script, inbox, notices, got, reader>>
  BY DEF IInv, DaemonDies, Break, thread, clock, far
<1>1. /\ dgrams' \in Seq(Name) /\ Len(dgrams') <= MaxDgrams
      /\ \A i \in DOMAIN dgrams' : FALSE
  BY <1>0, EmptySeq, SeqFacts, Bounds
<1>2. TypeOK'
  <2>1. broken' \subseteq Breaks
    BY <1>0 DEF TypeOK, Breaks
  <2> QED BY <1>0, <1>1, <2>1 DEF TypeOK
<1>3. SecondsCounted' /\ SourceOrder'
  BY <1>0, SourceSame
<1>4. FilesExist'
  BY <1>0, <1>1 DEF FilesExist, Writing
<1>5. \A n \in Name : InFlight(n)' => InFlight(n)
  BY <1>0, <1>1 DEF InFlight, Range
<1>6. ASSUME Untorn PROVE Untorn'
  <2>1. FlightOrder' /\ GotOnce'
    BY <1>0, <1>5, <1>6, FlightShrinks DEF Untorn
  <2>2. Faithful' /\ OnePlace'
    BY <1>0, <1>1, <1>6 DEF Untorn, Faithful, OnePlace, Distinct, Disjoint
  <2> QED BY <2>1, <2>2 DEF Untorn
<1>7. ASSUME Orderly PROVE Orderly'
  <2>1. GotSorted'
    BY <1>0, <1>5, <1>7, FlightShrinks DEF Orderly, GotSorted
  <2>2. NamesInOrder'
    BY <1>0, <1>1, <1>7 DEF Orderly, NamesInOrder, Sorted, Precedes, Over
  <2> QED BY <2>1, <2>2 DEF Orderly
<1> QED BY <1>0, <1>2, <1>3, <1>4, <1>6, <1>7, BreaksStay DEF IInv

LEMMA RestartReaderInv == ASSUME IInv, RestartReader PROVE IInv'
<1>0. /\ TypeOK /\ SecondsCounted /\ FilesExist /\ SourceOrder
      /\ reader' = "up" /\ notices' = <<>>
      /\ broken' \in {broken, broken \cup {"dropped"}}
      /\ UNCHANGED <<made, queue, pc, due, dataset, fname, half, second, outbox,
                     dgrams, daemon, mails, script, inbox, got>>
  BY DEF IInv, RestartReader, Break, thread, clock, relay
<1>1. /\ notices' \in Seq(Name)
      /\ \A i \in DOMAIN notices' : FALSE
  BY <1>0, EmptySeq, SeqFacts
<1>2. TypeOK'
  <2>1. broken' \subseteq Breaks
    BY <1>0 DEF TypeOK, Breaks
  <2> QED BY <1>0, <1>1, <2>1 DEF TypeOK
<1>3. SecondsCounted' /\ SourceOrder'
  BY <1>0, SourceSame
<1>4. FilesExist'
  BY <1>0, <1>1 DEF FilesExist, Writing
<1>5. \A n \in Name : InFlight(n)' => InFlight(n)
  BY <1>0, <1>1 DEF InFlight, Range
<1>6. ASSUME Untorn PROVE Untorn'
  <2>1. FlightOrder' /\ GotOnce'
    BY <1>0, <1>5, <1>6, FlightShrinks DEF Untorn
  <2>2. Faithful' /\ OnePlace'
    BY <1>0, <1>1, <1>6 DEF Untorn, Faithful, OnePlace, Distinct, Disjoint
  <2> QED BY <2>1, <2>2 DEF Untorn
<1>7. ASSUME Orderly PROVE Orderly'
  <2>1. GotSorted'
    BY <1>0, <1>5, <1>7, FlightShrinks DEF Orderly
  <2>2. NamesInOrder'
    BY <1>0, <1>1, <1>7 DEF Orderly, NamesInOrder, Sorted, Precedes, Under
  <2> QED BY <2>1, <2>2 DEF Orderly
<1> QED BY <1>0, <1>2, <1>3, <1>4, <1>6, <1>7, BreaksStay DEF IInv

\* A mail leaves the mail system: lost, or taken up by the script.
LEMMA MailRemoved ==
  ASSUME TypeOK, NEW k \in DOMAIN mails, mails' = RemoveAt(mails, k)
  PROVE  /\ mails' \in Seq(Mail)
         /\ \E at \in [DOMAIN mails' -> DOMAIN mails] :
              /\ \A i \in DOMAIN mails' : mails'[i] = mails[at[i]] /\ at[i] # k
              /\ \A i, j \in DOMAIN mails' : at[i] = at[j] => i = j
              /\ \A i, j \in DOMAIN mails' : i < j => at[i] < at[j]
              /\ k = 1 => \A i \in DOMAIN mails' : k < at[i]
<1> DEFINE at == [i \in DOMAIN mails' |-> IF i < k THEN i ELSE i + 1]
<1>1. /\ mails' \in Seq(Mail) /\ Len(mails) \in Nat
      /\ DOMAIN mails' = 1 .. (Len(mails) - 1)
      /\ DOMAIN mails = 1 .. Len(mails)
      /\ k \in 1 .. Len(mails)
      /\ \A i \in DOMAIN mails' :
              /\ i < k => i \in DOMAIN mails /\ mails'[i] = mails[i]
              /\ i >= k => i + 1 \in DOMAIN mails /\ mails'[i] = mails[i + 1]
  BY RemoveFacts, SeqFacts DEF TypeOK
<1>2. \A i \in DOMAIN mails' : i \in Nat /\ i >= 1 /\ (i < k \/ i >= k)
  BY <1>1
<1>3. at \in [DOMAIN mails' -> DOMAIN mails]
  BY <1>1, <1>2
<1>4. \A i \in DOMAIN mails' : mails'[i] = mails[at[i]] /\ at[i] # k
  BY <1>1, <1>2
<1>5. \A i, j \in DOMAIN mails' : at[i] = at[j] => i = j
  BY <1>1, <1>2
<1>6. \A i, j \in DOMAIN mails' : i < j => at[i] < at[j]
  BY <1>1, <1>2
<1>7. k = 1 => \A i \in DOMAIN mails' : k < at[i]
  BY <1>1, <1>2
<1> HIDE DEF at
<1> QED BY <1>1, <1>3, <1>4, <1>5, <1>6, <1>7

LEMMA MailLostInv == ASSUME IInv, MailLost PROVE IInv'
<1>0. /\ TypeOK /\ SecondsCounted /\ FilesExist /\ SourceOrder
      /\ broken' \in {broken, broken \cup {"dropped"}}
      /\ UNCHANGED <<made, queue, pc, due, dataset, fname, half, second, outbox,
                     dgrams, daemon, script, inbox, notices, got, reader>>
  BY DEF IInv, MailLost, Break, thread, clock, relay, far
<1>1. PICK k \in DOMAIN mails : mails' = RemoveAt(mails, k)
  BY DEF MailLost
<1>2. /\ mails' \in Seq(Mail)
      /\ \E at \in [DOMAIN mails' -> DOMAIN mails] :
           /\ \A i \in DOMAIN mails' : mails'[i] = mails[at[i]] /\ at[i] # k
           /\ \A i, j \in DOMAIN mails' : at[i] = at[j] => i = j
           /\ \A i, j \in DOMAIN mails' : i < j => at[i] < at[j]
  BY <1>0, <1>1, MailRemoved
<1>3. PICK at \in [DOMAIN mails' -> DOMAIN mails] :
        /\ \A i \in DOMAIN mails' : mails'[i] = mails[at[i]] /\ at[i] # k
        /\ \A i, j \in DOMAIN mails' : at[i] = at[j] => i = j
        /\ \A i, j \in DOMAIN mails' : i < j => at[i] < at[j]
  BY <1>2
<1>4. TypeOK'
  <2>1. broken' \subseteq Breaks
    BY <1>0 DEF TypeOK, Breaks
  <2> QED BY <1>0, <1>2, <2>1 DEF TypeOK
<1>5. SecondsCounted' /\ SourceOrder'
  BY <1>0, SourceSame
<1>6. FilesExist'
  BY <1>0, <1>3 DEF FilesExist, Writing
<1>7. \A n \in Name : InFlight(n)' => InFlight(n)
  BY <1>0, <1>3 DEF InFlight
<1>8. ASSUME Untorn PROVE Untorn'
  <2>1. FlightOrder' /\ GotOnce'
    BY <1>0, <1>7, <1>8, FlightShrinks DEF Untorn
  <2>2. Faithful'
    BY <1>0, <1>3, <1>8 DEF Untorn, Faithful
  <2>3. OnePlace'
    BY <1>0, <1>3, <1>8 DEF Untorn, OnePlace
  <2> QED BY <2>1, <2>2, <2>3 DEF Untorn
<1>9. ASSUME Orderly PROVE Orderly'
  <2>1. GotSorted'
    BY <1>0, <1>7, <1>9, FlightShrinks DEF Orderly, GotSorted
  <2>2. NamesInOrder'
    BY <1>0, <1>3, <1>9 DEF Orderly, NamesInOrder
  <2> QED BY <2>1, <2>2 DEF Orderly
<1> QED BY <1>0, <1>4, <1>5, <1>6, <1>8, <1>9, BreaksStay DEF IInv

-----------------------------------------------------------------------------
(* Steps of the reading end.                                               *)

LEMMA ScriptOpensInv == ASSUME IInv, ScriptOpens PROVE IInv'
<1>0. /\ TypeOK /\ SecondsCounted /\ FilesExist /\ SourceOrder
      /\ script = None
      /\ UNCHANGED <<made, queue, pc, due, dataset, fname, half, second, outbox,
                     dgrams, daemon, notices, got, reader>>
  BY DEF IInv, ScriptOpens, thread, clock, relay
<1>1. PICK k \in DOMAIN mails :
        /\ \/ k = 1 /\ broken' = broken
           \/ broken' = broken \cup {"overtaken"}
        /\ script' = mails[k]
        /\ mails' = RemoveAt(mails, k)
        /\ inbox' = [inbox EXCEPT ![mails[k].name] =
                       [data |-> mails[k].file.data, state |-> "open"]]
  BY DEF ScriptOpens, Break
<1> DEFINE n0 == mails[k].name
           v == [data |-> mails[k].file.data, state |-> "open"]
<1>2. /\ mails[k] \in Mail /\ mails[k] # None /\ n0 \in Name
      /\ mails[k].file \in File /\ v \in File /\ v # None
  <2>1. mails[k] \in Mail /\ n0 \in Name /\ mails[k].file \in File
    BY <1>0, NamesTyped
  <2>2. v \in File
    BY <2>1, FileFields DEF File
  <2> QED BY <2>1, <2>2, FileFields
<1>3. /\ inbox' \in [Name -> File \cup {None}]
      /\ inbox'[n0] = v
      /\ \A n \in Name : n # n0 => inbox'[n] = inbox[n]
  BY <1>0, <1>1, <1>2 DEF TypeOK
<1> HIDE DEF v, n0
<1>4. /\ mails' \in Seq(Mail)
      /\ \E at \in [DOMAIN mails' -> DOMAIN mails] :
           /\ \A i \in DOMAIN mails' : mails'[i] = mails[at[i]] /\ at[i] # k
           /\ \A i, j \in DOMAIN mails' : at[i] = at[j] => i = j
           /\ \A i, j \in DOMAIN mails' : i < j => at[i] < at[j]
           /\ k = 1 => \A i \in DOMAIN mails' : k < at[i]
  BY <1>0, <1>1, MailRemoved
<1>5. PICK at \in [DOMAIN mails' -> DOMAIN mails] :
        /\ \A i \in DOMAIN mails' : mails'[i] = mails[at[i]] /\ at[i] # k
        /\ \A i, j \in DOMAIN mails' : at[i] = at[j] => i = j
        /\ \A i, j \in DOMAIN mails' : i < j => at[i] < at[j]
        /\ k = 1 => \A i \in DOMAIN mails' : k < at[i]
  BY <1>4
<1>6. script' = mails[k] /\ script'.name = n0 /\ script' # None
  BY <1>1, <1>2 DEF n0
<1>7. TypeOK'
  <2>1. broken' \subseteq Breaks
    BY <1>0, <1>1 DEF TypeOK, Breaks
  <2> QED BY <1>0, <1>2, <1>3, <1>4, <1>6, <2>1 DEF TypeOK
<1>8. SecondsCounted' /\ SourceOrder'
  BY <1>0, SourceSame
<1>9. FilesExist'
  <2>1. \A n \in Name : inbox[n] # None => inbox'[n] # None
    BY <1>2, <1>3
  <2>2. \A i \in DOMAIN notices : inbox'[notices[i]] # None
    BY <1>0, <2>1, NamesTyped DEF FilesExist
  <2>3. script'.file.state # "open" /\ outbox[script'.name] # None
    BY <1>0, <1>6 DEF FilesExist
  <2> QED BY <1>0, <1>5, <2>2, <2>3 DEF FilesExist, Writing
<1>10. \A n \in Name : InFlight(n)' => InFlight(n)
  BY <1>0, <1>5, <1>6 DEF InFlight
<1>11. ASSUME Untorn PROVE Untorn'
  <2>1. FlightOrder' /\ GotOnce'
    BY <1>0, <1>10, <1>11, FlightShrinks DEF Untorn
  <2>2. \A i \in DOMAIN notices : notices[i] # n0 /\ notices[i] \in Name
    BY <1>0, <1>11, NamesTyped DEF Untorn, OnePlace, n0
  <2>3. Faithful'
    BY <1>0, <1>3, <1>5, <1>6, <1>11, <2>2 DEF Untorn, Faithful
  <2>4. /\ \A i, j \in DOMAIN mails' : mails'[i].name = mails'[j].name => i = j
        /\ \A i \in DOMAIN mails' : mails'[i].name # n0
    BY <1>5, <1>11 DEF Untorn, OnePlace, n0
  <2>5. /\ \A i \in DOMAIN dgrams, j \in DOMAIN mails' : dgrams[i] # mails'[j].name
        /\ \A i \in DOMAIN mails', j \in DOMAIN notices : mails'[i].name # notices[j]
        /\ \A i \in DOMAIN dgrams : dgrams[i] # n0
    BY <1>5, <1>11 DEF Untorn, OnePlace, n0
  <2>6. OnePlace'
    BY <1>0, <1>6, <1>11, <2>2, <2>4, <2>5 DEF Untorn, OnePlace
  <2> QED BY <2>1, <2>3, <2>6 DEF Untorn
<1>12. ASSUME Orderly, k = 1 PROVE Orderly'
  <2>1. GotSorted'
    BY <1>0, <1>10, <1>12, FlightShrinks DEF Orderly, GotSorted
  <2>2. /\ \A i, j \in DOMAIN mails' : i < j => mails'[i].name < mails'[j].name
        /\ \A i \in DOMAIN notices, j \in DOMAIN mails' : notices[i] < mails'[j].name
        /\ \A i \in DOMAIN mails', j \in DOMAIN dgrams : mails'[i].name < dgrams[j]
    BY <1>5, <1>12 DEF Orderly, NamesInOrder
  <2>3. \A i \in DOMAIN mails' : n0 < mails'[i].name
    BY <1>5, <1>12 DEF Orderly, NamesInOrder, n0
  <2>4. Under(notices, n0) /\ Over(n0, dgrams)
    BY <1>12 DEF Orderly, NamesInOrder, Under, Over, n0
  <2>5. NamesInOrder'
    BY <1>0, <1>6, <1>12, <2>2, <2>3, <2>4 DEF Orderly, NamesInOrder
  <2> QED BY <2>1, <2>5 DEF Orderly
<1>13. broken' \subseteq {"dropped"} => k = 1 /\ broken \subseteq {"dropped"}
  <2>1. (k = 1 /\ broken' = broken) \/ broken' = broken \cup {"overtaken"}
    BY <1>1
  <2>2. "overtaken" \in broken' => ~(broken' \subseteq {"dropped"})
    OBVIOUS
  <2> QED BY <2>1, <2>2
<1>14. "torn" \notin broken' => "torn" \notin broken
  BY <1>1
<1> QED BY <1>7, <1>8, <1>9, <1>11, <1>12, <1>13, <1>14 DEF IInv

LEMMA NoticeFacts ==
  ASSUME TypeOK, NEW n \in Name, Notice(n)
  PROVE  /\ notices' \in Seq(Name)
         /\ \A i \in DOMAIN notices' :
              notices'[i] = n \/ (i \in DOMAIN notices /\ notices'[i] = notices[i])
         /\ (\A i \in DOMAIN notices : notices[i] # n) => notices' = Append(notices, n)
<1>1. /\ notices \in Seq(Name) /\ Len(notices) \in Nat
      /\ DOMAIN notices = 1 .. Len(notices)
      /\ notices # <<>> => Len(notices) \in DOMAIN notices
  BY SeqFacts DEF TypeOK
<1>2. CASE notices' = notices /\ notices # <<>> /\ Last(notices) = n
  <2>1. notices[Len(notices)] = n
    BY <1>2 DEF Last
  <2> QED BY <1>1, <1>2, <2>1
<1>3. CASE notices' = Append(notices, n)
  <2>1. /\ notices' \in Seq(Name) /\ DOMAIN notices' = 1 .. (Len(notices) + 1)
        /\ \A i \in DOMAIN notices : notices'[i] = notices[i]
        /\ notices'[Len(notices) + 1] = n
    BY <1>1, <1>3, AppendFacts
  <2>2. \A i \in DOMAIN notices' : i \in DOMAIN notices \/ i = Len(notices) + 1
    BY <1>1, <2>1
  <2>3. \A i \in DOMAIN notices' :
          notices'[i] = n \/ (i \in DOMAIN notices /\ notices'[i] = notices[i])
    BY <2>1, <2>2
  <2> QED BY <1>3, <2>1, <2>3
<1> QED BY <1>2, <1>3 DEF Notice

LEMMA ScriptClosesInv == ASSUME IInv, ScriptCloses PROVE IInv'
<1> DEFINE n0 == script.name
<1>0. /\ TypeOK /\ SecondsCounted /\ FilesExist /\ SourceOrder
      /\ script # None /\ script' = None /\ Notice(n0)
      /\ inbox' = [inbox EXCEPT ![n0] = script.file]
      /\ UNCHANGED <<made, queue, pc, due, dataset, fname, half, second, outbox,
                     dgrams, daemon, mails, got, reader, broken>>
  BY DEF IInv, ScriptCloses, thread, clock, relay
<1>1. n0 \in Name /\ script.file \in File /\ script.file # None
  BY <1>0, NamesTyped, FileFields
<1>2. /\ inbox' \in [Name -> File \cup {None}]
      /\ inbox'[n0] = script.file
      /\ \A n \in Name : n # n0 => inbox'[n] = inbox[n]
  BY <1>0, <1>1 DEF TypeOK
<1>3. /\ notices' \in Seq(Name)
      /\ \A i \in DOMAIN notices' :
           notices'[i] = n0 \/ (i \in DOMAIN notices /\ notices'[i] = notices[i])
      /\ (\A i \in DOMAIN notices : notices[i] # n0) => notices' = Append(notices, n0)
  BY <1>0, <1>1, NoticeFacts
<1>4. \A i \in DOMAIN notices : notices[i] \in Name
  BY <1>0, NamesTyped
<1>5. TypeOK'
  BY <1>0, <1>2, <1>3 DEF TypeOK
<1>6. SecondsCounted' /\ SourceOrder'
  BY <1>0, SourceSame
<1>7. FilesExist'
  BY <1>0, <1>1, <1>2, <1>3, <1>4 DEF FilesExist, Writing
<1>8. \A n \in Name : InFlight(n)' => InFlight(n)
  BY <1>0, <1>3 DEF InFlight, Range
<1>9. ASSUME Untorn PROVE Untorn'
  <2>1. FlightOrder' /\ GotOnce'
    BY <1>0, <1>8, <1>9, FlightShrinks DEF Untorn
  <2>2. Faithful'
    BY <1>0, <1>1, <1>2, <1>3, <1>4, <1>9 DEF Untorn, Faithful
  <2>3. /\ \A i \in DOMAIN notices : notices[i] # n0
        /\ \A i \in DOMAIN dgrams : dgrams[i] # n0
        /\ \A i \in DOMAIN mails : mails[i].name # n0
    BY <1>0, <1>9 DEF Untorn, OnePlace
  <2>4. Distinct(notices')
    <3>1. /\ DOMAIN notices' = 1 .. (Len(notices) + 1)
          /\ DOMAIN notices = 1 .. Len(notices) /\ Len(notices) \in Nat
          /\ \A i \in DOMAIN notices : notices'[i] = notices[i]
          /\ notices'[Len(notices) + 1] = n0
      <4>1. notices' = Append(notices, n0)
        BY <1>3, <2>3
      <4>2. notices \in Seq(Name)
        BY <1>0 DEF TypeOK
      <4> HIDE <1>0, <1>3
      <4> QED BY <1>1, <4>1, <4>2, AppendFacts, SeqFacts
    <3>2. \A i \in DOMAIN notices' : i \in DOMAIN notices \/ i = Len(notices) + 1
      BY <3>1
    <3>3. Distinct(notices)
      BY <1>9 DEF Untorn, OnePlace
    <3> HIDE <1>0, <1>3
    <3> QED BY <2>3, <3>1, <3>2, <3>3 DEF Distinct
  <2>5. Disjoint(dgrams, notices')
    BY <1>3, <1>9, <2>3 DEF Untorn, OnePlace, Disjoint
  <2>6. \A i \in DOMAIN mails, j \in DOMAIN notices' : mails[i].name # notices'[j]
    BY <1>3, <1>9, <2>3 DEF Untorn, OnePlace
  <2>7. OnePlace'
    BY <1>0, <1>9, <2>4, <2>5, <2>6 DEF Untorn, OnePlace
  <2> QED BY <2>1, <2>2, <2>7 DEF Untorn
<1>10. ASSUME Untorn, Orderly PROVE Orderly'
  <2>1. GotSorted'
    BY <1>0, <1>8, <1>10, FlightShrinks DEF Orderly, GotSorted
  <2>2. notices' = Append(notices, n0)
    BY <1>0, <1>3, <1>10 DEF Untorn, OnePlace
  <2>3. n0 \in Nat /\ Under(notices, n0) /\ Over(n0, dgrams)
    BY <1>0, <1>1, <1>10, Bounds DEF Orderly, NamesInOrder
  <2>4. Sorted(notices') /\ Precedes(notices', dgrams)
    BY <1>0, <1>10, <2>2, <2>3, Typed, OrderAppend DEF Orderly, NamesInOrder
  <2>5. \A i \in DOMAIN notices', j \in DOMAIN mails : notices'[i] < mails[j].name
    BY <1>0, <1>3, <1>10 DEF Orderly, NamesInOrder
  <2>6. NamesInOrder'
    BY <1>0, <1>10, <2>4, <2>5 DEF Orderly, NamesInOrder
  <2> QED BY <2>1, <2>6 DEF Orderly
<1>11. broken \subseteq {"dropped"} => Untorn
  BY DEF IInv
<1> QED BY <1>0, <1>5, <1>6, <1>7, <1>9, <1>10, <1>11 DEF IInv

\* What one reading takes off the notices and adds to the packets.
LEMMA ReadsHead ==
  ASSUME IInv, ReadAttachment, NEW h, h = Head(notices)
  PROVE  /\ h \in Name /\ notices' \in Seq(Name)
         /\ 1 \in DOMAIN notices /\ h = notices[1]
         /\ \A i \in DOMAIN notices' :
              i + 1 \in DOMAIN notices /\ notices'[i] = notices[i + 1] /\ i + 1 # 1
         /\ \A i, j \in DOMAIN notices' : i + 1 = j + 1 => i = j
         /\ \A i \in DOMAIN notices' : 1 < i + 1
         /\ got' \in Seq(Packet \cup {Garbled}) /\ reader' \in {"up", "crashed"}
         /\ Untorn =>
              /\ got' = got \o Data(h) /\ reader' = "up" /\ InFlight(h)
              /\ \A n \in Name : InFlight(n)' => InFlight(n) /\ n # h
              /\ Data(h) \in Seq(Nat) /\ Sorted(Data(h))
              /\ \A i \in DOMAIN Data(h) : Data(h)[i] # Garbled
<1>0. /\ TypeOK /\ SecondsCounted /\ FilesExist /\ SourceOrder
      /\ reader = "up" /\ notices # <<>> /\ notices' = Tail(notices)
      /\ UNCHANGED <<made, queue, pc, due, dataset, fname, half, second, outbox,
                     dgrams, daemon, mails, script, inbox, broken>>
  BY DEF IInv, ReadAttachment, thread, clock, relay
<1>1. PICK f \in Copies(inbox[h], ScriptEnd) : \E ps \in Parses(f) :
        \/ ps = None /\ reader' = "crashed" /\ UNCHANGED got
        \/ ps # None /\ got' = got \o ps /\ UNCHANGED reader
  BY DEF ReadAttachment
<1>2. PICK ps \in Parses(f) :
        \/ ps = None /\ reader' = "crashed" /\ UNCHANGED got
        \/ ps # None /\ got' = got \o ps /\ UNCHANGED reader
  BY <1>1
<1>3. /\ h \in Name /\ notices' \in Seq(Name)
      /\ 1 \in DOMAIN notices /\ h = notices[1]
      /\ \A i \in DOMAIN notices' :
           i + 1 \in DOMAIN notices /\ notices'[i] = notices[i + 1] /\ i + 1 # 1
      /\ \A i, j \in DOMAIN notices' : i + 1 = j + 1 => i = j
      /\ \A i \in DOMAIN notices' : 1 < i + 1
  <2>1. /\ h \in Name /\ Tail(notices) \in Seq(Name) /\ Len(notices) \in Nat
        /\ DOMAIN notices = 1 .. Len(notices) /\ Len(notices) >= 1
        /\ DOMAIN Tail(notices) = 1 .. (Len(notices) - 1)
        /\ \A i \in DOMAIN Tail(notices) : Tail(notices)[i] = notices[i + 1]
        /\ h = notices[1]
    BY <1>0, TailFacts, SeqFacts DEF TypeOK
  <2>2. \A i \in DOMAIN notices' : i \in Nat /\ i >= 1 /\ i + 1 \in 1 .. Len(notices)
    BY <1>0, <2>1
  <2> QED BY <1>0, <2>1, <2>2
<1>4. inbox[h] \in File
  BY <1>0, <1>3 DEF TypeOK, FilesExist
<1>5. /\ f \in File /\ f.state # "open"
      /\ inbox[h].state # "open" => f = inbox[h]
  <2>1. ScriptEnd \in Cut \cup {"whole"}
    BY <1>0, NamesTyped, FileFields DEF ScriptEnd, FilesExist
  <2> QED BY <1>4, <2>1, CopiesFacts
<1>6. /\ ps # None => ps \in Seq(Packet \cup {Garbled})
      /\ f.state = "whole" => ps = f.data /\ ps # None
  BY <1>5, ParsesFacts
<1>7. got' \in Seq(Packet \cup {Garbled}) /\ reader' \in {"up", "crashed"}
  <2>1. got \in Seq(Packet \cup {Garbled}) /\ reader \in {"up", "crashed"}
    BY <1>0 DEF TypeOK
  <2>2. CASE ps = None /\ reader' = "crashed" /\ UNCHANGED got
    BY <2>1, <2>2
  <2>3. CASE ps # None /\ got' = got \o ps /\ UNCHANGED reader
    BY <1>6, <2>1, <2>3, ConcatFacts
  <2> QED BY <1>2, <2>2, <2>3
<1>8. ASSUME Untorn
       PROVE  /\ got' = got \o Data(h) /\ reader' = "up" /\ InFlight(h)
              /\ \A n \in Name : InFlight(n)' => InFlight(n) /\ n # h
              /\ Data(h) \in Seq(Nat) /\ Sorted(Data(h))
              /\ \A i \in DOMAIN Data(h) : Data(h)[i] # Garbled
  <2>1. /\ inbox[h] = outbox[h] /\ outbox[h] \in File /\ outbox[h].state = "whole"
    BY <1>3, <1>4, <1>8 DEF Untorn, Faithful
  <2>2. ps = Data(h) /\ ps # None
    BY <1>5, <1>6, <2>1 DEF Data
  <2>3. InFlight(h)
    BY <1>3, FlightFacts
  <2>4. \A n \in Name : InFlight(n)' => InFlight(n)
    BY <1>0, <1>3 DEF InFlight, Range
  <2>5. ASSUME NEW n \in Name, n = h PROVE ~InFlight(n)'
    <3>1. \A i \in DOMAIN notices' : notices'[i] # h
      BY <1>3, <1>8 DEF Untorn, OnePlace, Distinct
    <3>2. /\ \A i \in DOMAIN dgrams : dgrams[i] # h
          /\ \A i \in DOMAIN mails : mails[i].name # h
          /\ script # None => script.name # h
      BY <1>3, <1>8 DEF Untorn, OnePlace, Disjoint
    <3> QED BY <1>0, <2>5, <3>1, <3>2 DEF InFlight, Range
  <2>6. Data(h) \in Seq(Packet)
    BY <2>1, FileFields DEF Data
  <2>7. \A i \in DOMAIN Data(h) : Data(h)[i] # Garbled
    BY <2>6, SeqFacts, Bounds
  <2>8. Data(h) \in Seq(Nat)
    BY <2>6, SeqMono, Bounds
  <2> QED BY <1>0, <1>2, <1>3, <1>8, <2>2, <2>3, <2>4, <2>5, <2>7, <2>8
          DEF Untorn, FlightOrder
<1> QED BY <1>3, <1>7, <1>8

LEMMA ReadAttachmentInv == ASSUME IInv, ReadAttachment PROVE IInv'
<1> DEFINE h == Head(notices)
<1>0. /\ TypeOK /\ SecondsCounted /\ FilesExist /\ SourceOrder
      /\ reader = "up" /\ notices # <<>> /\ notices' = Tail(notices)
      /\ UNCHANGED <<made, queue, pc, due, dataset, fname, half, second, outbox,
                     dgrams, daemon, mails, script, inbox, broken>>
  BY DEF IInv, ReadAttachment, thread, clock, relay
<1>3. /\ h \in Name /\ notices' \in Seq(Name)
      /\ 1 \in DOMAIN notices /\ h = notices[1]
      /\ \A i \in DOMAIN notices' :
           i + 1 \in DOMAIN notices /\ notices'[i] = notices[i + 1] /\ i + 1 # 1
      /\ \A i, j \in DOMAIN notices' : i + 1 = j + 1 => i = j
      /\ \A i \in DOMAIN notices' : 1 < i + 1
  BY ReadsHead
<1>7. got' \in Seq(Packet \cup {Garbled}) /\ reader' \in {"up", "crashed"}
  BY ReadsHead
<1>11. ASSUME Untorn
       PROVE  /\ got' = got \o Data(h) /\ reader' = "up" /\ InFlight(h)
              /\ \A n \in Name : InFlight(n)' => InFlight(n) /\ n # h
              /\ Data(h) \in Seq(Nat) /\ Sorted(Data(h))
              /\ \A i \in DOMAIN Data(h) : Data(h)[i] # Garbled
  BY <1>11, ReadsHead
<1> HIDE DEF h
<1>8. TypeOK'
  BY <1>0, <1>3, <1>7 DEF TypeOK
<1>9. SecondsCounted' /\ SourceOrder'
  BY <1>0, SourceSame
<1>10. FilesExist'
  BY <1>0, <1>3 DEF FilesExist, Writing
<1>12. ASSUME Untorn PROVE Untorn'
  <2>0. /\ got' = got \o Data(h) /\ InFlight(h) /\ h \in Name
        /\ \A n \in Name : InFlight(n)' => InFlight(n) /\ n # h
        /\ Data(h) \in Seq(Nat) /\ Sorted(Data(h))
        /\ \A i \in DOMAIN Data(h) : Data(h)[i] # Garbled
        /\ got \in Seq(Nat)
    BY <1>0, <1>3, <1>11, <1>12, Typed
  <2>1. \A n : Data(n)' = Data(n)
    BY <1>0 DEF Data
  <2>2. FlightOrder'
    BY <1>0, <1>12, <2>0, <2>1 DEF Untorn, FlightOrder, Writing
  <2>3. Faithful'
    BY <1>0, <1>3, <1>12 DEF Untorn, Faithful
  <2>4. OnePlace'
    <3>1. Distinct(notices') /\ Disjoint(dgrams, notices')
      BY <1>3, <1>12 DEF Untorn, OnePlace, Distinct, Disjoint
    <3> QED BY <1>0, <1>3, <1>12, <3>1 DEF Untorn, OnePlace
  <2>5. Distinct(Data(h))
    BY <2>0, SortedDistinct
  <2>6. Distinct(got') /\ UpTo(got', made)
    BY <1>12, <2>0, <2>5, OrderConcat DEF Untorn, GotOnce, FlightOrder
  <2>7. Precedes(got', dataset) /\ Precedes(got', queue)
    BY <1>12, <2>0, OrderConcat DEF Untorn, GotOnce, FlightOrder
  <2>8. \A i \in DOMAIN got' : got'[i] # Garbled
    <3>1. \A i \in DOMAIN got' :
            \/ i \in DOMAIN got /\ got'[i] = got[i]
            \/ i - Len(got) \in DOMAIN Data(h) /\ got'[i] = Data(h)[i - Len(got)]
      BY <2>0, ConcatFacts
    <3> QED BY <1>12, <2>0, <3>1 DEF Untorn, GotOnce
  <2>9. ASSUME NEW n \in Name, InFlight(n)' PROVE Disjoint(got', Data(n))
    <3>1. InFlight(n) /\ n # h /\ Disjoint(got, Data(n))
      BY <1>12, <2>0, <2>9 DEF Untorn, GotOnce
    <3>2. Precedes(Data(n), Data(h)) \/ Precedes(Data(h), Data(n))
      <4>1. n < h \/ h < n
        BY <2>0, <3>1, Bounds
      <4> QED BY <1>12, <2>0, <3>1, <4>1 DEF Untorn, FlightOrder
    <3>3. Data(n) \in Seq(Nat)
      BY <1>0, <1>12, <3>1, Flying
    <3>4. Disjoint(Data(h), Data(n))
      <4>1. \A i \in DOMAIN Data(h), j \in DOMAIN Data(n) :
              Data(h)[i] \in Nat /\ Data(n)[j] \in Nat
        BY <2>0, <3>3, SeqFacts
      <4> QED BY <3>2, <4>1 DEF Disjoint, Precedes
    <3> QED BY <2>0, <3>1, <3>4, OrderConcat
  <2>10. GotOnce'
    BY <1>0, <2>1, <2>6, <2>7, <2>8, <2>9 DEF GotOnce
  <2> QED BY <2>2, <2>3, <2>4, <2>10 DEF Untorn
<1>13. ASSUME Untorn, Orderly PROVE Orderly'
  <2>0. /\ got' = got \o Data(h) /\ InFlight(h) /\ h \in Name /\ reader' = "up"
        /\ \A n \in Name : InFlight(n)' => InFlight(n) /\ n # h
        /\ Data(h) \in Seq(Nat) /\ Sorted(Data(h)) /\ got \in Seq(Nat)
    BY <1>0, <1>3, <1>11, <1>13, Typed
  <2>1. \A n : Data(n)' = Data(n)
    BY <1>0 DEF Data
  <2>2. Sorted(notices') /\ Over(h, notices') /\ Precedes(notices', dgrams)
    BY <1>0, <1>13, Typed, OrderTail DEF Orderly, NamesInOrder, h
  <2>3. NamesInOrder'
    <3>1. /\ \A i \in DOMAIN notices', j \in DOMAIN mails : notices'[i] < mails[j].name
          /\ script # None => Under(notices', script.name)
      BY <1>3, <1>13 DEF Orderly, NamesInOrder, Under
    <3> QED BY <1>0, <1>13, <2>2, <3>1 DEF Orderly, NamesInOrder
  <2>4. Sorted(got')
    BY <1>13, <2>0, OrderConcat DEF Orderly, GotSorted
  <2>5. ASSUME NEW n \in Name, InFlight(n)' PROVE Precedes(got', Data(n))
    <3>1. h < n
      BY <1>0, <1>3, <1>13, <2>2, <2>5
         DEF InFlight, Range, Orderly, NamesInOrder, Over, Under, Precedes
    <3>2. InFlight(n) /\ Precedes(got, Data(n)) /\ Precedes(Data(h), Data(n))
      BY <1>13, <2>0, <2>5, <3>1 DEF Untorn, FlightOrder, Orderly, GotSorted
    <3> QED BY <2>0, <3>2, OrderConcat
  <2>6. GotSorted'
    BY <2>0, <2>1, <2>4, <2>5 DEF GotSorted
  <2> QED BY <2>3, <2>6 DEF Orderly
<1>14. broken \subseteq {"dropped"} => Untorn
  BY DEF IInv
<1> QED BY <1>0, <1>8, <1>9, <1>10, <1>12, <1>13, <1>14 DEF IInv

-----------------------------------------------------------------------------
(* The theorems.                                                           *)

LEMMA InitInv == ASSUME Init PROVE IInv
<1>0. /\ made = 0 /\ queue = <<>> /\ pc = "wait" /\ due = TRUE
      /\ dataset = <<>> /\ fname = 1 /\ half \in {0, 1} /\ second = 1
      /\ outbox = [n \in Name |-> None] /\ dgrams = <<>> /\ daemon \in Relays
      /\ mails = <<>> /\ script = None /\ inbox = [n \in Name |-> None]
      /\ notices = <<>> /\ got = <<>> /\ reader = "up" /\ broken = {}
  BY DEF Init
<1>1. 1 \in Name /\ 0 \in 0 .. MaxPackets /\ 0 <= MaxCount /\ 0 <= MaxDgrams
  BY Bounds DEF Name
<1>2. /\ \A S : <<>> \in Seq(S)
      /\ Len(<<>>) = 0
      /\ \A i : i \notin DOMAIN <<>>
  <2>1. \A S : <<>> \in Seq(S)
    BY EmptySeq
  <2>2. Len(<<>>) = 0
    BY EmptySeq
  <2>3. DOMAIN <<>> = {}
    BY <2>1, <2>2, SeqFacts
  <2> QED BY <2>1, <2>2, <2>3
<1>3. \A n : ~InFlight(n)
  BY <1>0, <1>2 DEF InFlight, Range
<1>4. TypeOK
  <2>1. daemon \in {"up", "dead", "none"}
    BY <1>0, SwitchAssumption
  <2>2. /\ outbox \in [Name -> File \cup {None}]
        /\ inbox \in [Name -> File \cup {None}]
    BY <1>0
  <2> QED BY <1>0, <1>1, <1>2, <2>1, <2>2 DEF TypeOK, Breaks
<1>5. SecondsCounted
  BY <1>0, <1>1, <1>2 DEF SecondsCounted, Left
<1>6. FilesExist
  BY <1>0, <1>2 DEF FilesExist, Writing
<1>7. SourceOrder
  BY <1>0, Empty DEF SourceOrder
<1>8. Untorn
  <2>1. Faithful /\ OnePlace
    BY <1>0, <1>2 DEF Faithful, OnePlace, Distinct, Disjoint
  <2>2. FlightOrder
    BY <1>0, <1>3 DEF FlightOrder, Writing
  <2>3. GotOnce
    BY <1>0, <1>2, <1>3, Empty DEF GotOnce, Distinct
  <2> QED BY <2>1, <2>2, <2>3 DEF Untorn
<1>9. Orderly
  <2>1. NamesInOrder
    BY <1>0, <1>2, Empty DEF NamesInOrder
  <2>2. GotSorted
    BY <1>0, <1>3, Empty DEF GotSorted
  <2> QED BY <2>1, <2>2 DEF Orderly
<1> QED BY <1>4, <1>5, <1>6, <1>7, <1>8, <1>9 DEF IInv

LEMMA StutterInv == ASSUME IInv, UNCHANGED vars PROVE IInv'
<1>0. /\ TypeOK /\ SecondsCounted /\ FilesExist /\ SourceOrder
      /\ UNCHANGED <<made, queue, pc, due, dataset, fname, half, second, outbox,
                     dgrams, daemon, mails, script, inbox, notices, got, reader,
                     broken>>
  BY DEF IInv, vars, thread, clock, relay, far
<1>1. TypeOK'
  BY <1>0 DEF TypeOK
<1>2. SecondsCounted' /\ SourceOrder'
  BY <1>0, SourceSame
<1>3. FilesExist'
  BY <1>0 DEF FilesExist, Writing
<1>4. \A n : InFlight(n)' <=> InFlight(n)
  BY <1>0, FarSame
<1>5. Untorn => Untorn'
  BY <1>0, <1>4, FarSame, FlightShrinks DEF Untorn
<1>6. Orderly => Orderly'
  BY <1>0, FarSame
<1> QED BY <1>0, <1>1, <1>2, <1>3, <1>5, <1>6 DEF IInv

\* The inductive invariant holds in every state.
THEOREM Inductive == Spec => []IInv
<1>1. Init => IInv
  BY InitInv
<1>2. IInv /\ [Next]_vars => IInv'
  <2> SUFFICES ASSUME IInv, [Next]_vars PROVE IInv'
    OBVIOUS
  <2>1. CASE PutData
    BY <2>1, PutDataInv
  <2>2. CASE Tick
    BY <2>2, TickInv
  <2>3. CASE Flush
    BY <2>3, RestInv, AdvanceInv, FetchInv, OpenFileInv, WriteInv,
       TellDaemonInv, RunSendemailInv DEF Flush
  <2>4. CASE DaemonMails
    BY <2>4, DaemonMailsInv
  <2>5. CASE DaemonDies
    BY <2>5, DaemonDiesInv
  <2>6. CASE MailLost
    BY <2>6, MailLostInv
  <2>7. CASE ScriptOpens
    BY <2>7, ScriptOpensInv
  <2>8. CASE ScriptCloses
    BY <2>8, ScriptClosesInv
  <2>9. CASE ReadAttachment
    BY <2>9, ReadAttachmentInv
  <2>10. CASE RestartReader
    BY <2>10, RestartReaderInv
  <2>11. CASE UNCHANGED vars
    BY <2>11, StutterInv
  <2> QED BY <2>1, <2>2, <2>3, <2>4, <2>5, <2>6, <2>7, <2>8, <2>9, <2>10, <2>11
          DEF Next
<1> QED BY <1>1, <1>2, PTL DEF Spec

\* The variables keep their types: names last, so that the mail thread never
\* runs out of them, and the reader is never asked for a file that does not
\* exist (do_flush_data, process_fs_event).
THEOREM TypeCorrect == Spec => []TypeOK
<1>1. IInv => TypeOK
  BY DEF IInv
<1> QED BY <1>1, Inductive, PTL

\* Unless a file is reopened in flight no packet is read twice, however many
\* mails are lost or overtake each other (do_flush_data, process_fs_event).
THEOREM EachReadOnce == Spec => []ReadOnce
<1>1. IInv => ReadOnce
  BY DEF IInv, ReadOnce, Untorn, GotOnce, Distinct
<1> QED BY <1>1, Inductive, PTL

\* Attachments that are given up cost packets, but what is read stays in
\* order and whole, and the reader does not crash (do_flush_data,
\* mail_daemon.py, attach.py, proxy_data_from_file).
THEOREM InOrder == Spec => []OrderKept
<1>1. IInv => OrderKept
  <2> SUFFICES ASSUME IInv, broken \subseteq {"dropped"}
               PROVE  /\ \A i, j \in DOMAIN got : i < j => got[i] < got[j]
                      /\ Garbled \notin Range(got)
                      /\ reader = "up"
    BY DEF OrderKept
  <2>1. Untorn /\ Orderly
    BY DEF IInv
  <2>2. Garbled \notin Range(got)
    BY <2>1 DEF Untorn, GotOnce, Range
  <2> QED BY <2>1, <2>2 DEF Orderly, GotSorted, Sorted
<1> QED BY <1>1, Inductive, PTL

=============================================================================
