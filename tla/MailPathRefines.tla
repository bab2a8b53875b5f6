-------------------------- MODULE MailPathRefines --------------------------
(***************************************************************************)
(* MailPath implements the abstract stream of PacketStream, for every      *)
(* choice of its constants.                                                *)
(***************************************************************************)
EXTENDS MailPathProofs

-----------------------------------------------------------------------------
(* As long as nothing went wrong, no packet is missing: every packet that  *)
(* was queued is still on its way or has been read, and what is together   *)
(* in one place has no holes.                                              *)

Dense(s, first) == \A i \in DOMAIN s : s[i] = first + i
Unbroken(s) == \A i, j \in DOMAIN s : s[i] - i = s[j] - j

Has(s, k) == \E i \in DOMAIN s : s[i] = k
Somewhere(k) ==
  \/ Has(got, k) \/ Has(dataset, k) \/ Has(queue, k)
  \/ \E n \in Name : InFlight(n) /\ Has(Data(n), k)

NoneMissing ==
  /\ Dense(queue, made - Len(queue))
  /\ Dense(dataset, made - Len(queue) - Len(dataset))
  /\ \A n \in Name : outbox[n] # None => Unbroken(Data(n))
  /\ Dense(got, 0)
  /\ \A k \in 1 .. made : Somewhere(k)

Complete == broken = {} => NoneMissing

-----------------------------------------------------------------------------

LEMMA EmptyFacts ==
  Len(<<>>) = 0 /\ \A k : Dense(<<>>, k) /\ ~Has(<<>>, k)
<1>1. <<>> \in Seq(Nat) /\ Len(<<>>) = 0
  BY EmptySeq
<1>2. DOMAIN <<>> = {}
  BY <1>1, SeqFacts
<1> QED BY <1>1, <1>2 DEF Dense, Has

LEMMA DenseUnbroken ==
  ASSUME NEW s \in Seq(Nat), NEW k \in Int, Dense(s, k) PROVE Unbroken(s)
<1>1. \A i \in DOMAIN s : i \in Int /\ s[i] = k + i
  BY SeqFacts DEF Dense
<1> QED BY <1>1 DEF Unbroken

LEMMA HasAppend ==
  ASSUME NEW s \in Seq(Nat), NEW e \in Nat
  PROVE  \A k : Has(Append(s, e), k) <=> Has(s, k) \/ k = e
<1> DEFINE a == Append(s, e)
<1>1. /\ DOMAIN s = 1 .. Len(s) /\ Len(s) \in Nat
      /\ DOMAIN a = 1 .. (Len(s) + 1)
      /\ \A i \in DOMAIN s : a[i] = s[i]
      /\ a[Len(s) + 1] = e
  BY SeqFacts, AppendFacts
<1> HIDE DEF a
<1>2. /\ \A i \in DOMAIN a : i \in DOMAIN s \/ i = Len(s) + 1
      /\ \A i \in DOMAIN s : i \in DOMAIN a
      /\ Len(s) + 1 \in DOMAIN a
  BY <1>1
<1>3. \A k : Has(a, k) <=> Has(s, k) \/ k = e
  BY <1>1, <1>2 DEF Has
<1> QED BY <1>3 DEF a

LEMMA HasTail ==
  ASSUME NEW s \in Seq(Nat), s # <<>>
  PROVE  \A k : Has(s, k) => Has(Tail(s), k) \/ k = Head(s)
<1> DEFINE a == Tail(s)
<1>1. /\ DOMAIN s = 1 .. Len(s) /\ Len(s) \in Nat
      /\ DOMAIN a = 1 .. (Len(s) - 1)
      /\ \A i \in DOMAIN a : a[i] = s[i + 1]
      /\ Head(s) = s[1]
  BY SeqFacts, TailFacts
<1> HIDE DEF a
<1>2. \A i \in DOMAIN s : i = 1 \/ (i - 1 \in DOMAIN a /\ (i - 1) + 1 = i)
  BY <1>1
<1>3. \A k : Has(s, k) => Has(a, k) \/ k = Head(s)
  <2> SUFFICES ASSUME NEW i \in DOMAIN s PROVE Has(a, s[i]) \/ s[i] = Head(s)
    BY DEF Has
  <2>1. CASE i = 1
    BY <1>1, <2>1
  <2>2. CASE i - 1 \in DOMAIN a /\ (i - 1) + 1 = i
    <3>1. a[i - 1] = s[i]
      BY <1>1, <2>2
    <3> QED BY <2>2, <3>1 DEF Has
  <2> QED BY <1>2, <2>1, <2>2
<1> QED BY <1>3 DEF a

LEMMA HasConcat ==
  ASSUME NEW s \in Seq(Nat), NEW t \in Seq(Nat)
  PROVE  \A k : Has(s, k) \/ Has(t, k) => Has(s \o t, k)
<1> DEFINE a == s \o t
<1>1. /\ DOMAIN s = 1 .. Len(s) /\ Len(s) \in Nat
      /\ DOMAIN t = 1 .. Len(t) /\ Len(t) \in Nat
      /\ DOMAIN a = 1 .. (Len(s) + Len(t))
      /\ \A i \in DOMAIN s : a[i] = s[i]
      /\ \A i \in DOMAIN a : i \notin DOMAIN s => a[i] = t[i - Len(s)]
  BY SeqFacts, ConcatFacts
<1> HIDE DEF a
<1>2. \A i \in DOMAIN s : i \in DOMAIN a
  BY <1>1
<1>3. \A i \in DOMAIN t :
        /\ Len(s) + i \in DOMAIN a /\ Len(s) + i \notin DOMAIN s
        /\ (Len(s) + i) - Len(s) = i
  BY <1>1
<1>4. \A i \in DOMAIN t : a[Len(s) + i] = t[i]
  BY <1>1, <1>3
<1>5. \A k : Has(s, k) \/ Has(t, k) => Has(a, k)
  BY <1>1, <1>2, <1>3, <1>4 DEF Has
<1> QED BY <1>5 DEF a

-----------------------------------------------------------------------------
(* Steps that move no packets.                                             *)

LEMMA Kept ==
  ASSUME NoneMissing, UNCHANGED <<made, queue, dataset, got>>,
         \A n \in Name : InFlight(n) => InFlight(n)' /\ Data(n)' = Data(n),
         \A n \in Name : outbox'[n] # None => Unbroken(Data(n)')
  PROVE  NoneMissing'
<1>1. \A k : Somewhere(k) => Somewhere(k)'
  BY DEF Somewhere
<1> QED BY <1>1 DEF NoneMissing

LEMMA KeptHere ==
  ASSUME NoneMissing, UNCHANGED <<made, queue, dataset, got, outbox>>,
         \A n \in Name : InFlight(n) => InFlight(n)'
  PROVE  NoneMissing'
<1>1. \A n : Data(n)' = Data(n)
  BY DEF Data
<1>2. \A n \in Name : outbox'[n] # None => Unbroken(Data(n)')
  BY <1>1 DEF NoneMissing
<1> QED BY <1>1, <1>2, Kept

LEMMA QuietComplete ==
  ASSUME IInv, NoneMissing,
         Tick \/ FlushNothing \/ FlushBegins \/ FetchEnds \/ UNCHANGED vars
  PROVE  NoneMissing'
<1>1. UNCHANGED <<made, queue, got, outbox, dgrams, mails, script, inbox,
                  notices, reader>>
  BY DEF Tick, FlushNothing, FlushBegins, FetchEnds, relay, far, clock, thread, vars
<1>2. dataset' = dataset
  BY DEF Tick, FlushNothing, FlushBegins, FetchEnds, Rest, IInv, SecondsCounted,
         vars, thread
<1>3. \A n : InFlight(n)' <=> InFlight(n)
  BY <1>1, FarSame
<1> QED BY <1>1, <1>2, <1>3, KeptHere

LEMMA DaemonMailsComplete ==
  ASSUME IInv, NoneMissing, DaemonMails PROVE NoneMissing'
<1> DEFINE h == Head(dgrams)
<1>0. /\ TypeOK /\ FilesExist /\ dgrams # <<>> /\ dgrams' = Tail(dgrams)
      /\ UNCHANGED <<made, queue, dataset, outbox, script, notices, got>>
  BY DEF IInv, DaemonMails, thread, far
<1>1. PICK f \in Copies(outbox[h], "whole") :
        mails' = Append(mails, [name |-> h, file |-> f])
  BY DEF DaemonMails
<1>2. /\ DOMAIN dgrams = 1 .. Len(dgrams) /\ Len(dgrams) \in Nat
      /\ DOMAIN dgrams' = 1 .. (Len(dgrams) - 1)
      /\ \A i \in DOMAIN dgrams' : dgrams'[i] = dgrams[i + 1]
      /\ h = dgrams[1] /\ h \in Name /\ 1 \in DOMAIN dgrams
  BY <1>0, TailFacts, SeqFacts DEF TypeOK
<1>3. \A i \in DOMAIN dgrams :
        i = 1 \/ (i - 1 \in DOMAIN dgrams' /\ dgrams'[i - 1] = dgrams[i])
  <2> SUFFICES ASSUME NEW i \in DOMAIN dgrams, i # 1
               PROVE  i - 1 \in DOMAIN dgrams' /\ dgrams'[i - 1] = dgrams[i]
    OBVIOUS
  <2>1. i - 1 \in DOMAIN dgrams' /\ (i - 1) + 1 = i
    BY <1>2
  <2> QED BY <1>2, <2>1
<1>4. outbox[h] \in File
  BY <1>0, <1>2 DEF TypeOK, FilesExist
<1>5. [name |-> h, file |-> f] \in Mail
  BY <1>2, <1>4, CopiesFacts DEF Mail
<1>6. /\ \A i \in DOMAIN mails : i \in DOMAIN mails' /\ mails'[i] = mails[i]
      /\ \E i \in DOMAIN mails' : mails'[i].name = h
  <2> DEFINE m == [name |-> h, file |-> f]
  <2>1. m \in Mail /\ m.name = h
    BY <1>5
  <2> HIDE DEF m, h
  <2>2. /\ DOMAIN mails = 1 .. Len(mails) /\ Len(mails) \in Nat
        /\ DOMAIN mails' = 1 .. (Len(mails) + 1)
        /\ \A i \in DOMAIN mails : mails'[i] = mails[i]
        /\ mails'[Len(mails) + 1] = m
    BY <1>0, <1>1, <2>1, MailAppended DEF m
  <2>3. Len(mails) + 1 \in DOMAIN mails' /\ \A i \in DOMAIN mails : i \in DOMAIN mails'
    BY <2>2
  <2> QED BY <2>1, <2>2, <2>3
<1> HIDE DEF h
<1>7. \A n \in Name : InFlight(n) => InFlight(n)'
  <2> SUFFICES ASSUME NEW n \in Name, InFlight(n) PROVE InFlight(n)'
    OBVIOUS
  <2>1. CASE n \in Range(dgrams)
    <3>1. PICK i \in DOMAIN dgrams : dgrams[i] = n
      BY <2>1 DEF Range
    <3>2. n = h \/ \E j \in DOMAIN dgrams' : dgrams'[j] = n
      BY <1>2, <1>3, <3>1
    <3> QED BY <1>6, <3>2 DEF InFlight, Range
  <2>2. CASE n \notin Range(dgrams)
    BY <1>0, <1>6, <2>2 DEF InFlight
  <2> QED BY <2>1, <2>2
<1> QED BY <1>0, <1>7, KeptHere

\* The first mail becomes the script's.
LEMMA ScriptOpensComplete ==
  ASSUME IInv, NoneMissing, ScriptOpens PROVE NoneMissing'
<1>0. /\ TypeOK /\ script = None
      /\ UNCHANGED <<made, queue, dataset, outbox, dgrams, notices, got>>
  BY DEF IInv, ScriptOpens, thread, relay
<1>1. PICK k \in DOMAIN mails :
        script' = mails[k] /\ mails' = RemoveAt(mails, k)
  BY DEF ScriptOpens
<1>2. /\ mails \in Seq(Mail) /\ DOMAIN mails = 1 .. Len(mails) /\ Len(mails) \in Nat
      /\ mails[k] # None
  <2>1. mails \in Seq(Mail) /\ DOMAIN mails = 1 .. Len(mails) /\ Len(mails) \in Nat
    BY <1>0, SeqFacts DEF TypeOK
  <2>2. mails[k] \in Mail
    BY <1>0, NamesTyped
  <2> QED BY <2>1, <2>2, FileFields
<1>3. /\ DOMAIN mails' = 1 .. (Len(mails) - 1)
      /\ \A i \in DOMAIN mails' : /\ i < k => mails'[i] = mails[i]
                                  /\ i >= k => mails'[i] = mails[i + 1]
  BY <1>1, <1>2, RemoveFacts
<1>4. \A i \in DOMAIN mails : i # k => \E j \in DOMAIN mails' : mails'[j] = mails[i]
  <2> SUFFICES ASSUME NEW i \in DOMAIN mails, i # k
               PROVE  \E j \in DOMAIN mails' : mails'[j] = mails[i]
    OBVIOUS
  <2>1. CASE i < k
    <3>1. i \in DOMAIN mails'
      BY <1>2, <1>3, <2>1
    <3> QED BY <1>3, <2>1, <3>1
  <2>2. CASE i > k
    <3>1. i - 1 \in DOMAIN mails' /\ i - 1 >= k /\ (i - 1) + 1 = i
      BY <1>2, <1>3, <2>2
    <3>2. mails'[i - 1] = mails[i]
      BY <1>3, <3>1
    <3> QED BY <3>1, <3>2
  <2> QED BY <1>2, <2>1, <2>2
<1>5. \A n \in Name : InFlight(n) => InFlight(n)'
  <2> SUFFICES ASSUME NEW n \in Name, InFlight(n) PROVE InFlight(n)'
    OBVIOUS
  <2>1. CASE n \in Range(dgrams) \cup Range(notices)
    BY <1>0, <2>1 DEF InFlight
  <2>2. CASE \E i \in DOMAIN mails : mails[i].name = n
    BY <1>1, <1>2, <1>4, <2>2 DEF InFlight
  <2> QED BY <1>0, <2>1, <2>2 DEF InFlight
<1> QED BY <1>0, <1>5, KeptHere

\* The script's file is noticed.
LEMMA ScriptClosesComplete ==
  ASSUME IInv, NoneMissing, ScriptCloses PROVE NoneMissing'
<1>0. /\ TypeOK /\ script # None /\ Notice(script.name)
      /\ UNCHANGED <<made, queue, dataset, outbox, dgrams, mails, got>>
  BY DEF IInv, ScriptCloses, thread, relay
<1>1. /\ notices \in Seq(Name) /\ script.name \in Name
      /\ DOMAIN notices = 1 .. Len(notices) /\ Len(notices) \in Nat
  BY <1>0, NamesTyped, SeqFacts DEF TypeOK
<1>2. /\ \A i \in DOMAIN notices : i \in DOMAIN notices' /\ notices'[i] = notices[i]
      /\ \E i \in DOMAIN notices' : notices'[i] = script.name
  <2>1. CASE notices' = Append(notices, script.name)
    <3> DEFINE e == script.name
    <3>1. e \in Name
      BY <1>1
    <3> HIDE DEF e
    <3>2. /\ DOMAIN notices' = 1 .. (Len(notices) + 1)
          /\ \A i \in DOMAIN notices : notices'[i] = notices[i]
          /\ notices'[Len(notices) + 1] = e
      BY <1>1, <2>1, <3>1, AppendFacts DEF e
    <3>3. /\ Len(notices) + 1 \in DOMAIN notices'
          /\ \A i \in DOMAIN notices : i \in DOMAIN notices'
      BY <1>1, <3>2
    <3> QED BY <3>2, <3>3 DEF e
  <2>2. CASE notices' = notices /\ notices # <<>> /\ Last(notices) = script.name
    <3>1. Len(notices) \in DOMAIN notices
      BY <1>1, <2>2, SeqFacts
    <3>2. notices[Len(notices)] = script.name
      BY <2>2 DEF Last
    <3> QED BY <2>2, <3>1, <3>2
  <2> QED BY <1>0, <2>1, <2>2 DEF Notice
<1>3. \A n \in Name : InFlight(n) => InFlight(n)'
  BY <1>0, <1>2 DEF InFlight, Range
<1> QED BY <1>0, <1>3, KeptHere

LEMMA RestartReaderComplete ==
  ASSUME IInv, NoneMissing, RestartReader, broken' = {} PROVE NoneMissing'
<1>1. /\ UNCHANGED <<made, queue, dataset, outbox, dgrams, mails, script, got>>
      /\ notices' = notices
  BY DEF RestartReader, Break, thread, relay
<1>2. \A n \in Name : InFlight(n) => InFlight(n)'
  BY <1>1 DEF InFlight
<1> QED BY <1>1, <1>2, KeptHere

-----------------------------------------------------------------------------
(* Steps that move packets.                                                *)

\* What is known of the sending end.
LEMMA Here ==
  ASSUME IInv, NoneMissing
  PROVE  /\ made \in Nat /\ Len(queue) \in Nat /\ Len(dataset) \in Nat
         /\ DOMAIN queue = 1 .. Len(queue) /\ DOMAIN dataset = 1 .. Len(dataset)
         /\ queue \in Seq(Nat) /\ dataset \in Seq(Nat) /\ got \in Seq(Nat)
         /\ \A i \in DOMAIN queue : queue[i] = made - Len(queue) + i
         /\ \A i \in DOMAIN dataset :
              dataset[i] = made - Len(queue) - Len(dataset) + i
<1>1. TypeOK
  BY DEF IInv
<1> QED BY <1>1, Typed, SeqFacts DEF NoneMissing, Dense

LEMMA PutDataComplete ==
  ASSUME IInv, NoneMissing, PutData PROVE NoneMissing'
<1>0. /\ made' = made + 1 /\ queue' = Append(queue, made + 1)
      /\ UNCHANGED <<dataset, outbox, dgrams, mails, script, inbox, notices,
                     got, reader>>
  BY DEF PutData, relay, far
<1>1. made + 1 \in Nat
  BY Here
<1>2. /\ Len(queue') = Len(queue) + 1 /\ DOMAIN queue' = 1 .. (Len(queue) + 1)
      /\ \A i \in DOMAIN queue : queue'[i] = queue[i]
      /\ queue'[Len(queue) + 1] = made + 1
      /\ \A k : Has(queue', k) <=> Has(queue, k) \/ k = made + 1
  BY <1>0, <1>1, Here, AppendFacts, HasAppend
<1>3. Dense(queue, made - Len(queue))'
  <2>1. made' - Len(queue') = made - Len(queue)
    BY <1>0, <1>2, Here
  <2>2. \A i \in DOMAIN queue' : i \in DOMAIN queue \/ i = Len(queue) + 1
    <3>1. DOMAIN queue = 1 .. Len(queue) /\ Len(queue) \in Nat
      BY Here
    <3> QED BY <1>2, <3>1
  <2>3. made + 1 = made - Len(queue) + (Len(queue) + 1)
    BY Here
  <2>4. \A i \in DOMAIN queue : queue'[i] = made - Len(queue) + i
    BY <1>2, Here
  <2>5. \A i \in DOMAIN queue' : queue'[i] = made - Len(queue) + i
    BY <1>2, <2>2, <2>3, <2>4
  <2> QED BY <2>1, <2>5 DEF Dense
<1>4. Dense(dataset, made - Len(queue) - Len(dataset))'
  <2>1. made' - Len(queue') - Len(dataset') = made - Len(queue) - Len(dataset)
    BY <1>0, <1>2, Here
  <2> QED BY <1>0, <2>1 DEF NoneMissing
<1>5. /\ \A n : InFlight(n)' <=> InFlight(n)
      /\ \A n : Data(n)' = Data(n)
  BY <1>0, FarSame
<1>6. \A k \in 1 .. made' : Somewhere(k)'
  <2> SUFFICES ASSUME NEW k \in 1 .. made' PROVE Somewhere(k)'
    OBVIOUS
  <2>1. k \in 1 .. made \/ k = made + 1
    BY <1>0, Here
  <2>2. CASE k \in 1 .. made
    BY <1>0, <1>2, <1>5, <2>2 DEF NoneMissing, Somewhere
  <2>3. CASE k = made + 1
    BY <1>2, <2>3 DEF Somewhere
  <2> QED BY <2>1, <2>2, <2>3
<1> QED BY <1>0, <1>3, <1>4, <1>5, <1>6 DEF NoneMissing

\* fetch_data takes the packet that is next.
LEMMA FetchComplete ==
  ASSUME IInv, NoneMissing, Fetch PROVE NoneMissing'
<1> DEFINE h == Head(queue)
<1>0. /\ queue # <<>> /\ queue' = Tail(queue) /\ dataset' = Append(dataset, h)
      /\ UNCHANGED <<made, outbox, dgrams, mails, script, inbox, notices,
                     got, reader>>
  BY DEF Fetch, relay, far
<1>1. /\ Len(queue') = Len(queue) - 1 /\ DOMAIN queue' = 1 .. (Len(queue) - 1)
      /\ \A i \in DOMAIN queue' : queue'[i] = queue[i + 1]
      /\ h = queue[1] /\ Len(queue) >= 1 /\ h \in Nat
      /\ \A k : Has(queue, k) => Has(queue', k) \/ k = h
  BY <1>0, Here, TailFacts, HasTail
<1> HIDE DEF h
<1>2. /\ Len(dataset') = Len(dataset) + 1 /\ DOMAIN dataset' = 1 .. (Len(dataset) + 1)
      /\ \A i \in DOMAIN dataset : dataset'[i] = dataset[i]
      /\ dataset'[Len(dataset) + 1] = h
      /\ \A k : Has(dataset', k) <=> Has(dataset, k) \/ k = h
  BY <1>0, <1>1, Here, AppendFacts, HasAppend
<1>3. Dense(queue, made - Len(queue))'
  <2>1. \A i \in DOMAIN queue' : i + 1 \in DOMAIN queue /\ i \in Nat
    BY <1>1, Here
  <2>2. \A i \in DOMAIN queue' : queue'[i] = made - Len(queue) + (i + 1)
    BY <1>1, <2>1, Here
  <2>3. \A i \in DOMAIN queue' : queue'[i] = made - (Len(queue) - 1) + i
    BY <2>1, <2>2, Here
  <2> QED BY <1>0, <1>1, <2>3 DEF Dense
<1>4. Dense(dataset, made - Len(queue) - Len(dataset))'
  <2>1. made \in Nat /\ Len(queue) \in Nat /\ Len(dataset) \in Nat
    BY Here
  <2>2. made' - Len(queue') - Len(dataset') = made - Len(queue) - Len(dataset)
    <3>1. made - (Len(queue) - 1) - (Len(dataset) + 1)
            = made - Len(queue) - Len(dataset)
      BY <2>1
    <3> QED BY <1>0, <1>1, <1>2, <3>1
  <2>3. \A i \in DOMAIN dataset' : i \in DOMAIN dataset \/ i = Len(dataset) + 1
    BY <1>2, Here
  <2>4. h = made - Len(queue) - Len(dataset) + (Len(dataset) + 1)
    <3>1. 1 \in DOMAIN queue
      BY <1>1, <2>1, Here
    <3>2. h = made - Len(queue) + 1
      BY <1>1, <3>1, Here
    <3> QED BY <2>1, <3>2
  <2>5. \A i \in DOMAIN dataset :
          dataset'[i] = made - Len(queue) - Len(dataset) + i
    BY <1>2, Here
  <2>6. \A i \in DOMAIN dataset' :
          dataset'[i] = made - Len(queue) - Len(dataset) + i
    BY <1>2, <2>3, <2>4, <2>5
  <2> QED BY <2>2, <2>6 DEF Dense
<1>5. /\ \A n : InFlight(n)' <=> InFlight(n)
      /\ \A n : Data(n)' = Data(n)
  BY <1>0, FarSame
<1>6. \A k : Somewhere(k) => Somewhere(k)'
  BY <1>0, <1>1, <1>2, <1>5 DEF Somewhere
<1> QED BY <1>0, <1>3, <1>4, <1>5, <1>6 DEF NoneMissing

LEMMA OpenFileComplete ==
  ASSUME IInv, NoneMissing, OpenFile, broken' = {} PROVE NoneMissing'
<1>0. /\ TypeOK /\ second \in Name /\ ~InFlight(second)
      /\ outbox' = [outbox EXCEPT ![second] = [data |-> dataset, state |-> "open"]]
      /\ UNCHANGED <<made, queue, dataset, got, dgrams, mails, script, inbox,
                     notices, reader>>
  BY DEF IInv, TypeOK, OpenFile, Break, relay, far
<1>1. /\ \A n : InFlight(n)' <=> InFlight(n)
      /\ \A n \in Name : InFlight(n) => Data(n)' = Data(n)
  BY <1>0, OutboxSame
<1>2. \A n \in Name : outbox'[n] # None => Unbroken(Data(n)')
  <2> SUFFICES ASSUME NEW n \in Name, outbox'[n] # None PROVE Unbroken(Data(n)')
    OBVIOUS
  <2>1. CASE n = second
    <3>1. Data(n)' = dataset
      BY <1>0, <2>1 DEF TypeOK, Data
    <3>2. made - Len(queue) - Len(dataset) \in Int
      BY Here
    <3> QED BY <3>1, <3>2, Here, DenseUnbroken DEF NoneMissing
  <2>2. CASE n # second
    <3>1. outbox'[n] = outbox[n]
      BY <1>0, <2>2 DEF TypeOK
    <3> QED BY <3>1 DEF NoneMissing, Data
  <2> QED BY <2>1, <2>2
<1> QED BY <1>0, <1>1, <1>2, Kept

LEMMA WriteFileComplete ==
  ASSUME IInv, NoneMissing, WriteFile PROVE NoneMissing'
<1> DEFINE v == [data |-> outbox[fname].data, state |-> "whole"]
<1>0. /\ TypeOK /\ FilesExist /\ Writing
      /\ outbox' = [outbox EXCEPT ![fname].state = "whole"]
      /\ UNCHANGED <<made, queue, dataset, got, dgrams, mails, script, inbox,
                     notices, reader>>
  BY DEF IInv, WriteFile, Writing, relay, far
<1>1. fname \in Name /\ outbox[fname] \in File /\ outbox \in [Name -> File \cup {None}]
  BY <1>0 DEF TypeOK, FilesExist
<1>2. [outbox[fname] EXCEPT !.state = "whole"] = v
  BY <1>1 DEF File
<1>3. \A n \in Name : outbox'[n] = IF n = fname THEN v ELSE outbox[n]
  BY <1>0, <1>1, <1>2
<1>4. \A n \in Name : Data(n)' = Data(n)
  BY <1>3 DEF Data
<1>5. \A n \in Name : outbox'[n] # None => outbox[n] # None
  BY <1>0, <1>3 DEF FilesExist
<1>6. \A n \in Name : outbox'[n] # None => Unbroken(Data(n)')
  BY <1>4, <1>5 DEF NoneMissing
<1>7. \A n : InFlight(n) => InFlight(n)'
  BY <1>0 DEF InFlight
<1> QED BY <1>0, <1>4, <1>6, <1>7, Kept

\* The packets of the mail thread go into flight with their file.
LEMMA HandedOn ==
  ASSUME IInv, NoneMissing, broken = {}, pc = "hand",
         UNCHANGED <<made, queue, outbox, got>>, dataset' = <<>>,
         fname' = fname, InFlight(fname)', \A n \in Name : InFlight(n) => InFlight(n)'
  PROVE  NoneMissing'
<1>1. fname \in Name /\ Data(fname) = dataset
  BY DEF IInv, TypeOK, Untorn, FlightOrder, Writing
<1>2. \A n : Data(n)' = Data(n)
  BY DEF Data
<1>3. \A k : Somewhere(k) => Somewhere(k)'
  <2> SUFFICES ASSUME NEW k, Somewhere(k) PROVE Somewhere(k)'
    OBVIOUS
  <2>1. CASE Has(dataset, k)
    <3>1. InFlight(fname)' /\ Has(Data(fname)', k)
      BY <1>1, <1>2, <2>1
    <3>2. \E n \in Name : InFlight(n)' /\ Has(Data(n)', k)
      BY <1>1, <3>1
    <3> QED BY <3>2 DEF Somewhere
  <2>2. CASE ~Has(dataset, k)
    BY <1>2, <2>2 DEF Somewhere
  <2> QED BY <2>1, <2>2
<1>4. Dense(dataset, made - Len(queue) - Len(dataset))'
  BY EmptyFacts
<1> QED BY <1>2, <1>3, <1>4 DEF NoneMissing

LEMMA TellDaemonComplete ==
  ASSUME IInv, NoneMissing, TellDaemon, broken' = {} PROVE NoneMissing'
<1>0. /\ TypeOK /\ pc = "hand" /\ dataset' = <<>> /\ broken = {} /\ fname' = fname
      /\ dgrams' = Append(dgrams, fname)
      /\ UNCHANGED <<made, queue, outbox, mails, script, notices, got>>
  BY DEF IInv, TellDaemon, Break, Rest, far
<1>1. fname \in Name /\ dgrams \in Seq(Name)
  BY <1>0 DEF TypeOK
<1>2. /\ DOMAIN dgrams = 1 .. Len(dgrams) /\ Len(dgrams) \in Nat
      /\ DOMAIN dgrams' = 1 .. (Len(dgrams) + 1)
      /\ \A i \in DOMAIN dgrams : dgrams'[i] = dgrams[i]
      /\ dgrams'[Len(dgrams) + 1] = fname
  BY <1>0, <1>1, SeqFacts, AppendFacts
<1>3. Len(dgrams) + 1 \in DOMAIN dgrams' /\ \A i \in DOMAIN dgrams : i \in DOMAIN dgrams'
  BY <1>2
<1>4. InFlight(fname)' /\ \A n \in Name : InFlight(n) => InFlight(n)'
  <2>1. fname \in Range(dgrams') /\ \A n : n \in Range(dgrams) => n \in Range(dgrams')
    BY <1>2, <1>3 DEF Range
  <2> QED BY <1>0, <2>1 DEF InFlight
<1> QED BY <1>0, <1>4, HandedOn

LEMMA RunSendemailComplete ==
  ASSUME IInv, NoneMissing, RunSendemail, broken = {} PROVE NoneMissing'
<1> DEFINE m == [name |-> fname, file |-> outbox[fname]]
<1>0. /\ TypeOK /\ FilesExist /\ Writing /\ pc = "hand" /\ dataset' = <<>>
      /\ mails' = Append(mails, m) /\ fname' = fname
      /\ UNCHANGED <<made, queue, outbox, dgrams, script, notices, got>>
  BY DEF IInv, RunSendemail, Rest, Writing, relay, far
<1>1. m \in Mail /\ m.name = fname
  BY <1>0 DEF TypeOK, FilesExist, Mail
<1> HIDE DEF m
<1>2. /\ DOMAIN mails = 1 .. Len(mails) /\ Len(mails) \in Nat
      /\ DOMAIN mails' = 1 .. (Len(mails) + 1)
      /\ \A i \in DOMAIN mails : mails'[i] = mails[i]
      /\ mails'[Len(mails) + 1] = m
  BY <1>0, <1>1, MailAppended
<1>3. Len(mails) + 1 \in DOMAIN mails' /\ \A i \in DOMAIN mails : i \in DOMAIN mails'
  BY <1>2
<1>4. \A n \in Name : InFlight(n) => InFlight(n)'
  BY <1>0, <1>2, <1>3 DEF InFlight
<1>5. InFlight(fname)'
  BY <1>0, <1>1, <1>2, <1>3 DEF InFlight
<1> QED BY <1>0, <1>4, <1>5, HandedOn

\* Of the names in flight the reader takes the first.
LEMMA FirstInFlight ==
  ASSUME IInv, Orderly, notices # <<>>, NEW n \in Name, InFlight(n)
  PROVE  n = Head(notices) \/ Head(notices) < n
<1> DEFINE h == Head(notices)
<1>1. /\ notices \in Seq(Nat) /\ DOMAIN notices = 1 .. Len(notices)
      /\ Len(notices) \in Nat /\ 1 \in DOMAIN notices /\ h = notices[1]
  <2>1. notices \in Seq(Nat)
    BY Typed DEF IInv
  <2>2. /\ DOMAIN notices = 1 .. Len(notices) /\ Len(notices) \in Nat
        /\ Len(notices) >= 1 /\ h = notices[1]
    BY <2>1, SeqFacts, TailFacts
  <2> QED BY <2>1, <2>2
<1> HIDE DEF h
<1>2. CASE n \in Range(notices)
  <2>1. PICK i \in DOMAIN notices : notices[i] = n
    BY <1>2 DEF Range
  <2>2. i = 1 \/ 1 < i
    BY <1>1, <2>1
  <2> QED BY <1>1, <2>1, <2>2 DEF Orderly, NamesInOrder, Sorted, h
<1>3. CASE n \in Range(dgrams)
  BY <1>1, <1>3 DEF Range, Orderly, NamesInOrder, Precedes, h
<1>4. CASE \E i \in DOMAIN mails : mails[i].name = n
  BY <1>1, <1>4 DEF Orderly, NamesInOrder, h
<1>5. CASE script # None /\ script.name = n
  BY <1>1, <1>5 DEF Orderly, NamesInOrder, Under, h
<1> QED BY <1>2, <1>3, <1>4, <1>5 DEF InFlight

\* The packets of the first file in flight are those that are due: a missing
\* one would be in none of the places.
LEMMA NextDue ==
  ASSUME IInv, NoneMissing, Untorn, Orderly, notices # <<>>,
         NEW h \in Name, h = Head(notices), InFlight(h)
  PROVE  \A i \in DOMAIN Data(h) : Data(h)[i] = Len(got) + i
<1>1. TypeOK /\ FilesExist
  BY DEF IInv
<1>2. /\ Data(h) \in Seq(Nat) /\ got \in Seq(Nat) /\ made \in Nat
      /\ outbox[h] # None
  BY <1>1, Flying, Typed
<1> DEFINE d == Data(h)
<1>3. /\ DOMAIN d = 1 .. Len(d) /\ Len(d) \in Nat
      /\ DOMAIN got = 1 .. Len(got) /\ Len(got) \in Nat
      /\ \A i \in DOMAIN d : d[i] \in Nat
  BY <1>2, SeqFacts
<1>4. /\ Unbroken(d) /\ Sorted(d) /\ Precedes(d, dataset) /\ Precedes(d, queue)
      /\ UpTo(d, made) /\ Precedes(got, d)
  BY <1>2 DEF NoneMissing, Untorn, FlightOrder, Orderly, GotSorted
<1>5. \A i \in DOMAIN got : got[i] = i
  <2>1. \A i \in DOMAIN got : got[i] = 0 + i
    BY DEF NoneMissing, Dense
  <2> QED BY <1>3, <2>1
<1>6. \A n \in Name : InFlight(n) /\ n # h => Precedes(d, Data(n))
  BY FirstInFlight DEF Untorn, FlightOrder
<1> HIDE DEF d
<1>7. ASSUME d # <<>> PROVE 1 \in DOMAIN d /\ d[1] = Len(got) + 1
  <2>1. 1 \in DOMAIN d /\ d[1] \in Nat /\ d[1] <= made
    <3>1. d \in Seq(Nat)
      BY <1>2 DEF d
    <3>2. Len(d) # 0
      BY <1>7, <3>1, EmptySeq
    <3>3. 1 \in DOMAIN d
      BY <1>3, <3>2
    <3> QED BY <1>3, <1>4, <3>3 DEF UpTo
  <2>2. Len(got) < d[1]
    <3>1. CASE Len(got) = 0
      <4>1. d[1] # Garbled /\ d[1] # 0
        <5>1. Data(h) \in Seq(Packet)
          BY <1>1, <1>2, FileFields DEF TypeOK, Data
        <5>2. d[1] \in Packet
          BY <2>1, <5>1, SeqFacts DEF d
        <5> QED BY <5>2, Bounds
      <4> QED BY <2>1, <3>1, <4>1
    <3>2. CASE Len(got) # 0
      <4>1. Len(got) \in DOMAIN got
        BY <1>3, <3>2
      <4> QED BY <1>4, <1>5, <2>1, <4>1 DEF Precedes
    <3> QED BY <3>1, <3>2
  <2>3. ASSUME Len(got) + 1 < d[1] PROVE FALSE
    <3> DEFINE k == Len(got) + 1
    <3>1. k \in 1 .. made
      BY <1>2, <1>3, <2>1, <2>3
    <3>2. k < d[1] /\ k \in Nat
      BY <1>3, <2>3
    <3>3. \A s : Precedes(d, s) => ~Has(s, k)
      <4> SUFFICES ASSUME NEW s, Precedes(d, s), NEW i \in DOMAIN s, s[i] = k
                   PROVE  FALSE
        BY DEF Has
      <4>1. d[1] < k
        BY <2>1 DEF Precedes
      <4> QED BY <2>1, <3>2, <4>1
    <3>4. ~Has(got, k)
      BY <1>3, <1>5 DEF Has
    <3>5. ~Has(d, k)
      <4> SUFFICES ASSUME NEW i \in DOMAIN d, d[i] = k PROVE FALSE
        BY DEF Has
      <4>1. i = 1 \/ 1 < i
        BY <1>3
      <4>2. CASE i = 1
        BY <2>1, <3>2, <4>2
      <4>3. CASE 1 < i
        <5>1. d[1] < k
          BY <1>4, <2>1, <4>3 DEF Sorted
        <5> QED BY <2>1, <3>2, <5>1
      <4> QED BY <4>1, <4>2, <4>3
    <3> HIDE DEF k
    <3>6. Somewhere(k)
      BY <3>1 DEF NoneMissing
    <3>7. \A n \in Name : InFlight(n) => ~Has(Data(n), k)
      BY <1>6, <3>3, <3>5 DEF d
    <3> QED BY <1>4, <3>3, <3>4, <3>6, <3>7 DEF Somewhere
  <2> QED BY <1>3, <2>1, <2>2, <2>3
<1>8. \A i \in DOMAIN d : d[i] = Len(got) + i
  <2> SUFFICES ASSUME NEW i \in DOMAIN d PROVE d[i] = Len(got) + i
    OBVIOUS
  <2>1. d # <<>>
    BY EmptyFacts, <1>3
  <2>2. 1 \in DOMAIN d /\ d[1] = Len(got) + 1
    BY <1>7, <2>1
  <2>3. d[i] - i = d[1] - 1
    BY <1>4, <2>2 DEF Unbroken
  <2>4. i \in Nat /\ d[i] \in Nat
    BY <1>3
  <2> QED BY <1>3, <2>2, <2>3, <2>4
<1> QED BY <1>8 DEF d

LEMMA ReadAttachmentComplete ==
  ASSUME IInv, NoneMissing, ReadAttachment, broken = {} PROVE NoneMissing'
<1> DEFINE h == Head(notices)
<1>0. /\ TypeOK /\ FilesExist /\ Untorn /\ Orderly
      /\ notices # <<>> /\ notices' = Tail(notices)
      /\ UNCHANGED <<made, queue, dataset, outbox, dgrams, mails, script>>
  BY DEF IInv, ReadAttachment, thread, relay
<1>1. h \in Name /\ got' = got \o Data(h) /\ InFlight(h) /\ Data(h) \in Seq(Nat)
  BY <1>0, ReadsHead
<1>2. \A i \in DOMAIN Data(h) : Data(h)[i] = Len(got) + i
  BY <1>0, <1>1, NextDue
<1>3. Dense(got', 0)
  <2>1. \A i \in DOMAIN got' :
          \/ i \in DOMAIN got /\ got'[i] = got[i]
          \/ /\ i - Len(got) \in DOMAIN Data(h)
             /\ got'[i] = Data(h)[i - Len(got)]
    BY <1>1, Here, ConcatFacts
  <2>2. Len(got) \in Nat /\ got' \in Seq(Nat)
    BY <1>1, Here, SeqFacts, ConcatFacts
  <2>3. \A i \in DOMAIN got' : i \in Nat
    BY <2>2, SeqFacts
  <2>4. \A i \in DOMAIN got' : got'[i] = 0 + i
    <3> SUFFICES ASSUME NEW i \in DOMAIN got' PROVE got'[i] = 0 + i
      OBVIOUS
    <3>1. CASE i \in DOMAIN got /\ got'[i] = got[i]
      BY <3>1 DEF NoneMissing, Dense
    <3>2. CASE /\ i - Len(got) \in DOMAIN Data(h)
               /\ got'[i] = Data(h)[i - Len(got)]
      <4>1. got'[i] = Len(got) + (i - Len(got))
        BY <1>2, <3>2
      <4> QED BY <2>2, <2>3, <4>1
    <3> QED BY <2>1, <3>1, <3>2
  <2> QED BY <2>4 DEF Dense
<1>4. \A n \in Name : InFlight(n) /\ n # h => InFlight(n)'
  <2>1. /\ DOMAIN notices = 1 .. Len(notices) /\ Len(notices) \in Nat
        /\ DOMAIN notices' = 1 .. (Len(notices) - 1)
        /\ \A i \in DOMAIN notices' : notices'[i] = notices[i + 1]
        /\ h = notices[1]
    BY <1>0, TailFacts, SeqFacts DEF TypeOK
  <2> HIDE DEF h
  <2>2. \A i \in DOMAIN notices :
          i = 1 \/ (i - 1 \in DOMAIN notices' /\ (i - 1) + 1 = i)
    BY <2>1
  <2>3. \A n : n \in Range(notices) /\ n # h => n \in Range(notices')
    <3> SUFFICES ASSUME NEW i \in DOMAIN notices, notices[i] # h
                 PROVE  \E j \in DOMAIN notices' : notices'[j] = notices[i]
      BY DEF Range
    <3>1. i - 1 \in DOMAIN notices' /\ (i - 1) + 1 = i
      BY <2>1, <2>2
    <3>2. notices'[i - 1] = notices[i]
      BY <2>1, <3>1
    <3> QED BY <3>1, <3>2
  <2> QED BY <1>0, <2>3 DEF InFlight
<1>5. \A n : Data(n)' = Data(n)
  BY <1>0 DEF Data
<1>6. \A k : Has(got, k) \/ Has(Data(h), k) => Has(got', k)
  BY <1>1, Here, HasConcat
<1>7. \A k : Somewhere(k) => Somewhere(k)'
  BY <1>0, <1>4, <1>5, <1>6 DEF Somewhere
<1> QED BY <1>0, <1>3, <1>5, <1>7 DEF NoneMissing

-----------------------------------------------------------------------------
(* The theorems.                                                           *)

LEMMA InitComplete == ASSUME Init PROVE Complete
<1>1. /\ made = 0 /\ queue = <<>> /\ dataset = <<>> /\ got = <<>>
      /\ outbox = [n \in Name |-> None]
  BY DEF Init
<1>2. Dense(queue, made - Len(queue)) /\ Dense(got, 0)
      /\ Dense(dataset, made - Len(queue) - Len(dataset))
  BY <1>1, EmptyFacts
<1>3. 1 .. made = {}
  BY <1>1
<1> QED BY <1>1, <1>2, <1>3 DEF Complete, NoneMissing

\* Once something has gone wrong, it has.
LEMMA BrokenStays ==
  ASSUME [Next]_vars PROVE broken \subseteq broken'
<1>1. CASE Flush
  BY <1>1 DEF Flush, FlushNothing, FlushBegins, Fetch, FetchEnds, OpenFile,
     OpenFails, WriteFile, WriteFails, TellDaemon, RunSendemail,
     SendemailFails, Break
<1>2. CASE PutData \/ Tick \/ DaemonMails \/ DaemonDies \/ MailLost
  BY <1>2 DEF PutData, Tick, DaemonMails, DaemonDies, MailLost, Break
<1>3. CASE ScriptOpens \/ ScriptCloses \/ ReadAttachment \/ RestartReader
  BY <1>3 DEF ScriptOpens, ScriptCloses, ReadAttachment, RestartReader, Break
<1>4. CASE UNCHANGED vars
  BY <1>4 DEF vars
<1> QED BY <1>1, <1>2, <1>3, <1>4 DEF Next

LEMMA NextComplete ==
  ASSUME IInv, Complete, [Next]_vars PROVE Complete'
<1> SUFFICES ASSUME broken' = {} PROVE NoneMissing'
  BY DEF Complete
<1>1. broken = {} /\ NoneMissing
  BY BrokenStays DEF Complete
<1>2. CASE Tick \/ FlushNothing \/ FlushBegins \/ FetchEnds \/ UNCHANGED vars
  BY <1>1, <1>2, QuietComplete
<1>3. CASE OpenFails \/ WriteFails \/ SendemailFails \/ DaemonDies \/ MailLost
  BY <1>3 DEF OpenFails, WriteFails, SendemailFails, DaemonDies, MailLost, Break
<1>4. CASE PutData \/ Fetch
  BY <1>1, <1>4, PutDataComplete, FetchComplete
<1>5. CASE OpenFile \/ WriteFile
  BY <1>1, <1>5, OpenFileComplete, WriteFileComplete
<1>6. CASE TellDaemon \/ RunSendemail
  BY <1>1, <1>6, TellDaemonComplete, RunSendemailComplete
<1>7. CASE DaemonMails
  BY <1>1, <1>7, DaemonMailsComplete
<1>8. CASE ScriptOpens \/ ScriptCloses
  BY <1>1, <1>8, ScriptOpensComplete, ScriptClosesComplete
<1>9. CASE ReadAttachment
  BY <1>1, <1>9, ReadAttachmentComplete
<1>10. CASE RestartReader
  BY <1>1, <1>10, RestartReaderComplete
<1> QED BY <1>2, <1>3, <1>4, <1>5, <1>6, <1>7, <1>8, <1>9, <1>10 DEF Next, Flush

LEMMA AlwaysComplete == Spec => []Complete
<1>1. Init => Complete
  BY InitComplete
<1>2. IInv /\ Complete /\ [Next]_vars => Complete'
  BY NextComplete
<1> QED BY <1>1, <1>2, Inductive, PTL DEF Spec

LEMMA SentFacts ==
  ASSUME made \in Nat
  PROVE  /\ Sent \in Seq(Nat) /\ Len(Sent) = made
         /\ \A k \in 1 .. made : Sent[k] = k
<1>1. Sent \in [1 .. made -> Nat]
  BY DEF Sent
<1>2. Sent \in Seq(Nat)
  BY <1>1, SeqDef
<1>3. DOMAIN Sent = 1 .. made
  BY DEF Sent
<1>4. Len(Sent) = made
  BY <1>2, <1>3, LenProperties
<1> QED BY <1>2, <1>4 DEF Sent

LEMMA PutDataSends ==
  ASSUME IInv, PutData PROVE Stream!Send
<1>0. /\ made \in Nat /\ made' = made + 1 /\ made' \in Packet
      /\ UNCHANGED <<got, broken>>
  BY Bounds DEF IInv, TypeOK, PutData, Packet, far
<1>1. /\ Sent \in Seq(Nat) /\ Len(Sent) = made
      /\ \A k \in 1 .. made : Sent[k] = k
  BY <1>0, SentFacts
<1>2. /\ Sent' \in Seq(Nat) /\ Len(Sent') = made + 1
      /\ \A k \in 1 .. made + 1 : Sent'[k] = k
  <2>1. Sent' = [k \in 1 .. made + 1 |-> k]
    BY <1>0 DEF Sent
  <2>2. made + 1 \in Nat /\ Sent' \in [1 .. made + 1 -> Nat]
    BY <1>0, <2>1
  <2>3. Sent' \in Seq(Nat)
    BY <2>2, SeqDef
  <2>4. DOMAIN Sent' = 1 .. made + 1
    BY <2>1
  <2> QED BY <2>1, <2>2, <2>3, <2>4, LenProperties
<1>3. /\ Append(Sent, made + 1) \in Seq(Nat)
      /\ Len(Append(Sent, made + 1)) = made + 1
      /\ \A k \in 1 .. made : Append(Sent, made + 1)[k] = k
      /\ Append(Sent, made + 1)[made + 1] = made + 1
  <2>1. made + 1 \in Nat /\ DOMAIN Sent = 1 .. made
    BY <1>0, <1>1, SeqFacts
  <2> QED BY <1>1, <2>1, AppendFacts
<1>4. \A k \in 1 .. made + 1 : k \in 1 .. made \/ k = made + 1
  BY <1>0
<1>5. \A k \in 1 .. made + 1 : Sent'[k] = Append(Sent, made + 1)[k]
  BY <1>2, <1>3, <1>4
<1>6. Sent' = Append(Sent, made + 1)
  BY <1>2, <1>3, <1>5, SeqEqual
<1>7. \E p \in Packet : Sent' = Append(Sent, p)
  BY <1>0, <1>6
<1> QED BY <1>0, <1>7 DEF Stream!Send

\* A reading without anything broken delivers what comes next.
LEMMA ReadDelivers ==
  ASSUME IInv, NoneMissing, ReadAttachment, broken = {}
  PROVE  Stream!Deliver \/ UNCHANGED Stream!vars
<1>0. /\ TypeOK /\ Untorn /\ UNCHANGED <<made, broken>> /\ made \in Nat
  BY Here DEF IInv, ReadAttachment
<1>1. NoneMissing' /\ IInv'
  BY ReadAttachmentComplete, ReadAttachmentInv
<1>2. UpTo(got', made') /\ TypeOK'
  BY <1>0, <1>1 DEF IInv, Untorn, GotOnce
<1>3. got' \in Seq(Nat) /\ got \in Seq(Nat)
  <2>1. got' \in Seq(Packet \cup {Garbled}) /\ got \in Seq(Packet \cup {Garbled})
    BY <1>0, <1>2 DEF TypeOK
  <2>2. Packet \cup {Garbled} \subseteq Nat
    BY Bounds DEF Garbled
  <2> QED BY <2>1, <2>2, SeqMono
<1>4. /\ DOMAIN got = 1 .. Len(got) /\ Len(got) \in Nat
      /\ DOMAIN got' = 1 .. Len(got') /\ Len(got') \in Nat
  BY <1>3, SeqFacts
<1>5. /\ \A i \in 1 .. Len(got) : got[i] = i
      /\ \A i \in 1 .. Len(got') : got'[i] = i
  <2>1. /\ \A i \in DOMAIN got : got[i] = 0 + i
        /\ \A i \in DOMAIN got' : got'[i] = 0 + i
    BY <1>1 DEF NoneMissing, Dense
  <2> QED BY <1>4, <2>1
<1>6. Len(got') <= made
  <2>1. CASE Len(got') = 0
    BY <1>0, <2>1
  <2>2. CASE Len(got') # 0
    <3>1. Len(got') \in DOMAIN got' /\ Len(got') \in 1 .. Len(got')
      BY <1>4, <2>2
    <3> QED BY <1>0, <1>2, <1>5, <3>1 DEF UpTo
  <2> QED BY <2>1, <2>2
<1>7. Len(got') >= Len(got)
  <2> DEFINE d == Data(Head(notices))
  <2>1. got' = got \o d /\ d \in Seq(Nat)
    BY <1>0, ReadsHead
  <2> HIDE DEF d
  <2>2. Len(got') = Len(got) + Len(d) /\ Len(d) \in Nat
    BY <1>3, <2>1, ConcatFacts, SeqFacts
  <2> QED BY <1>4, <2>2
<1>8. Sent' = Sent /\ ((broken = {})' <=> (broken = {}))
  BY <1>0 DEF Sent
<1>9. CASE Len(got') = Len(got)
  <2>1. got' = got
    BY <1>3, <1>5, <1>9, SeqEqual
  <2> QED BY <1>0, <1>8, <2>1 DEF Stream!vars
<1>10. CASE Len(got') # Len(got)
  <2> DEFINE k == Len(got')
             s == SubSeq(Sent, 1, k)
  <2>1. Len(Sent) = made /\ \A i \in 1 .. made : Sent[i] = i
    BY <1>0, SentFacts
  <2>2. k \in (Len(got) + 1) .. Len(Sent) /\ k \in Nat /\ k >= 1
    <3>1. k \in Nat /\ Len(got) \in Nat /\ k >= Len(got) /\ k # Len(got) /\ k <= made
      BY <1>4, <1>6, <1>7, <1>10
    <3> HIDE DEF k
    <3> QED BY <1>0, <2>1, <3>1
  <2>3. \A i \in 1 .. k : i \in 1 .. made /\ i \in Nat /\ 1 + i - 1 = i
    BY <1>0, <1>6, <2>2
  <2>4. s \in Seq(Nat) /\ Len(s) = k /\ \A i \in 1 .. k : s[i] = i
    <3>1. \A i \in 1 .. k : Sent[i] \in Nat
      BY <2>1, <2>3
    <3> HIDE DEF k
    <3>2. /\ s \in Seq(Nat)
          /\ Len(s) = IF 1 <= k THEN k - 1 + 1 ELSE 0
          /\ \A i \in 1 .. k - 1 + 1 : s[i] = Sent[1 + i - 1]
      BY <2>2, <3>1, SubSeqProperties
    <3>3. k - 1 + 1 = k
      BY <2>2
    <3> QED BY <2>1, <2>2, <2>3, <3>2, <3>3
  <2>5. got' = s
    <3>1. \A i \in 1 .. Len(got') : got'[i] = s[i]
      BY <1>5, <2>4
    <3> QED BY <1>3, <2>4, <3>1, SeqEqual
  <2>6. \E j \in (Len(got) + 1) .. Len(Sent) : got' = SubSeq(Sent, 1, j)
    BY <2>2, <2>5
  <2> QED BY <1>0, <1>8, <2>6 DEF Stream!Deliver
<1> QED BY <1>9, <1>10

\* A reading of a broken stream adds to what has been read.
LEMMA ReadAdds ==
  ASSUME IInv, ReadAttachment, broken # {}
  PROVE  Stream!DeliverBroken
<1>0. TypeOK /\ FilesExist /\ notices # <<>> /\ UNCHANGED <<made, broken>>
  BY DEF IInv, ReadAttachment
<1> DEFINE h == Head(notices)
<1>1. got \in Seq(Packet \cup {Garbled}) /\ got' \in Seq(Packet \cup {Garbled})
  BY <1>0, ReadsHead DEF TypeOK
<1>2. \E ps \in Seq(Packet \cup {Garbled}) : got' = got \o ps
  <2>1. PICK f \in Copies(inbox[h], ScriptEnd) : \E ps \in Parses(f) :
          \/ ps = None /\ reader' = "crashed" /\ UNCHANGED got
          \/ ps # None /\ got' = got \o ps /\ UNCHANGED reader
    BY DEF ReadAttachment
  <2>2. PICK ps \in Parses(f) : \/ ps = None /\ UNCHANGED got
                                \/ ps # None /\ got' = got \o ps
    BY <2>1
  <2>3. inbox[h] \in File
    BY <1>0, ReadsHead DEF TypeOK, FilesExist
  <2>4. ScriptEnd \in Cut \cup {"whole"}
    BY <1>0, NamesTyped, FileFields DEF ScriptEnd, FilesExist
  <2>5. f \in File /\ f.state # "open"
    BY <2>3, <2>4, CopiesFacts
  <2>6. ps # None => ps \in Seq(Packet \cup {Garbled})
    BY <2>5, ParsesFacts
  <2>7. <<>> \in Seq(Packet \cup {Garbled}) /\ got \o <<>> = got
    BY <1>1, EmptySeq, ConcatEmptySeq
  <2> QED BY <2>2, <2>6, <2>7
<1>3. Stream!IsPrefix(got, got')
  <2> DEFINE S == Packet \cup {Garbled}
             n == Len(got)
             a == SubSeq(got, 1, n)
             b == SubSeq(got', 1, n)
  <2>1. PICK ps \in Seq(S) : got' = got \o ps
    BY <1>2
  <2>2. /\ n \in Nat /\ DOMAIN got = 1 .. n /\ n <= Len(got')
        /\ \A i \in 1 .. n : got[i] \in S /\ got'[i] = got[i]
    <3>1. Len(ps) \in Nat /\ Len(got') = n + Len(ps)
      BY <1>1, <2>1, SeqFacts, ConcatFacts
    <3>2. /\ n \in Nat /\ DOMAIN got = 1 .. n
          /\ \A i \in DOMAIN got : got[i] \in S
      BY <1>1, SeqFacts
    <3>3. \A i \in DOMAIN got : got'[i] = got[i]
      BY <1>1, <2>1, ConcatFacts
    <3> QED BY <3>1, <3>2, <3>3
  <2> HIDE DEF S, n
  <2>3. \A i \in 1 .. n - 1 + 1 : i \in 1 .. n /\ 1 + i - 1 = i
    BY <2>2
  <2>4. /\ a \in Seq(S) /\ Len(a) = IF 1 <= n THEN n - 1 + 1 ELSE 0
        /\ \A i \in 1 .. n - 1 + 1 : a[i] = got[1 + i - 1]
    BY <2>2, SubSeqProperties
  <2>5. /\ b \in Seq(S) /\ Len(b) = IF 1 <= n THEN n - 1 + 1 ELSE 0
        /\ \A i \in 1 .. n - 1 + 1 : b[i] = got'[1 + i - 1]
    BY <2>2, SubSeqProperties
  <2>6. Len(a) = n /\ Len(b) = n
    BY <2>2, <2>4, <2>5
  <2> HIDE DEF a, b
  <2>7. n - 1 + 1 = n
    BY <2>2
  <2>8. \A i \in 1 .. Len(a) : a[i] = b[i]
    BY <2>2, <2>3, <2>4, <2>5, <2>6, <2>7
  <2>9. a = b
    BY <2>4, <2>5, <2>6, <2>8, SeqEqual
  <2> QED BY <2>2, <2>9 DEF Stream!IsPrefix, a, b, n
<1>4. Sent' = Sent /\ (broken = {})' = (broken = {})
  BY <1>0 DEF Sent
<1>5. ~(broken = {})
  OBVIOUS
<1> HIDE DEF h
<1>6. UNCHANGED <<Sent, broken = {}>>
  BY <1>4
<1> QED BY <1>3, <1>5, <1>6 DEF Stream!DeliverBroken

\* What is neither queued nor read changes the stream at most by breaking it.
LEMMA OthersBreak ==
  ASSUME IInv, [Next]_vars, ~PutData, ~ReadAttachment
  PROVE  Stream!Break \/ UNCHANGED Stream!vars
<1>1. UNCHANGED <<made, got>>
  <2>1. CASE Flush
    BY <2>1 DEF Flush, FlushNothing, FlushBegins, Fetch, FetchEnds, OpenFile,
       OpenFails, WriteFile, WriteFails, TellDaemon, RunSendemail,
       SendemailFails, far
  <2>2. CASE Tick \/ DaemonMails \/ DaemonDies \/ MailLost
    BY <2>2 DEF Tick, DaemonMails, DaemonDies, MailLost, far
  <2>3. CASE ScriptOpens \/ ScriptCloses \/ RestartReader
    BY <2>3 DEF ScriptOpens, ScriptCloses, RestartReader
  <2>4. CASE UNCHANGED vars
    BY <2>4 DEF vars, far
  <2> QED BY <2>1, <2>2, <2>3, <2>4 DEF Next
<1>2. Sent' = Sent
  BY <1>1 DEF Sent
<1>3. broken \subseteq broken'
  BY BrokenStays
<1>4. CASE broken = {} /\ broken' # {}
  BY <1>1, <1>2, <1>4 DEF Stream!Break
<1>5. CASE broken # {} \/ broken' = {}
  <2>1. (broken = {})' = (broken = {})
    BY <1>3, <1>5
  <2> QED BY <1>1, <1>2, <2>1 DEF Stream!vars
<1> QED BY <1>4, <1>5

LEMMA InitImplements == ASSUME Init PROVE Stream!Init
<1>1. made = 0 /\ got = <<>> /\ broken = {}
  BY DEF Init
<1>2. Sent \in Seq(Nat) /\ Len(Sent) = 0
  BY <1>1, SentFacts
<1>3. Sent = <<>>
  BY <1>2, EmptySeq
<1> QED BY <1>1, <1>3 DEF Stream!Init

\* The path implements the abstract stream: its packets come out once each,
\* in order and without a gap, until an attachment is given up, overtaken or
\* reopened in flight (MailSender, mail_daemon.py, attach.py,
\* process_fs_event).
THEOREM Implements == Spec => StreamSpec
<1>1. Init => Stream!Init
  BY InitImplements
<1>2. IInv /\ Complete /\ [Next]_vars => [Stream!Next]_(Stream!vars)
  <2> SUFFICES ASSUME IInv, Complete, [Next]_vars
               PROVE  Stream!Next \/ UNCHANGED Stream!vars
    OBVIOUS
  <2>1. CASE PutData
    BY <2>1, PutDataSends DEF Stream!Next
  <2>2. CASE ReadAttachment /\ broken = {}
    BY <2>2, ReadDelivers DEF Stream!Next, Complete
  <2>3. CASE ReadAttachment /\ broken # {}
    BY <2>3, ReadAdds DEF Stream!Next
  <2>4. CASE ~PutData /\ ~ReadAttachment
    BY <2>4, OthersBreak DEF Stream!Next
  <2> QED BY <2>1, <2>2, <2>3, <2>4
<1> QED BY <1>1, <1>2, Inductive, AlwaysComplete, PTL DEF Spec, StreamSpec, Stream!Spec
=============================================================================
