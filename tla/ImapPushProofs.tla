--------------------------- MODULE ImapPushProofs ---------------------------
(***************************************************************************)
(* Theorems about ImapPush, for every choice of its constants.             *)
(***************************************************************************)
EXTENDS ImapPush, SequenceTheorems, WellFoundedInduction, TLAPS

-----------------------------------------------------------------------------
(* The inductive invariant.                                                *)

\* Inside a command, before its answer is awaited.
Asking == {"acquire", "settle", "wait", "check", "push", "put"}
AskingFor(t, c) == pc[t] \in Asking \cup {"response"} /\ cmd[t] = c

\* Where each thread can be with which command: the main program issues none
\* before the idler thread has ended.
Places ==
  /\ pc["idler"] \in Asking \cup {"loop", "await", "clear", "next", "ended",
                                  "continuation", "response"}
  /\ pc["main"] \in Asking \cup {"sleep", "join", "quit", "threads", "ended",
                                 "raised", "response"}
  /\ pc["main"] \notin {"sleep", "join"} => pc["idler"] = "ended"
  /\ pc["idler"] \in Asking => cmd["idler"] \in {"IDLE", "SEARCH", "FETCH"}
  /\ pc["idler"] \in {"settle", "wait", "continuation"} => cmd["idler"] = "IDLE"
  /\ pc["idler"] = "response" => cmd["idler"] \in {"SEARCH", "FETCH"}
  /\ pc["main"] \in Asking \cup {"response"} => cmd["main"] \in {"CLOSE", "LOGOUT"}

IsList(line) == line.type = "OK" /\ line.of = "SEARCH"
InSearch ==
  \/ pc["idler"] = "ended"
  \/ pc["idler"] = "response" /\ cmd["idler"] = "SEARCH" /\ result["SEARCH"] # "ok"

\* A SEARCH and the list that answers it are on their way only while the idler
\* waits for them, so that the list it works through never changes.
ListsAwaited ==
  /\ AskingFor("idler", "FETCH") => found # {}
  /\ pc["idler"] = "put" /\ cmd["idler"] = "SEARCH" => result["SEARCH"] # "ok"
  /\ \A i \in 1 .. Len(ouq) : ouq[i] = "SEARCH" => InSearch
  /\ \A i \in 1 .. Len(inq) : IsList(inq[i]) => InSearch
  /\ \A i, j \in 1 .. Len(ouq) : ouq[i] = "SEARCH" /\ ouq[j] = "SEARCH" => i = j
  /\ \A i, j \in 1 .. Len(inq) : IsList(inq[i]) /\ IsList(inq[j]) => i = j
  /\ \A i \in 1 .. Len(ouq), j \in 1 .. Len(inq) :
       ~(ouq[i] = "SEARCH" /\ IsList(inq[j]))

\* While the connection is there nothing has been aborted or shut down.
Untroubled ==
  /\ ~Terminate /\ ~bye
  /\ handler = "get" /\ writer # "ended" /\ callback["writer"] = "no"
  /\ \A r \in Request : result[r] # "abort"
  /\ result["LOGOUT"] # "ok"
  /\ \A i \in 1 .. Len(ouq) : ouq[i] # None
  /\ \A i \in 1 .. Len(inq) :
       /\ inq[i].type \in {"+", "EXISTS", "OK"}
       /\ inq[i].type = "OK" => inq[i].of # "LOGOUT"
  /\ pc["main"] \notin {"quit", "threads", "ended", "raised"}

\* The commands whose answers have not come, by where the threads are.  Only
\* an IDLE is left behind, when the main program stops the script.
Outstanding ==
  /\ pc["idler"] = "loop" => tagged \subseteq {"IDLE"} /\ (event \/ tagged = {})
  /\ pc["idler"] \in (Asking \ {"put"}) \cup {"clear", "next"} => tagged = {}
  /\ pc["idler"] = "await" => tagged \subseteq {"IDLE"}
  /\ pc["idler"] = "continuation" =>
       /\ "IDLE" \in tagged /\ tagged \subseteq {"IDLE", "continuation"}
       /\ "continuation" \in tagged <=> result["continuation"] = None
  /\ pc["idler"] = "ended"
     /\ pc["main"] \in {"sleep", "join", "acquire", "settle", "wait"}
       => tagged \subseteq {"IDLE"}
  /\ pc["main"] = "wait" /\ free => tagged = {}
  /\ pc["main"] \in {"check", "push"} => tagged = {}
  /\ \A t \in Thread :
       /\ pc[t] = "put" =>
            tagged = {cmd[t]} /\ result[cmd[t]] = None /\ ouq = <<>>
       /\ pc[t] = "response" =>
            tagged \subseteq {cmd[t]} /\ (result[cmd[t]] # None => tagged = {})

\* Idler's callback of an IDLE runs between the end of this IDLE and the answer
\* to the next command.
Notice == needsync \/ callback["handler"] # "no"
NoticeInTime ==
  /\ pc["idler"] \in Asking \cup {"continuation"} /\ cmd["idler"] = "IDLE" => ~Notice
  /\ pc["idler"] = "await" /\ Notice => tagged = {}
  /\ callback["handler"] # "no" =>
       /\ pc["idler"] = "loop" => event
       /\ pc["idler"] = "response" => result[cmd["idler"]] # "ok"
       /\ pc["idler"] # "next" /\ ~AskingFor("idler", "FETCH")

Silent(q) == \A i \in 1 .. Len(q) : q[i].type = "EXISTS"
OneAnswer(q) ==
  \A i, j \in 1 .. Len(q) : q[i].type # "EXISTS" /\ q[j].type # "EXISTS" => i = j
Putting == \E t \in Thread : pc[t] = "put"

\* The last command is still in ouq, or executed, or its answer is in inq; and
\* idle_rqb says that the server is in IDLE.
Dialogue ==
  /\ ouq # <<>> => Len(ouq) = 1 /\ RequestOf(ouq[1]) \in tagged /\ Silent(inq)
  /\ OneAnswer(inq)
  /\ \A i \in 1 .. Len(inq) :
       /\ inq[i].type = "OK" =>
            inq[i].of \in tagged /\ ~idling /\ ~Putting /\ pc["idler"] # "continuation"
       /\ inq[i].type = "+" =>
            /\ idling /\ ~idleRqb
            /\ pc["idler"] = "continuation" => result["continuation"] # "ok"
  /\ idling => "IDLE" \in tagged /\ ~Putting /\ ouq \in {<<>>, <<"DONE">>}
  /\ ouq = <<"DONE">> => idling /\ ~idleRqb /\ pc["idler"] # "continuation"
  /\ idleRqb => idling /\ ouq = <<>> /\ pc["idler"] # "continuation"
  /\ pc["idler"] = "continuation" /\ result["continuation"] = "ok"
       => idling /\ ouq = <<>>

Session == Untroubled /\ Outstanding /\ NoticeInTime /\ Dialogue

IInv ==
  /\ TypeOK /\ Places /\ ListsAwaited
  /\ conn = "up" => Session

-----------------------------------------------------------------------------
(* Queues.                                                                 *)

\* What is in a queue.
LEMMA QueueFacts == ASSUME NEW S, NEW q \in Seq(S)
                    PROVE  /\ Len(q) \in Nat
                           /\ \A i \in 1 .. Len(q) : q[i] \in S
                           /\ q = <<>> <=> Len(q) = 0
<1>1. DOMAIN q = 1 .. Len(q) /\ Len(q) \in Nat
  BY LenProperties
<1>2. \A i \in 1 .. Len(q) : q[i] \in S
  BY <1>1, ElementOfSeq
<1>3. q = <<>> <=> Len(q) = 0
  BY EmptySeq
<1> QED BY <1>1, <1>2, <1>3

\* A queue that something is put into.
LEMMA AppendFacts == ASSUME NEW S, NEW q \in Seq(S), NEW e \in S
                     PROVE  /\ Append(q, e) \in Seq(S)
                            /\ Len(Append(q, e)) = Len(q) + 1
                            /\ \A i \in 1 .. Len(q) : Append(q, e)[i] = q[i]
                            /\ Append(q, e)[Len(q) + 1] = e
BY AppendProperties, LenProperties

\* A queue whose first item is taken.
LEMMA TailFacts == ASSUME NEW S, NEW q \in Seq(S), q # <<>>
                   PROVE  /\ Tail(q) \in Seq(S)
                          /\ Len(q) \in Nat /\ Len(q) >= 1
                          /\ Len(Tail(q)) = Len(q) - 1
                          /\ \A i \in 1 .. Len(Tail(q)) : Tail(q)[i] = q[i + 1]
                          /\ Head(q) = q[1] /\ q[1] \in S
<1>1. Len(q) \in Nat /\ Len(q) >= 1 /\ \A i \in 1 .. Len(q) : q[i] \in S
  BY QueueFacts
<1>2. Tail(q) \in Seq(S) /\ Len(Tail(q)) = Len(q) - 1 /\ Head(q) = q[1]
      /\ \A i \in 1 .. Len(Tail(q)) : Tail(q)[i] = q[i + 1]
  BY <1>1, HeadTailProperties, SMT
<1> QED BY <1>1, <1>2

\* What the server sends.
LEMMA LineFacts ==
  /\ Announce \in Line /\ [type |-> "+"] \in Line
  /\ [type |-> "BYE"] \in Line /\ [type |-> "lost"] \in Line
  /\ \A c \in Command, ids \in SUBSET Mail :
       OK(c, ids) \in Line /\ OK(c, ids).type = "OK" /\ OK(c, ids).of = c
  /\ \A x \in Line : x.type = "OK" => x.of \in Command /\ x.ids \subseteq Mail
BY DEF Line, Announce, OK

\* An answer is put behind the news.
LEMMA AnswerPut ==
  ASSUME NEW q \in Seq(Line), NEW x \in Line
  PROVE  LET r == q \o News \o <<x>> IN
         /\ r \in Seq(Line) /\ Len(q) < Len(r) /\ Len(r) \in Nat
         /\ \A i \in 1 .. Len(q) : r[i] = q[i]
         /\ r[Len(r)] = x
         /\ \A i \in 1 .. Len(r) : i \in 1 .. Len(q) \/ r[i] = Announce \/ i = Len(r)
<1> DEFINE r == q \o News \o <<x>>
<1>1. News \in Seq(Line) /\ <<x>> \in Seq(Line)
  BY LineFacts DEF News
<1>2. CASE ~news
  <2>1. q \o News = q
    BY <1>2, ConcatEmptySeq DEF News
  <2>2. r = Append(q, x)
    BY <2>1, AppendIsConcat
  <2> HIDE DEF r
  <2>3. /\ r \in Seq(Line) /\ Len(r) = Len(q) + 1 /\ r[Len(q) + 1] = x
        /\ Len(q) \in Nat /\ \A i \in 1 .. Len(q) : r[i] = q[i]
    BY <2>2, AppendFacts, QueueFacts
  <2>4. Len(q) < Len(r) /\ Len(r) \in Nat /\ r[Len(r)] = x
        /\ \A i \in 1 .. Len(r) : i \in 1 .. Len(q) \/ i = Len(r)
    BY <2>3
  <2> QED BY <2>3, <2>4 DEF r
<1>3. CASE news
  <2> DEFINE p == Append(q, Announce)
  <2>1. q \o News = p
    BY <1>3, LineFacts, AppendIsConcat DEF News
  <2>2. p \in Seq(Line) /\ Len(p) = Len(q) + 1 /\ Len(q) \in Nat
        /\ (\A i \in 1 .. Len(q) : p[i] = q[i]) /\ p[Len(q) + 1] = Announce
    BY LineFacts, AppendFacts, QueueFacts
  <2>3. r = Append(p, x)
    BY <2>1, <2>2, AppendIsConcat
  <2> HIDE DEF p, r
  <2>4. r \in Seq(Line) /\ Len(r) = Len(p) + 1 /\ r[Len(p) + 1] = x
        /\ \A i \in 1 .. Len(p) : r[i] = p[i]
    BY <2>2, <2>3, AppendFacts
  <2>5. Len(q) < Len(r) /\ Len(r) \in Nat /\ r[Len(r)] = x /\ r[Len(q) + 1] = Announce
        /\ \A i \in 1 .. Len(q) : r[i] = q[i]
    BY <2>2, <2>4
  <2>6. \A i \in 1 .. Len(r) : i \in 1 .. Len(q) \/ i = Len(q) + 1 \/ i = Len(r)
    BY <2>2, <2>4
  <2> QED BY <2>4, <2>5, <2>6 DEF r
<1> QED BY <1>2, <1>3

-----------------------------------------------------------------------------
(* Types.                                                                  *)

Item == Command \cup {"DONE", None}
QueueTypes == ouq \in Seq(Item) /\ inq \in Seq(Line)
DataTypes ==
  /\ found \subseteq Mail
  /\ files \in [File -> Mail \cup {None}]
  /\ tagged \subseteq Request
  /\ result \in [Request -> {None, "ok", "no", "abort"}]
  /\ seen \subseteq Mail
ControlTypes ==
  /\ world \in Worlds
  /\ pc \in [Thread -> Asking \cup {"loop", "await", "clear", "next", "sleep",
                                    "join", "quit", "threads", "ended", "raised",
                                    "continuation", "response"}]
  /\ cmd \in [Thread -> Command \cup {None}]
  /\ pending \in Thread \cup {None}
  /\ handler \in {"get", "drain", "tagged", "ended", "crashed"}
  /\ writer \in {"loop", "get", "ended"}
  /\ callback \in [Caller -> {"no", "check", "mark", "set"}]
  /\ conn \in {"up", "closed", "lost"}
  /\ arrived \in 0 .. MaxMail

FlagTypes ==
  /\ event \in BOOLEAN /\ needsync \in BOOLEAN
  /\ idleRqb \in BOOLEAN /\ free \in BOOLEAN
  /\ Terminate \in BOOLEAN /\ bye \in BOOLEAN
  /\ idling \in BOOLEAN /\ news \in BOOLEAN /\ stray \in BOOLEAN

\* The types in four parts, which different steps disturb.
LEMMA TypeParts == TypeOK <=> QueueTypes /\ DataTypes /\ ControlTypes /\ FlagTypes
BY DEF TypeOK, QueueTypes, DataTypes, ControlTypes, FlagTypes, Item, Asking

\* The same of the next state.
LEMMA TypePartsNext ==
  TypeOK' <=> QueueTypes' /\ DataTypes' /\ ControlTypes' /\ FlagTypes'
BY DEF TypeOK, QueueTypes, DataTypes, ControlTypes, FlagTypes, Item, Asking

\* A set of numbers that is not empty has a least one.
LEMMA Least == ASSUME NEW S, S \subseteq Nat, S # {}
               PROVE  \E m \in S : \A k \in S : m <= k
<1> DEFINE R == OpToRel(<, Nat)
<1>1. IsWellFoundedOn(R, Nat)
  BY NatLessThanWellFounded
<1>2. R = {ss \in Nat \X Nat : ss[1] < ss[2]}
  BY DEF OpToRel
<1> HIDE DEF R
<1>3. PICK m \in S : \A k \in S : <<k, m>> \notin R
  BY <1>1, WFMin
<1>4. \A k \in S : ~ (k < m)
  BY <1>2, <1>3
<1> QED BY <1>4

\* The mail that is fetched next is one of the list.
LEMMA CurrentFound == ASSUME found \subseteq Mail, found # {}
                      PROVE  Current \in found
<1>1. found \subseteq Nat
  BY DEF Mail
<1>2. PICK m \in found : \A k \in found : m <= k
  BY <1>1, Least
<1> QED BY <1>2 DEF Current

\* A connection that is gone does not come back.
LEMMA StaysUp == ASSUME Next, conn' = "up" PROVE conn = "up"
BY DEF Next, Idle, Main, Handle, Write, CommandStep, Callback, Thread, Caller,
       Acquire, Settle, AwaitFree, Check, Refuse, RequestPush, Put, Respond,
       ResponseAborted, Loop, AwaitContinuation, ContinuationAborted,
       AwaitEvent, Clear, NextMail, Join, CloseThreads, ThreadsJoined, Stop,
       PutContinuation, PutUntagged, PutBye, PutTagged, PutException, Drain,
       Drained, AbortTagged, IdleTimesOut, CallbackChecks, CallbackMarks,
       CallbackSets, WriterLoops, WriterSends, WriterSendsInVain, WriterFails,
       WriterEnds, MailArrives, ServerAnnounces, ConnectionLost, Serve, vars,
       server

-----------------------------------------------------------------------------
(* Where the threads are, and the types that follow.                       *)

\* A thread goes from place to place as its program does.
LEMMA PlacesNext ==
  ASSUME ControlTypes, Places, Next
  PROVE  Places'
<1>1. ASSUME NEW t \in Thread, Acquire(t) PROVE Places'
  BY <1>1 DEF Acquire, Places, Asking, ControlTypes, Thread, Goto, Async
<1>2. ASSUME NEW t \in Thread, Settle(t) PROVE Places'
  BY <1>2 DEF Settle, Places, Asking, ControlTypes, Thread, Goto
<1>3. ASSUME NEW t \in Thread, AwaitFree(t) PROVE Places'
  BY <1>3 DEF AwaitFree, Places, Asking, Goto
<1>4. ASSUME NEW t \in Thread, Check(t) PROVE Places'
  BY <1>4 DEF Check, Places, Asking, Goto
<1>5. ASSUME NEW t \in Thread, Refuse(t) PROVE Places'
  BY <1>5 DEF Refuse, Places, Asking, Goto, Raise
<1>6. ASSUME NEW t \in Thread, RequestPush(t) PROVE Places'
  BY <1>6 DEF RequestPush, Places, Asking, Goto
<1>7. ASSUME NEW t \in Thread, Put(t) PROVE Places'
  BY <1>7 DEF Put, Places, Asking, ControlTypes, Thread, Goto
<1>8. ASSUME NEW t \in Thread, Respond(t) PROVE Places'
  BY <1>8 DEF Respond, Places, Asking, ControlTypes, Thread, Goto, Issue
<1>9. ASSUME NEW t \in Thread, ResponseAborted(t) PROVE Places'
  BY <1>9 DEF ResponseAborted, Places, Asking, Goto, Raise
<1>10. ASSUME Loop PROVE Places'
  BY <1>10 DEF Loop, Places, Asking, ControlTypes, Thread, Goto, Issue
<1>11. ASSUME AwaitContinuation PROVE Places'
  BY <1>11 DEF AwaitContinuation, Places, Asking, Goto
<1>12. ASSUME ContinuationAborted PROVE Places'
  BY <1>12 DEF ContinuationAborted, Places, Asking, Goto, Raise
<1>13. ASSUME AwaitEvent PROVE Places'
  BY <1>13 DEF AwaitEvent, Places, Asking, Goto
<1>14. ASSUME Clear PROVE Places'
  BY <1>14 DEF Clear, Places, Asking, ControlTypes, Goto, Issue
<1>15. ASSUME NextMail PROVE Places'
  BY <1>15 DEF NextMail, Places, Asking, ControlTypes, Thread, Goto, Issue
<1>16. ASSUME Join PROVE Places'
  BY <1>16 DEF Join, Places, Asking, ControlTypes, Goto, Issue
<1>17. ASSUME CloseThreads PROVE Places'
  BY <1>17 DEF CloseThreads, Places, Asking, Goto
<1>18. ASSUME ThreadsJoined PROVE Places'
  BY <1>18 DEF ThreadsJoined, Places, Asking, Goto
<1>19. ASSUME Stop PROVE Places'
  BY <1>19 DEF Stop, Places, Asking, Goto
<1>20. ASSUME \/ \E c \in Caller :
                   \/ CallbackChecks(c) \/ CallbackMarks(c) \/ CallbackSets(c)
              \/ PutContinuation \/ PutUntagged \/ PutBye \/ PutTagged
              \/ PutException \/ Drain \/ Drained \/ AbortTagged
              \/ IdleTimesOut \/ WriterLoops \/ WriterSends \/ WriterSendsInVain
              \/ WriterFails \/ WriterEnds \/ MailArrives \/ ServerAnnounces
              \/ ConnectionLost
       PROVE  Places'
  <2>1. UNCHANGED <<cmd, pc>>
    BY <1>20
    DEF PutContinuation, PutUntagged, PutBye, PutTagged, PutException, Drain,
        Drained, AbortTagged, IdleTimesOut, CallbackChecks, CallbackMarks,
        CallbackSets, WriterLoops, WriterSends, WriterSendsInVain,
        WriterFails, WriterEnds, MailArrives, ServerAnnounces, ConnectionLost
  <2> QED
    BY <2>1 DEF Places, Asking
<1> QED
  BY <1>1, <1>2, <1>3, <1>4, <1>5, <1>6, <1>7, <1>8, <1>9, <1>10, <1>11,
     <1>12, <1>13, <1>14, <1>15, <1>16, <1>17, <1>18, <1>19, <1>20
  DEF Next, Idle, Main, Handle, Write, CommandStep, Callback, Thread, Caller

\* No step puts a thread, a lock or the connection where it cannot be.
LEMMA ControlTypesNext ==
  ASSUME ControlTypes, Places, Next
  PROVE  ControlTypes'
<1>1. ASSUME NEW t \in Thread, Acquire(t) PROVE ControlTypes'
  BY <1>1
  DEF Acquire, ControlTypes, Asking, Thread, Goto, Async, Caller, Command,
      threads, server
<1>2. ASSUME NEW t \in Thread, Settle(t) PROVE ControlTypes'
  BY <1>2
  DEF Settle, ControlTypes, Asking, Thread, Goto, Caller, Command, threads,
      server
<1>3. ASSUME NEW t \in Thread, AwaitFree(t) PROVE ControlTypes'
  BY <1>3
  DEF AwaitFree, ControlTypes, Asking, Thread, Goto, Caller, Command, threads,
      server
<1>4. ASSUME NEW t \in Thread, Check(t) PROVE ControlTypes'
  BY <1>4
  DEF Check, ControlTypes, Asking, Thread, Goto, Caller, Command, threads,
      server
<1>5. ASSUME NEW t \in Thread, Refuse(t) PROVE ControlTypes'
  BY <1>5
  DEF Refuse, ControlTypes, Asking, Thread, Goto, Raise, Caller, Command,
      threads, server
<1>6. ASSUME NEW t \in Thread, RequestPush(t) PROVE ControlTypes'
  BY <1>6
  DEF RequestPush, ControlTypes, Asking, Thread, Goto, Caller, Command,
      threads, server
<1>7. ASSUME NEW t \in Thread, Put(t) PROVE ControlTypes'
  BY <1>7
  DEF Put, ControlTypes, Asking, Thread, Goto, Caller, Command, threads,
      server
<1>8. ASSUME NEW t \in Thread, Respond(t) PROVE ControlTypes'
  <2>1. cmd[t] \in {"SEARCH", "FETCH", "CLOSE", "LOGOUT"}
    BY <1>8 DEF Respond, Places, Thread
  <2>2. PICK place \in {"next", "acquire", "quit"} : Goto(t, place)
    BY <2>1, <1>8 DEF Respond, Issue
  <2>3. cmd' \in [Thread -> Command \cup {None}] /\ pending' \in Thread \cup {None}
    BY <2>1, <1>8 DEF Respond, ControlTypes, Issue, Command
  <2> QED BY <2>2, <2>3, <1>8
          DEF Respond, ControlTypes, Goto, Asking, threads, server
<1>9. ASSUME NEW t \in Thread, ResponseAborted(t) PROVE ControlTypes'
  BY <1>9
  DEF ResponseAborted, ControlTypes, Asking, Thread, Goto, Raise, Caller,
      Command, threads, server
<1>10. ASSUME Loop PROVE ControlTypes'
  BY <1>10
  DEF Loop, ControlTypes, Asking, Thread, Goto, Issue, Caller, Command,
      threads, server
<1>11. ASSUME AwaitContinuation PROVE ControlTypes'
  BY <1>11
  DEF AwaitContinuation, ControlTypes, Asking, Thread, Goto, Caller, Command,
      threads, server
<1>12. ASSUME ContinuationAborted PROVE ControlTypes'
  BY <1>12
  DEF ContinuationAborted, ControlTypes, Asking, Thread, Goto, Raise, Caller,
      Command, threads, server
<1>13. ASSUME AwaitEvent PROVE ControlTypes'
  BY <1>13
  DEF AwaitEvent, ControlTypes, Asking, Thread, Goto, Caller, Command,
      threads, server
<1>14. ASSUME Clear PROVE ControlTypes'
  BY <1>14
  DEF Clear, ControlTypes, Asking, Thread, Goto, Issue, Caller, Command,
      threads, server
<1>15. ASSUME NextMail PROVE ControlTypes'
  BY <1>15
  DEF NextMail, ControlTypes, Asking, Thread, Goto, Issue, Caller, Command,
      threads, server
<1>16. ASSUME Join PROVE ControlTypes'
  BY <1>16
  DEF Join, ControlTypes, Asking, Thread, Goto, Issue, Caller, Command,
      threads, server
<1>17. ASSUME CloseThreads PROVE ControlTypes'
  BY <1>17
  DEF CloseThreads, ControlTypes, Asking, Thread, Goto, Caller, Command,
      threads, server
<1>18. ASSUME ThreadsJoined PROVE ControlTypes'
  BY <1>18
  DEF ThreadsJoined, ControlTypes, Asking, Thread, Goto, Caller, Command,
      threads, server
<1>19. ASSUME Stop PROVE ControlTypes'
  BY <1>19
  DEF Stop, ControlTypes, Asking, Thread, Goto, Caller, Command, threads,
      server
<1>20. ASSUME PutContinuation PROVE ControlTypes'
  BY <1>20
  DEF PutContinuation, ControlTypes, Asking, Thread, Deliver, Caller, Command,
      server
<1>21. ASSUME PutUntagged PROVE ControlTypes'
  BY <1>21
  DEF PutUntagged, ControlTypes, Asking, Thread, Deliver, Caller, Command,
      server
<1>22. ASSUME PutBye PROVE ControlTypes'
  BY <1>22
  DEF PutBye, ControlTypes, Asking, Thread, Deliver, Caller, Command, server
<1>23. ASSUME PutTagged PROVE ControlTypes'
  BY <1>23
  DEF PutTagged, ControlTypes, Asking, Thread, Deliver, Caller, Command,
      server
<1>24. ASSUME PutException PROVE ControlTypes'
  BY <1>24
  DEF PutException, ControlTypes, Asking, Thread, Caller, Command, server
<1>25. ASSUME Drain PROVE ControlTypes'
  BY <1>25
  DEF Drain, ControlTypes, Asking, Thread, Deliver, Caller, Command, server
<1>26. ASSUME Drained PROVE ControlTypes'
  BY <1>26 DEF Drained, ControlTypes, Asking, Thread, Caller, Command, server
<1>27. ASSUME AbortTagged PROVE ControlTypes'
  BY <1>27
  DEF AbortTagged, ControlTypes, Asking, Thread, Deliver, Caller, Command,
      server
<1>28. ASSUME NEW c \in Caller, CallbackChecks(c) PROVE ControlTypes'
  BY <1>28
  DEF CallbackChecks, ControlTypes, Asking, Thread, Caller, Command, server
<1>29. ASSUME NEW c \in Caller, CallbackMarks(c) PROVE ControlTypes'
  BY <1>29
  DEF CallbackMarks, ControlTypes, Asking, Thread, Caller, Command, server
<1>30. ASSUME NEW c \in Caller, CallbackSets(c) PROVE ControlTypes'
  BY <1>30
  DEF CallbackSets, ControlTypes, Asking, Thread, Caller, Command, server
<1>31. ASSUME WriterLoops PROVE ControlTypes'
  BY <1>31
  DEF WriterLoops, ControlTypes, Asking, Thread, Caller, Command, server
<1>32. ASSUME WriterSends PROVE ControlTypes'
  BY <1>32
  DEF WriterSends, ControlTypes, Asking, Thread, Caller, Command, Serve
<1>33. ASSUME WriterSendsInVain PROVE ControlTypes'
  BY <1>33
  DEF WriterSendsInVain, ControlTypes, Asking, Thread, Caller, Command, server
<1>34. ASSUME WriterFails PROVE ControlTypes'
  BY <1>34
  DEF WriterFails, ControlTypes, Asking, Thread, Deliver, Caller, Command,
      server
<1>35. ASSUME WriterEnds PROVE ControlTypes'
  BY <1>35
  DEF WriterEnds, ControlTypes, Asking, Thread, Caller, Command, server
<1>36. ASSUME MailArrives PROVE ControlTypes'
  BY <1>36, MailAssumption
  DEF MailArrives, ControlTypes, script, requests, queues, threads
<1>37. ASSUME ConnectionLost PROVE ControlTypes'
  BY <1>37
  DEF ConnectionLost, ControlTypes, Asking, Thread, Caller, Command, threads
<1>38. ASSUME \/ IdleTimesOut \/ ServerAnnounces
       PROVE  ControlTypes'
  <2>1. UNCHANGED <<arrived, callback, cmd, conn, handler, pc, pending, world, writer>>
    BY <1>38 DEF IdleTimesOut, ServerAnnounces, server, threads
  <2> QED
    BY <2>1 DEF ControlTypes, Asking, Thread, Caller, Command
<1> QED
  BY <1>1, <1>2, <1>3, <1>4, <1>5, <1>6, <1>7, <1>8, <1>9, <1>10, <1>11,
     <1>12, <1>13, <1>14, <1>15, <1>16, <1>17, <1>18, <1>19, <1>20, <1>21,
     <1>22, <1>23, <1>24, <1>25, <1>26, <1>27, <1>28, <1>29, <1>30, <1>31,
     <1>32, <1>33, <1>34, <1>35, <1>36, <1>37, <1>38
  DEF Next, Idle, Main, Handle, Write, CommandStep, Callback, Thread, Caller

\* Flags stay Boolean.
LEMMA FlagTypesNext ==
  ASSUME FlagTypes, Next
  PROVE  FlagTypes'
<1>1. ASSUME NEW t \in Thread, Acquire(t) PROVE FlagTypes'
  BY <1>1, Zenon DEF Acquire, FlagTypes, EndIdle, threads, script, server
<1>2. ASSUME NEW t \in Thread, Settle(t) PROVE FlagTypes'
  BY <1>2, Zenon DEF Settle, FlagTypes, threads, script, server
<1>3. ASSUME Loop PROVE FlagTypes'
  BY <1>3, Zenon DEF Loop, FlagTypes, threads, requests, server
<1>4. ASSUME AwaitContinuation PROVE FlagTypes'
  BY <1>4, Zenon DEF AwaitContinuation, FlagTypes, threads, script, server
<1>5. ASSUME Clear PROVE FlagTypes'
  BY <1>5, Zenon DEF Clear, FlagTypes, threads, requests, server
<1>6. ASSUME Stop PROVE FlagTypes'
  BY <1>6, Zenon DEF Stop, FlagTypes, threads, requests, server
<1>7. ASSUME PutContinuation PROVE FlagTypes'
  BY <1>7, Zenon DEF PutContinuation, FlagTypes, RequestPop, script, server
<1>8. ASSUME PutUntagged PROVE FlagTypes'
  BY <1>8, Zenon
  DEF PutUntagged, FlagTypes, EndIdle, RequestPop, script, server
<1>9. ASSUME PutBye PROVE FlagTypes'
  BY <1>9, Zenon DEF PutBye, FlagTypes, EndIdle, RequestPop, script, server
<1>10. ASSUME PutTagged PROVE FlagTypes'
  BY <1>10, Zenon DEF PutTagged, FlagTypes, RequestPop, server
<1>11. ASSUME PutException PROVE FlagTypes'
  BY <1>11, Zenon DEF PutException, FlagTypes, script, requests, server
<1>12. ASSUME AbortTagged PROVE FlagTypes'
  BY <1>12, Zenon DEF AbortTagged, FlagTypes, script, server
<1>13. ASSUME IdleTimesOut PROVE FlagTypes'
  BY <1>13, Zenon DEF IdleTimesOut, FlagTypes, EndIdle, threads, script, server
<1>14. ASSUME NEW c \in Caller, CallbackMarks(c) PROVE FlagTypes'
  BY <1>14, Zenon DEF CallbackMarks, FlagTypes, requests, server
<1>15. ASSUME NEW c \in Caller, CallbackSets(c) PROVE FlagTypes'
  BY <1>15, Zenon DEF CallbackSets, FlagTypes, requests, server
<1>16. ASSUME WriterSends PROVE FlagTypes'
  BY <1>16, Zenon DEF WriterSends, FlagTypes, Serve, script, requests
<1>17. ASSUME MailArrives PROVE FlagTypes'
  BY <1>17, Zenon DEF MailArrives, FlagTypes, threads, script, requests
<1>18. ASSUME ServerAnnounces PROVE FlagTypes'
  BY <1>18, Zenon DEF ServerAnnounces, FlagTypes, threads, script, requests
<1>19. ASSUME \/ \E t \in Thread :
                   \/ AwaitFree(t) \/ Check(t) \/ Refuse(t) \/ RequestPush(t)
                   \/ Put(t) \/ Respond(t) \/ ResponseAborted(t)
              \/ \E c \in Caller : CallbackChecks(c)
              \/ ContinuationAborted \/ AwaitEvent \/ NextMail \/ Join
              \/ CloseThreads \/ ThreadsJoined \/ Drain \/ Drained
              \/ WriterLoops \/ WriterSendsInVain \/ WriterFails \/ WriterEnds
              \/ ConnectionLost
       PROVE  FlagTypes'
  <2>1. UNCHANGED <<Terminate, bye, event, free, idleRqb, idling, needsync, news, stray>>
    BY <1>19
    DEF AwaitFree, Check, Refuse, RequestPush, Put, Respond, ResponseAborted,
        ContinuationAborted, AwaitEvent, NextMail, Join, CloseThreads,
        ThreadsJoined, Drain, Drained, CallbackChecks, WriterLoops,
        WriterSendsInVain, WriterFails, WriterEnds, ConnectionLost, requests,
        script, server, threads
  <2> QED
    BY <2>1, Zenon DEF FlagTypes
<1> QED
  BY <1>1, <1>2, <1>3, <1>4, <1>5, <1>6, <1>7, <1>8, <1>9, <1>10, <1>11,
     <1>12, <1>13, <1>14, <1>15, <1>16, <1>17, <1>18, <1>19
  DEF Next, Idle, Main, Handle, Write, CommandStep, Callback, Thread, Caller

-----------------------------------------------------------------------------
(* The queues.                                                             *)

\* One line is put as by Append.
LEMMA SinglePut == ASSUME NEW q \in Seq(Line), NEW x \in Line
                   PROVE  q \o <<x>> = Append(q, x) /\ q \o <<x>> \in Seq(Line)
BY AppendIsConcat, AppendFacts

\* Two lines are put one after the other.
LEMMA PairPut == ASSUME NEW q \in Seq(Line), NEW x \in Line, NEW y \in Line
                 PROVE  /\ q \o <<x, y>> \in Seq(Line)
                        /\ q \o <<x, y>> = Append(Append(q, x), y)
<1>1. <<x>> \in Seq(Line) /\ <<y>> \in Seq(Line) /\ Append(q, x) \in Seq(Line)
  BY AppendFacts
<1>2. <<x, y>> = <<x>> \o <<y>>
  BY <1>1, AppendIsConcat, <<x, y>> = Append(<<x>>, y)
<1>3. q \o <<x, y>> = (q \o <<x>>) \o <<y>>
  BY <1>1, <1>2, ConcatAssociative
<1> QED BY <1>1, <1>3, AppendIsConcat, AppendFacts

\* _end_idle puts nothing but DONE into ouq.
LEMMA EndIdleType == ASSUME ouq \in Seq(Item), EndIdle PROVE ouq' \in Seq(Item)
BY AppendFacts DEF EndIdle, Item

\* The queues hold what the other side of each expects.
LEMMA QueueTypesNext ==
  ASSUME QueueTypes, ControlTypes, Places, Next
  PROVE  QueueTypes'
<1>1. ASSUME NEW t \in Thread, Acquire(t) PROVE QueueTypes'
  BY <1>1, EndIdleType DEF Acquire, QueueTypes
<1>2. ASSUME NEW t \in Thread, Put(t) PROVE QueueTypes'
  BY <1>2, AppendFacts
  DEF Put, QueueTypes, Item, Places, Asking, Thread, Command
<1>3. ASSUME CloseThreads PROVE QueueTypes'
  BY <1>3, AppendFacts DEF CloseThreads, QueueTypes, Item
<1>4. ASSUME PutContinuation PROVE QueueTypes'
  BY <1>4, TailFacts DEF PutContinuation, Handling, QueueTypes
<1>5. ASSUME PutUntagged PROVE QueueTypes'
  BY <1>5, TailFacts, EndIdleType DEF PutUntagged, Handling, QueueTypes
<1>6. ASSUME PutBye PROVE QueueTypes'
  BY <1>6, TailFacts, EndIdleType DEF PutBye, Handling, QueueTypes
<1>7. ASSUME PutTagged PROVE QueueTypes'
  BY <1>7, TailFacts DEF PutTagged, Handling, QueueTypes
<1>8. ASSUME PutException PROVE QueueTypes'
  BY <1>8, TailFacts DEF PutException, Handling, QueueTypes
<1>9. ASSUME Drain PROVE QueueTypes'
  BY <1>9, TailFacts DEF Drain, Writing, QueueTypes
<1>10. ASSUME Drained PROVE QueueTypes'
  BY <1>10 DEF Drained, QueueTypes, Item
<1>11. ASSUME IdleTimesOut PROVE QueueTypes'
  BY <1>11, EndIdleType DEF IdleTimesOut, QueueTypes
<1>12. ASSUME WriterSends PROVE QueueTypes'
  <2>1. Tail(ouq) \in Seq(Item)
    BY <1>12, TailFacts DEF WriterSends, Writing, QueueTypes
  <2>2. inq' \in Seq(Line)
    <3> DEFINE c == Head(ouq)
    <3> SUFFICES ASSUME inq' # inq PROVE inq' \in Seq(Line)
      BY DEF QueueTypes
    <3>1. PICK ids \in SUBSET Mail :
            \/ inq' = Append(inq, [type |-> "+"])
            \/ \E d \in Command : inq' = inq \o News \o <<OK(d, ids)>>
            \/ inq' = Append(inq, OK("CLOSE", ids))
            \/ inq' = inq \o <<[type |-> "BYE"], OK("LOGOUT", ids)>>
      <4>1. (1 .. arrived) \ seen \in SUBSET Mail
        BY MailAssumption DEF ControlTypes, Mail
      <4> QED BY <4>1, <1>12 DEF WriterSends, Serve, Command
    <3>2. OK("CLOSE", ids) \in Line /\ OK("LOGOUT", ids) \in Line
          /\ \A d \in Command : OK(d, ids) \in Line
      BY LineFacts DEF Command
    <3>3. CASE inq' = Append(inq, [type |-> "+"]) \/ inq' = Append(inq, OK("CLOSE", ids))
      BY <3>2, <3>3, AppendFacts, LineFacts DEF QueueTypes
    <3>4. CASE \E d \in Command : inq' = inq \o News \o <<OK(d, ids)>>
      BY <3>2, <3>4, AnswerPut DEF QueueTypes
    <3>5. CASE inq' = inq \o <<[type |-> "BYE"], OK("LOGOUT", ids)>>
      BY <3>2, <3>5, PairPut, LineFacts DEF QueueTypes
    <3> QED BY <3>1, <3>3, <3>4, <3>5
  <2> QED BY <2>1, <2>2, <1>12 DEF WriterSends, QueueTypes
<1>13. ASSUME WriterSendsInVain PROVE QueueTypes'
  BY <1>13, TailFacts DEF WriterSendsInVain, Writing, QueueTypes
<1>14. ASSUME WriterFails PROVE QueueTypes'
  BY <1>14, TailFacts, AppendFacts, LineFacts
  DEF WriterFails, Writing, QueueTypes
<1>15. ASSUME WriterEnds PROVE QueueTypes'
  BY <1>15, TailFacts, AppendFacts, LineFacts
  DEF WriterEnds, Writing, QueueTypes
<1>16. ASSUME ServerAnnounces PROVE QueueTypes'
  BY <1>16, AppendFacts, LineFacts DEF ServerAnnounces, QueueTypes
<1>17. ASSUME ConnectionLost PROVE QueueTypes'
  <2>1. inq \o <<[type |-> "lost"]>> \in Seq(Line)
    BY SinglePut, LineFacts DEF QueueTypes
  <2>2. inq \o <<[type |-> "BYE"], [type |-> "lost"]>> \in Seq(Line)
    BY PairPut, LineFacts DEF QueueTypes
  <2> QED BY <2>1, <2>2, <1>17 DEF ConnectionLost, QueueTypes
<1>18. ASSUME \/ \E t \in Thread :
                   \/ Settle(t) \/ AwaitFree(t) \/ Check(t) \/ Refuse(t)
                   \/ RequestPush(t) \/ Respond(t) \/ ResponseAborted(t)
              \/ \E c \in Caller :
                   \/ CallbackChecks(c) \/ CallbackMarks(c) \/ CallbackSets(c)
              \/ Loop \/ AwaitContinuation \/ ContinuationAborted \/ AwaitEvent
              \/ Clear \/ NextMail \/ Join \/ ThreadsJoined
              \/ Stop \/ AbortTagged \/ WriterLoops \/ MailArrives
       PROVE  QueueTypes'
  <2>1. UNCHANGED <<inq, ouq>>
    BY <1>18
    DEF Settle, AwaitFree, Check, Refuse, RequestPush, Respond,
        ResponseAborted, Loop, AwaitContinuation, ContinuationAborted,
        AwaitEvent, Clear, NextMail, Join, ThreadsJoined, Stop, AbortTagged,
        CallbackChecks, CallbackMarks, CallbackSets, WriterLoops, MailArrives,
        queues
  <2> QED
    BY <2>1 DEF QueueTypes, Item, Command
<1> QED
  BY <1>1, <1>2, <1>3, <1>4, <1>5, <1>6, <1>7, <1>8, <1>9, <1>10, <1>11,
     <1>12, <1>13, <1>14, <1>15, <1>16, <1>17, <1>18
  DEF Next, Idle, Main, Handle, Write, CommandStep, Callback, Thread, Caller

\* Nothing happens to a search when no SEARCH and no list is added.
LEMMA ListsFrame ==
  ASSUME ListsAwaited, pc'["idler"] = pc["idler"], cmd'["idler"] = cmd["idler"],
         found' = found, result'["SEARCH"] = result["SEARCH"],
         \A i \in 1 .. Len(ouq') :
           ouq'[i] = "SEARCH" => i \in 1 .. Len(ouq) /\ ouq[i] = "SEARCH",
         \A i \in 1 .. Len(inq') :
           IsList(inq'[i]) => i \in 1 .. Len(inq) /\ IsList(inq[i])
  PROVE  ListsAwaited'
BY DEF ListsAwaited, InSearch, AskingFor, IsList

\* A line that is no list leaves the lists where they are.
LEMMA NoListPut == ASSUME NEW q \in Seq(Line), NEW x \in Line, ~IsList(x)
                   PROVE  \A i \in 1 .. Len(Append(q, x)) :
                            IsList(Append(q, x)[i]) => i \in 1 .. Len(q) /\ IsList(q[i])
BY AppendFacts, QueueFacts

\* An item that is no SEARCH leaves the SEARCHes where they are.
LEMMA NoSearchPut == ASSUME NEW q \in Seq(Item), NEW x \in Item, x # "SEARCH"
                     PROVE  \A i \in 1 .. Len(Append(q, x)) :
                              Append(q, x)[i] = "SEARCH" => i \in 1 .. Len(q) /\ q[i] = "SEARCH"
BY AppendFacts, QueueFacts

\* A SEARCH is put, served and answered while the idler waits for it.
LEMMA ListsAwaitedNext ==
  ASSUME QueueTypes, DataTypes, ControlTypes, Places, ListsAwaited, Next
  PROVE  ListsAwaited'
<1>1. ASSUME NEW t \in Thread, Acquire(t) PROVE ListsAwaited'
  BY <1>1
  DEF Acquire, ListsAwaited, InSearch, IsList, AskingFor, Asking,
      ControlTypes, Thread, Goto, Async, EndIdle, script
<1>2. ASSUME NEW t \in Thread, Settle(t) PROVE ListsAwaited'
  BY <1>2
  DEF Settle, ListsAwaited, InSearch, IsList, AskingFor, Asking, ControlTypes,
      Thread, Goto, script, queues
<1>3. ASSUME NEW t \in Thread, AwaitFree(t) PROVE ListsAwaited'
  BY <1>3
  DEF AwaitFree, ListsAwaited, InSearch, IsList, AskingFor, Asking, Goto,
      queues, script, requests
<1>4. ASSUME NEW t \in Thread, Check(t) PROVE ListsAwaited'
  BY <1>4
  DEF Check, ListsAwaited, InSearch, IsList, AskingFor, Asking, Goto, queues,
      script, requests
<1>5. ASSUME NEW t \in Thread, Refuse(t) PROVE ListsAwaited'
  BY <1>5
  DEF Refuse, ListsAwaited, InSearch, IsList, AskingFor, Asking, Goto, Raise,
      queues, requests
<1>6. ASSUME NEW t \in Thread, RequestPush(t) PROVE ListsAwaited'
  <2>2. cmd[t] = "SEARCH" => result'["SEARCH"] = None
    BY <1>6 DEF RequestPush, DataTypes, Request, Command
  <2>3. cmd[t] # "SEARCH" => result'["SEARCH"] = result["SEARCH"]
    BY <1>6 DEF RequestPush, DataTypes, Request, Command
  <2>4. None # "ok"
    BY NoneAssumption
  <2>5. CASE t = "main"
    <3>1. pc["main"] = "push" /\ pc'["idler"] = pc["idler"]
      BY <2>5, <1>6 DEF RequestPush, Goto, ControlTypes, Thread
    <3>2. cmd[t] # "SEARCH"
      BY <2>5, <3>1 DEF Places, Asking
    <3> QED BY <2>3, <3>1, <3>2, <1>6, ListsFrame
            DEF RequestPush, script, queues
  <2>6. CASE t = "idler"
    <3>1. pc["idler"] = "push" /\ pc'["idler"] = "put"
      BY <2>6, <1>6 DEF RequestPush, Goto, ControlTypes, Thread
    <3>2. AskingFor("idler", "FETCH")' => AskingFor("idler", "FETCH")
      BY <3>1, <1>6 DEF RequestPush, AskingFor, Asking
    <3> QED
      BY <2>2, <2>4, <2>6, <3>1, <3>2, <1>6
      DEF RequestPush, ListsAwaited, InSearch, script, queues
  <2> QED BY <2>5, <2>6 DEF Thread
<1>7. ASSUME NEW t \in Thread, Put(t) PROVE ListsAwaited'
  BY <1>7
  DEF Put, ListsAwaited, InSearch, IsList, AskingFor, Places, Asking,
      ControlTypes, Thread, Goto, script
<1>8. ASSUME NEW t \in Thread, Respond(t) PROVE ListsAwaited'
  <2>1. CASE t = "main"
    <3>1. pc["idler"] = "ended" /\ cmd["main"] \in {"CLOSE", "LOGOUT"}
      BY <2>1, <1>8 DEF Respond, Places
    <3>2. pc'["idler"] = "ended" /\ UNCHANGED <<ouq, inq>>
      BY <2>1, <3>1, <1>8 DEF Respond, Goto, Issue, ControlTypes, Thread, queues
    <3> QED
      BY <3>1, <3>2 DEF ListsAwaited, InSearch, AskingFor, Asking
  <2>2. CASE t = "idler"
    <3>1. cmd["idler"] \in {"SEARCH", "FETCH"} /\ ~InSearch
      BY <2>2, <1>8 DEF Respond, Places, InSearch
    <3>2. pc'["idler"] = "next" /\ UNCHANGED <<ouq, inq>>
      BY <2>2, <3>1, <1>8 DEF Respond, Goto, ControlTypes, Thread, queues
    <3> QED BY <3>1, <3>2 DEF ListsAwaited, AskingFor, Asking
  <2> QED BY <2>1, <2>2 DEF Thread
<1>9. ASSUME NEW t \in Thread, ResponseAborted(t) PROVE ListsAwaited'
  BY <1>9
  DEF ResponseAborted, ListsAwaited, InSearch, IsList, AskingFor, Asking,
      Goto, Raise, queues, requests
<1>10. ASSUME Loop PROVE ListsAwaited'
  BY <1>10
  DEF Loop, ListsAwaited, InSearch, IsList, AskingFor, Asking, ControlTypes,
      Goto, Issue, requests, queues
<1>11. ASSUME AwaitContinuation PROVE ListsAwaited'
  BY <1>11
  DEF AwaitContinuation, ListsAwaited, InSearch, IsList, AskingFor, Asking,
      Goto, queues, script
<1>12. ASSUME ContinuationAborted PROVE ListsAwaited'
  BY <1>12
  DEF ContinuationAborted, ListsAwaited, InSearch, IsList, AskingFor, Asking,
      Goto, Raise, queues, requests
<1>13. ASSUME AwaitEvent PROVE ListsAwaited'
  BY <1>13
  DEF AwaitEvent, ListsAwaited, InSearch, IsList, AskingFor, Asking, Goto,
      queues, script, requests
<1>14. ASSUME Clear PROVE ListsAwaited'
  BY <1>14
  DEF Clear, ListsAwaited, InSearch, IsList, AskingFor, Asking, ControlTypes,
      Goto, Issue, requests, queues
<1>15. ASSUME NextMail PROVE ListsAwaited'
  BY <1>15
  DEF NextMail, ListsAwaited, InSearch, IsList, AskingFor, Asking,
      ControlTypes, Goto, Issue, script, requests, queues
<1>16. ASSUME Join PROVE ListsAwaited'
  BY <1>16
  DEF Join, ListsAwaited, InSearch, IsList, AskingFor, Asking, Goto, Issue,
      queues, script, requests
<1>17. ASSUME CloseThreads PROVE ListsAwaited'
  <2>1. None # "SEARCH" /\ None \in Item
    BY NoneAssumption DEF Command, Item
  <2>2. pc'["idler"] = pc["idler"]
    BY <1>17 DEF CloseThreads, Goto, ControlTypes, Thread
  <2> QED
    BY <2>1, <2>2, <1>17, NoSearchPut, ListsFrame
    DEF CloseThreads, QueueTypes, script, requests
<1>18. ASSUME ThreadsJoined PROVE ListsAwaited'
  BY <1>18
  DEF ThreadsJoined, ListsAwaited, InSearch, IsList, AskingFor, Asking, Goto,
      queues, script, requests
<1>19. ASSUME Stop PROVE ListsAwaited'
  BY <1>19
  DEF Stop, ListsAwaited, InSearch, IsList, AskingFor, Asking, Goto, queues,
      requests
<1>20. ASSUME PutContinuation PROVE ListsAwaited'
  BY <1>20
  DEF PutContinuation, ListsAwaited, InSearch, IsList, AskingFor, Asking,
      RequestPop, Deliver, Request, Continuation, Handling, Command, script
<1>21. ASSUME PutUntagged PROVE ListsAwaited'
  BY <1>21
  DEF PutUntagged, ListsAwaited, InSearch, IsList, AskingFor, Asking, EndIdle,
      RequestPop, Deliver, Request, Continuation, Handling, Command, script
<1>22. ASSUME PutBye PROVE ListsAwaited'
  BY <1>22
  DEF PutBye, ListsAwaited, InSearch, IsList, AskingFor, Asking, EndIdle,
      RequestPop, Deliver, Request, Continuation, Handling, Command, script
<1>23. ASSUME PutTagged PROVE ListsAwaited'
  BY <1>23
  DEF PutTagged, ListsAwaited, InSearch, IsList, AskingFor, Asking,
      RequestPop, Deliver, Request, Continuation, Handling, Command
<1>24. ASSUME PutException PROVE ListsAwaited'
  BY <1>24
  DEF PutException, ListsAwaited, InSearch, IsList, AskingFor, Asking,
      Handling, script, requests
<1>25. ASSUME Drain PROVE ListsAwaited'
  BY <1>25
  DEF Drain, ListsAwaited, InSearch, IsList, AskingFor, Asking, Deliver,
      Aborted, Request, Command, script
<1>26. ASSUME Drained PROVE ListsAwaited'
  <2>1. ouq' = <<None>> /\ Len(ouq') = 1 /\ ouq'[1] = None
    BY <1>26 DEF Drained
  <2>2. \A i \in 1 .. Len(ouq') : ouq'[i] # "SEARCH"
    BY <2>1, NoneAssumption DEF Command
  <2> QED BY <2>2, <1>26, ListsFrame DEF Drained, script, requests
<1>27. ASSUME AbortTagged PROVE ListsAwaited'
  BY <1>27
  DEF AbortTagged, ListsAwaited, InSearch, IsList, AskingFor, Asking, Deliver,
      Aborted, Request, Command, queues, script
<1>28. ASSUME IdleTimesOut PROVE ListsAwaited'
  BY <1>28
  DEF IdleTimesOut, ListsAwaited, InSearch, IsList, AskingFor, Asking,
      EndIdle, script
<1>29. ASSUME WriterSends PROVE ListsAwaited'
  <2> DEFINE item == Head(ouq)
  <2>1. /\ ouq' = Tail(ouq) /\ Len(ouq') = Len(ouq) - 1 /\ Len(ouq) \in Nat
        /\ item = ouq[1] /\ Len(ouq) >= 1
        /\ \A i \in 1 .. Len(ouq') : ouq'[i] = ouq[i + 1]
    BY <1>29, TailFacts DEF WriterSends, Writing, QueueTypes
  <2>2. UNCHANGED <<pc, cmd, found, result>>
    BY <1>29 DEF WriterSends, script, requests
  <2>3. CASE item = "SEARCH" /\ ~idling
    <3>1. PICK ids \in SUBSET Mail : inq' = inq \o News \o <<OK("SEARCH", ids)>>
      <4>1. (1 .. arrived) \ seen \in SUBSET Mail
        BY MailAssumption DEF ControlTypes, Mail
      <4> QED BY <4>1, <2>3, <1>29 DEF WriterSends, Serve
    <3>2. /\ Len(inq') \in Nat
          /\ \A i \in 1 .. Len(inq') :
               \/ i \in 1 .. Len(inq) /\ inq'[i] = inq[i]
               \/ inq'[i] = Announce
               \/ i = Len(inq')
      BY <3>1, AnswerPut, LineFacts DEF QueueTypes, Command
    <3>3. \A j \in 1 .. Len(inq) : ~IsList(inq[j])
      BY <2>1, <2>3 DEF ListsAwaited
    <3>4. \A i \in 1 .. Len(inq') : IsList(inq'[i]) => i = Len(inq')
      BY <3>2, <3>3 DEF IsList, Announce
    <3>5. \A i \in 1 .. Len(ouq') : ouq'[i] # "SEARCH"
      BY <2>1, <2>3 DEF ListsAwaited
    <3>6. InSearch'
      BY <2>1, <2>2, <2>3 DEF ListsAwaited, InSearch
    <3> QED BY <2>2, <3>4, <3>5, <3>6 DEF ListsAwaited, AskingFor
  <2>4. CASE ~(item = "SEARCH" /\ ~idling)
    <3>1. \A i \in 1 .. Len(inq') : IsList(inq'[i]) => i \in 1 .. Len(inq) /\ IsList(inq[i])
      <4> SUFFICES ASSUME inq' # inq
                   PROVE  \A i \in 1 .. Len(inq') :
                            IsList(inq'[i]) => i \in 1 .. Len(inq) /\ IsList(inq[i])
        OBVIOUS
      <4>1. \/ inq' = Append(inq, [type |-> "+"])
            \/ \E d \in {"IDLE", "FETCH"} : inq' = inq \o News \o <<OK(d, {})>>
            \/ inq' = Append(inq, OK("CLOSE", {}))
            \/ inq' = inq \o <<[type |-> "BYE"], OK("LOGOUT", {})>>
        BY <2>4, <1>29 DEF WriterSends, Serve
      <4>2. /\ ~IsList([type |-> "+"]) /\ ~IsList([type |-> "BYE"]) /\ ~IsList(Announce)
            /\ \A d \in {"IDLE", "FETCH", "CLOSE", "LOGOUT"} :
                 ~IsList(OK(d, {})) /\ OK(d, {}) \in Line
        BY LineFacts DEF IsList, OK, Command, Announce
      <4>3. CASE inq' = Append(inq, [type |-> "+"]) \/ inq' = Append(inq, OK("CLOSE", {}))
        BY <4>2, <4>3, NoListPut, LineFacts DEF QueueTypes
      <4>4. CASE \E d \in {"IDLE", "FETCH"} : inq' = inq \o News \o <<OK(d, {})>>
        <5>1. PICK d \in {"IDLE", "FETCH"} : inq' = inq \o News \o <<OK(d, {})>>
          BY <4>4
        <5>2. /\ inq'[Len(inq')] = OK(d, {})
              /\ \A i \in 1 .. Len(inq) : inq'[i] = inq[i]
              /\ \A i \in 1 .. Len(inq') :
                   i \in 1 .. Len(inq) \/ inq'[i] = Announce \/ i = Len(inq')
          BY <4>2, <5>1, AnswerPut DEF QueueTypes
        <5>3. ~IsList(Announce) /\ ~IsList(OK(d, {}))
          BY <4>2
        <5> QED BY <5>2, <5>3
      <4>5. CASE inq' = inq \o <<[type |-> "BYE"], OK("LOGOUT", {})>>
        <5> DEFINE p == Append(inq, [type |-> "BYE"])
        <5>1. inq' = Append(p, OK("LOGOUT", {})) /\ p \in Seq(Line)
          BY <4>2, <4>5, PairPut, AppendFacts, LineFacts DEF QueueTypes
        <5>2. \A i \in 1 .. Len(p) : IsList(p[i]) => i \in 1 .. Len(inq) /\ IsList(inq[i])
          BY <4>2, NoListPut, LineFacts DEF QueueTypes
        <5> HIDE DEF p
        <5>3. \A i \in 1 .. Len(inq') : IsList(inq'[i]) => i \in 1 .. Len(p) /\ IsList(p[i])
          BY <4>2, <5>1, NoListPut
        <5> QED BY <5>2, <5>3
      <4> QED BY <4>1, <4>3, <4>4, <4>5
    <3>2. \A i \in 1 .. Len(ouq') : i + 1 \in 1 .. Len(ouq) /\ ouq'[i] = ouq[i + 1]
      BY <2>1
    <3>3. \A i \in 1 .. Len(ouq') : ouq'[i] = "SEARCH" => InSearch
      BY <3>2 DEF ListsAwaited
    <3>4. \A i, j \in 1 .. Len(ouq') : ouq'[i] = "SEARCH" /\ ouq'[j] = "SEARCH" => i = j
      <4>1. \A i, j \in 1 .. Len(ouq') : ouq'[i] = "SEARCH" /\ ouq'[j] = "SEARCH" => i + 1 = j + 1
        BY <3>2 DEF ListsAwaited
      <4> QED BY <4>1
    <3>5. InSearch' = InSearch /\ AskingFor("idler", "FETCH")' = AskingFor("idler", "FETCH")
      BY <2>2 DEF InSearch, AskingFor
    <3>6. \A i \in 1 .. Len(ouq'), j \in 1 .. Len(inq') :
            ~(ouq'[i] = "SEARCH" /\ IsList(inq'[j]))
      BY <3>1, <3>2 DEF ListsAwaited
    <3>7. \A i, j \in 1 .. Len(inq') : IsList(inq'[i]) /\ IsList(inq'[j]) => i = j
      BY <3>1 DEF ListsAwaited
    <3> QED
      BY <2>2, <3>1, <3>3, <3>4, <3>5, <3>6, <3>7 DEF ListsAwaited
  <2> QED BY <2>3, <2>4
<1>30. ASSUME WriterSendsInVain PROVE ListsAwaited'
  BY <1>30
  DEF WriterSendsInVain, ListsAwaited, InSearch, IsList, AskingFor, Asking,
      Writing, script, requests
<1>31. ASSUME WriterFails PROVE ListsAwaited'
  BY <1>31
  DEF WriterFails, ListsAwaited, InSearch, IsList, AskingFor, Asking, Deliver,
      Aborted, Request, Writing, Command, script
<1>32. ASSUME WriterEnds PROVE ListsAwaited'
  <2> DEFINE l == [type |-> "lost"]
  <2>1. ~IsList(l) /\ l \in Line
    BY LineFacts DEF IsList
  <2>2. \A i \in 1 .. Len(inq') : IsList(inq'[i]) => i \in 1 .. Len(inq) /\ IsList(inq[i])
    BY <2>1, <1>32, NoListPut DEF WriterEnds, QueueTypes
  <2>3. CASE UNCHANGED ouq
    BY <2>2, <2>3, <1>32, ListsFrame DEF WriterEnds, script, requests
  <2>4. CASE ouq # <<>> /\ ouq' = Tail(ouq)
    BY <2>2, <2>4, <1>32, TailFacts
    DEF WriterEnds, ListsAwaited, InSearch, AskingFor, QueueTypes, Item, script,
        requests
  <2> QED BY <2>3, <2>4, <1>32 DEF WriterEnds, Writing
<1>33. ASSUME ServerAnnounces PROVE ListsAwaited'
  <2>1. ~IsList(Announce)
    BY DEF IsList, Announce
  <2> QED
    BY <2>1, <1>33, NoListPut, LineFacts, ListsFrame
    DEF ServerAnnounces, QueueTypes, script, requests
<1>34. ASSUME ConnectionLost PROVE ListsAwaited'
  <2> DEFINE b == [type |-> "BYE"]
             l == [type |-> "lost"]
  <2>1. ~IsList(b) /\ ~IsList(l) /\ b \in Line /\ l \in Line
    BY LineFacts DEF IsList
  <2>2. inq' = Append(inq, l) \/ inq' = Append(Append(inq, b), l)
    BY <2>1, <1>34, SinglePut, PairPut DEF ConnectionLost, QueueTypes
  <2>3. Append(inq, b) \in Seq(Line)
    BY <2>1, AppendFacts DEF QueueTypes
  <2> HIDE DEF b, l
  <2>4. \A i \in 1 .. Len(inq') : IsList(inq'[i]) => i \in 1 .. Len(inq) /\ IsList(inq[i])
    <3>1. CASE inq' = Append(inq, l)
      BY <2>1, <3>1, NoListPut DEF QueueTypes
    <3>2. CASE inq' = Append(Append(inq, b), l)
      <4>1. \A i \in 1 .. Len(inq') :
              IsList(inq'[i]) => /\ i \in 1 .. Len(Append(inq, b))
                                 /\ IsList(Append(inq, b)[i])
        BY <2>1, <2>3, <3>2, NoListPut
      <4>2. \A i \in 1 .. Len(Append(inq, b)) :
              IsList(Append(inq, b)[i]) => i \in 1 .. Len(inq) /\ IsList(inq[i])
        BY <2>1, NoListPut DEF QueueTypes
      <4> QED BY <4>1, <4>2
    <3> QED BY <2>2, <3>1, <3>2
  <2> QED BY <2>4, <1>34, ListsFrame DEF ConnectionLost, script, requests
<1>35. ASSUME \/ \E c \in Caller :
                   \/ CallbackChecks(c) \/ CallbackMarks(c) \/ CallbackSets(c)
              \/ WriterLoops \/ MailArrives
       PROVE  ListsAwaited'
  <2>1. UNCHANGED <<cmd, found, inq, ouq, pc, result>>
    BY <1>35
    DEF CallbackChecks, CallbackMarks, CallbackSets, WriterLoops, MailArrives,
        queues, requests, script
  <2> QED
    BY <2>1 DEF ListsAwaited, InSearch, IsList, AskingFor, Asking
<1> QED
  BY <1>1, <1>2, <1>3, <1>4, <1>5, <1>6, <1>7, <1>8, <1>9, <1>10, <1>11,
     <1>12, <1>13, <1>14, <1>15, <1>16, <1>17, <1>18, <1>19, <1>20, <1>21,
     <1>22, <1>23, <1>24, <1>25, <1>26, <1>27, <1>28, <1>29, <1>30, <1>31,
     <1>32, <1>33, <1>34, <1>35
  DEF Next, Idle, Main, Handle, Write, CommandStep, Callback, Thread, Caller

\* What is fetched is in the list, and what is listed has arrived.
LEMMA DataTypesNext ==
  ASSUME QueueTypes, DataTypes, ControlTypes, Places, ListsAwaited,
         conn = "up" => Session, Next
  PROVE  DataTypes'
<1>1. ASSUME NEW t \in Thread, Refuse(t) PROVE DataTypes'
  BY <1>1 DEF Refuse, DataTypes, Raise, Request, Command, server, requests
<1>2. ASSUME NEW t \in Thread, RequestPush(t) PROVE DataTypes'
  BY <1>2
  DEF RequestPush, DataTypes, Places, Thread, Request, Command, script, server
<1>3. ASSUME NEW t \in Thread, Put(t) PROVE DataTypes'
  BY <1>3 DEF Put, DataTypes, Request, Command, script, server
<1>4. ASSUME NEW t \in Thread, Respond(t) PROVE DataTypes'
  <2>1. found' \subseteq Mail
    BY <1>4 DEF Respond, DataTypes
  <2>2. cmd[t] = "FETCH" => Current \in Mail
    <3> SUFFICES ASSUME cmd[t] = "FETCH" PROVE Current \in Mail
      OBVIOUS
    <3>1. t = "idler" /\ AskingFor("idler", "FETCH")
      BY <1>4 DEF Respond, Places, Thread, AskingFor
    <3> QED BY <3>1, CurrentFound DEF ListsAwaited, DataTypes
  <2>3. files' \in [File -> Mail \cup {None}]
    <3>1. CASE cmd[t] = "FETCH"
      <4>1. files' = [files EXCEPT ![FileName[Current]] =
                        IF @ = None THEN Current ELSE @]
        BY <1>4, <3>1 DEF Respond, Save
      <4> QED BY <2>2, <3>1, <4>1 DEF DataTypes
    <3> QED BY <3>1, <1>4 DEF Respond, DataTypes
  <2> QED BY <2>1, <2>3, <1>4 DEF Respond, DataTypes, requests, server
<1>5. ASSUME NEW t \in Thread, ResponseAborted(t) PROVE DataTypes'
  BY <1>5
  DEF ResponseAborted, DataTypes, Raise, Request, Command, server, requests
<1>6. ASSUME ContinuationAborted PROVE DataTypes'
  BY <1>6
  DEF ContinuationAborted, DataTypes, Raise, Request, Command, server,
      requests
<1>7. ASSUME PutContinuation PROVE DataTypes'
  BY <1>7
  DEF PutContinuation, DataTypes, RequestPop, Deliver, Continuation, Request,
      Command, script, server
<1>8. ASSUME PutUntagged PROVE DataTypes'
  BY <1>8
  DEF PutUntagged, DataTypes, RequestPop, Deliver, Continuation, Request,
      Command, script, server
<1>9. ASSUME PutBye PROVE DataTypes'
  BY <1>9
  DEF PutBye, DataTypes, RequestPop, Deliver, Continuation, Request, Command,
      script, server
<1>10. ASSUME PutTagged PROVE DataTypes'
  <2>1. Head(inq) \in Line /\ Head(inq).type = "OK"
    BY <1>10, TailFacts DEF PutTagged, Handling, QueueTypes
  <2>2. Head(inq).ids \subseteq Mail
    BY <2>1, LineFacts
  <2> QED BY <2>2, <1>10
          DEF PutTagged, DataTypes, RequestPop, Deliver, Request, server
<1>11. ASSUME Drain PROVE DataTypes'
  BY <1>11
  DEF Drain, DataTypes, Deliver, Request, Command, Aborted, script, server
<1>12. ASSUME AbortTagged PROVE DataTypes'
  BY <1>12
  DEF AbortTagged, DataTypes, Deliver, Request, Command, Aborted, script,
      server
<1>13. ASSUME WriterSends PROVE DataTypes'
  <2>1. seen' \subseteq Mail
    <3>1. CASE Head(ouq) = "FETCH" /\ ~idling
      <4>1. "FETCH" \in tagged
        BY <1>13, <3>1, TailFacts
        DEF WriterSends, Writing, Session, Dialogue, QueueTypes, RequestOf
      <4>2. AskingFor("idler", "FETCH")
        BY <1>13, <4>1
        DEF WriterSends, Session, Outstanding, Untroubled, Places, Asking,
                          AskingFor, Thread
      <4>3. Current \in Mail
        BY <4>2, CurrentFound DEF ListsAwaited, DataTypes
      <4> QED BY <4>3, <3>1, <1>13 DEF WriterSends, Serve, DataTypes
    <3> QED BY <3>1, <1>13 DEF WriterSends, Serve, DataTypes
  <2> QED BY <2>1, <1>13 DEF WriterSends, DataTypes, script, requests
<1>14. ASSUME WriterFails PROVE DataTypes'
  BY <1>14
  DEF WriterFails, DataTypes, Deliver, Request, Command, Aborted, script,
      server
<1>15. ASSUME \/ \E t \in Thread :
                   \/ Acquire(t) \/ Settle(t) \/ AwaitFree(t) \/ Check(t)
              \/ \E c \in Caller :
                   \/ CallbackChecks(c) \/ CallbackMarks(c) \/ CallbackSets(c)
              \/ Loop \/ AwaitContinuation \/ AwaitEvent \/ Clear
              \/ NextMail \/ Join \/ CloseThreads \/ ThreadsJoined
              \/ Stop \/ PutException \/ Drained \/ IdleTimesOut
              \/ WriterLoops \/ WriterSendsInVain \/ WriterEnds \/ MailArrives
              \/ ServerAnnounces \/ ConnectionLost
       PROVE  DataTypes'
  <2>1. UNCHANGED <<files, found, result, seen, tagged>>
    BY <1>15
    DEF Acquire, Settle, AwaitFree, Check, Loop, AwaitContinuation,
        AwaitEvent, Clear, NextMail, Join, CloseThreads, ThreadsJoined, Stop,
        PutException, Drained, IdleTimesOut, CallbackChecks, CallbackMarks,
        CallbackSets, WriterLoops, WriterSendsInVain, WriterEnds, MailArrives,
        ServerAnnounces, ConnectionLost, requests, script, server
  <2> QED
    BY <2>1 DEF DataTypes, Request, Command
<1> QED
  BY <1>1, <1>2, <1>3, <1>4, <1>5, <1>6, <1>7, <1>8, <1>9, <1>10, <1>11,
     <1>12, <1>13, <1>14, <1>15
  DEF Next, Idle, Main, Handle, Write, CommandStep, Callback, Thread, Caller

\* The steps that are taken while the connection is there and stays.
UpStep ==
  \/ \E t \in Thread :
       \/ Acquire(t) \/ Settle(t) \/ AwaitFree(t) \/ Check(t) \/ RequestPush(t)
       \/ Put(t) \/ Respond(t)
  \/ Loop \/ AwaitContinuation \/ AwaitEvent \/ Clear \/ NextMail \/ Join \/ Stop
  \/ PutContinuation \/ PutUntagged \/ PutTagged \/ IdleTimesOut
  \/ \E c \in Caller : CallbackChecks(c) \/ CallbackMarks(c) \/ CallbackSets(c)
  \/ WriterLoops \/ (conn' = "up" /\ WriterSends) \/ MailArrives \/ ServerAnnounces

\* While the connection is there nothing fails.
LEMMA UpSteps == ASSUME QueueTypes, DataTypes, ControlTypes, Places, Session, Next,
                        conn = "up", conn' = "up"
                 PROVE  UpStep
<1>1. ~(\E t \in Thread : Refuse(t))
  BY DEF Refuse, Session, Untroubled
<1>2. ~(\E t \in Thread : ResponseAborted(t))
  <2>1. ASSUME NEW t \in Thread, pc[t] = "response" PROVE cmd[t] \in Request
    BY <2>1 DEF Places, Thread, Request, Command
  <2> QED BY <2>1 DEF ResponseAborted, Session, Untroubled
<1>3. ~ContinuationAborted /\ ~CloseThreads /\ ~ThreadsJoined
  BY DEF ContinuationAborted, CloseThreads, ThreadsJoined, Session, Untroubled, Request
<1>4. ~PutBye /\ ~PutException
  BY TailFacts, QueueFacts
  DEF PutBye, PutException, Handling, Session, Untroubled, QueueTypes
<1>5. ~Drain /\ ~Drained /\ ~AbortTagged
  BY DEF Drain, Drained, AbortTagged, Session, Untroubled
<1>6. ~WriterSendsInVain /\ ~WriterFails /\ ~ConnectionLost
  BY DEF WriterSendsInVain, WriterFails, ConnectionLost
<1>7. ~WriterEnds
  BY TailFacts, QueueFacts
  DEF WriterEnds, Writing, Session, Untroubled, QueueTypes
<1> QED
  BY <1>1, <1>2, <1>3, <1>4, <1>5, <1>6, <1>7
  DEF UpStep, Next, Idle, Main, Handle, Write, CommandStep, Callback, Thread,
      Caller

-----------------------------------------------------------------------------
(* A session, step by step: nothing fails.                                 *)

\* None is not in ouq when something else is put.
LEMMA NoNonePut ==
  ASSUME NEW q \in Seq(Item), NEW x \in Item, x # None,
         \A i \in 1 .. Len(q) : q[i] # None
  PROVE  \A i \in 1 .. Len(Append(q, x)) : Append(q, x)[i] # None
BY AppendFacts, QueueFacts

\* _end_idle puts no None.
LEMMA EndIdleNoNone ==
  ASSUME ouq \in Seq(Item), EndIdle, \A i \in 1 .. Len(ouq) : ouq[i] # None
  PROVE  \A i \in 1 .. Len(ouq') : ouq'[i] # None
BY NoNonePut, NoneAssumption DEF EndIdle, Item

\* What an untroubled session reads.
Plain(line) ==
  line.type \in {"+", "EXISTS", "OK"} /\ (line.type = "OK" => line.of # "LOGOUT")

\* What is read stays plain when a plain line is put.
LEMMA PlainPut ==
  ASSUME NEW q \in Seq(Line), NEW x \in Line, Plain(x),
         \A i \in 1 .. Len(q) : Plain(q[i])
  PROVE  \A i \in 1 .. Len(Append(q, x)) : Plain(Append(q, x)[i])
BY AppendFacts, QueueFacts

\* An untroubled session stays one.
LEMMA UntroubledNext ==
  ASSUME QueueTypes, DataTypes, ControlTypes, Places, Untroubled,
         Outstanding, NoticeInTime, Dialogue, UpStep
  PROVE  Untroubled'
<1>1. ASSUME NEW t \in Thread, Acquire(t) PROVE Untroubled'
  <2>1. \A i \in 1 .. Len(ouq') : ouq'[i] # None
    BY <1>1, EndIdleNoNone DEF Acquire, Untroubled, QueueTypes
  <2>2. pc'["main"] \notin {"quit", "threads", "ended", "raised"}
    BY <1>1 DEF Acquire, Goto, Untroubled, ControlTypes, Thread
  <2> QED BY <2>1, <2>2, <1>1 DEF Acquire, Untroubled, threads
<1>2. ASSUME NEW t \in Thread, Settle(t) PROVE Untroubled'
  BY <1>2
  DEF Settle, Untroubled, ControlTypes, Thread, Goto, Request, Command,
      queues, threads
<1>3. ASSUME NEW t \in Thread, AwaitFree(t) PROVE Untroubled'
  BY <1>3
  DEF AwaitFree, Untroubled, Goto, Request, Command, requests, queues, threads
<1>4. ASSUME NEW t \in Thread, Check(t) PROVE Untroubled'
  BY <1>4
  DEF Check, Untroubled, Goto, Request, Command, requests, queues, threads
<1>5. ASSUME NEW t \in Thread, RequestPush(t) PROVE Untroubled'
  <2>1. cmd[t] \in Request /\ None # "ok" /\ None # "abort"
    <3>1. cmd[t] \in Command
      BY <1>5 DEF RequestPush, Places, Asking, Thread, Command
    <3> QED BY <3>1, NoneAssumption DEF Request
  <2>2. (\A r \in Request : result'[r] # "abort") /\ result'["LOGOUT"] # "ok"
    BY <2>1, <1>5 DEF RequestPush, Untroubled, DataTypes, Request, Command
  <2>3. pc'["main"] \notin {"quit", "threads", "ended", "raised"}
    BY <1>5 DEF RequestPush, Goto, Untroubled, ControlTypes, Thread
  <2> QED BY <2>2, <2>3, <1>5 DEF RequestPush, Untroubled, queues, threads
<1>6. ASSUME NEW t \in Thread, Put(t) PROVE Untroubled'
  <2>1. cmd[t] \in Command
    BY <1>6 DEF Put, Places, Asking, Thread, Command
  <2>2. \A i \in 1 .. Len(ouq') : ouq'[i] # None
    BY <2>1, <1>6, NoNonePut, NoneAssumption
    DEF Put, QueueTypes, Untroubled, Item
  <2>3. (\A r \in Request : result'[r] # "abort") /\ result'["LOGOUT"] # "ok"
    BY <1>6, NoneAssumption DEF Put, Untroubled, DataTypes, Request, Command
  <2>4. pc'["main"] \notin {"quit", "threads", "ended", "raised"}
    BY <1>6 DEF Put, Goto, Untroubled, ControlTypes, Thread
  <2> QED BY <2>2, <2>3, <2>4, <1>6 DEF Put, Untroubled, threads
<1>7. ASSUME NEW t \in Thread, Respond(t) PROVE Untroubled'
  <2>1. cmd[t] \in {"SEARCH", "FETCH", "CLOSE"}
    BY <1>7 DEF Respond, Places, Thread, Untroubled
  <2>2. pc'["main"] \notin {"quit", "threads", "ended", "raised"}
    <3>1. Goto(t, "next") \/ Goto(t, "acquire")
      BY <2>1, <1>7 DEF Respond, Issue
    <3> QED BY <3>1 DEF Goto, Untroubled, ControlTypes, Thread
  <2> QED BY <2>2, <1>7 DEF Respond, Untroubled, requests, queues, threads
<1>8. ASSUME Loop PROVE Untroubled'
  BY <1>8
  DEF Loop, Untroubled, ControlTypes, Thread, Goto, Issue, Request, Command,
      requests, queues, threads
<1>9. ASSUME AwaitContinuation PROVE Untroubled'
  BY <1>9
  DEF AwaitContinuation, Untroubled, Goto, Request, Command, queues, threads
<1>10. ASSUME AwaitEvent PROVE Untroubled'
  BY <1>10
  DEF AwaitEvent, Untroubled, Goto, Request, Command, requests, queues,
      threads
<1>11. ASSUME Clear PROVE Untroubled'
  BY <1>11
  DEF Clear, Untroubled, Goto, Issue, Request, Command, requests, queues,
      threads
<1>12. ASSUME NextMail PROVE Untroubled'
  BY <1>12
  DEF NextMail, Untroubled, ControlTypes, Thread, Goto, Issue, Request,
      Command, requests, queues, threads
<1>13. ASSUME Join PROVE Untroubled'
  BY <1>13
  DEF Join, Untroubled, Goto, Issue, Request, Command, requests, queues,
      threads
<1>14. ASSUME Stop PROVE Untroubled'
  BY <1>14
  DEF Stop, Untroubled, Goto, Request, Command, requests, queues, threads
<1>15. ASSUME PutContinuation PROVE Untroubled'
  BY <1>15
  DEF PutContinuation, Untroubled, RequestPop, Deliver, Request, Continuation,
      Handling, Command
<1>16. ASSUME PutUntagged PROVE Untroubled'
  <2>1. \A i \in 1 .. Len(ouq') : ouq'[i] # None
    BY <1>16, EndIdleNoNone DEF PutUntagged, Untroubled, QueueTypes
  <2>2. (\A r \in Request : result'[r] # "abort") /\ result'["LOGOUT"] # "ok"
    BY <1>16
    DEF PutUntagged, Deliver, Continuation, Untroubled, DataTypes, Request,
        Command
  <2>3. callback' = callback
    BY <1>16 DEF PutUntagged, Deliver, Continuation, ControlTypes
  <2>4. \A i \in 1 .. Len(inq') : i + 1 \in 1 .. Len(inq) /\ inq'[i] = inq[i + 1]
    BY <1>16, TailFacts DEF PutUntagged, Handling, QueueTypes
  <2> QED BY <2>1, <2>2, <2>3, <2>4, <1>16 DEF PutUntagged, Untroubled
<1>17. ASSUME PutTagged PROVE Untroubled'
  BY <1>17
  DEF PutTagged, Untroubled, RequestPop, Deliver, Request, Continuation,
      Handling, Command
<1>18. ASSUME IdleTimesOut PROVE Untroubled'
  BY <1>18, EndIdleNoNone DEF IdleTimesOut, Untroubled, QueueTypes, threads
<1>19. ASSUME NEW c \in Caller, CallbackChecks(c) PROVE Untroubled'
  BY <1>19 DEF CallbackChecks, Untroubled, Request, Command, requests, queues
<1>20. ASSUME NEW c \in Caller, CallbackMarks(c) PROVE Untroubled'
  BY <1>20 DEF CallbackMarks, Untroubled, Request, Command, requests, queues
<1>21. ASSUME NEW c \in Caller, CallbackSets(c) PROVE Untroubled'
  BY <1>21 DEF CallbackSets, Untroubled, Request, Command, requests, queues
<1>22. ASSUME WriterLoops PROVE Untroubled'
  BY <1>22 DEF WriterLoops, Untroubled, Request, Command, requests, queues
<1>23. ASSUME conn' = "up", WriterSends PROVE Untroubled'
  <2>1. \A i \in 1 .. Len(ouq') : i + 1 \in 1 .. Len(ouq) /\ ouq'[i] = ouq[i + 1]
    BY <1>23, TailFacts DEF WriterSends, Writing, QueueTypes
  <2>2. \A i \in 1 .. Len(inq') : Plain(inq'[i])
    <3> SUFFICES ASSUME inq' # inq
                 PROVE  \A i \in 1 .. Len(inq') : Plain(inq'[i])
      BY DEF Untroubled, Plain
    <3>1. PICK ids \in SUBSET Mail :
            \/ inq' = Append(inq, [type |-> "+"])
            \/ \E d \in Command \ {"LOGOUT"} : inq' = inq \o News \o <<OK(d, ids)>>
            \/ inq' = Append(inq, OK("CLOSE", ids))
      <4>1. (1 .. arrived) \ seen \in SUBSET Mail
        BY MailAssumption DEF ControlTypes, Mail
      <4> QED BY <4>1, <1>23 DEF WriterSends, Serve, Command
    <3>2. /\ Plain([type |-> "+"]) /\ Plain(Announce)
          /\ \A d \in Command \ {"LOGOUT"} : Plain(OK(d, ids)) /\ OK(d, ids) \in Line
      BY LineFacts DEF Plain, OK, Announce
    <3>3. \A i \in 1 .. Len(inq) : Plain(inq[i])
      BY DEF Untroubled, Plain
    <3>4. CASE inq' = Append(inq, [type |-> "+"]) \/ inq' = Append(inq, OK("CLOSE", ids))
      <4>1. [type |-> "+"] \in Line /\ OK("CLOSE", ids) \in Line /\ Plain(OK("CLOSE", ids))
        BY <3>2, LineFacts DEF Command
      <4> QED BY <3>2, <3>3, <3>4, <4>1, PlainPut DEF QueueTypes
    <3>5. CASE \E d \in Command \ {"LOGOUT"} : inq' = inq \o News \o <<OK(d, ids)>>
      <4>1. PICK d \in Command \ {"LOGOUT"} : inq' = inq \o News \o <<OK(d, ids)>>
        BY <3>5
      <4>2. /\ inq'[Len(inq')] = OK(d, ids)
            /\ \A i \in 1 .. Len(inq) : inq'[i] = inq[i]
            /\ \A i \in 1 .. Len(inq') :
                 i \in 1 .. Len(inq) \/ inq'[i] = Announce \/ i = Len(inq')
        BY <3>2, <4>1, AnswerPut DEF QueueTypes
      <4>3. Plain(OK(d, ids))
        BY <3>2
      <4> QED BY <3>2, <3>3, <4>2, <4>3
    <3> QED BY <3>1, <3>4, <3>5
  <2> QED BY <2>1, <2>2, <1>23
          DEF WriterSends, Untroubled, Plain, script, requests
<1>24. ASSUME ServerAnnounces PROVE Untroubled'
  <2>1. Plain(Announce)
    BY DEF Plain, Announce
  <2>2. \A i \in 1 .. Len(inq') : Plain(inq'[i])
    BY <2>1, <1>24, PlainPut, LineFacts
    DEF ServerAnnounces, Untroubled, QueueTypes, Plain
  <2> QED BY <2>2, <1>24
          DEF ServerAnnounces, Untroubled, Plain, requests, threads
<1>25. ASSUME \/ MailArrives
       PROVE  Untroubled'
  <2>1. UNCHANGED <<Terminate, bye, callback, handler, inq, ouq, pc, result, writer>>
    BY <1>25 DEF MailArrives, queues, requests, threads
  <2> QED
    BY <2>1 DEF Untroubled, Request, Command
<1> QED
  BY <1>1, <1>2, <1>3, <1>4, <1>5, <1>6, <1>7, <1>8, <1>9, <1>10, <1>11,
     <1>12, <1>13, <1>14, <1>15, <1>16, <1>17, <1>18, <1>19, <1>20, <1>21,
     <1>22, <1>23, <1>24, <1>25
  DEF UpStep

\* Requests are answered and popped.
LEMMA PopOutstanding ==
  ASSUME DataTypes, Outstanding, NEW R, R \subseteq tagged,
         NEW c \in Caller, NEW answer \in [Request -> {"ok", "no"}],
         RequestPop(R), Deliver(c, R, answer), UNCHANGED <<pc, cmd, event>>,
         pc["idler"] = "continuation" => R \subseteq {"continuation"},
         Putting => R = {} /\ UNCHANGED ouq
  PROVE  Outstanding'
<1>1. tagged' = tagged \ R /\ R \subseteq Request
  BY DEF RequestPop, DataTypes
<1>2. \A r \in Request :
        result'[r] = result[r] \/ (r \in R /\ result'[r] # None)
  BY NoneAssumption, <1>1 DEF Deliver, DataTypes
<1>3. free' => free \/ tagged' = {}
  BY <1>1 DEF RequestPop
<1>4. "continuation" \in Request /\ \A r \in R : result'[r] # None
  BY <1>1, NoneAssumption DEF Request, Deliver
<1>5. ASSUME NEW t \in Thread
      PROVE  /\ pc[t] = "put" => tagged' = {cmd[t]} /\ result'[cmd[t]] = None /\ ouq' = <<>>
             /\ pc[t] = "response" =>
                  tagged' \subseteq {cmd[t]} /\ (result'[cmd[t]] # None => tagged' = {})
  <2>1. CASE pc[t] = "put"
    <3>1. R = {} /\ UNCHANGED ouq /\ cmd[t] \in Request
      BY <2>1 DEF Putting, Outstanding, DataTypes
    <3> QED BY <1>1, <1>2, <2>1, <3>1 DEF Outstanding
  <2>2. CASE pc[t] = "response"
    <3>1. tagged \subseteq {cmd[t]} /\ (result[cmd[t]] # None => tagged = {})
      BY <2>2 DEF Outstanding
    <3>2. CASE tagged = {}
      BY <1>1, <2>2, <3>2
    <3>3. CASE tagged = {cmd[t]}
      BY <1>1, <1>2, <2>2, <3>1, <3>3 DEF DataTypes
    <3> QED BY <3>1, <3>2, <3>3
  <2> QED BY <2>1, <2>2
<1>6. pc["idler"] = "continuation" =>
        /\ "IDLE" \in tagged' /\ tagged' \subseteq {"IDLE", "continuation"}
        /\ "continuation" \in tagged' <=> result'["continuation"] = None
  BY <1>1, <1>2, <1>4 DEF Outstanding
<1> QED
  BY <1>1, <1>3, <1>5, <1>6 DEF Outstanding

\* While a command is being put nobody waits for a continuation.
LEMMA ContinuationIdle ==
  ASSUME Places, Outstanding PROVE Putting => Continuation = {}
BY DEF Putting, Continuation, Places, Outstanding, Asking, Thread

\* Each step keeps the commands outstanding that belong to its place.
LEMMA OutstandingNext ==
  ASSUME QueueTypes, DataTypes, ControlTypes, Places, Untroubled,
         Outstanding, NoticeInTime, Dialogue, UpStep
  PROVE  Outstanding'
<1>1. ASSUME NEW t \in Thread, Acquire(t) PROVE Outstanding'
  BY <1>1
  DEF Acquire, Outstanding, Places, Asking, ControlTypes, Thread, Goto,
      EndIdle, Async, script
<1>2. ASSUME NEW t \in Thread, Settle(t) PROVE Outstanding'
  BY <1>2
  DEF Settle, Outstanding, Asking, ControlTypes, Thread, Goto, script, queues
<1>3. ASSUME NEW t \in Thread, AwaitFree(t) PROVE Outstanding'
  BY <1>3
  DEF AwaitFree, Outstanding, Asking, Thread, Goto, script, requests, queues
<1>4. ASSUME NEW t \in Thread, Check(t) PROVE Outstanding'
  BY <1>4
  DEF Check, Outstanding, Asking, Thread, Goto, script, requests, queues
<1>5. ASSUME NEW t \in Thread, RequestPush(t) PROVE Outstanding'
  BY <1>5
  DEF RequestPush, Outstanding, Dialogue, Places, Asking, DataTypes,
      ControlTypes, Thread, Goto, Request, Command, script, queues
<1>6. ASSUME NEW t \in Thread, Put(t) PROVE Outstanding'
  BY <1>6
  DEF Put, Outstanding, Places, Asking, DataTypes, ControlTypes, Thread, Goto,
      Request, script
<1>7. ASSUME NEW t \in Thread, Respond(t) PROVE Outstanding'
  <2>1. tagged = {} /\ tagged' = {} /\ UNCHANGED <<event, ouq, free>>
    BY <1>7, NoneAssumption DEF Respond, Outstanding, requests, queues
  <2>2. CASE t = "idler"
    <3>1. pc["idler"] = "response" /\ cmd["idler"] \in {"SEARCH", "FETCH"}
      BY <2>2, <1>7 DEF Respond, Places
    <3>2. pc' = [pc EXCEPT !["idler"] = "next"]
      BY <2>2, <3>1, <1>7 DEF Respond, Goto
    <3>3. pc["main"] \in {"sleep", "join"}
      BY <3>1 DEF Places
    <3> QED BY <2>1, <3>2, <3>3 DEF Outstanding, ControlTypes, Thread
  <2>3. CASE t = "main"
    <3>1. pc["main"] = "response" /\ cmd["main"] = "CLOSE" /\ pc["idler"] = "ended"
      BY <2>3, <1>7 DEF Respond, Places, Untroubled
    <3>2. pc' = [pc EXCEPT !["main"] = "acquire"]
      BY <2>3, <3>1, <1>7 DEF Respond, Issue, Goto
    <3> QED BY <2>1, <3>1, <3>2 DEF Outstanding, Asking, ControlTypes, Thread
  <2> QED BY <2>2, <2>3 DEF Thread
<1>8. ASSUME Loop PROVE Outstanding'
  BY <1>8
  DEF Loop, Outstanding, Asking, ControlTypes, Thread, Goto, Issue, requests,
      queues
<1>9. ASSUME AwaitContinuation PROVE Outstanding'
  BY <1>9, NoneAssumption
  DEF AwaitContinuation, Outstanding, Asking, Thread, Goto, script, queues
<1>10. ASSUME AwaitEvent PROVE Outstanding'
  <2>1. pc["main"] \in {"sleep", "join"} /\ tagged \subseteq {"IDLE"} /\ event
        /\ UNCHANGED <<tagged, event, ouq, result, free>>
    BY <1>10 DEF AwaitEvent, Places, Outstanding, script, requests, queues
  <2>2. CASE needsync
    <3>1. tagged = {} /\ pc' = [pc EXCEPT !["idler"] = "clear"]
      BY <2>2, <1>10 DEF AwaitEvent, Goto, NoticeInTime, Notice
    <3> QED BY <2>1, <3>1 DEF Outstanding, Asking, ControlTypes, Thread
  <2>3. CASE ~needsync
    <3>1. pc' = [pc EXCEPT !["idler"] = "loop"]
      BY <2>3, <1>10 DEF AwaitEvent, Goto
    <3> QED BY <2>1, <3>1 DEF Outstanding, Asking, ControlTypes, Thread
  <2> QED BY <2>2, <2>3
<1>11. ASSUME Clear PROVE Outstanding'
  BY <1>11
  DEF Clear, Outstanding, Asking, Thread, Goto, Issue, requests, queues
<1>12. ASSUME NextMail PROVE Outstanding'
  BY <1>12
  DEF NextMail, Outstanding, Asking, ControlTypes, Thread, Goto, Issue,
      script, requests, queues
<1>13. ASSUME Join PROVE Outstanding'
  BY <1>13
  DEF Join, Outstanding, Asking, Thread, Goto, Issue, script, requests, queues
<1>14. ASSUME Stop PROVE Outstanding'
  BY <1>14 DEF Stop, Outstanding, Asking, Thread, Goto, requests, queues
<1>15. ASSUME PutContinuation PROVE Outstanding'
  <2>1. Putting => Continuation = {}
    BY ContinuationIdle
  <2>2. /\ RequestPop(Continuation)
        /\ Deliver("handler", Continuation, [r \in Request |-> "ok"])
        /\ UNCHANGED <<pc, cmd, event, ouq>>
    BY <1>15 DEF PutContinuation, script
  <2> QED BY <2>1, <2>2, PopOutstanding DEF Continuation, Caller
<1>16. ASSUME PutUntagged PROVE Outstanding'
  <2>1. Putting => Continuation = {} /\ UNCHANGED ouq
    BY ContinuationIdle, <1>16 DEF PutUntagged, EndIdle, Dialogue
  <2>2. /\ RequestPop(Continuation)
        /\ Deliver("handler", Continuation, [r \in Request |-> "no"])
        /\ UNCHANGED <<pc, cmd, event>>
    BY <1>16 DEF PutUntagged, script
  <2> QED BY <2>1, <2>2, PopOutstanding DEF Continuation, Caller
<1>17. ASSUME PutTagged PROVE Outstanding'
  <2> DEFINE d == Head(inq).of
             R == (tagged \cap {d}) \cup Continuation
             answer == [r \in Request |-> IF r = "continuation" THEN "no" ELSE "ok"]
  <2>1. ~Putting /\ pc["idler"] # "continuation"
    BY <1>17, TailFacts, QueueFacts
    DEF PutTagged, Handling, Dialogue, QueueTypes
  <2>2. RequestPop(R) /\ Deliver("handler", R, answer) /\ UNCHANGED <<pc, cmd, event, ouq>>
    BY <1>17 DEF PutTagged
  <2>3. R \subseteq tagged /\ answer \in [Request -> {"ok", "no"}]
    BY DEF Continuation
  <2> HIDE DEF R, answer
  <2> QED BY <2>1, <2>2, <2>3, PopOutstanding DEF Caller
<1>18. ASSUME IdleTimesOut PROVE Outstanding'
  <2>1. ~Putting
    BY <1>18 DEF IdleTimesOut, Dialogue
  <2>2. UNCHANGED <<pc, cmd, event, tagged, result, free>>
    BY <1>18 DEF IdleTimesOut, script
  <2> QED BY <2>1, <2>2 DEF Outstanding, Putting
<1>19. ASSUME NEW c \in Caller, CallbackSets(c) PROVE Outstanding'
  BY <1>19 DEF CallbackSets, Outstanding, Asking, Thread, requests, queues
<1>20. ASSUME conn' = "up", WriterSends PROVE Outstanding'
  BY <1>20
  DEF WriterSends, Outstanding, Asking, Thread, Writing, script, requests
<1>21. ASSUME \/ \E c \in Caller : CallbackChecks(c) \/ CallbackMarks(c)
              \/ WriterLoops \/ MailArrives \/ ServerAnnounces
       PROVE  Outstanding'
  <2>1. UNCHANGED <<cmd, event, free, ouq, pc, result, tagged>>
    BY <1>21
    DEF CallbackChecks, CallbackMarks, WriterLoops, MailArrives,
        ServerAnnounces, queues, requests, script
  <2> QED
    BY <2>1 DEF Outstanding, Asking, Thread
<1> QED
  BY <1>1, <1>2, <1>3, <1>4, <1>5, <1>6, <1>7, <1>8, <1>9, <1>10, <1>11,
     <1>12, <1>13, <1>14, <1>15, <1>16, <1>17, <1>18, <1>19, <1>20, <1>21
  DEF UpStep

\* The callback of an IDLE is through before the next command is answered.
LEMMA NoticeInTimeNext ==
  ASSUME QueueTypes, DataTypes, ControlTypes, Places, Untroubled,
         Outstanding, NoticeInTime, Dialogue, UpStep
  PROVE  NoticeInTime'
<1>1. ASSUME NEW t \in Thread, Acquire(t) PROVE NoticeInTime'
  BY <1>1
  DEF Acquire, NoticeInTime, Notice, AskingFor, Asking, ControlTypes, Thread,
      Goto, EndIdle, Async, script, threads
<1>2. ASSUME NEW t \in Thread, Settle(t) PROVE NoticeInTime'
  BY <1>2
  DEF Settle, NoticeInTime, Notice, AskingFor, Asking, ControlTypes, Thread,
      Goto, script, threads
<1>3. ASSUME NEW t \in Thread, AwaitFree(t) PROVE NoticeInTime'
  BY <1>3
  DEF AwaitFree, NoticeInTime, Notice, AskingFor, Asking, Goto, script,
      requests, threads
<1>4. ASSUME NEW t \in Thread, Check(t) PROVE NoticeInTime'
  BY <1>4
  DEF Check, NoticeInTime, Notice, AskingFor, Asking, Goto, script, requests,
      threads
<1>5. ASSUME NEW t \in Thread, RequestPush(t) PROVE NoticeInTime'
  BY <1>5
  DEF RequestPush, NoticeInTime, Notice, AskingFor, Places, Asking, Thread,
      Goto, script, threads
<1>6. ASSUME NEW t \in Thread, Put(t) PROVE NoticeInTime'
  BY <1>6, NoneAssumption
  DEF Put, NoticeInTime, Notice, AskingFor, Outstanding, Places, Asking,
      ControlTypes, Thread, Goto, script, threads
<1>7. ASSUME NEW t \in Thread, Respond(t) PROVE NoticeInTime'
  <2>1. UNCHANGED <<event, needsync, tagged, callback, result>>
    BY <1>7 DEF Respond, requests, threads
  <2>2. CASE t = "idler"
    <3>1. /\ pc["idler"] = "response" /\ cmd["idler"] \in {"SEARCH", "FETCH"}
          /\ result[cmd["idler"]] = "ok"
      BY <2>2, <1>7 DEF Respond, Places
    <3>2. pc'["idler"] = "next"
      BY <2>2, <3>1, <1>7 DEF Respond, Goto, ControlTypes, Thread
    <3>3. callback["handler"] = "no"
      BY <3>1 DEF NoticeInTime
    <3> QED BY <2>1, <3>2, <3>3 DEF NoticeInTime, Asking, AskingFor
  <2>3. CASE t = "main"
    <3>1. pc'["idler"] = "ended"
      <4>1. pc["idler"] = "ended" /\ pc'["idler"] = pc["idler"]
        BY <2>3, <1>7 DEF Respond, Places, Goto, Issue, ControlTypes, Thread
      <4> QED BY <4>1
    <3> QED BY <3>1 DEF NoticeInTime, Asking, AskingFor
  <2> QED BY <2>2, <2>3 DEF Thread
<1>8. ASSUME Loop PROVE NoticeInTime'
  BY <1>8
  DEF Loop, NoticeInTime, Notice, AskingFor, Asking, ControlTypes, Goto,
      Issue, requests, threads
<1>9. ASSUME AwaitContinuation PROVE NoticeInTime'
  BY <1>9
  DEF AwaitContinuation, NoticeInTime, Notice, AskingFor, Places, Asking,
      Goto, script, threads
<1>10. ASSUME AwaitEvent PROVE NoticeInTime'
  BY <1>10
  DEF AwaitEvent, NoticeInTime, Notice, AskingFor, Asking, ControlTypes,
      Thread, Goto, script, requests, threads
<1>11. ASSUME Clear PROVE NoticeInTime'
  BY <1>11
  DEF Clear, NoticeInTime, Notice, AskingFor, Asking, ControlTypes, Goto,
      Issue, requests, threads
<1>12. ASSUME NextMail PROVE NoticeInTime'
  BY <1>12
  DEF NextMail, NoticeInTime, Notice, AskingFor, Asking, ControlTypes, Goto,
      Issue, script, requests, threads
<1>13. ASSUME Join PROVE NoticeInTime'
  BY <1>13
  DEF Join, NoticeInTime, Notice, AskingFor, Asking, Goto, Issue, script,
      requests, threads
<1>14. ASSUME Stop PROVE NoticeInTime'
  BY <1>14
  DEF Stop, NoticeInTime, Notice, AskingFor, Asking, Goto, requests, threads
<1>15. ASSUME PutContinuation PROVE NoticeInTime'
  BY <1>15
  DEF PutContinuation, NoticeInTime, Notice, AskingFor, Asking, RequestPop,
      Deliver, Request, Continuation, Handling, Command, script
<1>16. ASSUME PutUntagged PROVE NoticeInTime'
  BY <1>16
  DEF PutUntagged, NoticeInTime, Notice, AskingFor, Asking, EndIdle,
      RequestPop, Deliver, Request, Continuation, Handling, Command, script
<1>17. ASSUME PutTagged PROVE NoticeInTime'
  <2> DEFINE d == Head(inq).of
             R == (tagged \cap {d}) \cup Continuation
  <2>1. callback["handler"] = "no" /\ UNCHANGED <<pc, cmd, event, needsync>>
    BY <1>17 DEF PutTagged, Handling
  <2>2. ~Putting
    BY <1>17, TailFacts, QueueFacts
    DEF PutTagged, Handling, Dialogue, QueueTypes
  <2>3. tagged' = tagged \ R
        /\ callback' = [callback EXCEPT !["handler"] = IF "IDLE" \in R THEN "check" ELSE @]
    BY <1>17 DEF PutTagged, RequestPop, Deliver
  <2>4. \A r \in Request : r \notin R => result'[r] = result[r]
    BY <1>17 DEF PutTagged, Deliver
  <2>5. CASE "IDLE" \notin R
    <3>1. callback'["handler"] = "no"
      BY <2>1, <2>3, <2>5 DEF ControlTypes, Caller
    <3> QED BY <2>1, <2>3, <3>1 DEF NoticeInTime, Notice, AskingFor
  <2>6. CASE "IDLE" \in R
    <3>1. "IDLE" \in tagged
      BY <2>6 DEF Continuation
    <3> HIDE DEF R
    <3>2. pc["idler"] \notin Asking \cup {"clear", "next"}
      BY <2>2, <3>1 DEF Outstanding, Putting, Thread
    <3>3. pc["idler"] # "continuation" /\ pc["idler"] # "response"
      BY <1>17, <3>1, TailFacts, QueueFacts
      DEF PutTagged, Handling, Dialogue, QueueTypes, Outstanding, Places, Thread
    <3>4. pc["idler"] = "await" => tagged' = {}
      BY <2>3, <2>6 DEF Outstanding
    <3>5. pc["idler"] = "loop" => event
      BY <3>1 DEF Outstanding
    <3> QED BY <2>1, <3>2, <3>3, <3>4, <3>5 DEF NoticeInTime, AskingFor
  <2> QED BY <2>5, <2>6
<1>18. ASSUME NEW c \in Caller, CallbackChecks(c) PROVE NoticeInTime'
  BY <1>18
  DEF CallbackChecks, NoticeInTime, Notice, AskingFor, Asking, script,
      requests
<1>19. ASSUME NEW c \in Caller, CallbackMarks(c) PROVE NoticeInTime'
  <2>1. c = "handler" /\ callback["handler"] # "no"
    BY <1>19 DEF CallbackMarks, Caller, Untroubled
  <2>2. UNCHANGED <<pc, cmd, event, tagged, result>>
    BY <1>19 DEF CallbackMarks, requests
  <2>3. callback'["handler"] # "no"
    BY <2>1, <1>19 DEF CallbackMarks, ControlTypes, Caller
  <2> QED BY <2>1, <2>2, <2>3 DEF NoticeInTime, Notice, AskingFor
<1>20. ASSUME NEW c \in Caller, CallbackSets(c) PROVE NoticeInTime'
  BY <1>20 DEF CallbackSets, NoticeInTime, Notice, AskingFor, Asking, requests
<1>21. ASSUME \/ IdleTimesOut \/ WriterLoops \/ WriterSends \/ MailArrives
              \/ ServerAnnounces
       PROVE  NoticeInTime'
  <2>1. UNCHANGED <<callback, cmd, event, needsync, pc, result, tagged>>
    BY <1>21
    DEF IdleTimesOut, WriterLoops, WriterSends, MailArrives, ServerAnnounces,
        requests, script, threads
  <2> QED
    BY <2>1 DEF NoticeInTime, Notice, AskingFor, Asking
<1> QED
  BY <1>1, <1>2, <1>3, <1>4, <1>5, <1>6, <1>7, <1>8, <1>9, <1>10, <1>11,
     <1>12, <1>13, <1>14, <1>15, <1>16, <1>17, <1>18, <1>19, <1>20, <1>21
  DEF UpStep

\* While idle_rqb is set no answer is under way.
LEMMA IdleQuiet ==
  ASSUME QueueTypes, Untroubled, Dialogue, idleRqb
  PROVE  /\ Silent(inq) /\ ouq = <<>> /\ idling /\ "IDLE" \in tagged
         /\ ~Putting /\ pc["idler"] # "continuation"
BY DEF Untroubled, Dialogue, Silent

\* _end_idle puts one DONE, into an empty queue, if idle_rqb is set.
LEMMA DoneSent ==
  ASSUME QueueTypes, Untroubled, Dialogue, EndIdle
  PROVE  /\ idleRqb => ouq' = <<"DONE">> /\ Len(ouq') = 1 /\ ouq'[1] = "DONE"
         /\ ~idleRqb => ouq' = ouq
         /\ ~idleRqb'
<1>1. ~idleRqb' /\ ouq' = IF idleRqb THEN Append(ouq, "DONE") ELSE ouq
  BY DEF EndIdle
<1>2. CASE idleRqb
  <2>1. ouq = <<>>
    BY <1>2, IdleQuiet
  <2>2. ouq' = <<"DONE">>
    BY <1>1, <1>2, <2>1
  <2>3. Len(ouq') = 1 /\ ouq'[1] = "DONE"
    BY <2>2
  <2> QED BY <1>1, <1>2, <2>2, <2>3, Zenon
<1>3. CASE ~idleRqb
  BY <1>1, <1>3
<1> QED BY <1>2, <1>3

\* x is the only answer in r.
Alone(x, r) ==
  OneAnswer(r) /\ \A i \in 1 .. Len(r) : r[i].type = "EXISTS" \/ r[i] = x

\* An answer put behind announcements is the only one.
LEMMA AnswerAlone ==
  ASSUME NEW q \in Seq(Line), Silent(q), NEW x \in Line
  PROVE  Alone(x, Append(q, x)) /\ Alone(x, q \o News \o <<x>>)
<1>1. SUFFICES ASSUME NEW r, r = Append(q, x) \/ r = q \o News \o <<x>>
               PROVE  Alone(x, r)
  OBVIOUS
<1>2. /\ Len(r) \in Nat
      /\ r[Len(r)] = x
      /\ \A i \in 1 .. Len(r) : i # Len(r) => r[i].type = "EXISTS"
  <2>1. CASE r = Append(q, x)
    BY <2>1, AppendFacts, QueueFacts DEF Silent
  <2>2. CASE r = q \o News \o <<x>>
    BY <2>2, AnswerPut DEF Silent, Announce
  <2> QED BY <1>1, <2>1, <2>2
<1> QED BY <1>2 DEF Alone, OneAnswer

\* Client and server take turns.
LEMMA DialogueNext ==
  ASSUME QueueTypes, DataTypes, ControlTypes, Places, Untroubled,
         Outstanding, NoticeInTime, Dialogue, UpStep
  PROVE  Dialogue'
<1>1. ASSUME NEW t \in Thread, Acquire(t) PROVE Dialogue'
  <2>1. /\ ~idleRqb' /\ UNCHANGED <<tagged, result, inq, idling>>
        /\ idleRqb => ouq' = <<"DONE">> /\ Len(ouq') = 1 /\ ouq'[1] = "DONE"
        /\ ~idleRqb => ouq' = ouq
    BY <1>1, DoneSent DEF Acquire, server
  <2>2. Putting' = Putting
    BY <1>1 DEF Acquire, Putting, Goto, ControlTypes
  <2>3. pc'["idler"] # "continuation" /\ pc["idler"] # "continuation"
    BY <1>1 DEF Acquire, Goto, ControlTypes, Places, Thread
  <2>4. CASE idleRqb
    <3>1. Silent(inq) /\ idling /\ "IDLE" \in tagged /\ ~Putting
      BY <2>4, IdleQuiet
    <3> QED
      BY <2>1, <2>2, <2>3, <2>4, <3>1 DEF Dialogue, Silent, OneAnswer, RequestOf
  <2>5. CASE ~idleRqb
    BY <2>1, <2>2, <2>3, <2>5 DEF Dialogue, Silent, OneAnswer, RequestOf
  <2> QED BY <2>4, <2>5
<1>2. ASSUME NEW t \in Thread, Settle(t) PROVE Dialogue'
  BY <1>2
  DEF Settle, Dialogue, Silent, OneAnswer, RequestOf, Putting, ControlTypes,
      Thread, Goto, queues, server
<1>3. ASSUME NEW t \in Thread, AwaitFree(t) PROVE Dialogue'
  BY <1>3
  DEF AwaitFree, Dialogue, Silent, OneAnswer, RequestOf, Putting, Thread,
      Goto, server, requests, queues
<1>4. ASSUME NEW t \in Thread, Check(t) PROVE Dialogue'
  BY <1>4
  DEF Check, Dialogue, Silent, OneAnswer, RequestOf, Putting, Thread, Goto,
      server, requests, queues
<1>5. ASSUME NEW t \in Thread, RequestPush(t) PROVE Dialogue'
  <2>1. tagged = {}
    BY <1>5 DEF RequestPush, Outstanding, Asking, Thread
  <2>2. Silent(inq) /\ ~idling /\ ~idleRqb /\ ouq = <<>>
    BY <2>1 DEF Dialogue, Silent, Untroubled
  <2>3. UNCHANGED <<inq, idling, idleRqb, ouq>>
    BY <1>5 DEF RequestPush, queues, server
  <2>4. pc'["idler"] # "continuation"
    BY <1>5 DEF RequestPush, Goto, ControlTypes, Places, Asking, Thread
  <2> QED BY <2>2, <2>3, <2>4 DEF Dialogue, Silent, OneAnswer
<1>6. ASSUME NEW t \in Thread, Put(t) PROVE Dialogue'
  <2>1. Putting /\ pc[t] = "put" /\ tagged = {cmd[t]} /\ ouq = <<>>
    BY <1>6 DEF Put, Putting, Outstanding
  <2>2. Silent(inq) /\ ~idling /\ ~idleRqb
    BY <2>1 DEF Dialogue, Silent, Untroubled
  <2>3. cmd[t] \in Command /\ RequestOf(cmd[t]) = cmd[t]
    BY <2>1 DEF Places, Asking, Thread, Command, RequestOf
  <2>4. /\ ouq' = <<cmd[t]>> /\ Len(ouq') = 1 /\ ouq'[1] = cmd[t] /\ cmd[t] # "DONE"
        /\ tagged \subseteq tagged'
    BY <2>1, <2>3, <1>6 DEF Put, Command
  <2>5. UNCHANGED <<inq, idling, idleRqb>>
    BY <1>6 DEF Put, server
  <2>6. pc'["idler"] = "continuation" => result'["continuation"] = None
    BY <2>1, <1>6, NoneAssumption
    DEF Put, DataTypes, Request, Goto, ControlTypes, Places, Thread
  <2> QED
    BY <2>1, <2>2, <2>3, <2>4, <2>5, <2>6, NoneAssumption
    DEF Dialogue, Silent, OneAnswer, RequestOf
<1>7. ASSUME NEW t \in Thread, Respond(t) PROVE Dialogue'
  <2>1. tagged = {}
    BY <1>7, NoneAssumption DEF Respond, Outstanding
  <2>2. Silent(inq) /\ ~idling /\ ~idleRqb /\ ouq = <<>>
    BY <2>1 DEF Dialogue, Silent, Untroubled
  <2>3. UNCHANGED <<inq, idling, idleRqb, ouq>>
    BY <1>7 DEF Respond, requests, queues, server
  <2>4. pc'["idler"] # "continuation"
    BY <1>7 DEF Respond, Goto, Issue, ControlTypes, Places, Thread
  <2> QED BY <2>2, <2>3, <2>4 DEF Dialogue, Silent, OneAnswer
<1>8. ASSUME Loop PROVE Dialogue'
  BY <1>8
  DEF Loop, Dialogue, Silent, OneAnswer, RequestOf, Putting, ControlTypes,
      Thread, Goto, Issue, requests, queues, server
<1>9. ASSUME AwaitContinuation PROVE Dialogue'
  <2>1. UNCHANGED <<inq, ouq, idling, tagged, result>>
    BY <1>9 DEF AwaitContinuation, queues, server
  <2>2. pc["idler"] = "continuation" /\ pc'["idler"] = "await" /\ ~Putting /\ ~Putting'
    BY <1>9 DEF AwaitContinuation, Goto, ControlTypes, Thread, Putting, Places
  <2>3. ~idleRqb
    BY <2>2 DEF Dialogue
  <2>4. idleRqb' => result["continuation"] = "ok"
    BY <2>3, <1>9 DEF AwaitContinuation
  <2> QED
    BY <2>1, <2>2, <2>3, <2>4 DEF Dialogue, Silent, OneAnswer
<1>10. ASSUME AwaitEvent PROVE Dialogue'
  BY <1>10
  DEF AwaitEvent, Dialogue, Silent, OneAnswer, RequestOf, Putting, Thread,
      Goto, server, requests, queues
<1>11. ASSUME Clear PROVE Dialogue'
  BY <1>11
  DEF Clear, Dialogue, Silent, OneAnswer, RequestOf, Putting, Thread, Goto,
      Issue, server, requests, queues
<1>12. ASSUME NextMail PROVE Dialogue'
  BY <1>12
  DEF NextMail, Dialogue, Silent, OneAnswer, RequestOf, Putting, ControlTypes,
      Thread, Goto, Issue, requests, queues, server
<1>13. ASSUME Join PROVE Dialogue'
  BY <1>13
  DEF Join, Dialogue, Silent, OneAnswer, RequestOf, Putting, Thread, Goto,
      Issue, server, queues, requests
<1>14. ASSUME Stop PROVE Dialogue'
  BY <1>14
  DEF Stop, Dialogue, Silent, OneAnswer, RequestOf, Putting, Thread, Goto,
      server, requests, queues
<1>15. ASSUME PutContinuation PROVE Dialogue'
  BY <1>15
  DEF PutContinuation, Dialogue, Silent, OneAnswer, RequestOf, Putting,
      Thread, RequestPop, Deliver, Request, Continuation, Handling, Command,
      server
<1>16. ASSUME PutUntagged PROVE Dialogue'
  <2>1. /\ \A i \in 1 .. Len(inq') : i + 1 \in 1 .. Len(inq) /\ inq'[i] = inq[i + 1]
    BY <1>16, TailFacts DEF PutUntagged, Handling, QueueTypes
  <2>2. /\ UNCHANGED <<pc, idling>> /\ tagged' = tagged \ Continuation
        /\ result'["continuation"] = result["continuation"] \/ result'["continuation"] = "no"
    BY <1>16 DEF PutUntagged, RequestPop, Deliver, server, Request
  <2>3. Silent(inq) => Silent(inq')
    BY <2>1 DEF Silent
  <2>4. OneAnswer(inq')
    <3>1. \A i, j \in 1 .. Len(inq') :
            inq'[i].type # "EXISTS" /\ inq'[j].type # "EXISTS" => i + 1 = j + 1
      BY <2>1 DEF Dialogue, OneAnswer
    <3> QED BY <3>1 DEF OneAnswer
  <2>5. /\ idleRqb => ouq' = <<"DONE">> /\ Len(ouq') = 1 /\ ouq'[1] = "DONE"
        /\ ~idleRqb => ouq' = ouq
        /\ ~idleRqb'
    BY <1>16, DoneSent DEF PutUntagged
  <2>6. ouq # <<>> => RequestOf(ouq[1]) # "continuation"
    BY QueueFacts, NoneAssumption
    DEF Untroubled, Dialogue, QueueTypes, Item, Command, RequestOf
  <2>7. \A r \in tagged : r # "continuation" => r \in tagged'
    BY <2>2 DEF Continuation
  <2>8. \A i \in 1 .. Len(inq) : inq[i].type = "OK" => inq[i].of # "continuation"
    BY QueueFacts, LineFacts DEF QueueTypes, Command
  <2>9. CASE idleRqb
    <3>1. Silent(inq) /\ idling /\ "IDLE" \in tagged /\ ~Putting
          /\ pc["idler"] # "continuation"
      BY <2>9, IdleQuiet
    <3> QED
      BY <2>1, <2>2, <2>3, <2>4, <2>5, <2>7, <2>9, <3>1
      DEF Dialogue, Silent, RequestOf, Putting
  <2>10. CASE ~idleRqb
    <3>1. ouq' = ouq /\ ~idleRqb' /\ Putting' = Putting
      BY <2>2, <2>5, <2>10 DEF Putting
    <3>2. \A i \in 1 .. Len(inq') :
            /\ inq'[i].type = "OK" => inq'[i].of \in tagged'
            /\ inq'[i].type = "OK" => ~idling /\ ~Putting /\ pc["idler"] # "continuation"
            /\ inq'[i].type = "+" => idling
            /\ inq'[i].type = "+" /\ pc["idler"] = "continuation"
                 => result["continuation"] # "ok"
      BY <2>1, <2>7, <2>8 DEF Dialogue
    <3> QED
      BY <2>2, <2>3, <2>4, <2>6, <2>7, <3>1, <3>2 DEF Dialogue
  <2> QED BY <2>9, <2>10
<1>17. ASSUME PutTagged PROVE Dialogue'
  BY <1>17
  DEF PutTagged, Dialogue, Silent, OneAnswer, RequestOf, Putting, Thread,
      RequestPop, Deliver, Request, Continuation, Handling, Command, server
<1>18. ASSUME IdleTimesOut PROVE Dialogue'
  BY <1>18
  DEF IdleTimesOut, Dialogue, Silent, OneAnswer, RequestOf, Putting, Thread,
      EndIdle, server
<1>19. ASSUME conn' = "up", WriterSends PROVE Dialogue'
  <2> DEFINE item == Head(ouq)
  <2>1. /\ item = ouq[1] /\ ouq = <<item>> /\ ouq' = <<>>
        /\ RequestOf(item) \in tagged /\ Silent(inq)
    <3>1. item = ouq[1] /\ Len(ouq) = 1 /\ RequestOf(ouq[1]) \in tagged /\ Silent(inq)
      BY <1>19, TailFacts DEF WriterSends, Writing, Dialogue, QueueTypes
    <3>2. ouq' = Tail(ouq) /\ Tail(ouq) \in Seq(Item) /\ Len(Tail(ouq)) = 0
      BY <3>1, <1>19, TailFacts DEF WriterSends, Writing, QueueTypes
    <3>3. ouq' = <<>>
      BY <3>2, EmptySeq
    <3> QED BY <3>1, <3>3 DEF QueueTypes
  <2>2. UNCHANGED <<pc, cmd, tagged, result, idleRqb>> /\ Putting' = Putting
    BY <1>19 DEF WriterSends, requests, Putting
  <2>3. ~Putting
    BY <1>19 DEF WriterSends, Writing, Putting, Outstanding
  <2>4. item # "DONE" => ~idling
    BY <2>1 DEF Dialogue
  <2>5. ~idleRqb /\ ~(pc["idler"] = "continuation" /\ result["continuation"] = "ok")
    BY <2>1 DEF Dialogue
  <2>6. CASE item = "IDLE"
    <3>1. inq' = Append(inq, [type |-> "+"]) /\ idling'
      BY <2>4, <2>6, <1>19 DEF WriterSends, Serve
    <3>2. Alone([type |-> "+"], inq')
      BY <2>1, <3>1, AnswerAlone, LineFacts DEF QueueTypes
    <3> QED
      BY <2>1, <2>2, <2>3, <2>5, <2>6, <3>1, <3>2 DEF Dialogue, RequestOf, Alone
  <2>7. CASE item = "DONE"
    <3>1. idling /\ pc["idler"] # "continuation" /\ "IDLE" \in tagged
      BY <2>1, <2>7 DEF Dialogue
    <3>2. inq' = inq \o News \o <<OK("IDLE", {})>> /\ ~idling'
      BY <2>7, <3>1, <1>19 DEF WriterSends, Serve
    <3>3. OK("IDLE", {}) \in Line /\ OK("IDLE", {}).type = "OK" /\ OK("IDLE", {}).of = "IDLE"
      BY LineFacts DEF Command
    <3>4. Alone(OK("IDLE", {}), inq')
      BY <2>1, <3>2, <3>3, AnswerAlone DEF QueueTypes
    <3> QED
      BY <2>1, <2>2, <2>3, <2>5, <3>1, <3>2, <3>3, <3>4 DEF Dialogue, Alone
  <2>8. CASE item \notin {"IDLE", "DONE"}
    <3>1. item \in {"SEARCH", "FETCH", "CLOSE"} /\ item \in tagged
      <4>1. item \in Command \ {"IDLE"} /\ item \in tagged
        BY <2>1, <2>8, <1>19, TailFacts
        DEF WriterSends, Writing, RequestOf, Item, QueueTypes
      <4>2. item # "LOGOUT"
        BY <2>4, <1>19 DEF WriterSends, Serve
      <4> QED BY <4>1, <4>2 DEF Command
    <3>2. pc["idler"] # "continuation"
      BY <3>1 DEF Outstanding
    <3>3. PICK ids \in SUBSET Mail :
            \/ inq' = inq \o News \o <<OK(item, ids)>>
            \/ inq' = Append(inq, OK(item, ids))
      <4>1. (1 .. arrived) \ seen \in SUBSET Mail
        BY MailAssumption DEF ControlTypes, Mail
      <4> QED BY <2>4, <3>1, <4>1, <1>19 DEF WriterSends, Serve
    <3>4. ~idling /\ ~idling'
      BY <2>4, <3>1, <1>19 DEF WriterSends, Serve
    <3>5. OK(item, ids) \in Line /\ OK(item, ids).type = "OK" /\ OK(item, ids).of = item
      BY <3>1, LineFacts DEF Command
    <3>6. Alone(OK(item, ids), inq')
      BY <2>1, <3>3, <3>5, AnswerAlone DEF QueueTypes
    <3> QED
      BY <2>1, <2>2, <2>3, <2>5, <3>1, <3>2, <3>4, <3>5, <3>6
      DEF Dialogue, Alone
  <2> QED BY <2>6, <2>7, <2>8
<1>20. ASSUME ServerAnnounces PROVE Dialogue'
  BY <1>20
  DEF ServerAnnounces, Dialogue, Silent, OneAnswer, RequestOf, Putting,
      Thread, Announce, requests
<1>21. ASSUME \/ \E c \in Caller :
                   \/ CallbackChecks(c) \/ CallbackMarks(c) \/ CallbackSets(c)
              \/ WriterLoops \/ MailArrives
       PROVE  Dialogue'
  <2>1. UNCHANGED <<idleRqb, idling, inq, ouq, pc, result, tagged>>
    BY <1>21
    DEF CallbackChecks, CallbackMarks, CallbackSets, WriterLoops, MailArrives,
        queues, requests, server
  <2> QED
    BY <2>1 DEF Dialogue, Silent, OneAnswer, RequestOf, Putting, Thread
<1> QED
  BY <1>1, <1>2, <1>3, <1>4, <1>5, <1>6, <1>7, <1>8, <1>9, <1>10, <1>11,
     <1>12, <1>13, <1>14, <1>15, <1>16, <1>17, <1>18, <1>19, <1>20, <1>21
  DEF UpStep

-----------------------------------------------------------------------------
(* The invariant is inductive.                                             *)

\* It holds at the start.
LEMMA InitIInv == Init => IInv
<1> SUFFICES ASSUME Init PROVE IInv
  OBVIOUS
<1>1. QueueTypes /\ ControlTypes
  BY MailAssumption DEF Init, QueueTypes, ControlTypes, Thread, Caller
<1>2. DataTypes
  BY DEF Init, DataTypes
<1>3. FlagTypes
  BY Zenon DEF Init, FlagTypes
<1>4. Places /\ ListsAwaited
  BY DEF Init, Places, ListsAwaited, AskingFor, Asking
<1>5. Untroubled
  BY NoneAssumption DEF Init, Untroubled, Caller, Request, Command
<1>6. Outstanding /\ NoticeInTime
  BY DEF Init, Outstanding, NoticeInTime, Notice, AskingFor, Asking, Thread, Caller
<1>7. Dialogue
  BY DEF Init, Dialogue, Silent, OneAnswer
<1> QED
  BY <1>1, <1>2, <1>3, <1>4, <1>5, <1>6, <1>7, TypeParts DEF IInv, Session

\* Every step preserves it.
LEMMA NextIInv == IInv /\ [Next]_vars => IInv'
<1> SUFFICES ASSUME IInv, [Next]_vars PROVE IInv'
  OBVIOUS
<1>1. QueueTypes /\ DataTypes /\ ControlTypes /\ FlagTypes /\ Places /\ ListsAwaited
  BY TypeParts DEF IInv
<1>2. CASE Next
  <2>1. QueueTypes' /\ DataTypes' /\ ControlTypes' /\ FlagTypes'
    BY <1>1, <1>2, QueueTypesNext, DataTypesNext, ControlTypesNext, FlagTypesNext
    DEF IInv
  <2>2. Places' /\ ListsAwaited'
    BY <1>1, <1>2, PlacesNext, ListsAwaitedNext
  <2>3. ASSUME conn' = "up" PROVE Session'
    <3>1. conn = "up" /\ Session
      BY <1>2, <2>3, StaysUp DEF IInv
    <3>2. Untroubled /\ Outstanding /\ NoticeInTime /\ Dialogue
      BY <3>1 DEF Session
    <3>3. UpStep
      BY <1>1, <1>2, <2>3, <3>1, UpSteps
    <3>4. Untroubled' /\ Outstanding' /\ NoticeInTime' /\ Dialogue'
      BY <1>1, <3>2, <3>3, UntroubledNext, OutstandingNext, NoticeInTimeNext,
         DialogueNext
    <3> QED BY <3>4 DEF Session
  <2> QED BY <2>1, <2>2, <2>3, TypePartsNext DEF IInv
<1>3. CASE UNCHANGED vars
  <2>1. QueueTypes' /\ DataTypes' /\ ControlTypes' /\ Places'
    BY <1>1, <1>3
    DEF QueueTypes, DataTypes, ControlTypes, Places, vars, script, requests,
        queues,
        threads, server
  <2>2. FlagTypes'
    BY <1>1, <1>3, Zenon
    DEF FlagTypes, vars, script, requests, queues, threads, server
  <2>3. ListsAwaited'
    BY <1>1, <1>3
    DEF ListsAwaited, InSearch, IsList, AskingFor, vars, script, requests,
        queues
  <2>4. conn' = conn
    BY <1>3 DEF vars, server
  <2>5. ASSUME Session PROVE Session'
    <3>1. Untroubled' /\ Outstanding'
      BY <1>3, <2>5
      DEF Session, Untroubled, Outstanding, vars, script, requests, queues,
          threads
    <3>2. NoticeInTime' /\ Dialogue'
      BY <1>3, <2>5
      DEF Session, NoticeInTime, Notice, AskingFor, Dialogue, Silent, OneAnswer,
          Putting,
          vars, script, requests, queues, threads, server
    <3> QED BY <3>1, <3>2 DEF Session
  <2> QED BY <2>1, <2>2, <2>3, <2>4, <2>5, TypePartsNext DEF IInv
<1> QED BY <1>2, <1>3

\* The invariant holds in every reachable state, whatever mail arrives and
\* whatever faults the behaviour starts with.
THEOREM Inductive == Spec => []IInv
<1>1. Init => IInv
  BY InitIInv
<1>2. IInv /\ [Next]_vars => IInv'
  BY NextIInv
<1> QED BY <1>1, <1>2, PTL DEF Spec

-----------------------------------------------------------------------------
(* What follows from it.                                                   *)

\* Every variable has its type: the requests, queues and events of the client
\* and the script's own (imaplib2.py, imap_push.py) hold nothing else.
THEOREM TypeCorrect == Spec => []TypeOK
<1>1. IInv => TypeOK
  BY DEF IInv
<1> QED BY <1>1, Inductive, PTL

\* While the connection is there, a command that changes the mailbox's state
\* is the only one outstanding (state_change_pending and state_change_free in
\* _command and _command_complete): wherever the threads are, Outstanding
\* allows one command and the continuation that belongs to an IDLE.
THEOREM StateChangesStayAlone == Spec => []StateChangesAlone
<1>1. IInv => StateChangesAlone
  <2> SUFFICES ASSUME IInv, conn = "up",
                      NEW c \in tagged \ {"continuation"}, ~Async(c)
               PROVE  tagged \subseteq {c, "continuation"}
    BY DEF StateChangesAlone
  <2>1. Outstanding /\ Untroubled /\ Places
    BY DEF IInv, Session
  <2>2. CASE pc["idler"] # "ended"
    <3>1. CASE pc["idler"] \in {"put", "response"}
      <4>1. tagged \subseteq {cmd["idler"]}
        BY <2>1, <3>1 DEF Outstanding, Thread
      <4> QED BY <4>1
    <3>2. CASE pc["idler"] \notin {"put", "response"}
      <4>1. tagged \subseteq {"IDLE", "continuation"}
        BY <2>1, <2>2, <3>2 DEF Outstanding, Places
      <4> QED BY <4>1
    <3> QED BY <3>1, <3>2
  <2>3. CASE pc["idler"] = "ended"
    <3>1. CASE pc["main"] \in {"put", "response"}
      <4>1. tagged \subseteq {cmd["main"]}
        BY <2>1, <3>1 DEF Outstanding, Thread
      <4> QED BY <4>1
    <3>2. CASE pc["main"] \notin {"put", "response"}
      <4>1. tagged \subseteq {"IDLE"}
        BY <2>1, <2>3, <3>2 DEF Outstanding, Untroubled, Places, Asking
      <4> QED BY <4>1
    <3> QED BY <3>1, <3>2
  <2> QED BY <2>2, <2>3
<1> QED BY <1>1, Inductive, PTL

\* What the writer sends is what the server can take.
LEMMA InStepNext == ASSUME IInv, InStep, [Next]_vars PROVE InStep'
<1>1. CASE WriterSends
  <2> DEFINE item == Head(ouq)
  <2>1. QueueTypes /\ Dialogue /\ ouq # <<>> /\ item # None
    BY <1>1, TypeParts DEF WriterSends, Writing, IInv, Session
  <2>2. item = ouq[1] /\ item \in Command \cup {"DONE"} /\ Len(ouq) = 1
    BY <2>1, TailFacts DEF QueueTypes, Dialogue, Item
  <2>3. item = "DONE" => idling
    <3>1. ASSUME item = "DONE" PROVE ouq = <<"DONE">>
      BY <2>1, <2>2, <3>1 DEF QueueTypes
    <3> QED BY <2>1, <3>1 DEF Dialogue
  <2>4. item # "DONE" => ~idling
    BY <2>1, <2>2 DEF Dialogue
  <2>5. Serve(item) /\ ~stray
    BY <1>1 DEF WriterSends, InStep
  <2> HIDE DEF item
  <2>6. ~stray'
    BY <2>2, <2>3, <2>4, <2>5 DEF Serve, Command
  <2> QED BY <2>6 DEF InStep
<1>2. CASE ~WriterSends
  <2>1. UNCHANGED stray
    BY <1>2
    DEF Next, Idle, Main, Handle, Write, CommandStep, Callback,
        Thread, Caller, vars, Acquire, Settle, AwaitFree, Check, Refuse,
        RequestPush, Put, Respond, ResponseAborted, Loop, AwaitContinuation,
        ContinuationAborted, AwaitEvent, Clear, NextMail, Join, CloseThreads,
        ThreadsJoined, Stop, PutContinuation, PutUntagged, PutBye, PutTagged,
        PutException, Drain, Drained, AbortTagged, IdleTimesOut,
        CallbackChecks, CallbackMarks, CallbackSets, WriterLoops,
        WriterSendsInVain, WriterFails, WriterEnds, MailArrives,
        ServerAnnounces, ConnectionLost, server
  <2> QED BY <2>1 DEF InStep
<1> QED BY <1>1, <1>2

\* Client and server agree on what is an IDLE: whichever thread ends it
\* (_end_idle in a command, in the handler and on its timeout), the server
\* gets one DONE for it and no command before.  Dialogue says what is under
\* way between the two when idle_rqb is set and when it is not.
THEOREM ClientAndServerInStep == Spec => []InStep
<1>1. Init => InStep
  BY DEF Init, InStep
<1>2. IInv /\ InStep /\ [Next]_vars => InStep'
  BY InStepNext
<1> QED BY <1>1, <1>2, Inductive, PTL DEF Spec

=============================================================================
