----------------------------- MODULE ImapPush -----------------------------
(***************************************************************************)
(* The script that waits for new mail in a mailbox and saves attachments   *)
(* (class Idler and the main program of imap_push.py), on top of the       *)
(* threaded IMAP client it uses (imaplib2.py).                             *)
(*                                                                         *)
(* Two threads issue commands, "idler" and "main"; the handler thread      *)
(* takes the server's lines from inq and answers the requests, the writer  *)
(* sends what is in ouq.  The reader thread only moves lines from the      *)
(* socket into inq, and what the writer sends the server acts on at once,  *)
(* so inq and ouq stand for the two directions of the connection as well.  *)
(***************************************************************************)
EXTENDS Naturals, Sequences, FiniteSets

CONSTANTS
  MaxMail,   \* bound on the mails that arrive
  FileName,  \* the attachment's file name, for each mail
  Worlds,    \* sets of Faults a behaviour may start with
  None

Faults == {
  "unilateral",  \* the server announces mail while it is not in IDLE
  "loss" }       \* the connection is lost, or the server says BYE

Mail    == 1 .. MaxMail
File    == {FileName[m] : m \in Mail}
Thread  == {"idler", "main"}
Caller  == {"handler", "writer"}     \* threads that call deliver()
Command == {"IDLE", "SEARCH", "FETCH", "CLOSE", "LOGOUT"}
Request == Command \cup {"continuation"}

ASSUME MailAssumption == MaxMail \in Nat \ {0} /\ DOMAIN FileName = Mail
ASSUME WorldAssumption == Worlds \subseteq SUBSET Faults
ASSUME NoneAssumption ==
  /\ None \notin File \cup Mail
  /\ None \notin Command \cup {"DONE"} \cup {"ok", "no", "abort"}

VARIABLES
  world,     \* what may go wrong in this behaviour
  pc, cmd,   \* where each thread is, and the command it has issued
  event,     \* Idler.event is set
  needsync,  \* Idler.needsync
  found,     \* mails the last SEARCH returned and not yet fetched
  files,     \* saved attachments
  tagged,    \* tagged_commands
  result,    \* response or aborted of the last request of each name
  idleRqb,   \* idle_rqb is not None
  pending,   \* holder of state_change_pending
  free,      \* state_change_free is set
  ouq, inq,  \* to the writer, to the handler
  Terminate,
  bye,       \* BYE is in untagged_responses
  handler, writer,   \* where these threads are
  callback,  \* where Idler's callback is in each thread that runs it
  conn,      \* the connection: "up", "closed" or "lost"
  idling,    \* the server is in IDLE
  news,      \* there is mail the server has not announced
  arrived,   \* mails so far
  seen,      \* mails with the \Seen flag
  stray      \* history: the server got DONE outside IDLE, or a command in it

script   == <<event, needsync, found, files>>
requests == <<tagged, result, idleRqb, free>>
queues   == <<ouq, inq>>
threads  == <<Terminate, bye, handler, writer, callback>>
server   == <<conn, idling, news, arrived, seen, stray>>
vars     == <<world, pc, cmd, script, requests, pending, queues, threads,
              server>>

Line == [type : {"+", "EXISTS", "BYE", "lost"}]
          \cup [type : {"OK"}, of : Command, ids : SUBSET Mail]

TypeOK ==
  /\ world \in Worlds
  /\ pc \in [Thread -> {"loop", "await", "clear", "next",
                        "sleep", "join", "quit", "threads", "ended", "raised",
                        "acquire", "settle", "wait", "check", "push", "put",
                        "continuation", "response"}]
  /\ cmd \in [Thread -> Command \cup {None}]
  /\ event \in BOOLEAN /\ needsync \in BOOLEAN
  /\ found \subseteq Mail
  /\ files \in [File -> Mail \cup {None}]
  /\ tagged \subseteq Request
  /\ result \in [Request -> {None, "ok", "no", "abort"}]
  /\ {idleRqb, free, Terminate, bye} \subseteq BOOLEAN
  /\ pending \in Thread \cup {None}
  /\ ouq \in Seq(Command \cup {"DONE", None})
  /\ inq \in Seq(Line)
  /\ handler \in {"get", "drain", "tagged", "ended", "crashed"}
  /\ writer \in {"loop", "get", "ended"}
  /\ callback \in [Caller -> {"no", "check", "mark", "set"}]
  /\ conn \in {"up", "closed", "lost"}
  /\ {idling, news, stray} \subseteq BOOLEAN
  /\ arrived \in 0 .. MaxMail
  /\ seen \subseteq Mail

Init ==
  /\ world \in Worlds
  /\ pc = [idler |-> "loop", main |-> "sleep"]
  /\ cmd = [t \in Thread |-> None]
  /\ event = FALSE /\ needsync = FALSE
  /\ found = {} /\ files = [f \in File |-> None]
  /\ tagged = {} /\ result = [r \in Request |-> None]
  /\ idleRqb = FALSE /\ pending = None /\ free = FALSE
  /\ ouq = <<>> /\ inq = <<>>
  /\ Terminate = FALSE /\ bye = FALSE
  /\ handler = "get" /\ writer = "get"
  /\ callback = [c \in Caller |-> "no"]
  /\ conn = "up" /\ idling = FALSE /\ news = FALSE
  /\ arrived = 0 /\ seen = {} /\ stray = FALSE

-----------------------------------------------------------------------------
(* Requests.                                                               *)

Goto(t, place) == pc' = [pc EXCEPT ![t] = place]

\* _simple_command(c) by thread t.
Issue(t, c) == Goto(t, "acquire") /\ cmd' = [cmd EXCEPT ![t] = c]

\* Commands[c][CMD_VAL_ASYNC]
Async(c) == c \in {"SEARCH", "FETCH"}

\* _end_idle.  It takes the request and then queues DONE: one step here, since
\* nobody queues a command in between.  SEARCH and the next IDLE follow the
\* answer to this IDLE, CLOSE and LOGOUT wait for it (Settle).
\* Mutant: idle_rqb stays.
EndIdleKeepsRequest ==
  /\ ouq' = IF idleRqb THEN Append(ouq, "DONE") ELSE ouq
  /\ UNCHANGED idleRqb
EndIdle ==
  /\ ouq' = IF idleRqb THEN Append(ouq, "DONE") ELSE ouq
  /\ idleRqb' = FALSE

\* Request.deliver by thread c for the requests R.  The callback of IDLE is
\* that of Idler, which takes steps of its own.
Deliver(c, R, answer) ==
  /\ result' = [r \in Request |-> IF r \in R THEN answer[r] ELSE result[r]]
  /\ callback' = [callback EXCEPT ![c] = IF "IDLE" \in R THEN "check" ELSE @]

\* _request_pop.  Mutant: state_change_free is not set.
RequestPopSilent(R) == tagged' = tagged \ R /\ UNCHANGED free
RequestPop(R) ==
  /\ tagged' = tagged \ R
  /\ free' = (free \/ (R # {} /\ tagged \subseteq R))

-----------------------------------------------------------------------------
(* _command and _command_complete, by thread t.                            *)

\* An exception leaves the command.  The idler thread dies of it, close()
\* passes it on to the main program, and logout() goes on.
Raise(t) ==
  /\ Goto(t, IF cmd[t] = "LOGOUT" THEN "quit"
             ELSE IF t = "main" THEN "raised" ELSE "ended")
  /\ pending' = IF pending = t /\ cmd[t] # "LOGOUT" THEN None ELSE pending
  /\ UNCHANGED <<cmd, found, files>>

\* state_change_pending.acquire() and _end_idle(); an asynchronous command
\* releases the lock again.
Acquire(t) ==
  /\ pc[t] = "acquire" /\ pending = None
  /\ EndIdle
  /\ IF Async(cmd[t]) THEN UNCHANGED pending /\ Goto(t, "check")
                      ELSE pending' = t /\ Goto(t, "settle")
  /\ UNCHANGED <<world, cmd, script, tagged, result, free, inq, threads, server>>

\* A state-changing command waits until tagged_commands is empty.  Mutant:
\* it does not.
SettleAtOnce(t) ==
  /\ pc[t] = "settle" /\ ~bye
  /\ Goto(t, "check")
  /\ UNCHANGED <<world, cmd, script, requests, pending, queues, threads, server>>
Settle(t) ==
  /\ pc[t] = "settle" /\ ~bye
  /\ IF tagged = {} THEN Goto(t, "check") /\ UNCHANGED free
                    ELSE Goto(t, "wait") /\ free' = FALSE
  /\ UNCHANGED <<world, cmd, script, tagged, result, idleRqb, pending, queues,
                 threads, server>>

\* state_change_free.wait()
AwaitFree(t) ==
  /\ pc[t] = "wait" /\ free
  /\ Goto(t, "check")
  /\ UNCHANGED <<world, cmd, script, requests, pending, queues, threads, server>>

\* _check_bye, and the test of Terminate.
Check(t) ==
  /\ pc[t] = "check" /\ ~bye /\ ~Terminate
  /\ Goto(t, "push")
  /\ UNCHANGED <<world, cmd, script, requests, pending, queues, threads, server>>

Refuse(t) ==
  /\ \/ pc[t] = "settle" /\ bye
     \/ pc[t] = "check" /\ (bye \/ Terminate)
  /\ Raise(t)
  /\ UNCHANGED <<world, event, needsync, requests, queues, threads, server>>

\* _request_push
RequestPush(t) ==
  /\ pc[t] = "push"
  /\ tagged' = tagged \cup {cmd[t]}
  /\ result' = [result EXCEPT ![cmd[t]] = None]
  /\ Goto(t, "put")
  /\ UNCHANGED <<world, cmd, script, idleRqb, free, pending, queues, threads,
                 server>>

\* ouq.put(rqb).  IDLE has a literal: "Must setup continuation expectancy
\* *before* ouq.put".
Put(t) ==
  /\ pc[t] = "put"
  /\ ouq' = Append(ouq, cmd[t])
  /\ IF cmd[t] = "IDLE"
     THEN /\ tagged' = tagged \cup {"continuation"}
          /\ result' = [result EXCEPT !["continuation"] = None]
          /\ Goto(t, "continuation")
     ELSE Goto(t, "response") /\ UNCHANGED <<tagged, result>>
  /\ UNCHANGED <<world, cmd, script, idleRqb, free, pending, inq, threads, server>>

-----------------------------------------------------------------------------
(* The idler thread: Idler.idle and dosync.                                *)

\* The top of the loop: stop() has been called, or the next idle().
Loop ==
  /\ pc["idler"] = "loop"
  /\ IF event
     THEN Goto("idler", "ended") /\ UNCHANGED <<cmd, needsync>>
     ELSE needsync' = FALSE /\ Issue("idler", "IDLE")
  /\ UNCHANGED <<world, event, found, files, requests, pending, queues, threads,
                 server>>

\* The continuation response has come: _IdleCont.process notes the request,
\* unless the server has answered something else; then idle() returns.
AwaitContinuation ==
  /\ pc["idler"] = "continuation" /\ result["continuation"] \in {"ok", "no"}
  /\ idleRqb' = (idleRqb \/ result["continuation"] = "ok")
  /\ pending' = None
  /\ Goto("idler", "await")
  /\ UNCHANGED <<world, cmd, script, tagged, result, free, queues, threads, server>>

ContinuationAborted ==
  /\ pc["idler"] = "continuation" /\ result["continuation"] = "abort"
  /\ Raise("idler")
  /\ UNCHANGED <<world, event, needsync, requests, queues, threads, server>>

\* event.wait(), then the test of needsync.
AwaitEvent ==
  /\ pc["idler"] = "await" /\ event
  /\ Goto("idler", IF needsync THEN "clear" ELSE "loop")
  /\ UNCHANGED <<world, cmd, script, requests, pending, queues, threads, server>>

\* event.clear(), and dosync issues SEARCH UNSEEN.
Clear ==
  /\ pc["idler"] = "clear"
  /\ event' = FALSE
  /\ Issue("idler", "SEARCH")
  /\ UNCHANGED <<world, needsync, found, files, requests, pending, queues,
                 threads, server>>

\* The mails are fetched in the order of their numbers.
Current == CHOOSE m \in found : \A k \in found : m <= k

\* dosync: the next mail of the list, or back to the loop.
NextMail ==
  /\ pc["idler"] = "next"
  /\ IF found = {} THEN Goto("idler", "loop") /\ UNCHANGED cmd
                   ELSE Issue("idler", "FETCH")
  /\ UNCHANGED <<world, script, requests, pending, queues, threads, server>>

\* A file that is already there is left alone.
Save(m) ==
  files' = [files EXCEPT ![FileName[m]] = IF @ = None THEN m ELSE @]

\* get_response() of SEARCH, CLOSE and LOGOUT; dosync saves the attachment
\* of what FETCH returns.
Respond(t) ==
  /\ pc[t] = "response" /\ result[cmd[t]] = "ok" /\ ~bye
  /\ IF cmd[t] = "FETCH" THEN Save(Current) /\ found' = found \ {Current}
                         ELSE UNCHANGED <<files, found>>
  /\ CASE cmd[t] \in {"SEARCH", "FETCH"} ->
            Goto(t, "next") /\ UNCHANGED <<cmd, pending>>
       [] cmd[t] = "CLOSE" -> Issue(t, "LOGOUT") /\ pending' = None
       [] cmd[t] = "LOGOUT" -> Goto(t, "quit") /\ UNCHANGED <<cmd, pending>>
  /\ UNCHANGED <<world, event, needsync, requests, queues, threads, server>>

ResponseAborted(t) ==
  /\ pc[t] = "response"
  /\ \/ result[cmd[t]] = "abort"
     \/ result[cmd[t]] = "ok" /\ bye
  /\ Raise(t)
  /\ UNCHANGED <<world, event, needsync, requests, queues, threads, server>>

-----------------------------------------------------------------------------
(* The main program after its sleep.                                       *)

Stop ==
  /\ pc["main"] = "sleep"
  /\ event' = TRUE
  /\ Goto("main", "join")
  /\ UNCHANGED <<world, cmd, needsync, found, files, requests, pending, queues,
                 threads, server>>

\* join() returns; close().
Join ==
  /\ pc["main"] = "join" /\ pc["idler"] = "ended"
  /\ Issue("main", "CLOSE")
  /\ UNCHANGED <<world, script, requests, pending, queues, threads, server>>

\* _close_threads: ouq.put(None).
CloseThreads ==
  /\ pc["main"] = "quit"
  /\ ouq' = Append(ouq, None)
  /\ Goto("main", "threads")
  /\ UNCHANGED <<world, cmd, script, requests, pending, inq, threads, server>>

\* The writer and the handler are joined; logout() returns.
ThreadsJoined ==
  /\ pc["main"] = "threads"
  /\ writer = "ended" /\ handler \in {"ended", "crashed"}
  /\ Goto("main", "ended")
  /\ pending' = None
  /\ UNCHANGED <<world, cmd, script, requests, queues, threads, server>>

-----------------------------------------------------------------------------
(* The handler thread.                                                     *)

Handling(type) ==
  /\ handler = "get" /\ callback["handler"] = "no"
  /\ inq # <<>> /\ Head(inq).type = type
  /\ inq' = Tail(inq)

\* A request for a continuation, if there is one, which fails when anything
\* but a continuation arrives.
Continuation == tagged \cap {"continuation"}

PutContinuation ==
  /\ Handling("+")
  /\ RequestPop(Continuation)
  /\ Deliver("handler", Continuation, [r \in Request |-> "ok"])
  /\ UNCHANGED <<world, pc, cmd, script, idleRqb, pending, ouq, Terminate, bye,
                 handler, writer, server>>

PutUntagged ==
  /\ Handling("EXISTS")
  /\ EndIdle
  /\ RequestPop(Continuation)
  /\ Deliver("handler", Continuation, [r \in Request |-> "no"])
  /\ UNCHANGED <<world, pc, cmd, script, pending, Terminate, bye, handler,
                 writer, server>>

PutBye ==
  /\ Handling("BYE")
  /\ EndIdle
  /\ RequestPop(Continuation)
  /\ Deliver("handler", Continuation, [r \in Request |-> "no"])
  /\ bye' = TRUE /\ Terminate' = TRUE /\ handler' = "drain"
  /\ UNCHANGED <<world, pc, cmd, script, pending, writer, server>>

\* A command is complete.  The list of a SEARCH is kept for its caller.
PutTagged ==
  /\ Handling("OK")
  /\ LET c == Head(inq).of
         R == (tagged \cap {c}) \cup Continuation
     IN /\ RequestPop(R)
        /\ Deliver("handler", R,
                   [r \in Request |-> IF r = "continuation" THEN "no" ELSE "ok"])
        /\ found' = IF c = "SEARCH" THEN Head(inq).ids ELSE found
  /\ UNCHANGED <<world, pc, cmd, event, needsync, files, idleRqb, pending, ouq,
                 Terminate, bye, handler, writer, server>>

\* Nothing has arrived for 29 minutes in IDLE.
IdleTimesOut ==
  /\ handler = "get" /\ callback["handler"] = "no" /\ inq = <<>>
  /\ idleRqb
  /\ EndIdle
  /\ UNCHANGED <<world, pc, cmd, script, tagged, result, free, pending, inq,
                 threads, server>>

\* The reader or the writer has put an exception into inq.
PutException ==
  /\ Handling("lost")
  /\ Terminate' = TRUE /\ handler' = "drain"
  /\ UNCHANGED <<world, pc, cmd, script, requests, pending, ouq, bye, writer,
                 callback, server>>

RequestOf(item) == IF item = "DONE" THEN "IDLE" ELSE item

\* What abort() leaves in a request.  Mutant: the reason only.
AbortedReason == [r \in Request |-> "connection terminated"]
Aborted == [r \in Request |-> "abort"]

\* The end of _handler: the requests in ouq are aborted.  The None that
\* _close_threads puts there has no abort method.
Drain ==
  /\ handler = "drain" /\ callback["handler"] = "no" /\ ouq # <<>>
  /\ IF Head(ouq) = None
     THEN handler' = "crashed" /\ UNCHANGED <<result, callback>>
     ELSE Deliver("handler", {RequestOf(Head(ouq))}, Aborted) /\ UNCHANGED handler
  /\ ouq' = Tail(ouq)
  /\ UNCHANGED <<world, pc, cmd, script, tagged, idleRqb, free, pending, inq,
                 Terminate, bye, writer, server>>

Drained ==
  /\ handler = "drain" /\ callback["handler"] = "no" /\ ouq = <<>>
  /\ ouq' = <<None>>
  /\ handler' = "tagged"
  /\ UNCHANGED <<world, pc, cmd, script, requests, pending, inq, Terminate, bye,
                 writer, callback, server>>

\* All tagged commands are aborted, under commands_lock.
AbortTagged ==
  /\ handler = "tagged"
  /\ Deliver("handler", tagged, Aborted)
  /\ tagged' = {} /\ free' = TRUE
  /\ handler' = "ended"
  /\ UNCHANGED <<world, pc, cmd, script, idleRqb, pending, queues, Terminate,
                 bye, writer, server>>

\* Idler's callback, run by thread c: the test, then two assignments.
\* Mutant: the mark is missing.
CallbackMarkMissing(c) ==
  /\ callback[c] = "mark"
  /\ callback' = [callback EXCEPT ![c] = "set"]
  /\ UNCHANGED <<world, pc, cmd, script, requests, pending, queues, Terminate,
                 bye, handler, writer, server>>
CallbackChecks(c) ==
  /\ callback[c] = "check"
  /\ callback' = [callback EXCEPT ![c] = IF event THEN "no" ELSE "mark"]
  /\ UNCHANGED <<world, pc, cmd, script, requests, pending, queues, Terminate,
                 bye, handler, writer, server>>
CallbackMarks(c) ==
  /\ callback[c] = "mark"
  /\ needsync' = TRUE
  /\ callback' = [callback EXCEPT ![c] = "set"]
  /\ UNCHANGED <<world, pc, cmd, event, found, files, requests, pending, queues,
                 Terminate, bye, handler, writer, server>>
CallbackSets(c) ==
  /\ callback[c] = "set"
  /\ event' = TRUE
  /\ callback' = [callback EXCEPT ![c] = "no"]
  /\ UNCHANGED <<world, pc, cmd, needsync, found, files, requests, pending,
                 queues, Terminate, bye, handler, writer, server>>

-----------------------------------------------------------------------------
(* The writer thread, and the server, which acts on what it is sent.       *)

OK(c, ids) == [type |-> "OK", of |-> c, ids |-> ids]
Announce   == [type |-> "EXISTS"]

\* New mail is announced with the answer to a command.
News == IF news THEN <<Announce>> ELSE <<>>

Serve(item) ==
  CASE item = "IDLE" /\ ~idling ->
         /\ inq' = Append(inq, [type |-> "+"])
         /\ idling' = TRUE
         /\ UNCHANGED <<conn, news, seen, stray>>
    [] item = "DONE" /\ idling ->
         /\ inq' = inq \o News \o <<OK("IDLE", {})>>
         /\ idling' = FALSE /\ news' = FALSE
         /\ UNCHANGED <<conn, seen, stray>>
    [] item = "SEARCH" /\ ~idling ->
         /\ inq' = inq \o News \o <<OK("SEARCH", (1 .. arrived) \ seen)>>
         /\ news' = FALSE
         /\ UNCHANGED <<conn, idling, seen, stray>>
    [] item = "FETCH" /\ ~idling ->
         /\ inq' = inq \o News \o <<OK("FETCH", {})>>
         /\ news' = FALSE
         /\ seen' = seen \cup {Current}
         /\ UNCHANGED <<conn, idling, stray>>
    [] item = "CLOSE" /\ ~idling ->
         /\ inq' = Append(inq, OK("CLOSE", {}))
         /\ UNCHANGED <<conn, idling, news, seen, stray>>
    [] item = "LOGOUT" /\ ~idling ->
         /\ inq' = inq \o <<[type |-> "BYE"], OK("LOGOUT", {})>>
         /\ conn' = "closed"
         /\ UNCHANGED <<idling, news, seen, stray>>
    [] OTHER ->      \* out of step with the client
         /\ stray' = TRUE
         /\ UNCHANGED <<inq, conn, idling, news, seen>>

Writing == writer = "get" /\ callback["writer"] = "no" /\ ouq # <<>>

\* The loop's test of Terminate.
WriterLoops ==
  /\ writer = "loop" /\ ~Terminate
  /\ writer' = "get"
  /\ UNCHANGED <<world, pc, cmd, script, requests, pending, queues, Terminate,
                 bye, handler, callback, server>>

WriterSends ==
  /\ Writing /\ Head(ouq) # None /\ conn = "up"
  /\ Serve(Head(ouq))
  /\ ouq' = Tail(ouq)
  /\ writer' = "loop"
  /\ UNCHANGED <<world, pc, cmd, script, requests, pending, Terminate, bye,
                 handler, callback, arrived>>

\* What is written to a connection that is gone may vanish without an error.
WriterSendsInVain ==
  /\ Writing /\ Head(ouq) # None /\ conn # "up"
  /\ ouq' = Tail(ouq)
  /\ writer' = "loop"
  /\ UNCHANGED <<world, pc, cmd, script, requests, pending, inq, Terminate, bye,
                 handler, callback, server>>

\* It fails otherwise: the writer aborts the request and ends.
WriterFails ==
  /\ Writing /\ Head(ouq) # None /\ conn # "up"
  /\ Deliver("writer", {RequestOf(Head(ouq))}, Aborted)
  /\ ouq' = Tail(ouq)
  /\ inq' = Append(inq, [type |-> "lost"])
  /\ writer' = "ended"
  /\ UNCHANGED <<world, pc, cmd, script, tagged, idleRqb, free, pending,
                 Terminate, bye, handler, server>>

\* None is in ouq, or Terminate is set: the writer tells the handler.
WriterEnds ==
  /\ \/ Writing /\ Head(ouq) = None /\ ouq' = Tail(ouq)
     \/ writer = "loop" /\ Terminate /\ UNCHANGED ouq
  /\ writer' = "ended"
  /\ inq' = Append(inq, [type |-> "lost"])
  /\ UNCHANGED <<world, pc, cmd, script, requests, pending, Terminate, bye,
                 handler, callback, server>>

-----------------------------------------------------------------------------
(* The environment.                                                        *)

MailArrives ==
  /\ arrived < MaxMail
  /\ arrived' = arrived + 1
  /\ news' = TRUE
  /\ UNCHANGED <<world, pc, cmd, script, requests, pending, queues, threads, conn,
                 idling, seen, stray>>

\* In IDLE the server announces new mail at once.
ServerAnnounces ==
  /\ conn = "up" /\ news
  /\ idling \/ "unilateral" \in world
  /\ inq' = Append(inq, Announce)
  /\ news' = FALSE
  /\ UNCHANGED <<world, pc, cmd, script, requests, pending, ouq, threads, conn,
                 idling, arrived, seen, stray>>

ConnectionLost ==
  /\ "loss" \in world /\ conn = "up"
  /\ conn' = "lost"
  /\ inq' \in {inq \o <<[type |-> "lost"]>>,
               inq \o <<[type |-> "BYE"], [type |-> "lost"]>>}
  /\ UNCHANGED <<world, pc, cmd, script, requests, pending, ouq, threads, idling,
                 news, arrived, seen, stray>>

-----------------------------------------------------------------------------
CommandStep(t) ==
  \/ Acquire(t) \/ Settle(t) \/ AwaitFree(t) \/ Check(t) \/ Refuse(t)
  \/ RequestPush(t) \/ Put(t) \/ Respond(t) \/ ResponseAborted(t)

Idle ==
  \/ CommandStep("idler")
  \/ Loop \/ AwaitContinuation \/ ContinuationAborted \/ AwaitEvent
  \/ Clear \/ NextMail

Main == CommandStep("main") \/ Join \/ CloseThreads \/ ThreadsJoined

Callback(c) == CallbackChecks(c) \/ CallbackMarks(c) \/ CallbackSets(c)

Handle ==
  \/ PutContinuation \/ PutUntagged \/ PutBye \/ PutTagged \/ PutException
  \/ Drain \/ Drained \/ AbortTagged \/ Callback("handler")

Write ==
  \/ WriterLoops \/ WriterSends \/ WriterSendsInVain \/ WriterFails \/ WriterEnds
  \/ Callback("writer")

Next ==
  \/ Idle \/ Main \/ Stop \/ Handle \/ IdleTimesOut \/ Write
  \/ MailArrives \/ ServerAnnounces \/ ConnectionLost

Spec == Init /\ [][Next]_vars

\* Each thread goes on while it can; 29 minutes pass; in IDLE the server
\* announces new mail.  Nothing makes the main program stop or mail arrive.
FairSpec ==
  /\ Spec
  /\ WF_vars(Idle) /\ WF_vars(Main) /\ WF_vars(Handle) /\ WF_vars(Write)
  /\ WF_vars(IdleTimesOut) /\ WF_vars(ServerAnnounces)

-----------------------------------------------------------------------------
(* Properties.                                                             *)

\* Client and server agree on what is an IDLE: the server gets DONE in IDLE
\* only, and in IDLE nothing but DONE, whichever thread ends the IDLE
\* (_end_idle in a command, in the handler and on its timeout).
InStep == ~stray

\* "State-changing commands will both block until previous commands have
\* completed, and block subsequent commands until they have finished" (class
\* IMAP4), as long as the connection is there.
StateChangesAlone ==
  conn = "up" =>
    \A c \in tagged \ {"continuation"} :
      ~Async(c) => tagged \subseteq {c, "continuation"}

\* A new mail's attachment is saved, unless the main program stops the
\* script: notices that come when nobody waits for them are made up for.
MailSaved ==
  \A m \in Mail :
    (world = {} /\ arrived >= m)
      ~> (files[FileName[m]] # None \/ pc["main"] # "sleep")

\* Once join() has returned, the mailbox is closed and the threads of the
\* client end: "you must call logout() to shut down threads".
ShutsDown ==
  (world = {} /\ pc["main"] = "acquire") ~> (pc["main"] = "ended")

\* stop() ends the idler thread ("a neat trick to make thread end",
\* imap_push.py), so that join() returns.
StopEndsThread == (pc["main"] = "join") ~> (pc["main"] # "join")

\* The server does not stay in IDLE: it "notifies some change", or the
\* timeout occurs (imaplib2.py, IDLE_TIMEOUT and idle).
IdleEnds == idling ~> (~idling \/ conn # "up")

=============================================================================
