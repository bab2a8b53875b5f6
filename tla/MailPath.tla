------------------------------ MODULE MailPath ------------------------------
(***************************************************************************)
(* One direction of the tunnel: the mail sending thread (MailSender in     *)
(* sender.cc), the mail daemon of the client (mail_daemon.py) or the       *)
(* sendemail command of the server, the attachment script at the other end *)
(* (attach.py) and the reading of attachments there (process_fs_event and  *)
(* proxy_data_from_file).                                                  *)
(*                                                                         *)
(* Files carry the name mail_<pid>_<second>.  A flush takes place every    *)
(* half second at most, so two of them may share a name.  Seconds in which *)
(* no file was written leave no trace and are not counted.                 *)
(***************************************************************************)
EXTENDS Naturals, Sequences, FiniteSets, SequencesExt

CONSTANTS
  Relays,      \* "up" for mail_client (USE_MAIL_DAEMON), "none" for mail_server
  Faults,      \* what may go wrong, see FaultKinds
  MaxPackets,  \* bound on the packets ever queued
  MaxCount,    \* attachment_cnt_max
  MaxDgrams,   \* datagrams the daemon's socket buffer holds
  None

FaultKinds == {
  "disk",      \* open() or write() of an attachment fails
  "smtp",      \* the SMTP server refuses: the daemon dies, sendemail fails
  "lose", "reorder",   \* mails on their way
  "restart" }  \* the reading end is restarted

Breaks == {
  "torn",        \* a file was reopened while its name was in flight
  "dropped",     \* an attachment was given up
  "overtaken" }  \* a mail has overtaken another one

ASSUME SwitchAssumption ==
  Relays \subseteq {"up", "none"} /\ Faults \subseteq FaultKinds
ASSUME BoundAssumption == {MaxPackets, MaxCount, MaxDgrams} \subseteq Nat \ {0}

VARIABLES
  made,     \* packets queued so far; packet k is the k-th one
  queue,    \* snd_buf_
  pc,       \* where the mail thread is in start() and do_flush_data()
  due,      \* the thread's 500 ms have passed
  dataset,  \* ds.dataset
  fname,    \* tmp_file
  half,     \* half of the current second
  second,   \* the current second, the name of files opened in it
  outbox,   \* attachment files of the sending end
  dgrams,   \* file names in the daemon's socket
  daemon,   \* mail_daemon.py: "up", "dead", or "none" at the server
  mails,    \* mails on their way
  script,   \* the mail attach.py is writing
  inbox,    \* attachment files of the reading end
  notices,  \* inotify events of the reading end
  got,      \* packets read from attachments
  reader,   \* "up" or "crashed"
  broken    \* history: what has gone wrong, see Breaks

thread == <<queue, pc, due, dataset, fname>>
clock  == <<half, second>>
relay  == <<dgrams, daemon>>
far    == <<script, inbox, notices, got, reader>>
vars   == <<made, thread, clock, outbox, relay, mails, far, broken>>

Packet  == 1 .. MaxPackets
Name    == 1 .. MaxPackets + 1
Garbled == 0     \* a packet with unset bytes

(* A file holds data, whole or cut short: before its first packet or in    *)
(* the body of a packet that is not the last ("early"), inside the header  *)
(* of a packet ("header"), or in the body of the last packet ("body").     *)
(* "open" is a file its writer is still writing.                           *)
Cut  == {"early", "header", "body"}
File == [data : Seq(Packet), state : Cut \cup {"whole", "open"}]
Mail == [name : Name, file : File]

ASSUME NoneAssumption == None \notin File \cup Mail \cup Seq(Packet \cup {Garbled})

UseDaemon == daemon # "none"

TypeOK ==
  /\ made \in 0 .. MaxPackets
  /\ queue \in Seq(Packet)
  /\ pc \in {"wait", "fetch", "open", "write", "hand"}
  /\ due \in BOOLEAN
  /\ dataset \in Seq(Packet) /\ Len(dataset) <= MaxCount
  /\ fname \in Name
  /\ half \in {0, 1} /\ second \in Name
  /\ outbox \in [Name -> File \cup {None}]
  /\ dgrams \in Seq(Name) /\ Len(dgrams) <= MaxDgrams
  /\ daemon \in {"up", "dead", "none"}
  /\ mails \in Seq(Mail)
  /\ script \in Mail \cup {None}
  /\ inbox \in [Name -> File \cup {None}]
  /\ notices \in Seq(Name)
  /\ got \in Seq(Packet \cup {Garbled})
  /\ reader \in {"up", "crashed"}
  /\ broken \subseteq Breaks

Init ==
  /\ made = 0 /\ queue = <<>>
  /\ pc = "wait" /\ due = TRUE      \* start() flushes before it waits
  /\ dataset = <<>> /\ fname = 1
  /\ half \in {0, 1} /\ second = 1
  /\ outbox = [n \in Name |-> None]
  /\ dgrams = <<>> /\ daemon \in Relays
  /\ mails = <<>> /\ script = None
  /\ inbox = [n \in Name |-> None]
  /\ notices = <<>> /\ got = <<>> /\ reader = "up"
  /\ broken = {}

-----------------------------------------------------------------------------
(* Files.                                                                  *)

\* What a reader finds: a file that is being written may be cut anywhere
\* before its end, which itself may be a cut.
Copies(f, end) ==
  IF f.state # "open" THEN {f}
  ELSE {[f EXCEPT !.state = s] : s \in
          {end, "early", "header"} \cup IF end = "whole" THEN {"body"} ELSE {}}

\* What proxy_data_from_file makes of a file.  A cut packet header leaves
\* the entry of dataset that is then freed unset; a cut in the last body is
\* taken for the end of the file.  None: an unset pointer is freed.
Parses(f) ==
  CASE f.state = "whole"  -> {f.data}
    [] f.state = "body"   -> {Append(Front(f.data), Garbled)}
    [] f.state = "early"  -> {<<>>}
    [] f.state = "header" -> {<<>>, None}

\* Some stage has still to read the file called n.
InFlight(n) ==
  \/ n \in Range(dgrams) \cup Range(notices)
  \/ \E i \in DOMAIN mails : mails[i].name = n
  \/ script # None /\ script.name = n

Break(b) == broken' = broken \cup {b}

-----------------------------------------------------------------------------
(* The sending end.                                                        *)

\* MailSender::putdata, called by the receiving thread.
PutData ==
  /\ made < MaxPackets
  /\ made' = made + 1
  /\ queue' = Append(queue, made')
  /\ UNCHANGED <<pc, due, dataset, fname, clock, outbox, relay, mails, far, broken>>

\* Half a second passes.  Mutant: the wait has no timeout (wait_cond).
TickUntimed ==
  /\ half' = 1 - half
  /\ second' = IF half = 1 /\ outbox[second] # None THEN second + 1 ELSE second
  /\ UNCHANGED <<made, thread, outbox, relay, mails, far, broken>>
Tick ==
  /\ half' = 1 - half
  /\ second' = IF half = 1 /\ outbox[second] # None THEN second + 1 ELSE second
  /\ due' = (pc = "wait")
  /\ UNCHANGED <<made, queue, pc, dataset, fname, outbox, relay, mails, far, broken>>

\* do_flush_data is over: start() waits for another 500 ms.  Mutant: the
\* packets are not freed.
RestKeepsDataset ==
  /\ pc' = "wait" /\ due' = FALSE
  /\ UNCHANGED dataset
Rest ==
  /\ pc' = "wait" /\ due' = FALSE
  /\ dataset' = <<>>

\* The wait times out and buf_size() is 0.
FlushNothing ==
  /\ pc = "wait" /\ due /\ queue = <<>>
  /\ Rest
  /\ UNCHANGED <<made, queue, fname, clock, outbox, relay, mails, far, broken>>

FlushBegins ==
  /\ pc = "wait" /\ due /\ queue # <<>>
  /\ pc' = "fetch" /\ due' = FALSE
  /\ UNCHANGED <<made, queue, dataset, fname, clock, outbox, relay, mails, far, broken>>

\* One fetch_data() of the loop.  Mutants: it takes the last packet; the
\* count is not compared.
FetchLast ==
  /\ pc = "fetch" /\ queue # <<>> /\ Len(dataset) < MaxCount
  /\ dataset' = Append(dataset, Last(queue))
  /\ queue' = Front(queue)
  /\ UNCHANGED <<made, pc, due, fname, clock, outbox, relay, mails, far, broken>>
FetchUncounted ==
  /\ pc = "fetch" /\ queue # <<>>
  /\ dataset' = Append(dataset, Head(queue))
  /\ queue' = Tail(queue)
  /\ UNCHANGED <<made, pc, due, fname, clock, outbox, relay, mails, far, broken>>
Fetch ==
  /\ pc = "fetch" /\ queue # <<>> /\ Len(dataset) < MaxCount
  /\ dataset' = Append(dataset, Head(queue))
  /\ queue' = Tail(queue)
  /\ UNCHANGED <<made, pc, due, fname, clock, outbox, relay, mails, far, broken>>

\* The loop ends: the queue is empty, or the count or the size limit is
\* reached, which one packet may do.  Mutant: only full files are written.
FetchEndsFull ==
  /\ pc = "fetch" /\ Len(dataset) = MaxCount
  /\ pc' = "open"
  /\ UNCHANGED <<made, queue, due, dataset, fname, clock, outbox, relay, mails, far, broken>>
FetchEnds ==
  /\ pc = "fetch" /\ dataset # <<>>
  /\ pc' = "open"
  /\ UNCHANGED <<made, queue, due, dataset, fname, clock, outbox, relay, mails, far, broken>>

\* time(), sprintf() and the open() of proxy_data_to_file, which truncates.
OpenFile ==
  /\ pc = "open"
  /\ fname' = second
  /\ outbox' = [outbox EXCEPT ![second] = [data |-> dataset, state |-> "open"]]
  /\ IF InFlight(second) THEN Break("torn") ELSE UNCHANGED broken
  /\ pc' = "write"
  /\ UNCHANGED <<made, queue, due, dataset, clock, relay, mails, far>>

\* The packets fetched are freed without having been sent.  Mutant: they
\* are queued again.
OpenFailsRequeue ==
  /\ "disk" \in Faults
  /\ pc = "open"
  /\ queue' = queue \o dataset
  /\ Rest
  /\ UNCHANGED <<made, fname, clock, outbox, relay, mails, far, broken>>
OpenFails ==
  /\ "disk" \in Faults
  /\ pc = "open"
  /\ Rest
  /\ Break("dropped")
  /\ UNCHANGED <<made, queue, fname, clock, outbox, relay, mails, far>>

WriteFile ==
  /\ pc = "write"
  /\ outbox' = [outbox EXCEPT ![fname].state = "whole"]
  /\ pc' = "hand"
  /\ UNCHANGED <<made, queue, due, dataset, fname, clock, relay, mails, far, broken>>

\* The packets are freed and what was written stays.
WriteFails ==
  /\ "disk" \in Faults
  /\ pc = "write"
  /\ \E s \in Cut : outbox' = [outbox EXCEPT ![fname].state = s]
  /\ Rest
  /\ Break("dropped")
  /\ UNCHANGED <<made, queue, fname, clock, relay, mails, far>>

\* sendto() the daemon: without an error when nobody reads the port or the
\* socket buffer is full.
TellDaemon ==
  /\ UseDaemon
  /\ pc = "hand"
  /\ IF daemon = "up" /\ Len(dgrams) < MaxDgrams
     THEN dgrams' = Append(dgrams, fname) /\ UNCHANGED broken
     ELSE Break("dropped") /\ UNCHANGED dgrams
  /\ Rest
  /\ UNCHANGED <<made, queue, fname, clock, outbox, daemon, mails, far>>

\* system("sendemail ..."), which returns when the mail is out.
RunSendemail ==
  /\ ~UseDaemon
  /\ pc = "hand"
  /\ mails' = Append(mails, [name |-> fname, file |-> outbox[fname]])
  /\ Rest
  /\ UNCHANGED <<made, queue, fname, clock, outbox, relay, far, broken>>

\* Nothing looks at the exit status.
SendemailFails ==
  /\ ~UseDaemon /\ "smtp" \in Faults
  /\ pc = "hand"
  /\ Rest
  /\ Break("dropped")
  /\ UNCHANGED <<made, queue, fname, clock, outbox, relay, mails, far>>

-----------------------------------------------------------------------------
(* The mail daemon, and the mail system between the ends.                  *)

\* One turn of the daemon's loop: it reads the file as it is by then.
DaemonMails ==
  /\ daemon = "up" /\ dgrams # <<>>
  /\ \E f \in Copies(outbox[Head(dgrams)], "whole") :
       mails' = Append(mails, [name |-> Head(dgrams), file |-> f])
  /\ dgrams' = Tail(dgrams)
  /\ UNCHANGED <<made, thread, clock, outbox, daemon, far, broken>>

\* sendmail() raises an exception nobody catches.
DaemonDies ==
  /\ "smtp" \in Faults
  /\ daemon = "up" /\ dgrams # <<>>
  /\ daemon' = "dead" /\ dgrams' = <<>>
  /\ Break("dropped")
  /\ UNCHANGED <<made, thread, clock, outbox, mails, far>>

MailLost ==
  /\ "lose" \in Faults
  /\ \E i \in DOMAIN mails : mails' = RemoveAt(mails, i)
  /\ Break("dropped")
  /\ UNCHANGED <<made, thread, clock, outbox, relay, far>>

-----------------------------------------------------------------------------
(* The reading end.                                                        *)

\* inotify merges an event with an equal one at the end of its queue.
Notice(n) ==
  notices' = IF notices # <<>> /\ Last(notices) = n
             THEN notices ELSE Append(notices, n)

\* attach.py is started for a mail and opens the file, which truncates it.
\* Mutant: the watch reports the opening too (IN_CREATE).
ScriptOpensNoticed ==
  /\ script = None
  /\ \E i \in DOMAIN mails :
       /\ \/ i = 1 /\ UNCHANGED broken
          \/ i > 1 /\ "reorder" \in Faults /\ Break("overtaken")
       /\ script' = mails[i]
       /\ mails' = RemoveAt(mails, i)
       /\ inbox' = [inbox EXCEPT ![mails[i].name] =
                      [data |-> mails[i].file.data, state |-> "open"]]
       /\ Notice(mails[i].name)
  /\ UNCHANGED <<made, thread, clock, outbox, relay, got, reader>>
ScriptOpens ==
  /\ script = None
  /\ \E i \in DOMAIN mails :
       /\ \/ i = 1 /\ UNCHANGED broken
          \/ i > 1 /\ "reorder" \in Faults /\ Break("overtaken")
       /\ script' = mails[i]
       /\ mails' = RemoveAt(mails, i)
       /\ inbox' = [inbox EXCEPT ![mails[i].name] =
                      [data |-> mails[i].file.data, state |-> "open"]]
  /\ UNCHANGED <<made, thread, clock, outbox, relay, notices, got, reader>>

\* It closes the file: the file is what the mail carried (IN_CLOSE_WRITE).
ScriptCloses ==
  /\ script # None
  /\ inbox' = [inbox EXCEPT ![script.name] = script.file]
  /\ Notice(script.name)
  /\ script' = None
  /\ UNCHANGED <<made, thread, clock, outbox, relay, mails, got, reader, broken>>

\* What the running script's file will end with.
ScriptEnd == IF script = None THEN "whole" ELSE script.file.state

\* process_fs_event for the first notice.  The content is read now, not
\* when the notice was queued.
ReadAttachment ==
  /\ reader = "up" /\ notices # <<>>
  /\ notices' = Tail(notices)
  /\ \E f \in Copies(inbox[Head(notices)], ScriptEnd) : \E ps \in Parses(f) :
       \/ ps = None /\ reader' = "crashed" /\ UNCHANGED got
       \/ ps # None /\ got' = got \o ps /\ UNCHANGED reader
  /\ UNCHANGED <<made, thread, clock, outbox, relay, mails, script, inbox, broken>>

\* A new process watches for new events only.
RestartReader ==
  /\ "restart" \in Faults
  /\ reader' = "up" /\ notices' = <<>>
  /\ IF notices # <<>> THEN Break("dropped") ELSE UNCHANGED broken
  /\ UNCHANGED <<made, thread, clock, outbox, relay, mails, script, inbox, got>>

-----------------------------------------------------------------------------
Flush ==
  \/ FlushNothing \/ FlushBegins \/ Fetch \/ FetchEnds
  \/ OpenFile \/ OpenFails \/ WriteFile \/ WriteFails
  \/ TellDaemon \/ RunSendemail \/ SendemailFails

Next ==
  \/ PutData \/ Tick \/ Flush
  \/ DaemonMails \/ DaemonDies \/ MailLost
  \/ ScriptOpens \/ ScriptCloses \/ ReadAttachment \/ RestartReader

Spec == Init /\ [][Next]_vars

\* Every loop goes on: the mail thread, the daemon, the reader, the clock;
\* the mail system starts the script for a mail that it has.
FairSpec ==
  /\ Spec
  /\ WF_vars(Flush) /\ WF_vars(Tick)
  /\ WF_vars(DaemonMails)
  /\ WF_vars(ScriptOpens) /\ WF_vars(ScriptCloses)
  /\ WF_vars(ReadAttachment)

-----------------------------------------------------------------------------
(* Properties.                                                             *)

Sent == [k \in 1 .. made |-> k]

Stream == INSTANCE PacketStream
            WITH sent <- Sent, intact <- (broken = {})

\* The path is the abstract stream: packets come out once, in order and
\* whole, until an attachment is given up, is overtaken, or is reopened
\* while its name is in flight (do_flush_data, mail_daemon.py, attach.py,
\* process_fs_event).
StreamSpec == Stream!Spec

\* Failed writes, a dead daemon, lost mails and a restarted reader drop
\* packets and do nothing worse as long as mails keep their order and no
\* attachment is reopened in flight: the packets read are in order, none is
\* garbled and the reader has not freed an unset pointer.
OrderKept ==
  broken \subseteq {"dropped"} =>
    /\ \A i, j \in DOMAIN got : i < j => got[i] < got[j]
    /\ Garbled \notin Range(got)
    /\ reader = "up"

\* Even when mails overtake each other no packet is read twice, unless an
\* attachment is reopened in flight: names are not reused otherwise.
ReadOnce ==
  "torn" \notin broken =>
    \A i, j \in DOMAIN got : got[i] = got[j] => i = j

\* Unless something goes wrong, a queued packet is read at the other end.
PacketsArrive ==
  \A k \in Packet : made >= k ~> (k \in Range(got) \/ broken # {})

\* A packet does not stay in the queue, whatever fails: MailSender::start
\* flushes again after 500 ms although nobody calls flushdata().
QueueDrains == \A k \in Packet : (k \in Range(queue)) ~> (k \notin Range(queue))
=============================================================================
