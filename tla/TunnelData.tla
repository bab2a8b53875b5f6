----------------------------- MODULE TunnelData -----------------------------
(***************************************************************************)
(* The attachment format (tunnel_data.cc): one process writes the bytes of *)
(* proxy_data_to_file into a file, perhaps several times under the same    *)
(* name, and proxy_data_from_file reads it, perhaps at the same time.      *)
(*                                                                         *)
(* A file is a sequence of cells: a cell is a 32-bit word of a header or a *)
(* byte of a packet's body.                                                *)
(***************************************************************************)
EXTENDS Integers, Sequences, FiniteSets, SequencesExt

CONSTANTS
  DataSets,     \* the data sets that are written, non-empty packet sequences
  MaxVersions,  \* bound on how often the file is written
  None

kProxyDataSetTag == 428282147   \* 0x19871123
kProxyDataTag    == 428149024   \* 0x19850920

ASSUME VersionAssumption == MaxVersions \in Nat \ {0}
\* A packet's words, and the bytes of its body.
Content(byte) == [type : Nat, tag : Nat, seq : Nat, bytes : Seq(byte)]
ASSUME DataAssumption == \A ds \in DataSets : ds \in Seq(Content(Nat)) /\ ds # <<>>
ASSUME NoneAssumption == None \notin Content(Nat \cup {None})

VARIABLES
  file,      \* content of the file
  toWrite,   \* cells the writer has still to write
  writing,   \* the writer has the file open
  version,   \* the data set in the file or being written to it
  versions,  \* how often the file has been opened for writing
  pc,        \* where proxy_data_from_file is
  pos,       \* its file offset
  buf,       \* what stable_read has put into its buffer
  header,    \* words of the current packet's header
  dataset,   \* ns->dataset; None for an entry that was not set
  ret,       \* "none" while running; "ok", "error", or "bad free"
  still      \* history: the file has not been opened for writing since open()

writer == <<file, toWrite, writing, version, versions>>
reader == <<pc, pos, buf, header, dataset, ret>>
vars   == <<writer, reader, still>>

kProxyDataMember == 5

\* The words of a packet's header.  Mutant: two of them are swapped.
WordsSwapped(p) == <<kProxyDataTag, Len(p.bytes), p.tag, p.type, p.seq>>
Words(p) == <<kProxyDataTag, Len(p.bytes), p.type, p.tag, p.seq>>
Encode(ds) ==
  <<kProxyDataSetTag, Len(ds)>>
    \o FlattenSeq([i \in DOMAIN ds |-> Words(ds[i]) \o ds[i].bytes])

Init ==
  /\ file = <<>> /\ toWrite = <<>> /\ writing = FALSE
  /\ version = <<>> /\ versions = 0
  /\ pc = "idle" /\ pos = 0 /\ buf = <<>> /\ header = <<>>
  /\ dataset = <<>> /\ ret = "none"
  /\ still = TRUE

-----------------------------------------------------------------------------
(* The writer.                                                             *)

\* open(O_TRUNC).
OpenTruncate ==
  /\ ~writing /\ versions < MaxVersions
  /\ \E ds \in DataSets : version' = ds /\ toWrite' = Encode(ds)
  /\ versions' = versions + 1
  /\ file' = <<>> /\ writing' = TRUE /\ still' = FALSE
  /\ UNCHANGED reader

\* A write() of stable_write, which may write less than it was given.
Write ==
  /\ writing
  /\ \E n \in 1 .. Len(toWrite) :
       /\ file' = file \o SubSeq(toWrite, 1, n)
       /\ toWrite' = SubSeq(toWrite, n + 1, Len(toWrite))
  /\ UNCHANGED <<writing, version, versions, reader, still>>

\* Everything is written, or a write() has failed.
Close ==
  /\ writing
  /\ writing' = FALSE /\ toWrite' = <<>>
  /\ UNCHANGED <<file, version, versions, reader, still>>

-----------------------------------------------------------------------------
(* The reader.                                                             *)

\* stable_read(fd, bytes, want) reads until it has got want cells or until
\* read() returns 0: the end of the file, or an offset behind the end of a
\* file that was written again.
Available    == Len(file) - pos
Following(n) == SubSeq(file, pos + 1, pos + n)

\* A read() that returns less than stable_read asked for.
ReadSome(want) ==
  /\ 0 < Available /\ Available < want - Len(buf)
  /\ buf' = buf \o Following(Available)
  /\ pos' = Len(file)
  /\ UNCHANGED <<pc, header, dataset, ret, writer, still>>

\* stable_read returns 1 with these cells.
Complete(want) == Len(buf) = want \/ want - Len(buf) <= Available
Cells(want)    == buf \o Following(want - Len(buf))
Advance(want)  == pos' = pos + want - Len(buf) /\ buf' = <<>>

\* stable_read returns 0.  Mutant: it asks again.
AtEndRetried(want) == FALSE
AtEnd(want) == Len(buf) < want /\ Available <= 0

Return(r) ==
  /\ ret' = r /\ pc' = "done"
  /\ UNCHANGED <<header, writer, still>>

\* open(O_RDONLY): a file is announced when it has been closed once.
Open ==
  /\ pc = "idle" /\ versions > (IF writing THEN 1 ELSE 0)
  /\ pc' = "set"
  /\ still' = ~writing
  /\ UNCHANGED <<pos, buf, header, dataset, ret, writer>>

ReadSetHeader ==
  /\ pc = "set"
  /\ \/ ReadSome(2)
     \/ AtEnd(2) /\ Return("error") /\ UNCHANGED <<pos, buf, dataset>>
     \/ /\ Complete(2) /\ Advance(2)
        /\ LET w == Cells(2) IN
           \/ /\ w[1] # kProxyDataSetTag
              /\ Return("error") /\ UNCHANGED dataset
           \/ /\ w[1] = kProxyDataSetTag
              /\ dataset' = [i \in 1 .. w[2] |-> None]
              /\ pc' = "header"
              /\ UNCHANGED <<header, ret, writer, still>>

\* The entry do_read_proxy_data is to set.
Current == CHOOSE i \in DOMAIN dataset :
             dataset[i] = None /\ \A j \in 1 .. i - 1 : dataset[j] # None

\* The caller's error path frees the current entry too, which is still
\* unset when the header could not be read.
ReadHeader ==
  /\ pc = "header"
  /\ \/ ReadSome(kProxyDataMember)
     \/ /\ AtEnd(kProxyDataMember)
        /\ Return("bad free") /\ UNCHANGED <<pos, buf, dataset>>
     \/ /\ Complete(kProxyDataMember) /\ Advance(kProxyDataMember)
        /\ LET w == Cells(kProxyDataMember) IN
           \/ /\ w[1] # kProxyDataTag
              /\ Return("bad free") /\ UNCHANGED dataset
           \/ /\ w[1] = kProxyDataTag
              /\ header' = w
              /\ pc' = "body"
              /\ UNCHANGED <<dataset, ret, writer, still>>

\* Bytes that were not read stay unset.
Packet(bytes) ==
  [ type |-> header[3], tag |-> header[4], seq |-> header[5],
    bytes |-> [k \in 1 .. header[2] |-> IF k \in DOMAIN bytes THEN bytes[k] ELSE None] ]

\* Mutant: the loop runs once more.
IsLastMissed == Current > Len(dataset)
IsLast == Current = Len(dataset)

\* The body of the current packet.  The end of the file is an error but in
\* the last packet, which is taken as it is.
ReadBody ==
  /\ pc = "body"
  /\ \/ ReadSome(header[2])
     \/ /\ AtEnd(header[2])
        /\ IF IsLast
           THEN /\ dataset' = [dataset EXCEPT ![Current] = Packet(buf)]
                /\ Return("ok")
           ELSE Return("error") /\ UNCHANGED dataset
        /\ UNCHANGED <<pos, buf>>
     \/ /\ Complete(header[2]) /\ Advance(header[2])
        /\ dataset' = [dataset EXCEPT ![Current] = Packet(Cells(header[2]))]
        /\ IF IsLast THEN Return("ok")
           ELSE pc' = "header" /\ UNCHANGED <<header, ret, writer, still>>

-----------------------------------------------------------------------------
Writing == OpenTruncate \/ Write \/ Close
Reading == Open \/ ReadSetHeader \/ ReadHeader \/ ReadBody

Next == Writing \/ Reading

Spec == Init /\ [][Next]_vars

\* proxy_data_from_file does not block.
FairSpec == Spec /\ WF_vars(ReadSetHeader \/ ReadHeader \/ ReadBody)

-----------------------------------------------------------------------------
(* Properties.                                                             *)

TypeOK ==
  /\ file \in Seq(Nat) /\ toWrite \in Seq(Nat) /\ buf \in Seq(Nat)
  /\ writing \in BOOLEAN /\ still \in BOOLEAN
  /\ version \in DataSets \cup {<<>>}
  /\ versions \in 0 .. MaxVersions
  /\ pc \in {"idle", "set", "header", "body", "done"}
  /\ ret \in {"none", "ok", "error", "bad free"}
  /\ (pc = "done") = (ret # "none")
  /\ pc \in {"header", "body"} => \E i \in DOMAIN dataset : dataset[i] = None

\* How many cells the file lacks of what was to be written.
Lacks == Len(Encode(version)) - Len(file)

\* A file nobody writes during the read is accepted exactly when it lacks no
\* more than bytes of its last packet's body, and what is accepted is what was
\* written, those bytes aside (proxy_data_to_file, proxy_data_from_file).
StillFileIsRead ==
  pc = "done" /\ still =>
    LET last == Last(version)
        kept == Len(last.bytes) - Lacks
    IN  /\ ret = "ok" <=> kept >= 0
        /\ ret = "ok" =>
             dataset = [version EXCEPT ![Len(version)].bytes =
                          [k \in DOMAIN last.bytes |->
                             IF k <= kept THEN last.bytes[k] ELSE None]]

\* The reader comes to an end, even when the file is cut, or written again
\* while it is read (stable_read, proxy_data_from_file).
ReaderReturns == pc = "set" ~> pc = "done"
=============================================================================
