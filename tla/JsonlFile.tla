------------------------------ MODULE JsonlFile ------------------------------
(***************************************************************************)
(* The append-only JSONL streams that join the stages (snapshots, states,  *)
(* modes, plans): one writer process, which appends records, rotates the   *)
(* file when it has grown too long and may crash anywhere, and the file    *)
(* system in between.  The readers are in CondorTailer and PlanTailer.     *)
(*                                                                         *)
(* Records are numbered in the order they are appended.  A record is two   *)
(* units of text and a newline; the writer's buffered write reaches the    *)
(* file in chunks of any size.                                             *)
(***************************************************************************)
EXTENDS Integers, Sequences, SequencesExt

CONSTANTS
    MaxRecords,                  \* bound: how many records are appended
    MaxFileUnits,                \* max_file_bytes, in units
    MaxCrashes                   \* bound: how often the writer crashes

ASSUME FileAssumption == {MaxRecords, MaxFileUnits, MaxCrashes} \subseteq Nat

VARIABLES
    present,                     \* whether the path names a file
    inode,                       \* the inode of the file it names or named last
    file,                        \* its contents, a sequence of units
    unwritten,                   \* what the writer still has to write of a line
    appended,                    \* the number of records begun so far
    crashes                      \* the number of crashes so far

fileVars == <<present, inode, file, unwritten, appended, crashes>>

Newline == <<0, 0>>

Unit == {Newline} \union ((1..MaxRecords) \X {1, 2})

Line(r) == <<<<r, 1>>, <<r, 2>>, Newline>>

\* The records a reader decodes from text: the lines that are whole.  A line
\* that starts or ends in the middle of a record does not parse, and is skipped.
RecordsIn(text) ==
    {r \in 1..MaxRecords :
        \E i \in 1..(Len(text) - 2) :
            /\ SubSeq(text, i, i + 2) = Line(r)
            /\ i = 1 \/ text[i - 1] = Newline}

\* What follows the last newline of text.
Unfinished(text) ==
    SubSeq(text, 1 + SelectLastInSeq(text, LAMBDA u : u = Newline), Len(text))

Finished(text) == SubSeq(text, 1, SelectLastInSeq(text, LAMBDA u : u = Newline))

InitFile ==
    /\ present = FALSE
    /\ inode = 0
    /\ file = <<>>
    /\ unwritten = <<>>
    /\ appended = 0
    /\ crashes = 0

\* The rotation at the start of an append: the path is gone until the append
\* opens it again.
Rotate ==
    /\ unwritten = <<>> /\ appended < MaxRecords
    /\ present /\ Len(file) >= MaxFileUnits
    /\ present' = FALSE
    /\ UNCHANGED <<inode, file, unwritten, appended, crashes>>

\* open("a") creates the file when there is none.
OpenAppend ==
    /\ unwritten = <<>> /\ appended < MaxRecords
    /\ present => Len(file) < MaxFileUnits
    /\ present' = TRUE
    /\ IF present THEN UNCHANGED <<inode, file>> ELSE inode' = inode + 1 /\ file' = <<>>
    /\ appended' = appended + 1
    /\ unwritten' = Line(appended + 1)
    /\ UNCHANGED crashes

\* write and flush: the text reaches the file a chunk at a time.
WriteChunk ==
    /\ unwritten # <<>>
    /\ \E n \in 1..Len(unwritten) :
          /\ file' = file \o SubSeq(unwritten, 1, n)
          /\ unwritten' = SubSeq(unwritten, n + 1, Len(unwritten))
    /\ UNCHANGED <<present, inode, appended, crashes>>

\* The writer dies in the middle of a line; its successor appends after it.
WriterCrash ==
    /\ unwritten # <<>> /\ crashes < MaxCrashes
    /\ unwritten' = <<>>
    /\ crashes' = crashes + 1
    /\ UNCHANGED <<present, inode, file, appended>>

FileTypeOK ==
    /\ present \in BOOLEAN
    /\ inode \in 0..MaxRecords
    /\ file \in Seq(Unit)
    /\ unwritten \in Seq(Unit)
    /\ appended \in 0..MaxRecords
    /\ crashes \in 0..MaxCrashes

WriterStep == Rotate \/ OpenAppend \/ WriteChunk \/ WriterCrash
=============================================================================
