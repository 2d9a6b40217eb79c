----------------------------- MODULE CondorTailer -----------------------------
(***************************************************************************)
(* The tailer of the Condor routines (JsonlTailer of derive_grid_plan, and *)
(* its copies in derive_grid_mode and derive_market_state) reading a       *)
(* stream another process appends to and rotates.  A call of poll() is     *)
(* three steps, as it looks at the path three times: exists(), stat(),     *)
(* open() and read().  The routine keeps the last record of each call.     *)
(***************************************************************************)
EXTENDS JsonlFile

VARIABLES
    pc,                          \* where the reader is in poll()
    known_inode,                 \* _inode, 0 for None
    offset,                      \* _offset
    pending,                     \* _pending
    delivered,                   \* the records returned so far
    latest,                      \* latest[name] of run(), 0 for none
    skipped                      \* history: how much of the file bootstrap passed over

readerVars == <<pc, known_inode, offset, pending, delivered, latest, skipped>>
condorVars == <<fileVars, readerVars>>

CondorInit ==
    /\ InitFile
    /\ pc = "bootstrap"
    /\ known_inode = 0
    /\ offset = 0
    /\ pending = <<>>
    /\ delivered = {}
    /\ latest = 0
    /\ skipped = 0

\* A plausible mistake: of the records of a call the first is kept.
DeliverFirst(records) ==
    /\ delivered' = delivered \union records
    /\ latest' = IF records = {} THEN latest ELSE Min(records)

\* The records of one call, the last of which becomes the latest.
Deliver(records) ==
    /\ delivered' = delivered \union records
    /\ latest' = IF records = {} THEN latest ELSE Max(records)

\* bootstrap(): the whole lines of the file are returned, and the reader goes
\* to the end of it, past a line that is still being written.
Bootstrap ==
    /\ pc = "bootstrap"
    /\ pc' = "exists"
    /\ IF present
       THEN /\ known_inode' = inode
            /\ offset' = Len(file)
            /\ skipped' = Len(file)
            /\ Deliver(RecordsIn(file))
       ELSE UNCHANGED <<known_inode, offset, skipped, delivered, latest>>
    /\ UNCHANGED <<fileVars, pending>>

\* `if not self.path.exists(): return []` leaves the reader where it is.
PollExists ==
    /\ pc = "exists" /\ present
    /\ pc' = "stat"
    /\ UNCHANGED <<fileVars, known_inode, offset, pending, delivered, latest, skipped>>

\* A rotated or truncated file is read from its start.
PollStat ==
    /\ pc = "stat" /\ present
    /\ pc' = "read"
    /\ known_inode' = inode
    /\ IF known_inode # 0 /\ (inode # known_inode \/ Len(file) < offset)
       THEN offset' = 0 /\ pending' = <<>> /\ skipped' = 0
       ELSE UNCHANGED <<offset, pending, skipped>>
    /\ UNCHANGED <<fileVars, delivered, latest>>

\* A plausible mistake: the tail of a read is thrown away with the read.
KeepNothing(combined) == <<>>

\* What is kept of the text after the last newline.
Kept(combined) == Unfinished(combined)

\* Past the end of a shorter file the read is empty and the offset stays.
PollRead ==
    /\ pc = "read" /\ present
    /\ LET combined == pending \o SubSeq(file, offset + 1, Len(file))
       IN  IF offset < Len(file)
           THEN /\ offset' = Len(file)
                /\ pending' = Kept(combined)
                /\ Deliver(RecordsIn(Finished(combined)))
           ELSE UNCHANGED <<offset, pending, delivered, latest>>
    /\ pc' = "exists"
    /\ UNCHANGED <<fileVars, known_inode, skipped>>

\* stat() or open() of a path that a rotation has just taken away raises
\* FileNotFoundError, which neither poll() nor run() catches: the routine ends.
PollRaises ==
    /\ pc \in {"stat", "read"} /\ ~present
    /\ pc' = "dead"
    /\ UNCHANGED <<fileVars, known_inode, offset, pending, delivered, latest, skipped>>

ReaderStep == Bootstrap \/ PollExists \/ PollStat \/ PollRead \/ PollRaises

CondorNext == (WriterStep /\ UNCHANGED readerVars) \/ ReaderStep

CondorSpec == CondorInit /\ [][CondorNext]_condorVars

\* run() polls for ever, at most input_poll_interval_seconds apart.
FairCondorSpec == CondorSpec /\ WF_condorVars(ReaderStep)

-----------------------------------------------------------------------------
(* Properties *)

\* The variables stay in their domains.
CondorTypeOK ==
    /\ FileTypeOK
    /\ pc \in {"bootstrap", "exists", "stat", "read", "dead"}
    /\ known_inode \in 0..inode
    /\ {offset, skipped} \subseteq Nat
    /\ pending \in Seq(Unit)
    /\ delivered \subseteq 1..appended
    /\ latest \in {0} \union delivered

\* However the writer's chunks, rotations and crashes fall between the reader's
\* looks at the path, no line of the file being read is passed over: whatever
\* a reader would decode from the text between where bootstrap() stopped and
\* the offset has been returned (_pending carries a line across polls).
CondorPassesNoLineOver ==
    present /\ known_inode = inode =>
        RecordsIn(SubSeq(file, skipped + 1, offset)) \subseteq delivered

\* The routine never goes back to an older record, although a rotation between
\* stat() and open() makes it read the new file twice.
LatestOnlyAdvances == [][latest' >= latest]_condorVars

\* Once the writer has stopped the reader catches up with the file: a record
\* that is whole, and was not passed over by bootstrap(), is returned, unless
\* the routine has died.
Drained ==
    pc # "dead" /\ present =>
        RecordsIn(SubSeq(file, skipped + 1, Len(file))) \subseteq delivered
EventuallyDrained == <>[]Drained
=============================================================================
