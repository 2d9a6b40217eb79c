------------------------------ MODULE PlanTailer ------------------------------
(***************************************************************************)
(* The tailer of the Hummingbot controllers (JsonlPlanTailer), which reads *)
(* the plans of Stage 4.  Unlike the tailer of the Condor routines it      *)
(* advances its offset by the size stat() gave it, less what it keeps in   *)
(* _pending, and catches OSError.  The controller keeps the last record.   *)
(***************************************************************************)
EXTENDS JsonlFile

CONSTANT ReplayExisting          \* replay_existing_plan

ASSUME ReplayAssumption == ReplayExisting \in BOOLEAN

VARIABLES
    pc,                          \* where the reader is in poll()
    known_inode,                 \* _inode, 0 for None
    offset,                      \* _offset, which may even be negative
    pending,                     \* _pending
    stat_size,                   \* stat.st_size of the poll under way
    delivered,                   \* the records returned so far
    latest,                      \* _latest_plan, 0 for None
    skipped                      \* history: how much of the file bootstrap passed over

readerVars == <<pc, known_inode, offset, pending, stat_size, delivered, latest, skipped>>
tailerVars == <<fileVars, readerVars>>

TailerInit ==
    /\ InitFile
    /\ pc = "bootstrap"
    /\ known_inode = 0
    /\ offset = 0
    /\ pending = <<>>
    /\ stat_size = 0
    /\ delivered = {}
    /\ latest = 0
    /\ skipped = 0

\* The records of one call, the last of which becomes the latest plan.
Deliver(records) ==
    /\ delivered' = delivered \union records
    /\ latest' = IF records = {} THEN latest ELSE Max(records)

\* bootstrap() returns the last whole line, which the controller throws away
\* unless it is to replay it, and keeps the line that is being written.
Bootstrap ==
    /\ pc = "bootstrap"
    /\ pc' = "stat"
    /\ IF present
       THEN /\ known_inode' = inode
            /\ offset' = Len(file)
            /\ pending' = Unfinished(file)
            /\ skipped' = Len(Finished(file))
            /\ LET last == {r \in RecordsIn(file) : \A s \in RecordsIn(file) : s <= r}
               IN  Deliver(IF ReplayExisting THEN last ELSE {})
       ELSE UNCHANGED <<known_inode, offset, pending, skipped, delivered, latest>>
    /\ UNCHANGED <<fileVars, stat_size>>

\* A plausible mistake: a rotation is only noticed when the file is shorter.
StatBySize ==
    /\ pc = "stat" /\ present
    /\ pc' = "read"
    /\ known_inode' = inode
    /\ stat_size' = Len(file)
    /\ IF Len(file) < offset
       THEN offset' = 0 /\ pending' = <<>> /\ skipped' = 0
       ELSE UNCHANGED <<offset, pending, skipped>>
    /\ UNCHANGED <<fileVars, delivered, latest>>

\* stat(): a rotated or shorter file is read from its start.
PollStat ==
    /\ pc = "stat" /\ present
    /\ pc' = "read"
    /\ known_inode' = inode
    /\ stat_size' = Len(file)
    /\ IF (known_inode # 0 /\ inode # known_inode) \/ Len(file) < offset
       THEN offset' = 0 /\ pending' = <<>> /\ skipped' = 0
       ELSE UNCHANGED <<offset, pending, skipped>>
    /\ UNCHANGED <<fileVars, delivered, latest>>

\* Where the next poll starts.
NextOffset(kept) == stat_size - Len(kept)

\* While the line is unfinished every poll reads it again and appends it to
\* _pending.  Three units without a newline begin no record whatever follows,
\* and need not be told from more: MaxUnfinished caps the model here.
MaxUnfinished == 3
Again(combined) == SubSeq(combined, 1, Min({MaxUnfinished, Len(combined)}))

\* open(), seek() and read().  When the path is gone, when the offset is
\* negative (OSError), and when nothing is there to read, nothing changes.
PollRead ==
    /\ pc = "read"
    /\ pc' = "stat"
    /\ LET combined == pending \o SubSeq(file, offset + 1, Len(file))
           read == present /\ offset >= 0 /\ offset < Len(file)
           newline == Finished(combined) # <<>>
       IN  /\ pending' = IF ~read THEN pending
                         ELSE IF newline THEN Unfinished(combined) ELSE Again(combined)
           /\ offset' = IF read /\ newline THEN NextOffset(Unfinished(combined)) ELSE offset
           /\ Deliver(IF read THEN RecordsIn(Finished(combined)) ELSE {})
    /\ UNCHANGED <<fileVars, known_inode, stat_size, skipped>>

ReaderStep == Bootstrap \/ PollStat \/ PollRead

TailerNext == (WriterStep /\ UNCHANGED readerVars) \/ ReaderStep

TailerSpec == TailerInit /\ [][TailerNext]_tailerVars

\* The controller's update_processed_data polls on every tick of its clock.
FairTailer == TailerSpec /\ WF_tailerVars(ReaderStep)

-----------------------------------------------------------------------------
(* Properties *)

\* The variables stay in their domains.
TailerTypeOK ==
    /\ FileTypeOK
    /\ pc \in {"bootstrap", "stat", "read"}
    /\ known_inode \in 0..inode
    /\ offset \in Int
    /\ {stat_size, skipped} \subseteq Nat
    /\ pending \in Seq(Unit)
    /\ delivered \subseteq 1..appended
    /\ latest \in {0} \union delivered

\* The controller never goes back to an older plan, although growth of the file
\* between stat() and read() makes it read lines twice.
LatestOnlyAdvances == [][latest' >= latest]_tailerVars

Drained ==
    present => RecordsIn(SubSeq(file, skipped + 1, Len(file))) \subseteq delivered

\* When no poll ever finds a line half written the reader catches up, however
\* rotations, crashes and its own restarts from 0 fall: once the writer has
\* stopped, every record that is whole in the file, past what bootstrap()
\* passed over, has been returned.
WholeLinesDrained == [](pending = <<>>) => <>[]Drained

\* "Read complete Stage 4 JSONL records while tolerating partial writes": the
\* same whatever a poll finds.  In the code the text kept in _pending is read
\* again by the next poll, and the line it begins does not parse.
EventuallyDrained == <>[]Drained
=============================================================================
