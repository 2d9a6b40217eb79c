------------------------------ MODULE PlanMirror ------------------------------
(***************************************************************************)
(* The bridge between Stage 4 and the bot (mirror_grid_plan.py): it copies *)
(* the stream of plans, whenever its size or time has changed, to a file   *)
(* that takes the place of the last copy, which the tailer of the          *)
(* controller reads.  A copy may end in the middle of a line, the stream   *)
(* may be rotated under it, and the mirror may fail or start again.        *)
(*                                                                         *)
(* What copyfile() reads is the file as it was at some moment since it was *)
(* opened, as it is only appended to.  A file that is replaced gives its   *)
(* inode free, which the next copy may get.                                *)
(***************************************************************************)
EXTENDS JsonlFile

CONSTANTS
    ReplayExisting,              \* replay_existing_plan of the controller
    Inodes,                      \* the inodes of the bot's volume
    MaxMirrorFaults              \* bound: failed copies and restarts of the mirror

VARIABLES
    target,                      \* the copy
    target_inode,                \* its inode, 0 when there is none
    mirror,                      \* where the mirror is, and what it has in hand
    mirror_faults,
    recycled,                    \* history variable: a copy has got the inode the reader knows
    pc, known_inode, offset, pending, stat_size, delivered, latest, skipped

Reader == INSTANCE PlanTailer
    WITH present <- target_inode # 0, inode <- target_inode, file <- target

readerVars == <<pc, known_inode, offset, pending, stat_size, delivered, latest, skipped>>
mirrorVars == <<target, target_inode, mirror, mirror_faults, recycled>>
mirroredVars == <<fileVars, mirrorVars, readerVars>>

NoSignature == <<0, 0>>
Signature == <<inode, Len(file)>>   \* st_size and st_mtime_ns, which differ when these do

MirrorInit ==
    /\ InitFile
    /\ target = <<>> /\ target_inode = 0
    /\ mirror = [at |-> "stat", signature |-> NoSignature, seen |-> NoSignature, copy |-> <<>>]
    /\ mirror_faults = 0 /\ recycled = FALSE
    /\ Reader!TailerInit

\* mirror_once() has ended, and run() keeps this signature.
MirrorIdles(signature) ==
    mirror' = [at |-> "stat", signature |-> signature, seen |-> NoSignature, copy |-> <<>>]

\* stat(); a file that is gone, or has not changed, is not copied.
MirrorStat ==
    /\ mirror.at = "stat" /\ present /\ Signature # mirror.signature
    /\ mirror' = [mirror EXCEPT !.at = "copy", !.seen = Signature]
    /\ UNCHANGED <<fileVars, readerVars, target, target_inode, mirror_faults, recycled>>

\* copyfile(); when the path is gone by now, the next poll tries again.
MirrorCopy ==
    /\ mirror.at = "copy"
    /\ IF present THEN mirror' = [mirror EXCEPT !.at = "replace", !.copy = file]
       ELSE MirrorIdles(mirror.signature)
    /\ UNCHANGED <<fileVars, readerVars, target, target_inode, mirror_faults, recycled>>

\* os.replace()
MirrorReplace ==
    /\ mirror.at = "replace"
    /\ target' = mirror.copy
    /\ target_inode' \in Inodes \ {target_inode}
    /\ recycled' = (recycled \/ target_inode' = known_inode)
    /\ MirrorIdles(mirror.seen)
    /\ UNCHANGED <<fileVars, readerVars, mirror_faults>>

\* OSError of the copy or the replacement: the signature stays.
MirrorFails ==
    /\ mirror.at # "stat" /\ mirror_faults < MaxMirrorFaults
    /\ mirror_faults' = mirror_faults + 1
    /\ MirrorIdles(mirror.signature)
    /\ UNCHANGED <<fileVars, readerVars, target, target_inode, recycled>>

\* The mirror is started again, and knows no signature.
MirrorRestarts ==
    /\ mirror_faults < MaxMirrorFaults
    /\ mirror_faults' = mirror_faults + 1
    /\ MirrorIdles(NoSignature)
    /\ UNCHANGED <<fileVars, readerVars, target, target_inode, recycled>>

MirrorPolls == MirrorStat \/ MirrorCopy \/ MirrorReplace
MirrorWriter == WriterStep /\ UNCHANGED <<mirrorVars, readerVars>>
MirrorReader == UNCHANGED <<present, inode, file, mirrorVars>> /\ Reader!ReaderStep

\* A copy that gets the inode the reader knows ends the model.
MirrorNext ==
    /\ ~recycled
    /\ MirrorWriter \/ MirrorPolls \/ MirrorReader \/ MirrorFails \/ MirrorRestarts

-----------------------------------------------------------------------------
NewestPlanRead == present /\ ~recycled => \A r \in RecordsIn(file) : r <= latest

\* Although every copy may end in half a line, which the tailer alone would lose
\* (PlanTailer's EventuallyDrained), the controller comes to the newest plan that
\* is whole in the stream: each copy is a file of its own, and is read from its
\* start ("Replacement is atomic so the Stage 5 JSONL tailer can safely handle
\* file rotation between copies", mirror_grid_plan.py:5-6).  It is not so when a
\* copy gets the inode of one the reader knows.
MirroredPlanArrives == <>[]NewestPlanRead
===============================================================================
