------------------------------ MODULE MCProgress ------------------------------
(***************************************************************************)
(* What must happen in the end: the two tailers, that of the controllers   *)
(* and that of the Condor routines, on a short file that is rotated after  *)
(* two lines; the copy of the stream of plans and its reader; the stages   *)
(* that are joined by their streams; the first snapshot of an order book;  *)
(* and the controller with two buys and a sell, the limits of which it     *)
(* meets.  One of them at a time runs, and is fair.                        *)
(***************************************************************************)
EXTENDS AdaptiveGrid, PlanTailer, StageChain

CONSTANTS e1, e2, e3            \* executors of the controller

VARIABLES
    part,                        \* which of them it is
    \* of the copy of the stream
    target, target_inode, mirror, mirror_faults, recycled,
    \* of the first snapshot
    arrived, queue, cached, request, initializer

mirrorVars == <<target, target_inode, mirror, mirror_faults, recycled>>
raceVars == <<arrived, queue, cached, request, initializer>>

Condor == INSTANCE CondorTailer
Mirror == INSTANCE PlanMirror
    WITH MaxRecords <- 2, MaxFileUnits <- 3, MaxCrashes <- 0, MaxMirrorFaults <- 1, Inodes <- {1, 2}
Race == INSTANCE SnapshotRace WITH MaxMessages <- 3

ThreeSlots == {e1, e2, e3}
OneQuote == {[bid |-> 1, ask |-> 2]}

\* buy_0, buy_1 and sell_0, or all but sell_0.
TwoBuysOneSell ==
    {[ok |-> TRUE, significant |-> FALSE, soft |-> FALSE, prices |-> prices] :
        prices \in {<<1, 1, 3>>, <<1, 1, 0>>}}

PartsInit ==
    /\ Mirror!MirrorInit /\ Init /\ TailerInit /\ ChainInit /\ Race!RaceInit
    /\ part \in {"book", "condor", "controller", "mirror", "plan", "stages"}

allVars == <<tailerVars, part, vars, mirrorVars, chainVars, raceVars>>

\* What a step of each leaves alone.
OfTailers == UNCHANGED <<part, vars, mirrorVars, chainVars, raceVars>>
OfGrid == UNCHANGED <<tailerVars, part, mirrorVars, chainVars, raceVars>>
OfMirror == UNCHANGED <<part, vars, chainVars, raceVars>>
OfStages == UNCHANGED <<tailerVars, part, vars, mirrorVars, raceVars>>
OfBook == UNCHANGED <<tailerVars, part, vars, mirrorVars, chainVars>>

PartsNext ==
    \/ part = "condor" /\ Condor!CondorNext /\ UNCHANGED stat_size /\ OfTailers
    \/ part = "plan" /\ TailerNext /\ OfTailers
    \/ part = "controller" /\ Next /\ OfGrid
    \/ part = "mirror" /\ Mirror!MirrorNext /\ OfMirror
    \/ part = "stages" /\ ChainNext /\ OfStages
    \/ part = "book" /\ Race!RaceNext /\ OfBook

\* What is run again and again.  Only one part runs, so that fairness of each of
\* these is fairness of what is in it of that part: FairSpec of the tailers, the
\* ticks, the progress and the end of every executor of the controller, the copy
\* and its reader, ChainSpec and RaceSpec.
FirstRuns ==
    \/ part = "condor" /\ Condor!ReaderStep /\ UNCHANGED stat_size /\ OfTailers
    \/ part = "plan" /\ ReaderStep /\ OfTailers
    \/ part = "controller" /\ Tick /\ OfGrid
    \/ part = "mirror" /\ Mirror!MirrorPolls /\ OfMirror
    \/ part = "stages" /\ PlanRuns /\ OfStages
    \/ part = "book" /\ Race!ListenerTakes /\ OfBook
SecondRuns ==
    \/ part = "controller" /\ Advance /\ OfGrid
    \/ part = "mirror" /\ Mirror!MirrorReader /\ OfMirror
    \/ part = "stages" /\ StageRuns("state") /\ OfStages
    \/ part = "book" /\ (Race!Starts \/ Race!Looks) /\ OfBook
ThirdRuns ==
    \/ part = "controller" /\ Stopped(e1) /\ OfGrid
    \/ part = "stages" /\ StageRuns("mode") /\ OfStages
EndOf(e) == part = "controller" /\ Stopped(e) /\ OfGrid

PartsSpec ==
    /\ PartsInit /\ [][PartsNext]_allVars
    /\ WF_allVars(FirstRuns) /\ WF_allVars(SecondRuns) /\ WF_allVars(ThirdRuns)
    /\ WF_allVars(EndOf(e2)) /\ WF_allVars(EndOf(e3))

\* No reader goes back to an older plan, in the words of PlanTailer's
\* LatestOnlyAdvances, which also holds of the others, and each
\* catches up with what it reads, in the words of each: CondorTailer's
\* EventuallyDrained, which the plan tailer does not keep, PlanMirror's
\* MirroredPlanArrives, StageChain's NewestIsPlanned and SnapshotRace's
\* InitializerIsServed, all of the form <>[]P, and PlanTailer's WholeLinesDrained.
CaughtUp ==
    /\ part = "condor" => Condor!Drained
    /\ part = "mirror" => Mirror!NewestPlanRead
    /\ part = "stages" => NewestPlanned
    /\ part = "book" => Race!Served
ReadersCatchUp ==
    /\ LatestOnlyAdvances
    /\ <>[]CaughtUp
    /\ part = "plan" => WholeLinesDrained
=============================================================================
