----------------------------- MODULE MCChanfix ------------------------------
(* Instances of the two parts of mod.openchanfix for TLC, each in          *)
(* behaviours of its own.  Fixing: two good operators and one that is      *)
(* opped only at the end of a fix.  Scores: one operator and two days.     *)
EXTENDS Fixing

CONSTANTS
    a, b, c,                            \* three of Client
    Op, daySamples, MaxPoints, MaxFail  \* of Scores

VARIABLES
    part,       \* the module that moves
    pc, today, currentDay, sqlChanOps, day, dirty, pendingDeletes, sync,
    chanOps, daily, saved, unsure, fails

S == INSTANCE Scores

GivenScores == [x \in Client |-> CASE x = a -> 60 [] x = b -> 56 [] OTHER -> 20]

ASSUME ScoresAssumed == S!ScoresAssumption

scores == <<pc, today, currentDay, sqlChanOps, day, dirty, pendingDeletes, sync,
            chanOps, daily, saved, unsure, fails>>
all == <<part, vars, scores>>

MCInit == part \in {"scores", "fixing"} /\ Init /\ S!Init
MCNext ==
    \/ part = "fixing" /\ Next /\ UNCHANGED <<part, scores>>
    \/ part = "scores" /\ S!Next /\ UNCHANGED <<part, vars>>

(* The fairness of FairSpec in Fixing and in Scores.                       *)
MCFairSpec ==
    /\ MCInit /\ [][MCNext]_all
    /\ WF_vars(part = "fixing" /\ autoFix) /\ WF_vars(part = "fixing" /\ processQueue)
    /\ WF_vars(part = "fixing" /\ Tick)
    /\ WF_scores(part = "scores" /\ S!syncToDB) /\ WF_scores(part = "scores" /\ S!Worker)
    /\ WF_scores(part = "scores" /\ S!Finishes)

(* The properties of Scores and Fixing that are about the part that moves; *)
(* see there.                                                              *)
FixLeavesNothing == VisitBelongs /\ FreshStart
TableFollows == S!TypeOK /\ S!TableFollows
RestartKeeps == S!RestartKeeps
OpsAreStored == part = "scores" => S!OpsAreStored
OpsReturn == part = "fixing" => OpsComeBack
=============================================================================
