------------------------------ MODULE MCUplink ------------------------------
(* The loop of the process with two Connection objects, and the thread of  *)
(* the notifiers beside it, each in behaviours of its own: the server and  *)
(* the scanner; objects for pushover, so that one made by a rehash may     *)
(* have the address of the old one or not, keys and messages, that of the  *)
(* constructor included.                                                   *)
EXTENDS Uplink

CONSTANTS Client, Key, MaxLogged    \* those of Notifier

VARIABLES
    part,       \* the module that moves
    main, pushover, notifiers, userKeys, jobs, stop, worker, job, misuse,
    logged, done, dropped

N == INSTANCE Notifier WITH fault <- misuse

ASSUME NotifierAssumed == N!NotifierAssumption

threads == <<main, pushover, notifiers, userKeys, jobs, stop, worker, job, misuse,
             logged, done, dropped>>

(* The part that does not move has started in one way.                     *)
MCInit ==
    /\ part \in {"uplink", "notifier"} /\ Init /\ N!Init
    /\ part = "uplink" => pushover = None /\ worker = "check"
MCNext ==
    \/ part = "uplink" /\ Next /\ UNCHANGED <<part, threads>>
    \/ part = "notifier" /\ N!Next /\ UNCHANGED <<part, vars>>

(* The fairness of FairSpec in Uplink and in Notifier.                     *)
MCFairSpec ==
    /\ MCInit /\ [][MCNext]_<<part, vars, threads>>
    /\ WF_vars(part = "uplink" /\ Loop) /\ WF_vars(part = "uplink" /\ Passes)
    /\ WF_threads(part = "notifier" /\ N!Goes) /\ WF_threads(part = "notifier" /\ N!Works)

(* The properties of Connections, Uplink and Notifier, with their type     *)
(* invariants; see there.                                                  *)
PointersLive == TypeOK /\ OneEnd /\ PointerLives
EverythingEnds == ConnectionsEnd /\ ShutdownEnds
ClientOutlivesJobs == N!TypeOK /\ N!ClientOutlivesJobs
JobsRun == part = "notifier" => N!JobsRun
=============================================================================
