------------------------------ MODULE Notifier ------------------------------
(***************************************************************************)
(* The messages mod.cservice sends to pushover: the logger hands them to a *)
(* PushoverClient, which makes a job of each for the one other thread of   *)
(* the process, a ThreadWorker with a mutex and a condition variable.  A   *)
(* rehash changes, deletes and makes the client meanwhile, and the module  *)
(* may be removed with jobs in the queue.                                  *)
(*                                                                         *)
(* What is done under the mutex of the worker is one step; notify_one()    *)
(* comes after it.  Whether a message was accepted does not matter here.   *)
(***************************************************************************)
EXTENDS Naturals, Sequences, FiniteSets, SequencesExt

CONSTANTS
    Client,     \* addresses of PushoverClient objects
    Key,        \* the user keys of the configuration
    None,
    MaxLogged   \* bound: messages logged

(* What is assumed of the constants; the module of the run assumes it.     *)
NotifierAssumption == None \notin Client \cup Key /\ MaxLogged \in Nat \ {0}

VARIABLES
    main,       \* the main thread: "run", "notify" with a job just queued,
                \* "free", "stop", "join" in ~cservice(), or "gone"
    pushover,   \* cservice::pushover
    notifiers,  \* those of the logger, which has its own shared_ptr of each
    userKeys,   \* of each object, or None where there is none
    jobs,       \* the queue: the client of each job
    stop,
    worker,     \* the thread: "check", "asleep" in cv.wait(), "send", "done"
    job,        \* the client of the job it does, and the keys left
    fault,      \* "none", "freed" or "race"
    logged, done,
    dropped     \* objects deleted by a rehash

clients == <<pushover, notifiers, userKeys, dropped>>
queue == <<jobs, stop, logged>>
thread == <<worker, job, done>>
vars == <<main, clients, queue, thread, fault>>

Exists(c) == userKeys[c] # {None}
NoJob == [client |-> None, todo |-> {}]
Walking(c) == worker = "send" /\ job.client = c
Up == fault = "none"

TypeOK ==
    /\ main \in {"run", "notify", "free", "stop", "join", "gone"}
    /\ pushover \in Client \cup {None} /\ notifiers \subseteq Client
    /\ userKeys \in [Client -> (SUBSET Key) \cup {{None}}]
    /\ jobs \in Seq(Client) /\ stop \in BOOLEAN
    /\ worker \in {"check", "asleep", "send", "done"}
    /\ job \in [client : Client \cup {None}, todo : SUBSET Key]
    /\ fault \in {"none", "freed", "race"}
    /\ logged \in 0..MaxLogged /\ done \in 0..MaxLogged /\ dropped \subseteq Client

(* The constructor of cservice, with or without pushover_enable; its first *)
(* message is queued at once.  The thread has been started before.         *)
Init ==
    /\ stop = FALSE /\ worker \in {"check", "asleep"} /\ job = NoJob
    /\ \/ pushover = None /\ main = "run" /\ jobs = <<>>
       \/ pushover \in Client /\ main = "notify" /\ jobs = <<pushover>>
    /\ notifiers = {pushover} \ {None} /\ dropped = {}
    /\ \E K \in SUBSET Key :
          userKeys = [c \in Client |-> IF c = pushover THEN K ELSE {None}]
    /\ logged = Len(jobs) /\ done = 0 /\ fault = "none"

-----------------------------------------------------------------------------
(* The main thread.                                                        *)

(* writeFunc() with a message that is important enough for the notifier;   *)
(* sendMessage() submits a job.                                            *)
Log(c) ==
    /\ Up /\ main = "run" /\ c \in notifiers /\ logged < MaxLogged
    /\ jobs' = Append(jobs, c) /\ logged' = logged + 1 /\ main' = "notify"
    /\ UNCHANGED <<clients, stop, thread, fault>>

Notified == worker' = IF worker = "asleep" THEN "check" ELSE worker

(* submitJob(), the end.                                                   *)
Notify ==
    /\ Up /\ main = "notify" /\ main' = "run"
    /\ Notified
    /\ UNCHANGED <<clients, queue, job, done, fault>>

(* rehashConfigVariables().  Keys are changed under the eyes of a thread   *)
(* that walks over them, and a client is deleted with its jobs in the      *)
(* queue.                                                                  *)
RehashKeys(K) ==
    /\ Up /\ main = "run" /\ pushover # None
    /\ userKeys' = [userKeys EXCEPT ![pushover] = K]
    /\ fault' = IF Walking(pushover) THEN "race" ELSE fault
    /\ UNCHANGED <<main, pushover, notifiers, dropped, queue, thread>>

RehashOn(c, K) ==
    /\ Up /\ main = "run" /\ pushover = None /\ ~Exists(c)
    /\ pushover' = c /\ notifiers' = notifiers \cup {c}
    /\ userKeys' = [userKeys EXCEPT ![c] = K]
    /\ UNCHANGED <<main, dropped, queue, thread, fault>>

RehashOff ==
    /\ Up /\ main = "run" /\ pushover # None
    /\ notifiers' = notifiers \ {pushover} /\ pushover' = None
    /\ userKeys' = [userKeys EXCEPT ![pushover] = {None}]
    /\ dropped' = dropped \cup {pushover}
    /\ UNCHANGED <<main, queue, thread, fault>>

(* ~cservice(): its members go in the reverse of their order, pushover     *)
(* before the worker, and the logger, which belongs to xClient, last.      *)
Unload ==
    /\ Up /\ main = "run" /\ main' = "free" /\ pushover' = None
    /\ UNCHANGED <<notifiers, userKeys, dropped, queue, thread, fault>>

(* An object goes with the last shared_ptr to it.                          *)
Freed(held) == [c \in Client |-> IF c \in held THEN userKeys[c] ELSE {None}]

(* Mutant: the logger is a member of cservice and goes before the worker.  *)
HeldByLogger_Gone == {}
HeldByLogger == notifiers

(* ~ThreadWorker()                                                         *)
Stop ==
    /\ Up /\ main = "free" /\ main' = "stop" /\ stop' = TRUE
    /\ userKeys' = Freed(HeldByLogger)
    /\ UNCHANGED <<pushover, notifiers, dropped, jobs, logged, thread, fault>>

StopNotify ==
    /\ Up /\ main = "stop" /\ main' = "join"
    /\ Notified
    /\ UNCHANGED <<clients, queue, job, done, fault>>

Join ==
    /\ Up /\ main = "join" /\ worker = "done" /\ main' = "gone"
    /\ notifiers' = {} /\ userKeys' = Freed({})
    /\ UNCHANGED <<pushover, dropped, queue, thread, fault>>

-----------------------------------------------------------------------------
(* The worker.                                                             *)

(* Mutant: a worker that is to stop leaves its queue alone.                *)
Leaves_AtOnce == stop
Leaves == stop /\ jobs = <<>>

Awake == Up /\ worker = "check"

(* cv.wait(): nothing to do, or woken for nothing.                         *)
Sleep ==
    /\ Awake /\ ~stop /\ jobs = <<>> /\ worker' = "asleep"
    /\ UNCHANGED <<main, clients, queue, job, done, fault>>

Spurious ==
    /\ Up /\ worker = "asleep" /\ worker' = "check"
    /\ UNCHANGED <<main, clients, queue, job, done, fault>>

(* run(): the next job; processMessage() starts to walk over the keys.     *)
Take ==
    /\ Awake /\ jobs # <<>> /\ ~Leaves
    /\ jobs' = Tail(jobs) /\ worker' = "send"
    /\ LET c == Head(jobs) IN
       /\ job' = [client |-> c, todo |-> userKeys[c] \ {None}]
       /\ fault' = IF Exists(c) THEN fault ELSE "freed"
    /\ UNCHANGED <<main, clients, stop, logged, done>>

(* sendToUser(), which may fail, for the next key.                         *)
Send(k) ==
    /\ Up /\ worker = "send" /\ k \in job.todo
    /\ job' = [job EXCEPT !.todo = @ \ {k}]
    /\ fault' = IF Exists(job.client) THEN fault ELSE "freed"
    /\ UNCHANGED <<main, clients, queue, worker, done>>

EndJob ==
    /\ Up /\ worker = "send" /\ job.todo = {}
    /\ worker' = "check" /\ job' = NoJob /\ done' = done + 1
    /\ UNCHANGED <<main, clients, queue, fault>>

Exit ==
    /\ Awake /\ Leaves /\ worker' = "done"
    /\ UNCHANGED <<main, clients, queue, job, done, fault>>

Main ==
    \/ \E c \in Client : Log(c) \/ \E K \in SUBSET Key : RehashOn(c, K)
    \/ \E K \in SUBSET Key : RehashKeys(K)
    \/ RehashOff \/ Unload

Goes == Notify \/ Stop \/ StopNotify \/ Join
Works == Sleep \/ Take \/ (\E k \in Key : Send(k)) \/ EndJob \/ Exit

Next == Main \/ Goes \/ Works \/ Spurious

Spec == Init /\ [][Next]_vars

(* Both threads run, and requests to pushover have a time-out.  Nobody has *)
(* to wake up for nothing.                                                 *)
FairSpec == Spec /\ WF_vars(Goes) /\ WF_vars(Works)

-----------------------------------------------------------------------------
(* Properties.                                                             *)

(* The client of a job that is waiting or being done is there, also while  *)
(* the module is being removed, unless a rehash has disabled pushover.     *)
ClientOutlivesJobs ==
    \A c \in (ToSet(jobs) \cup {job.client}) \ ({None} \cup dropped) : Exists(c)

(* Every message that was handed to the worker is sent to all keys, those  *)
(* still queued when the module is removed too, and the removal ends:      *)
(* no wake-up is lost between the two threads.                             *)
JobsRun ==
    /\ \A n \in 1..MaxLogged : logged >= n ~> done >= n \/ ~Up
    /\ main = "free" ~> main = "gone" \/ ~Up

(* The worker never uses a deleted client.                                 *)
NoUseOfDropped == fault # "freed"

(* Nobody changes keys the worker is walking over.                         *)
NoRace == fault # "race"
=============================================================================
