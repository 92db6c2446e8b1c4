---------------------------- MODULE Uplink_proofs ----------------------------
(* Proofs about the loops of the process, for any number of connections,   *)
(* clients, keys and messages, modules and timer identifiers: the main loop*)
(* never follows a pointer to a connection that Poll() has deleted, the    *)
(* worker of the notifiers is never left without the client of a job, and  *)
(* the timers that the main loop runs keep their identifiers, their clients*)
(* and what a reload has asked for.                                        *)
EXTENDS MCUplink, TimerQueue, SequenceTheorems, WellFoundedInduction, TLAPS

CONSTANTS MaxDelay, MaxLate, MaxQueue, LoadDelay   \* those of Timers

T == INSTANCE Timers

(* What a sequence holds after an element is added or taken.               *)
LEMMA Adding ==
    ASSUME NEW A, NEW s \in Seq(A), NEW x \in A
    PROVE  /\ Append(s, x) \in Seq(A) /\ Len(Append(s, x)) = Len(s) + 1
           /\ ToSet(Append(s, x)) = ToSet(s) \cup {x}
           /\ x \notin ToSet(s) /\ IsInjective(s) => IsInjective(Append(s, x))
<1>1. /\ Append(s, x) \in Seq(A) /\ Len(Append(s, x)) = Len(s) + 1
      /\ \A i \in 1 .. Len(s) : Append(s, x)[i] = s[i]
      /\ Append(s, x)[Len(s) + 1] = x
  OBVIOUS
<1>2. /\ DOMAIN s = 1 .. Len(s) /\ DOMAIN Append(s, x) = 1 .. Len(s) + 1
      /\ Len(s) \in Nat
  BY <1>1
<1>3. \A i \in 1 .. Len(s) + 1 : i \in 1 .. Len(s) \/ i = Len(s) + 1
  BY <1>2
<1>4. 1 .. Len(s) \subseteq 1 .. Len(s) + 1 /\ Len(s) + 1 \in 1 .. Len(s) + 1
  BY <1>2
<1> DEFINE t == Append(s, x)
<1> HIDE DEF t
<1>5. ToSet(t) = ToSet(s) \cup {x}
  BY <1>1, <1>2, <1>3, <1>4 DEF ToSet, t
<1>6. x \notin ToSet(s) /\ IsInjective(s) => IsInjective(t)
  BY <1>1, <1>2, <1>3, <1>4 DEF ToSet, IsInjective, t
<1> QED
  BY <1>1, <1>5, <1>6 DEF t

LEMMA Taking ==
    ASSUME NEW A, NEW s \in Seq(A), s # <<>>
    PROVE  /\ Head(s) \in A /\ Tail(s) \in Seq(A) /\ Len(Tail(s)) = Len(s) - 1
           /\ Head(s) \in ToSet(s) /\ ToSet(Tail(s)) \subseteq ToSet(s)
<1>1. /\ Tail(s) \in Seq(A) /\ Len(Tail(s)) = Len(s) - 1
      /\ \A i \in 1 .. Len(s) - 1 : Tail(s)[i] = s[i + 1]
      /\ Head(s) = s[1] /\ s[1] \in A
      /\ 1 \in 1 .. Len(s) /\ Len(s) \in Nat
  OBVIOUS
<1>2. DOMAIN s = 1 .. Len(s) /\ DOMAIN Tail(s) = 1 .. Len(s) - 1
  BY <1>1
<1>3. \A i \in 1 .. Len(s) - 1 : i + 1 \in 1 .. Len(s)
  BY <1>1
<1> DEFINE t == Tail(s)
<1> HIDE DEF t
<1>4. ToSet(t) \subseteq ToSet(s) /\ s[1] \in ToSet(s)
  BY <1>1, <1>2, <1>3 DEF ToSet, t
<1> QED
  BY <1>1, <1>4 DEF t

-----------------------------------------------------------------------------
(* The notifier: a client is there as long as the logger has it.           *)
Held == \A c \in Client : N!Exists(c) <=> c \in notifiers

(* A job that waits or is done is of a client that is held or that a       *)
(* rehash has deleted; whoever is done has nothing left, and the module    *)
(* goes only then.                                                         *)
Jobs ==
    /\ ToSet(jobs) \subseteq notifiers \cup dropped
    /\ job.client \in notifiers \cup dropped \cup {None}
    /\ worker = "send" <=> job.client # None
    /\ worker # "send" => job = N!NoJob
    /\ pushover \in notifiers \cup {None}
    /\ main \notin {"run", "notify"} => pushover = None
    /\ stop <=> main \in {"stop", "join", "gone"}
    /\ worker = "done" => stop /\ jobs = <<>>
    /\ main = "gone" => worker = "done"
    /\ main = "gone" => notifiers = {}

(* Every message that was logged waits, is being sent or was sent.         *)
Counted ==
    logged = done + Len(jobs) + (IF worker = "send" THEN 1 ELSE 0)

NInv == N!TypeOK /\ Held /\ Jobs /\ Counted

LEMMA NInit == N!Init => NInv
<1> SUFFICES ASSUME N!Init
             PROVE  NInv
  OBVIOUS
<1>1. None \notin Client /\ None \notin Key /\ MaxLogged \in Nat \ {0}
  BY NotifierAssumed DEF N!NotifierAssumption
<1>2. PICK K \in SUBSET Key :
        userKeys = [c \in Client |-> IF c = pushover THEN K ELSE {None}]
  BY DEF N!Init
<1>3. /\ pushover \in Client \cup {None} /\ notifiers = {pushover} \ {None}
      /\ notifiers \subseteq Client /\ main \in {"run", "notify"}
  BY DEF N!Init
<1>4. K # {None}
  BY <1>1
<1>5. Held /\ userKeys \in [Client -> (SUBSET Key) \cup {{None}}]
  <2>1. \A c \in Client : userKeys[c] = IF c = pushover THEN K ELSE {None}
    BY <1>2
  <2>2. Held
    BY <1>1, <1>3, <1>4, <2>1 DEF Held, N!Exists
  <2> DEFINE Sets == (SUBSET Key) \cup {{None}}
  <2>3. K \in Sets /\ {None} \in Sets
    OBVIOUS
  <2> HIDE DEF Sets
  <2>4. userKeys \in [Client -> Sets]
    BY <1>2, <2>3
  <2> QED
    BY <2>2, <2>4 DEF Sets
<1>6. /\ jobs \in Seq(Client) /\ Len(jobs) \in 0..1 /\ ToSet(jobs) \subseteq notifiers
  <2>1. CASE jobs = <<>>
    BY <2>1 DEF ToSet
  <2>2. CASE jobs = <<pushover>> /\ pushover \in Client
    BY <1>1, <1>3, <2>2 DEF ToSet
  <2> QED
    BY <2>1, <2>2 DEF N!Init
<1>7. N!TypeOK
  <2>1. /\ stop = FALSE /\ worker \in {"check", "asleep"} /\ job = [client |-> None, todo |-> {}]
        /\ dropped = {} /\ logged = Len(jobs) /\ done = 0 /\ misuse = "none"
    BY DEF N!Init, N!NoJob
  <2>2. job \in [client : Client \cup {None}, todo : SUBSET Key]
    BY <2>1
  <2>3. logged \in 0..MaxLogged /\ done \in 0..MaxLogged
    BY <1>1, <1>6, <2>1
  <2> QED
    BY <1>3, <1>5, <1>6, <2>1, <2>2, <2>3 DEF N!TypeOK
<1>8. Jobs /\ Counted
  BY <1>3, <1>6 DEF N!Init, Jobs, Counted, N!NoJob
<1> QED
  BY <1>5, <1>7, <1>8 DEF NInv

LEMMA NStep == NInv /\ [N!Next]_threads => NInv'
<1> SUFFICES ASSUME NInv, [N!Next]_threads
             PROVE  NInv'
  OBVIOUS
<1>1. None \notin Client /\ None \notin Key /\ MaxLogged \in Nat \ {0}
  BY NotifierAssumed DEF N!NotifierAssumption
<1>2. N!TypeOK /\ Held /\ Jobs /\ Counted
  BY DEF NInv
<1>3. CASE UNCHANGED threads
  BY <1>2, <1>3 DEF NInv, threads, N!TypeOK, Held, Jobs, Counted, N!Exists
<1>4. ASSUME NEW c \in Client, N!Log(c)
      PROVE  NInv'
  <2>1. /\ Append(jobs, c) \in Seq(Client) /\ Len(Append(jobs, c)) = Len(jobs) + 1
        /\ ToSet(Append(jobs, c)) = ToSet(jobs) \cup {c}
    BY <1>2, Adding DEF N!TypeOK
  <2>2. main = "run" /\ c \in notifiers /\ jobs' = Append(jobs, c) /\ main' = "notify"
    BY <1>4 DEF N!Log
  <2>3. N!TypeOK'
    BY <1>1, <1>2, <1>4, <2>1 DEF N!Log, N!TypeOK, N!clients, N!thread
  <2>4. Held' /\ Counted'
    BY <1>2, <1>4, <2>1 DEF N!Log, Held, Counted, N!Exists, N!clients, N!thread, N!TypeOK
  <2>5. worker # "done"
    BY <1>2, <2>2 DEF Jobs
  <2>6. Jobs'
    BY <1>2, <1>4, <2>1, <2>2, <2>5 DEF N!Log, Jobs, N!clients, N!thread, N!NoJob
  <2> QED
    BY <2>3, <2>4, <2>6 DEF NInv
<1>5. CASE N!Notify \/ N!StopNotify \/ N!Sleep \/ N!Spurious
  <2>1. UNCHANGED <<jobs, logged, done, job, stop, notifiers, userKeys, pushover, dropped, misuse>>
    BY <1>5 DEF N!Notify, N!StopNotify, N!Sleep, N!Spurious, N!Notified, N!clients, N!queue
  <2>2. /\ \/ worker' = worker
           \/ worker = "asleep" /\ worker' = "check"
           \/ worker = "check" /\ worker' = "asleep"
        /\ \/ main' = main
           \/ main = "notify" /\ main' = "run"
           \/ main = "stop" /\ main' = "join"
    BY <1>5 DEF N!Notify, N!StopNotify, N!Sleep, N!Spurious, N!Notified, N!Awake
  <2>3. worker' \in {"check", "asleep", "send", "done"} /\ (worker' = "send" <=> worker = "send")
        /\ (worker' = "done" <=> worker = "done")
    BY <1>2, <2>2 DEF N!TypeOK
  <2>4. N!TypeOK' /\ Held' /\ Counted'
    BY <1>2, <2>1, <2>2, <2>3 DEF N!TypeOK, Held, Counted, N!Exists
  <2>5. Jobs'
    BY <1>2, <2>1, <2>2, <2>3 DEF Jobs, N!NoJob
  <2> QED
    BY <2>4, <2>5 DEF NInv
<1>6. ASSUME NEW K \in SUBSET Key, N!RehashKeys(K)
      PROVE  NInv'
  <2>1. /\ K # {None} /\ pushover \in notifiers /\ pushover \in Client
        /\ UNCHANGED <<main, pushover, notifiers, dropped, jobs, stop, logged, worker, job, done>>
        /\ userKeys' = [userKeys EXCEPT ![pushover] = K] /\ misuse' \in {misuse, "race"}
    BY <1>1, <1>2, <1>6 DEF N!RehashKeys, Jobs, N!TypeOK, N!queue, N!thread
  <2>2. N!TypeOK' /\ Held'
    BY <1>2, <2>1 DEF N!TypeOK, Held, N!Exists
  <2>3. Jobs' /\ Counted'
    BY <1>2, <2>1 DEF Jobs, Counted, N!NoJob
  <2> QED
    BY <2>2, <2>3 DEF NInv
<1>7. ASSUME NEW c \in Client, NEW K \in SUBSET Key, N!RehashOn(c, K)
      PROVE  NInv'
  <2>1. /\ K # {None} /\ main = "run"
        /\ UNCHANGED <<main, dropped, jobs, stop, logged, worker, job, done, misuse>>
        /\ pushover' = c /\ notifiers' = notifiers \cup {c}
        /\ userKeys' = [userKeys EXCEPT ![c] = K]
    BY <1>1, <1>7 DEF N!RehashOn, N!queue, N!thread
  <2>2. N!TypeOK' /\ Held'
    BY <1>2, <2>1 DEF N!TypeOK, Held, N!Exists
  <2>3. Jobs' /\ Counted'
    BY <1>2, <2>1 DEF Jobs, Counted, N!NoJob
  <2> QED
    BY <2>2, <2>3 DEF NInv
<1>8. CASE N!RehashOff
  <2>1. /\ pushover \in Client /\ main = "run"
        /\ UNCHANGED <<main, jobs, stop, logged, worker, job, done, misuse>>
        /\ pushover' = None /\ notifiers' = notifiers \ {pushover}
        /\ userKeys' = [userKeys EXCEPT ![pushover] = {None}]
        /\ dropped' = dropped \cup {pushover}
    BY <1>2, <1>8 DEF N!RehashOff, N!queue, N!thread, N!TypeOK
  <2>2. Held'
    BY <1>2, <2>1 DEF N!TypeOK, Held, N!Exists
  <2>3. userKeys' \in [Client -> (SUBSET Key) \cup {{None}}]
    BY <1>2, <2>1 DEF N!TypeOK
  <2>4. N!TypeOK'
    BY <1>2, <2>1, <2>3 DEF N!TypeOK
  <2>5. Jobs' /\ Counted'
    BY <1>2, <2>1 DEF Jobs, Counted, N!NoJob
  <2> QED
    BY <2>2, <2>4, <2>5 DEF NInv
<1>9. CASE N!Unload
  <2>1. /\ main = "run" /\ main' = "free" /\ pushover' = None
        /\ UNCHANGED <<notifiers, userKeys, dropped, jobs, stop, logged, worker, job, done, misuse>>
    BY <1>9 DEF N!Unload, N!queue, N!thread
  <2>2. N!TypeOK' /\ Held'
    BY <1>2, <2>1 DEF N!TypeOK, Held, N!Exists
  <2>3. Jobs' /\ Counted'
    BY <1>2, <2>1 DEF Jobs, Counted, N!NoJob
  <2> QED
    BY <2>2, <2>3 DEF NInv
<1>10. CASE N!Stop
  <2>1. /\ main = "free" /\ main' = "stop" /\ stop' = TRUE
        /\ userKeys' = [c \in Client |-> IF c \in notifiers THEN userKeys[c] ELSE {None}]
        /\ UNCHANGED <<notifiers, pushover, dropped, jobs, logged, worker, job, done, misuse>>
    BY <1>10 DEF N!Stop, N!thread, N!Freed, N!HeldByLogger
  <2>2. N!TypeOK' /\ Held'
    BY <1>2, <2>1 DEF N!TypeOK, Held, N!Exists
  <2>3. Jobs' /\ Counted'
    BY <1>2, <2>1 DEF Jobs, Counted, N!NoJob
  <2> QED
    BY <2>2, <2>3 DEF NInv
<1>11. CASE N!Join
  <2>1. /\ main = "join" /\ main' = "gone" /\ worker = "done" /\ notifiers' = {}
        /\ userKeys' = [c \in Client |-> {None}]
        /\ UNCHANGED <<pushover, dropped, jobs, stop, logged, worker, job, done, misuse>>
    BY <1>11 DEF N!Join, N!thread, N!queue, N!Freed
  <2>2. pushover = None /\ jobs = <<>> /\ job.client = None
    BY <1>2, <2>1 DEF Jobs
  <2>3. N!TypeOK' /\ Held'
    BY <1>2, <2>1 DEF N!TypeOK, Held, N!Exists
  <2>4. ToSet(jobs) = {}
    BY <2>2 DEF ToSet
  <2>5. Jobs' /\ Counted'
    BY <1>2, <2>1, <2>2, <2>4 DEF Jobs, Counted, N!NoJob
  <2> QED
    BY <2>3, <2>5 DEF NInv
<1>12. CASE N!Take
  <2> DEFINE c == Head(jobs)
  <2>1. /\ jobs # <<>> /\ worker = "check" /\ jobs' = Tail(jobs) /\ worker' = "send"
        /\ job' = [client |-> c, todo |-> userKeys[c] \ {None}]
        /\ misuse' \in {misuse, "freed"}
        /\ UNCHANGED <<main, pushover, notifiers, userKeys, dropped, stop, logged, done>>
    BY <1>12 DEF N!Take, N!Awake, N!clients
  <2>2. /\ c \in Client /\ Tail(jobs) \in Seq(Client) /\ Len(Tail(jobs)) = Len(jobs) - 1
        /\ c \in ToSet(jobs) /\ ToSet(Tail(jobs)) \subseteq ToSet(jobs) /\ Len(jobs) \in Nat
    BY <1>2, <2>1, Taking DEF N!TypeOK
  <2> HIDE DEF c
  <2>3. userKeys[c] \ {None} \in SUBSET Key
    <3>1. userKeys[c] \in SUBSET Key \/ userKeys[c] = {None}
      BY <1>2, <2>2 DEF N!TypeOK
    <3> QED
      BY <3>1
  <2>4. N!TypeOK'
    BY <1>2, <2>1, <2>2, <2>3 DEF N!TypeOK
  <2>5. Held'
    BY <1>2, <2>1 DEF Held, N!Exists
  <2>6. Counted'
    BY <1>2, <2>1, <2>2 DEF Counted, N!TypeOK
  <2>7. Jobs'
    BY <1>1, <1>2, <2>1, <2>2 DEF Jobs, N!NoJob
  <2> QED
    BY <2>4, <2>5, <2>6, <2>7 DEF NInv
<1>13. ASSUME NEW k \in Key, N!Send(k)
       PROVE  NInv'
  <2>1. /\ worker = "send" /\ job' = [job EXCEPT !.todo = @ \ {k}]
        /\ misuse' \in {misuse, "freed"}
        /\ UNCHANGED <<main, pushover, notifiers, userKeys, dropped, jobs, stop, logged, worker, done>>
    BY <1>13 DEF N!Send, N!clients, N!queue
  <2>2. job' \in [client : Client \cup {None}, todo : SUBSET Key] /\ job'.client = job.client
    BY <1>2, <2>1 DEF N!TypeOK
  <2>3. N!TypeOK' /\ Held'
    BY <1>2, <2>1, <2>2 DEF N!TypeOK, Held, N!Exists
  <2>4. Jobs' /\ Counted'
    BY <1>2, <2>1, <2>2 DEF Jobs, Counted, N!NoJob
  <2> QED
    BY <2>3, <2>4 DEF NInv
<1>14. CASE N!EndJob
  <2>1. /\ worker = "send" /\ worker' = "check" /\ job' = N!NoJob /\ done' = done + 1
        /\ UNCHANGED <<main, pushover, notifiers, userKeys, dropped, jobs, stop, logged, misuse>>
    BY <1>14 DEF N!EndJob, N!clients, N!queue
  <2>2. Len(jobs) \in Nat /\ logged \in 0..MaxLogged /\ done \in 0..MaxLogged
    BY <1>2 DEF N!TypeOK
  <2>3. Counted' /\ done' \in 0..MaxLogged
    BY <1>1, <1>2, <2>1, <2>2 DEF Counted
  <2>4. N!TypeOK' /\ Held'
    BY <1>2, <2>1, <2>3 DEF N!TypeOK, Held, N!Exists, N!NoJob
  <2>5. Jobs'
    BY <1>2, <2>1 DEF Jobs, N!NoJob
  <2> QED
    BY <2>3, <2>4, <2>5 DEF NInv
<1>15. CASE N!Exit
  <2>1. /\ worker = "check" /\ worker' = "done" /\ stop /\ jobs = <<>>
        /\ UNCHANGED <<main, pushover, notifiers, userKeys, dropped, jobs, stop, logged, job,
                       done, misuse>>
    BY <1>15 DEF N!Exit, N!Awake, N!Leaves, N!clients, N!queue
  <2>2. N!TypeOK' /\ Held'
    BY <1>2, <2>1 DEF N!TypeOK, Held, N!Exists
  <2>3. Jobs' /\ Counted'
    BY <1>2, <2>1 DEF Jobs, Counted, N!NoJob
  <2> QED
    BY <2>2, <2>3 DEF NInv
<1> QED
  BY <1>3, <1>4, <1>5, <1>6, <1>7, <1>8, <1>9, <1>10, <1>11, <1>12, <1>13, <1>14, <1>15
  DEF N!Next, N!Main, N!Goes, N!Works, N!vars, threads, N!clients, N!queue, N!thread

(* ClientOutlivesJobs of the notifier: the client of every job that waits  *)
(* or is being done is there, while the module is removed too, unless a    *)
(* rehash has disabled pushover; and no message is lost or sent twice.     *)
THEOREM ClientsOutliveJobs == N!Spec => [](ClientOutlivesJobs /\ Counted)
<1>1. NInv => ClientOutlivesJobs /\ Counted
  <2> SUFFICES ASSUME NInv
               PROVE  ClientOutlivesJobs /\ Counted
    OBVIOUS
  <2>1. N!TypeOK /\ Held /\ Jobs /\ Counted
    BY DEF NInv
  <2>2. \A c \in (ToSet(jobs) \cup {job.client}) \ ({None} \cup dropped) :
            c \in notifiers /\ c \in Client
    BY <2>1 DEF Jobs, N!TypeOK
  <2>3. N!ClientOutlivesJobs
    BY <2>1, <2>2 DEF N!ClientOutlivesJobs, Held, N!ToSet, ToSet
  <2> QED
    BY <2>1, <2>3 DEF ClientOutlivesJobs
<1>2. [N!Next]_(N!vars) => [N!Next]_threads
  BY DEF N!vars, threads, N!clients, N!queue, N!thread
<1> QED
  BY NInit, NStep, <1>1, <1>2, PTL DEF N!Spec

-----------------------------------------------------------------------------
(* The main loop.  A handler is told of the end of a connection in its     *)
(* visit; then the object is scheduled, is not visited again, and goes at  *)
(* the end of the same Poll().                                             *)
Ends ==
    /\ IsInjective(eraseMap)
    /\ \A c \in Conn :
        /\ farewells[c] <= 1
        /\ c \notin Live \/ c \in todo => farewells[c] = 0
        /\ visit.conn = c /\ visit.stage # "end" => farewells[c] = 0
        /\ farewells[c] # 0 => c \in ToSet(eraseMap) \/ (visit.conn = c /\ ~visit.ok)
        /\ visit.conn = c /\ ~visit.ok => farewells[c] # 0
        /\ pc \notin {"visit", "lastvisit"} => farewells[c] = 0
    /\ visit.conn \notin todo /\ (visit.conn = None => visit = Nobody)
    /\ pc \notin {"visit", "lastvisit"} => ~Visiting

(* The server has one connection beside those it was told the end of, and  *)
(* as long as the loop will go on nobody has asked for its end.            *)
Pointer ==
    /\ \A c \in Conn : owner[c] = Server => c = serverConnection \/ farewells[c] # 0
    /\ hubTimedOut => lastLoop
    /\ serverConnection # None /\ pc # "delete" /\ ~hubTimedOut =>
        /\ owner[serverConnection] = Server /\ farewells[serverConnection] = 0
        /\ pc \in {"top", "poll", "visit", "timers"} => serverConnection \notin ToSet(eraseMap)

UInv == TypeOK /\ eraseMap \in Seq(Conn) /\ Ends /\ Pointer

LEMMA Scheduling ==
    ASSUME eraseMap \in Seq(Conn), IsInjective(eraseMap), NEW c \in Conn
    PROVE  /\ scheduleErasure(c) \in Seq(Conn) /\ IsInjective(scheduleErasure(c))
           /\ ToSet(scheduleErasure(c)) = ToSet(eraseMap) \cup {c}
<1>1. CASE c \in ToSet(eraseMap)
  BY <1>1 DEF scheduleErasure
<1>2. CASE c \notin ToSet(eraseMap)
  BY <1>2, Adding DEF scheduleErasure
<1> QED
  BY <1>1, <1>2

LEMMA Empty == <<>> \in Seq(Conn) /\ IsInjective(<<>>) /\ ToSet(<<>>) = {}
  BY DEF IsInjective, ToSet

(* One stage of the visit of c.                                            *)
LEMMA Staging ==
    ASSUME UInv, NEW c \in Conn, visit.conn = c, visit.stage # "end",
           NEW ok \in BOOLEAN, NEW stage \in {"write", "end"}, ok \/ stage = "end",
           At(c, stage, ok),
           IF ok THEN UNCHANGED farewells ELSE Farewell(c),
           eraseMap' = eraseMap \/ eraseMap' = scheduleErasure(c),
           UNCHANGED <<owner, todo, pc>>
    PROVE  /\ Ends' /\ eraseMap' \in Seq(Conn) /\ Live' = Live
           /\ ToSet(eraseMap') \subseteq Live' /\ farewells' \in [Conn -> 0..2]
           /\ visit' \in [conn : Live' \cup {None}, stage : {"read", "write", "end"}, ok : BOOLEAN]
           /\ ok => farewells' = farewells
           /\ ~ok => farewells'[c] # 0
           /\ \A d \in Conn : farewells[d] # 0 => farewells'[d] # 0
           /\ \A d \in Conn \ {c} : farewells'[d] = farewells[d]
           /\ ToSet(eraseMap') \subseteq ToSet(eraseMap) \cup {c}
           /\ eraseMap' # eraseMap => eraseMap' = scheduleErasure(c)
<1>1. /\ TypeOK /\ CMTypeOK /\ eraseMap \in Seq(Conn) /\ Ends /\ IsInjective(eraseMap)
      /\ farewells[c] = 0 /\ None \notin Conn /\ c \in Live /\ c \notin todo
      /\ pc \in {"visit", "lastvisit"}
  BY ConnectionsAssumption DEF UInv, TypeOK, CMTypeOK, Ends, Visiting
<1>2. Live' = Live
  BY DEF Live
<1>3. /\ eraseMap' \in Seq(Conn) /\ IsInjective(eraseMap')
      /\ ToSet(eraseMap) \subseteq ToSet(eraseMap')
      /\ ToSet(eraseMap') \subseteq ToSet(eraseMap) \cup {c}
  BY <1>1, Scheduling
<1>4. visit' = [conn |-> c, stage |-> stage, ok |-> ok]
  BY DEF At
<1>5. /\ visit'.conn = c /\ visit'.stage = stage /\ visit'.ok = ok
      /\ visit' \in [conn : Live \cup {None}, stage : {"read", "write", "end"}, ok : BOOLEAN]
  BY <1>1, <1>4
<1>6. /\ farewells' \in [Conn -> 0..2] /\ farewells'[c] = IF ok THEN 0 ELSE 1
      /\ \A d \in Conn \ {c} : farewells'[d] = farewells[d]
  <2>1. CASE ~ok
    <3>1. farewells' = [farewells EXCEPT ![c] = 1]
      BY <1>1, <2>1 DEF Farewell, CMTypeOK
    <3> QED
      BY <1>1, <2>1, <3>1 DEF CMTypeOK
  <2>2. CASE ok
    BY <1>1, <2>2 DEF CMTypeOK
  <2> QED
    BY <2>1, <2>2
<1>7. ToSet(eraseMap') \subseteq Live
  BY <1>1, <1>3 DEF CMTypeOK
<1>8. Ends'
  <2>1. \A d \in Conn \ {c} :
            /\ farewells'[d] <= 1
            /\ d \notin Live \/ d \in todo => farewells'[d] = 0
            /\ farewells'[d] # 0 => d \in ToSet(eraseMap')
    BY <1>1, <1>3, <1>6 DEF Ends
  <2>2. \A d \in Conn :
            /\ farewells'[d] <= 1
            /\ d \notin Live \/ d \in todo => farewells'[d] = 0
            /\ visit'.conn = d /\ visit'.stage # "end" => farewells'[d] = 0
            /\ farewells'[d] # 0 => d \in ToSet(eraseMap') \/ (visit'.conn = d /\ ~visit'.ok)
            /\ visit'.conn = d /\ ~visit'.ok => farewells'[d] # 0
    BY <1>1, <1>5, <1>6, <2>1
  <2> QED
    BY <1>1, <1>2, <1>3, <1>5, <2>2 DEF Ends
<1>9. /\ ok => farewells' = farewells
      /\ ~ok => farewells'[c] # 0
      /\ \A d \in Conn : farewells[d] # 0 => farewells'[d] # 0
  BY <1>1, <1>6
<1> QED
  BY <1>2, <1>3, <1>5, <1>6, <1>7, <1>8, <1>9

(* A connection of h is made.                                              *)
LEMMA Connecting ==
    ASSUME UInv, NEW h \in Handler, NEW c \in Conn, Connect(h, c),
           pc' = pc \/ (pc = "top" /\ pc' = "poll"),
           UNCHANGED <<now, eraseMap, ready, visit, errors>>
    PROVE  CMTypeOK' /\ eraseMap' \in Seq(Conn) /\ Ends' /\ farewells' = farewells
<1>1. /\ TypeOK /\ CMTypeOK /\ eraseMap \in Seq(Conn) /\ Ends
      /\ None \notin Conn /\ h # None /\ MaxTime \in Nat /\ Timeout \in Nat /\ MaxOut \in Nat
  BY ConnectionsAssumption DEF UInv, TypeOK
<1>2. /\ c \notin Live /\ now + Timeout <= MaxTime
      /\ owner' = [owner EXCEPT ![c] = h]
      /\ deadline' = [deadline EXCEPT ![c] = now + Timeout]
      /\ out' = [out EXCEPT ![c] = 0] /\ farewells' = [farewells EXCEPT ![c] = 0]
      /\ todo' \in {todo, todo \cup {c}} /\ (~Visiting => todo' = todo)
      /\ UNCHANGED <<connected, flush>>
  BY DEF Connect
<1>3. farewells' = farewells
  BY <1>1, <1>2 DEF Ends, CMTypeOK
<1>4. owner' \in [Conn -> Handler \cup {None}] /\ Live' = Live \cup {c}
  BY <1>1, <1>2 DEF CMTypeOK, Live
<1>5. deadline' \in [Conn -> 0..MaxTime] /\ out' \in [Conn -> 0..MaxOut]
  BY <1>1, <1>2 DEF CMTypeOK
<1>6. CMTypeOK'
  BY <1>1, <1>2, <1>3, <1>4, <1>5 DEF CMTypeOK
<1>7. visit.conn # c /\ farewells[c] = 0
  BY <1>1, <1>2 DEF Ends, CMTypeOK
<1>8. Ends'
  BY <1>1, <1>2, <1>3, <1>4, <1>7 DEF Ends, Visiting
<1> QED
  BY <1>1, <1>3, <1>6, <1>8

LEMMA UInit == Init => UInv
<1> SUFFICES ASSUME Init
             PROVE  UInv
  OBVIOUS
<1>1. /\ None \notin Conn /\ None \notin Handler /\ Server \in Handler
      /\ MaxTime \in Nat /\ MaxOut \in Nat /\ MaxErrors \in Nat
  BY ConnectionsAssumption, UplinkAssumption
<1>2. /\ now = 0 /\ errors = 0 /\ owner = [c \in Conn |-> None] /\ connected = {} /\ flush = {}
      /\ deadline = [c \in Conn |-> 0] /\ out = [c \in Conn |-> 0] /\ farewells = [c \in Conn |-> 0]
      /\ eraseMap = <<>> /\ todo = {} /\ ready = {}
      /\ visit = [conn |-> None, stage |-> "read", ok |-> TRUE]
  BY DEF Init, CMInit, Nobody
<1>3. CMTypeOK
  BY <1>1, <1>2, Empty DEF CMTypeOK
<1>4. TypeOK
  BY <1>3 DEF TypeOK, Init
<1>5. ~Visiting
  BY <1>2 DEF Visiting
<1>6. Ends
  BY <1>1, <1>2, <1>5, Empty DEF Ends, Nobody
<1>7. Pointer
  BY <1>1, <1>2 DEF Pointer, Init
<1> QED
  BY <1>2, <1>4, <1>6, <1>7, Empty DEF UInv

(* The steps of the loop in which Poll() tells nobody of anything.         *)
LEMMA ConnectUplinkKeeps == UInv /\ ConnectUplink => UInv'
<1> SUFFICES ASSUME UInv, ConnectUplink
             PROVE  UInv'
  OBVIOUS
<1>1. TypeOK /\ CMTypeOK /\ eraseMap \in Seq(Conn) /\ Ends /\ Pointer
      /\ Server \in Handler /\ None \notin Conn /\ Server # None
  BY ConnectionsAssumption, UplinkAssumption DEF UInv, TypeOK
<1>2. /\ pc = "top" /\ serverConnection = None /\ ~lastLoop
      /\ UNCHANGED <<now, eraseMap, ready, visit, errors, keepRunning, lastLoop, hubTimedOut>>
  BY DEF ConnectUplink
<1>3. ASSUME NEW c \in Conn, Connect(Server, c), serverConnection' = c, pc' = "poll", UNCHANGED fault
      PROVE  UInv'
  <2>1. CMTypeOK' /\ eraseMap' \in Seq(Conn) /\ Ends' /\ farewells' = farewells
    BY <1>1, <1>2, <1>3, Connecting
  <2>2. TypeOK'
    BY <1>1, <1>2, <1>3, <2>1 DEF TypeOK
  <2>3. /\ c \notin Live /\ owner' = [owner EXCEPT ![c] = Server]
        /\ c \notin ToSet(eraseMap) /\ farewells[c] = 0
    BY <1>1, <1>3 DEF Connect, CMTypeOK, Ends
  <2>4. owner'[c] = Server /\ \A d \in Conn \ {c} : owner'[d] = owner[d]
    BY <1>1, <2>3 DEF CMTypeOK
  <2>5. Pointer'
    BY <1>1, <1>2, <1>3, <2>1, <2>3, <2>4 DEF Pointer
  <2> QED
    BY <2>1, <2>2, <2>5 DEF UInv
<1>4. CASE /\ fault' = "null" /\ UNCHANGED <<conns, todo, farewells, serverConnection, pc>>
  <2>1. CMTypeOK' /\ eraseMap' \in Seq(Conn)
    BY <1>1, <1>2, <1>4 DEF CMTypeOK, conns, Live
  <2>2. TypeOK'
    BY <1>1, <1>2, <1>4, <2>1 DEF TypeOK
  <2>3. Ends' /\ Pointer'
    BY <1>1, <1>2, <1>4 DEF Ends, Pointer, Live, Visiting, conns
  <2> QED
    BY <2>1, <2>2, <2>3 DEF UInv
<1> QED
  BY <1>3, <1>4 DEF ConnectUplink

LEMMA CheckIPKeeps == UInv /\ CheckIP => UInv'
<1> SUFFICES ASSUME UInv, CheckIP
             PROVE  UInv'
  OBVIOUS
<1>1. TypeOK /\ CMTypeOK /\ eraseMap \in Seq(Conn) /\ Ends /\ Pointer
      /\ Wingate \in Handler /\ None \notin Conn /\ None \notin Handler
  BY ConnectionsAssumption, UplinkAssumption DEF UInv, TypeOK
<1>2. PICK c \in Conn : Connect(Wingate, c)
  BY DEF CheckIP
<1>3. UNCHANGED <<now, eraseMap, ready, visit, errors, loop>>
  BY DEF CheckIP
<1>4. CMTypeOK' /\ eraseMap' \in Seq(Conn) /\ Ends' /\ farewells' = farewells
  BY <1>1, <1>2, <1>3, Connecting DEF loop
<1>5. TypeOK'
  BY <1>1, <1>3, <1>4 DEF TypeOK, loop
<1>6. /\ owner[c] = None /\ owner' = [owner EXCEPT ![c] = Wingate] /\ Server # None
  BY <1>1, <1>2, UplinkAssumption DEF Connect, Live, CMTypeOK
<1>7. \A d \in Conn \ {c} : owner'[d] = owner[d]
  BY <1>1, <1>6 DEF CMTypeOK
<1>8. owner'[c] = Wingate
  BY <1>1, <1>6 DEF CMTypeOK
<1>9. Pointer'
  BY <1>1, <1>3, <1>4, <1>6, <1>7, <1>8, UplinkAssumption DEF Pointer, loop, TypeOK
<1> QED
  BY <1>4, <1>5, <1>9 DEF UInv

(* What keeps the map of connections and the visits as they are, and is    *)
(* not in a visit before or after.                                         *)
LEMMA StillEnds ==
    ASSUME UInv, UNCHANGED <<owner, connected, farewells, todo, visit>>,
           eraseMap' = eraseMap \/ \E c \in Live : eraseMap' = scheduleErasure(c),
           pc' \in {"visit", "lastvisit"} \/ (~Visiting /\ pc \notin {"visit", "lastvisit"}),
           out' \in [Conn -> 0..MaxOut], flush' \subseteq Live, ready' = ready,
           now' \in 0..MaxTime, deadline' = deadline, errors' \in 0..MaxErrors
    PROVE  CMTypeOK' /\ eraseMap' \in Seq(Conn) /\ Ends'
<1>1. CMTypeOK /\ eraseMap \in Seq(Conn) /\ Ends /\ IsInjective(eraseMap) /\ Live \subseteq Conn
  BY DEF UInv, TypeOK, Ends, Live
<1>2. /\ eraseMap' \in Seq(Conn) /\ IsInjective(eraseMap')
      /\ ToSet(eraseMap) \subseteq ToSet(eraseMap') /\ ToSet(eraseMap') \subseteq Live
  <2>1. CASE eraseMap' = eraseMap
    BY <1>1, <2>1 DEF CMTypeOK
  <2>2. CASE \E c \in Live : eraseMap' = scheduleErasure(c)
    BY <1>1, <2>2, Scheduling DEF CMTypeOK
  <2> QED
    BY <2>1, <2>2
<1>3. Live' = Live
  BY DEF Live
<1>4. CMTypeOK'
  BY <1>1, <1>2, <1>3 DEF CMTypeOK
<1>5. Ends'
  BY <1>1, <1>2, <1>3 DEF Ends, Visiting
<1> QED
  BY <1>2, <1>4, <1>5

LEMMA WrittenType ==
    ASSUME CMTypeOK, NEW c \in Conn, NEW n \in {1, 2}
    PROVE  Written(c, n) \in [Conn -> 0..MaxOut]
  BY ConnectionsAssumption DEF Written, CMTypeOK

LEMMA Below ==
    ASSUME NEW a \in Nat, NEW b \in 0..a, NEW l \in 0..b
    PROVE  l \in 0..a
  OBVIOUS

LEMMA IterateKeeps == UInv /\ Iterate => UInv'
<1> SUFFICES ASSUME UInv, Iterate
             PROVE  UInv'
  OBVIOUS
<1>1. TypeOK /\ CMTypeOK /\ Ends /\ Pointer /\ ~Visiting /\ pc = "top" /\ None \notin Conn
  BY ConnectionsAssumption DEF UInv, TypeOK, Ends, Iterate
<1>2. /\ keepRunning' \in BOOLEAN /\ pc' \in {"top", "poll"} /\ fault' \in {fault, "null", "freed"}
      /\ UNCHANGED <<now, owner, connected, deadline, eraseMap, polling, errors, farewells,
                     serverConnection, lastLoop, hubTimedOut>>
  BY <1>1 DEF Iterate, StopAfter, TypeOK
<1>3. out' \in [Conn -> 0..MaxOut] /\ flush' \subseteq Live
  <2>1. CASE serverConnection = None \/ Dangling
    BY <1>1, <2>1 DEF Iterate, CMTypeOK
  <2>2. CASE serverConnection # None /\ ~Dangling
    <3>1. serverConnection \in Conn /\ (isConnected => serverConnection \in Live)
      BY <1>1, <2>2 DEF TypeOK, isConnected, CMTypeOK
    <3> QED
      BY <1>1, <2>2, <3>1, WrittenType DEF Iterate, CMTypeOK
  <2> QED
    BY <2>1, <2>2
<1>4. CMTypeOK' /\ eraseMap' \in Seq(Conn) /\ Ends'
  BY <1>1, <1>2, <1>3, StillEnds DEF polling, CMTypeOK
<1>5. TypeOK'
  BY <1>1, <1>2, <1>4 DEF TypeOK
<1>6. Pointer'
  BY <1>1, <1>2 DEF Pointer
<1> QED
  BY <1>4, <1>5, <1>6 DEF UInv

LEMMA doShutdownKeeps == UInv /\ doShutdown => UInv'
<1> SUFFICES ASSUME UInv, doShutdown
             PROVE  UInv'
  OBVIOUS
<1>1. TypeOK /\ CMTypeOK /\ Ends /\ Pointer /\ ~Visiting /\ pc = "top" /\ None \notin Conn
  BY ConnectionsAssumption DEF UInv, TypeOK, Ends, doShutdown
<1>2. UNCHANGED <<now, owner, connected, deadline, polling, errors, farewells,
                  serverConnection, keepRunning, lastLoop, hubTimedOut>>
  BY DEF doShutdown
<1>3. /\ out' \in [Conn -> 0..MaxOut] /\ flush' \subseteq Live
      /\ eraseMap' = eraseMap \/ \E c \in Live : eraseMap' = scheduleErasure(c)
      /\ \/ pc' = pc /\ fault' = "freed" /\ eraseMap' = eraseMap
         \/ pc' = "lastpoll" /\ fault' = fault
  <2>1. CASE Dangling
    BY <1>1, <2>1 DEF doShutdown, CMTypeOK
  <2>2. CASE ~Dangling /\ serverConnection = None
    <3>1. ~isConnected
      BY <1>1, <2>2 DEF isConnected, CMTypeOK, Live
    <3> QED
      BY <1>1, <2>2, <3>1 DEF doShutdown, CMTypeOK
  <2>3. CASE ~Dangling /\ serverConnection # None
    <3>1. serverConnection \in Live /\ serverConnection \in Conn
      BY <1>1, <2>3, ConnectionsAssumption, UplinkAssumption DEF Dangling, TypeOK, CMTypeOK, Live
    <3>2. eraseMap' = scheduleErasure(serverConnection) /\ flush' = flush \cup {serverConnection}
      BY <1>1, <2>3, <3>1 DEF doShutdown, Disconnect, Dangling
    <3> QED
      BY <1>1, <2>3, <3>1, <3>2, WrittenType DEF doShutdown, CMTypeOK
  <2> QED
    BY <2>1, <2>2, <2>3
<1>4. CMTypeOK' /\ eraseMap' \in Seq(Conn) /\ Ends'
  BY <1>1, <1>2, <1>3, StillEnds DEF polling, CMTypeOK
<1>5. TypeOK'
  BY <1>1, <1>2, <1>3, <1>4 DEF TypeOK
<1>6. Pointer'
  BY <1>1, <1>2, <1>3 DEF Pointer
<1> QED
  BY <1>4, <1>5, <1>6 DEF UInv

LEMMA PollKeeps == UInv /\ Poll => UInv'
<1> SUFFICES ASSUME UInv, Poll
             PROVE  UInv'
  OBVIOUS
<1>1. TypeOK /\ CMTypeOK /\ eraseMap \in Seq(Conn) /\ Ends /\ Pointer /\ ~Visiting
      /\ pc \in {"poll", "lastpoll"} /\ None \notin Conn /\ Live \subseteq Conn
  BY ConnectionsAssumption DEF UInv, TypeOK, Ends, Poll, Live
<1>2. UNCHANGED <<serverConnection, keepRunning, lastLoop, hubTimedOut, fault>>
  BY DEF Poll, LoopSame
<1>3. CASE Return /\ (UNCHANGED cmVars \/ Interrupted)
  <2>1. /\ UNCHANGED <<now, conns, eraseMap, polling, farewells>> /\ errors' \in 0..MaxErrors
        /\ pc' \in {"timers", "delete"} /\ (pc' = "timers" => pc = "poll")
    BY <1>1, <1>3, ConnectionsAssumption DEF Return, cmVars, Interrupted, CMTypeOK
  <2>2. CMTypeOK' /\ eraseMap' \in Seq(Conn) /\ Ends'
    BY <1>1, <2>1, StillEnds DEF polling, CMTypeOK, conns
  <2>3. TypeOK' /\ Pointer'
    BY <1>1, <1>2, <2>1, <2>2 DEF TypeOK, Pointer, conns
  <2> QED
    BY <2>2, <2>3 DEF UInv
<1>4. CASE Select /\ pc' = IF pc = "poll" THEN "visit" ELSE "lastvisit"
  <2>1. /\ UNCHANGED <<now, conns, eraseMap, visit, errors, farewells>> /\ todo' = Live
        /\ pc' \in {"visit", "lastvisit"} /\ (pc' = "visit" => pc = "poll")
    BY <1>1, <1>4 DEF Select
  <2>2. ready' \subseteq Conn \X {"read", "write"}
    <3>1. PICK r \in SUBSET connected, w \in SUBSET (Pending \cup {c \in connected : out[c] > 0}) :
            ready' = (r \X {"read"}) \cup (w \X {"write"})
      BY <1>4 DEF Select
    <3>2. r \subseteq Conn /\ w \subseteq Conn
      BY <1>1 DEF CMTypeOK, Pending
    <3> QED
      BY <3>1, <3>2
  <2>3. visit.conn = None /\ Live' = Live
    BY <1>1, <2>1 DEF Visiting, conns, Live
  <2>4. CMTypeOK' /\ eraseMap' \in Seq(Conn)
    BY <1>1, <2>1, <2>2, <2>3 DEF CMTypeOK, conns
  <2>5. Ends'
    BY <1>1, <2>1, <2>3 DEF Ends, Visiting, conns, Live
  <2>6. TypeOK' /\ Pointer'
    BY <1>1, <1>2, <2>1, <2>4 DEF TypeOK, Pointer, conns
  <2> QED
    BY <2>4, <2>5, <2>6 DEF UInv
<1> QED
  BY <1>3, <1>4 DEF Poll

LEMMA PollEraseKeeps == UInv /\ PollErase => UInv'
<1> SUFFICES ASSUME UInv, PollErase
             PROVE  UInv'
  OBVIOUS
<1> DEFINE gone == ToSet(eraseMap)
<1>1. /\ TypeOK /\ CMTypeOK /\ Ends /\ Pointer /\ ~Visiting /\ pc \in {"visit", "lastvisit"}
      /\ None \notin Conn /\ None # Server /\ gone \subseteq Live /\ Live \subseteq Conn
      /\ MaxOut \in Nat /\ MaxTime \in Nat
  BY ConnectionsAssumption, UplinkAssumption
  DEF UInv, TypeOK, CMTypeOK, PollErase, Polling, Live
<1>2. /\ UNCHANGED <<serverConnection, keepRunning, lastLoop, hubTimedOut, fault>>
      /\ UNCHANGED <<now, todo, visit, errors>>
      /\ pc' \in {"timers", "delete"} /\ (pc' = "timers" => pc = "visit")
  BY <1>1 DEF PollErase, LoopSame, Return, Erase
<1>3. /\ owner' = [c \in Conn |-> IF c \in gone THEN None ELSE owner[c]]
      /\ connected' = connected \ gone /\ flush' = flush \ gone
      /\ deadline' = [c \in Conn |-> IF c \in gone THEN 0 ELSE deadline[c]]
      /\ out' = [c \in Conn |-> IF c \in gone THEN 0 ELSE out[c]]
      /\ farewells' = [c \in Conn |-> IF c \in gone THEN 0 ELSE farewells[c]]
      /\ eraseMap' = <<>> /\ ready' = {}
  BY DEF PollErase, Erase, Gone
<1> HIDE DEF gone
<1>4. owner' \in [Conn -> Handler \cup {None}] /\ Live' = Live \ gone
  BY <1>1, <1>3 DEF CMTypeOK, Live
<1>5. visit.conn = None /\ todo = {}
  BY <1>1 DEF Visiting
<1>6. /\ deadline' \in [Conn -> 0..MaxTime] /\ out' \in [Conn -> 0..MaxOut]
      /\ farewells' \in [Conn -> 0..2]
  BY <1>1, <1>3 DEF CMTypeOK
<1>7. CMTypeOK'
  BY <1>1, <1>2, <1>3, <1>4, <1>5, <1>6, Empty DEF CMTypeOK
<1>8. \A c \in Conn : farewells'[c] = 0
  <2> SUFFICES ASSUME NEW c \in Conn, c \notin gone
               PROVE  farewells[c] = 0
    BY <1>3
  <2>1. farewells[c] = 0
    BY <1>1, <1>5 DEF Ends, CMTypeOK, gone
  <2> QED
    BY <2>1
<1>9. Ends'
  BY <1>1, <1>2, <1>3, <1>5, <1>8, Empty DEF Ends, Visiting
<1>10. TypeOK'
  BY <1>1, <1>2, <1>7 DEF TypeOK
<1>11. Pointer'
  <2>1. ASSUME NEW c \in Conn, owner'[c] = Server
        PROVE  c = serverConnection
    <3>1. c \notin gone /\ owner[c] = Server
      BY <1>1, <1>3, <2>1
    <3>2. farewells[c] = 0
      BY <1>3, <1>8, <3>1
    <3> QED
      BY <1>1, <3>1, <3>2 DEF Pointer
  <2>2. ASSUME serverConnection # None, pc' # "delete", ~hubTimedOut
        PROVE  owner'[serverConnection] = Server
    <3>1. /\ serverConnection \in Conn /\ owner[serverConnection] = Server
          /\ serverConnection \notin gone
      BY <1>1, <1>2, <2>2 DEF Pointer, TypeOK, gone
    <3> QED
      BY <1>3, <3>1
  <2> QED
    BY <1>1, <1>2, <1>3, <1>8, <2>1, <2>2, Empty DEF Pointer, TypeOK
<1> QED
  BY <1>3, <1>7, <1>9, <1>10, <1>11, Empty DEF UInv

LEMMA VisitsKeep == UInv /\ Visits => UInv'
<1> SUFFICES ASSUME UInv, Visits
             PROVE  UInv'
  OBVIOUS
<1>1. /\ TypeOK /\ CMTypeOK /\ eraseMap \in Seq(Conn) /\ Ends /\ Pointer
      /\ pc \in {"visit", "lastvisit"} /\ None \notin Conn /\ Live \subseteq Conn
  BY ConnectionsAssumption DEF UInv, TypeOK, Visits, Polling, Live
<1>2. UNCHANGED <<pc, serverConnection, keepRunning, lastLoop, hubTimedOut, fault>>
  BY DEF Visits, loop
<1>3. CASE Visited
  <2> DEFINE c == visit.conn
  <2>1. /\ visit.stage = "end" /\ UNCHANGED <<now, conns, todo, ready, errors, farewells>>
        /\ eraseMap' = IF visit.ok THEN eraseMap ELSE scheduleErasure(c)
        /\ visit' = [conn |-> None, stage |-> "read", ok |-> TRUE]
    BY <1>3 DEF Visited, EndVisit, Nobody
  <2>2. Live' = Live /\ UNCHANGED <<owner, connected, deadline, out, flush>>
    BY <2>1 DEF conns, Live
  <2>3. /\ eraseMap' \in Seq(Conn) /\ IsInjective(eraseMap') /\ ToSet(eraseMap') \subseteq Live
        /\ ToSet(eraseMap) \subseteq ToSet(eraseMap')
        /\ ~visit.ok => c \in ToSet(eraseMap')
        /\ \A d \in ToSet(eraseMap') : d \in ToSet(eraseMap) \/ (d = c /\ farewells[c] # 0)
    <3>1. CASE visit.ok
      BY <1>1, <2>1, <3>1 DEF Ends, CMTypeOK
    <3>2. CASE ~visit.ok /\ c \in Conn
      <4>1. c \in Live /\ farewells[c] # 0
        BY <1>1, <3>2 DEF CMTypeOK, Ends
      <4> QED
        BY <1>1, <2>1, <3>2, <4>1, Scheduling DEF Ends, CMTypeOK
    <3>3. CASE c = None
      BY <1>1, <3>3, <2>1 DEF Ends, Nobody
    <3> QED
      BY <1>1, <3>1, <3>2, <3>3 DEF CMTypeOK
  <2> HIDE DEF c
  <2>4. CMTypeOK'
    BY <1>1, <2>1, <2>2, <2>3 DEF CMTypeOK
  <2>5. Ends'
    <3>1. /\ visit'.conn = None /\ visit' = Nobody /\ visit'.conn \notin todo'
          /\ Visiting' => todo # {}
      BY <1>1, <2>1 DEF CMTypeOK, Nobody, Visiting
    <3>2. \A d \in Conn : farewells[d] # 0 => d \in ToSet(eraseMap')
      BY <1>1, <2>3 DEF Ends, c
    <3> QED
      BY <1>1, <1>2, <2>1, <2>2, <2>3, <3>1, <3>2 DEF Ends
  <2>6. TypeOK'
    BY <1>1, <1>2, <2>4 DEF TypeOK
  <2>7. Pointer'
    BY <1>1, <1>2, <2>1, <2>2, <2>3 DEF Pointer
  <2> QED
    BY <2>3, <2>4, <2>5, <2>6, <2>7 DEF UInv
<1>4. ASSUME NEW c \in Conn, Visit(c), UNCHANGED <<now, conns, eraseMap, ready, errors, farewells>>
      PROVE  UInv'
  <2> DEFINE stage == IF c \in connected THEN "read" ELSE "write"
  <2>1. /\ c \in todo /\ visit.conn = None /\ todo' = todo \ {c}
        /\ visit' = [conn |-> c, stage |-> stage, ok |-> TRUE]
        /\ UNCHANGED <<now, conns, eraseMap, ready, errors, farewells>>
    BY <1>4 DEF Visit, At, Nobody
  <2>2. Live' = Live /\ UNCHANGED <<owner, connected, deadline, out, flush>> /\ c \in Live
    BY <1>1, <2>1 DEF conns, Live, CMTypeOK
  <2>3. /\ visit'.conn = c /\ visit'.ok = TRUE
        /\ visit' \in [conn : Live \cup {None}, stage : {"read", "write", "end"}, ok : BOOLEAN]
    BY <2>1, <2>2
  <2>4. CMTypeOK'
    BY <1>1, <2>1, <2>2, <2>3 DEF CMTypeOK
  <2>5. Ends'
    BY <1>1, <1>2, <2>1, <2>2, <2>3 DEF Ends, Visiting
  <2>6. TypeOK' /\ Pointer'
    BY <1>1, <1>2, <2>1, <2>2, <2>4 DEF TypeOK, Pointer
  <2> QED
    BY <1>1, <2>1, <2>4, <2>5, <2>6 DEF UInv
<1> QED
  BY <1>3, <1>4 DEF Visits

LEMMA RestKeeps == UInv /\ (CheckTimers \/ Delete \/ Passes) => UInv'
<1> SUFFICES ASSUME UInv, CheckTimers \/ Delete \/ Passes
             PROVE  UInv'
  OBVIOUS
<1>1. /\ TypeOK /\ CMTypeOK /\ eraseMap \in Seq(Conn) /\ Ends /\ Pointer
      /\ None \notin Conn /\ None # Server /\ Live \subseteq Conn
      /\ MaxTime \in Nat /\ MaxOut \in Nat
  BY ConnectionsAssumption, UplinkAssumption DEF UInv, TypeOK, Live
<1>2. CASE CheckTimers
  <2>1. /\ UNCHANGED <<now, conns, eraseMap, polling, errors, farewells>>
        /\ UNCHANGED <<serverConnection, hubTimedOut, fault>> /\ pc = "timers" /\ pc' = "top"
        /\ lastLoop' \in BOOLEAN /\ keepRunning' \in BOOLEAN /\ (lastLoop => lastLoop')
    <3>1. UNCHANGED cmVars /\ UNCHANGED <<serverConnection, hubTimedOut, fault>>
      BY <1>2 DEF CheckTimers
    <3>2. keepRunning \in BOOLEAN /\ lastLoop \in BOOLEAN
      BY <1>1 DEF TypeOK
    <3> QED
      BY <1>2, <3>1, <3>2 DEF CheckTimers, cmVars
  <2>2. ~Visiting
    BY <1>1, <2>1 DEF Ends
  <2>3. CMTypeOK' /\ eraseMap' \in Seq(Conn) /\ Ends'
    BY <1>1, <2>1, <2>2, StillEnds DEF polling, conns, CMTypeOK
  <2>4. TypeOK' /\ Pointer'
    BY <1>1, <2>1, <2>3 DEF TypeOK, Pointer, conns
  <2> QED
    BY <2>3, <2>4 DEF UInv
<1>3. CASE Delete
  <2>1. /\ pc = "delete" /\ pc' = "end" /\ serverConnection' = None
        /\ owner' = [c \in Conn |-> None] /\ connected' = {} /\ flush' = {}
        /\ deadline' = [c \in Conn |-> 0] /\ out' = [c \in Conn |-> 0]
        /\ farewells' = [c \in Conn |-> 0] /\ eraseMap' = <<>> /\ ready' = {}
        /\ UNCHANGED <<now, todo, visit, errors, keepRunning, lastLoop, hubTimedOut, fault>>
    BY <1>3 DEF Delete
  <2>2. visit.conn = None /\ todo = {}
    BY <1>1, <2>1 DEF Ends, Visiting
  <2>3. CMTypeOK'
    BY <1>1, <2>1, <2>2, Empty DEF CMTypeOK
  <2>4. Ends'
    BY <1>1, <2>1, <2>2, Empty DEF Ends, Visiting
  <2>5. TypeOK' /\ Pointer'
    BY <1>1, <2>1, <2>3 DEF TypeOK, Pointer
  <2> QED
    BY <2>1, <2>3, <2>4, <2>5, Empty DEF UInv
<1>4. CASE Passes
  <2>1. /\ UNCHANGED <<conns, eraseMap, polling, errors, farewells>> /\ UNCHANGED loop
        /\ now' \in 0..MaxTime
    BY <1>1, <1>4 DEF Passes, Tick, CMTypeOK
  <2>2. CMTypeOK' /\ Ends'
    BY <1>1, <2>1 DEF CMTypeOK, Ends, Live, Visiting, polling, conns, loop
  <2>3. TypeOK' /\ Pointer'
    BY <1>1, <2>1, <2>2 DEF TypeOK, Pointer, loop, conns
  <2> QED
    BY <1>1, <2>1, <2>2, <2>3 DEF UInv
<1> QED
  BY <1>2, <1>3, <1>4

(* The visits in which a handler is told: what it does itself.             *)
LEMMA ServerReadsKeeps == UInv /\ ServerReads => UInv'
<1> SUFFICES ASSUME UInv, ServerReads
             PROVE  UInv'
  OBVIOUS
<1>1. /\ TypeOK /\ CMTypeOK /\ eraseMap \in Seq(Conn) /\ Ends /\ Pointer
      /\ pc \in {"visit", "lastvisit"} /\ None \notin Conn /\ None # Server
  BY ConnectionsAssumption, UplinkAssumption DEF UInv, TypeOK, ServerReads, Polling
<1>2. UNCHANGED <<now, owner, connected, deadline, flush, eraseMap, todo, ready, errors, pc, fault>>
  BY DEF ServerReads
<1>3. PICK c \in Conn, event \in {"OnRead", "OnDisconnect", "nothing"} :
        /\ owner[c] = Server /\ Reads(c, event)
        /\ CASE event = "OnRead" -> OnRead(c)
             [] event = "OnDisconnect" -> OnDisconnect(c) /\ UNCHANGED out
             [] OTHER -> ConnSame /\ UNCHANGED out
  BY DEF ServerReads
<1> DEFINE ok == event # "OnDisconnect"
           stage == IF event = "OnDisconnect" THEN "end" ELSE "write"
<1>4. visit.conn = c /\ visit.stage # "end" /\ At(c, stage, ok)
  BY <1>3 DEF Reads
<1>a. IF ok THEN UNCHANGED farewells ELSE Farewell(c)
  BY <1>3 DEF Reads
<1>b. ok \in BOOLEAN /\ stage \in {"write", "end"} /\ (ok \/ stage = "end")
  OBVIOUS
<1>c. /\ ok => OnRead(c) \/ (ConnSame /\ UNCHANGED out)
      /\ ~ok => OnDisconnect(c) /\ UNCHANGED out
  BY <1>3
<1> HIDE DEF ok, stage
<1>5. /\ Ends' /\ Live' = Live /\ farewells' \in [Conn -> 0..2]
      /\ visit' \in [conn : Live' \cup {None}, stage : {"read", "write", "end"}, ok : BOOLEAN]
      /\ ok => farewells' = farewells
      /\ ~ok => farewells'[c] # 0
      /\ \A d \in Conn : farewells[d] # 0 => farewells'[d] # 0
      /\ \A d \in Conn \ {c} : farewells'[d] = farewells[d]
  BY <1>2, <1>4, <1>a, <1>b, Staging
<1>6. farewells[c] = 0 /\ c = serverConnection
  <2>1. farewells[c] = 0
    BY <1>1, <1>4 DEF Ends
  <2> QED
    BY <1>1, <1>3, <2>1 DEF Pointer
<1>7. CASE ~ok
  <2>1. OnDisconnect(c) /\ UNCHANGED out
    BY <1>7, <1>c
  <2>2. serverConnection' = None /\ keepRunning' = FALSE /\ UNCHANGED <<lastLoop, hubTimedOut, out>>
    BY <1>6, <2>1 DEF OnDisconnect
  <2>3. CMTypeOK' /\ TypeOK'
    BY <1>1, <1>2, <1>5, <2>2 DEF CMTypeOK, TypeOK
  <2>4. Pointer'
    BY <1>1, <1>2, <1>5, <1>6, <1>7, <2>2 DEF Pointer
  <2> QED
    BY <1>1, <1>2, <1>5, <2>3, <2>4 DEF UInv
<1>8. CASE ok
  <2>1. OnRead(c) \/ (ConnSame /\ UNCHANGED out)
    BY <1>8, <1>c
  <2>2. /\ out' \in [Conn -> 0..MaxOut] /\ lastLoop' \in {lastLoop, TRUE} /\ (lastLoop => lastLoop')
        /\ UNCHANGED <<serverConnection, keepRunning, hubTimedOut>>
    <3>1. CASE OnRead(c)
      <4>1. Written(c, 1) \in [Conn -> 0..MaxOut]
        BY <1>1, WrittenType
      <4>2. out' \in {out, Written(c, 1)} /\ lastLoop' \in {lastLoop, TRUE}
        BY <3>1 DEF OnRead, ConnSame
      <4>3. /\ lastLoop' = lastLoop \/ lastLoop' = TRUE
            /\ UNCHANGED <<serverConnection, keepRunning, hubTimedOut>>
        BY <3>1 DEF OnRead, ConnSame
      <4>4. lastLoop => lastLoop'
        BY <4>3
      <4>5. out' \in [Conn -> 0..MaxOut]
        BY <1>1, <4>1, <4>2 DEF CMTypeOK
      <4> QED
        BY <4>2, <4>3, <4>4, <4>5
    <3>2. CASE ConnSame /\ UNCHANGED out
      BY <1>1, <3>2 DEF ConnSame, CMTypeOK
    <3> QED
      BY <2>1, <3>1, <3>2
  <2>3. CMTypeOK' /\ TypeOK'
    BY <1>1, <1>2, <1>5, <2>2 DEF CMTypeOK, TypeOK
  <2>4. farewells' = farewells
    BY <1>8, <1>a
  <2>5. Pointer'
    BY <1>1, <1>2, <2>2, <2>4 DEF Pointer
  <2> QED
    BY <1>1, <1>2, <1>5, <2>3, <2>5 DEF UInv
<1> QED
  BY <1>7, <1>8

LEMMA AnyWritesKeeps == UInv /\ AnyWrites => UInv'
<1> SUFFICES ASSUME UInv, AnyWrites
             PROVE  UInv'
  OBVIOUS
<1>1. /\ TypeOK /\ CMTypeOK /\ eraseMap \in Seq(Conn) /\ Ends /\ Pointer
      /\ pc \in {"visit", "lastvisit"} /\ None \notin Conn /\ None # Server /\ MaxOut \in Nat
  BY ConnectionsAssumption, UplinkAssumption DEF UInv, TypeOK, AnyWrites, Polling
<1>2. UNCHANGED <<now, owner, connected, deadline, eraseMap, todo, ready, errors, pc, fault>>
  BY DEF AnyWrites
<1>3. PICK c \in Conn, event \in {"OnDisconnect", "nothing"} :
        /\ Writes(c, event)
        /\ IF event = "OnDisconnect" /\ owner[c] = Server THEN OnDisconnect(c) ELSE ConnSame
  BY DEF AnyWrites
<1> DEFINE ok == event = "nothing"
<1>4. /\ visit.conn = c /\ visit.stage # "end" /\ flush' \subseteq flush
      /\ At(c, "end", ok)
  BY <1>3 DEF Writes
<1>a. IF ok THEN UNCHANGED farewells ELSE Farewell(c)
  BY <1>3 DEF Writes
<1>b. IF ~ok /\ owner[c] = Server THEN OnDisconnect(c) ELSE ConnSame
  BY <1>3
<1>c. ok \in BOOLEAN
  OBVIOUS
<1> HIDE DEF ok
<1>5. out' \in [Conn -> 0..MaxOut]
  <2>1. CASE \E left \in 0..out[c] : out' = [out EXCEPT ![c] = left]
    <3>1. PICK left \in 0..out[c] : out' = [out EXCEPT ![c] = left]
      BY <2>1
    <3>2. out[c] \in 0..MaxOut
      BY <1>1 DEF CMTypeOK
    <3>3. left \in 0..MaxOut
      BY <1>1, <3>2, Below
    <3> QED
      BY <1>1, <3>1, <3>3 DEF CMTypeOK
  <2>2. CASE UNCHANGED out
    BY <1>1, <2>2 DEF CMTypeOK
  <2> QED
    BY <1>3, <2>1, <2>2 DEF Writes
<1>6. /\ Ends' /\ Live' = Live /\ farewells' \in [Conn -> 0..2]
      /\ visit' \in [conn : Live' \cup {None}, stage : {"read", "write", "end"}, ok : BOOLEAN]
      /\ ok => farewells' = farewells
      /\ ~ok => farewells'[c] # 0
      /\ \A d \in Conn : farewells[d] # 0 => farewells'[d] # 0
      /\ \A d \in Conn \ {c} : farewells'[d] = farewells[d]
  BY <1>2, <1>4, <1>a, <1>c, Staging
<1>7. farewells[c] = 0 /\ (owner[c] = Server => c = serverConnection)
  <2>1. farewells[c] = 0
    BY <1>1, <1>4 DEF Ends
  <2> QED
    BY <1>1, <2>1 DEF Pointer
<1>8. /\ ~ok /\ owner[c] = Server => serverConnection' = None
      /\ ok \/ owner[c] # Server => serverConnection' = serverConnection
      /\ keepRunning' \in {keepRunning, FALSE} /\ UNCHANGED <<lastLoop, hubTimedOut>>
  BY <1>7, <1>b DEF OnDisconnect, ConnSame
<1>9. CMTypeOK' /\ TypeOK'
  BY <1>1, <1>2, <1>4, <1>5, <1>6, <1>8 DEF CMTypeOK, TypeOK
<1>10. Pointer'
  <2>1. CASE ~ok /\ owner[c] = Server
    <3>1. serverConnection' = None /\ UNCHANGED <<lastLoop, hubTimedOut, owner>>
      BY <1>2, <1>8, <2>1
    <3>2. \A d \in Conn : owner[d] = Server => farewells'[d] # 0
      BY <1>1, <1>6, <1>7, <2>1 DEF Pointer
    <3> QED
      BY <1>1, <3>1, <3>2 DEF Pointer
  <2>2. CASE ok \/ owner[c] # Server
    <3>1. /\ serverConnection' = serverConnection
          /\ UNCHANGED <<lastLoop, hubTimedOut, owner, eraseMap, pc>>
      BY <1>2, <1>8, <2>2
    <3>2. owner[serverConnection] = Server /\ serverConnection \in Conn =>
              farewells'[serverConnection] = farewells[serverConnection]
      BY <1>6, <2>2
    <3> QED
      BY <1>1, <1>6, <3>1, <3>2 DEF Pointer, TypeOK
  <2> QED
    BY <2>1, <2>2
<1> QED
  BY <1>1, <1>2, <1>6, <1>9, <1>10 DEF UInv

LEMMA ServerConnectsKeeps == UInv /\ ServerConnects => UInv'
<1> SUFFICES ASSUME UInv, ServerConnects
             PROVE  UInv'
  OBVIOUS
<1>1. /\ TypeOK /\ CMTypeOK /\ eraseMap \in Seq(Conn) /\ Ends /\ Pointer
      /\ pc \in {"visit", "lastvisit"} /\ None \notin Conn /\ None # Server
  BY ConnectionsAssumption, UplinkAssumption DEF UInv, TypeOK, ServerConnects, Polling
<1>2. UNCHANGED <<now, owner, deadline, flush, eraseMap, todo, ready, errors, pc, fault>>
  BY DEF ServerConnects
<1>3. PICK c \in Conn, event \in {"OnConnect", "OnConnectFail", "OnTimeout", "nothing"} :
        /\ owner[c] = Server /\ Connects(c, event)
        /\ serverConnection' =
                CASE event = "OnConnect" -> c [] event = "OnConnectFail" -> None
                  [] OTHER -> serverConnection
        /\ out' = IF event = "OnConnect" THEN Written(c, 2) ELSE out
        /\ keepRunning' = IF event = "OnConnectFail" THEN FALSE ELSE keepRunning
        /\ IF event = "OnTimeout" /\ c = serverConnection
           THEN lastLoop' = TRUE /\ hubTimedOut' = TRUE
           ELSE UNCHANGED <<lastLoop, hubTimedOut>>
  BY DEF ServerConnects
<1> DEFINE ok == event \in {"OnConnect", "nothing"}
<1>4. /\ visit.conn = c /\ visit.stage # "end" /\ connected' \subseteq connected \cup {c}
      /\ At(c, "end", ok)
  BY <1>3 DEF Connects
<1>a. IF ok THEN UNCHANGED farewells ELSE Farewell(c)
  <2>1. /\ event \in {"OnConnectFail", "OnTimeout"} => Farewell(c)
        /\ event \notin {"OnConnectFail", "OnTimeout"} => UNCHANGED farewells
    BY <1>3 DEF Connects
  <2>2. event \in {"OnConnectFail", "OnTimeout"} <=> ~ok
    BY <1>3
  <2> QED
    BY <2>1, <2>2
<1>b. ok \in BOOLEAN
  OBVIOUS
<1>5. /\ Ends' /\ Live' = Live /\ farewells' \in [Conn -> 0..2]
      /\ visit' \in [conn : Live' \cup {None}, stage : {"read", "write", "end"}, ok : BOOLEAN]
      /\ ok => farewells' = farewells
      /\ ~ok => farewells'[c] # 0
      /\ \A d \in Conn : farewells[d] # 0 => farewells'[d] # 0
      /\ \A d \in Conn \ {c} : farewells'[d] = farewells[d]
  <2> HIDE DEF ok
  <2> QED
    BY <1>2, <1>4, <1>a, <1>b, Staging
<1>6. farewells[c] = 0 /\ c = serverConnection /\ c \in Live
  <2>1. farewells[c] = 0
    BY <1>1, <1>4 DEF Ends
  <2> QED
    BY <1>1, <1>3, <2>1 DEF Pointer, Live
<1>7. out' \in [Conn -> 0..MaxOut]
  BY <1>1, <1>3, WrittenType DEF CMTypeOK
<1>8. /\ serverConnection' \in {serverConnection, None}
      /\ hubTimedOut' \in {hubTimedOut, TRUE} /\ lastLoop' \in {lastLoop, TRUE}
      /\ keepRunning' \in {keepRunning, FALSE}
      /\ ok => serverConnection' = serverConnection
      /\ ~ok => serverConnection' = None \/ hubTimedOut'
      /\ (hubTimedOut => hubTimedOut') /\ (hubTimedOut' => hubTimedOut \/ lastLoop')
      /\ lastLoop => lastLoop'
  BY <1>3, <1>6
<1> HIDE DEF ok
<1>9. CMTypeOK' /\ TypeOK'
  BY <1>1, <1>2, <1>4, <1>5, <1>6, <1>7, <1>8 DEF CMTypeOK, TypeOK
<1>10. Pointer'
  <2>1. hubTimedOut' => lastLoop'
    BY <1>1, <1>8 DEF Pointer
  <2>2. CASE ok
    <3>1. farewells' = farewells /\ serverConnection' = serverConnection
      BY <1>5, <1>8, <2>2
    <3>2. ~hubTimedOut' => ~hubTimedOut
      BY <1>8
    <3> QED
      BY <1>1, <1>2, <2>1, <3>1, <3>2 DEF Pointer
  <2>3. CASE ~ok
    <3>1. \A d \in Conn : owner[d] = Server => farewells'[d] # 0
      BY <1>1, <1>5, <1>6, <2>3 DEF Pointer
    <3>2. serverConnection' = None \/ hubTimedOut'
      BY <1>8, <2>3
    <3> QED
      BY <1>2, <2>1, <3>1, <3>2 DEF Pointer
  <2> QED
    BY <2>2, <2>3
<1> QED
  BY <1>1, <1>2, <1>5, <1>9, <1>10 DEF UInv

LEMMA WingateKeeps == UInv /\ (WingateReads \/ WingateConnects) => UInv'
<1> SUFFICES ASSUME UInv, WingateReads \/ WingateConnects
             PROVE  UInv'
  OBVIOUS
<1>1. /\ TypeOK /\ CMTypeOK /\ eraseMap \in Seq(Conn) /\ Ends /\ Pointer
      /\ pc \in {"visit", "lastvisit"} /\ None \notin Conn /\ Wingate # Server /\ None # Wingate
  BY ConnectionsAssumption, UplinkAssumption
  DEF UInv, TypeOK, WingateReads, WingateConnects, Polling
<1>2. /\ UNCHANGED <<now, owner, deadline, out, todo, ready, errors>> /\ UNCHANGED loop
  BY DEF WingateReads, WingateConnects
<1>3. PICK c \in Conn, ok \in BOOLEAN, stage \in {"write", "end"} :
        /\ owner[c] = Wingate /\ visit.conn = c /\ visit.stage # "end"
        /\ ok \/ stage = "end"
        /\ At(c, stage, ok)
        /\ IF ok THEN UNCHANGED farewells ELSE Farewell(c)
        /\ connected' \subseteq connected \cup {c} /\ flush' \subseteq flush \cup {c}
        /\ eraseMap' = eraseMap \/ eraseMap' = scheduleErasure(c)
  <2>1. CASE WingateReads
    <3>1. PICK c \in Conn, event \in {"OnRead", "OnDisconnect", "nothing"} :
            /\ owner[c] = Wingate /\ Reads(c, event)
            /\ IF event = "OnRead" THEN Disconnect(Wingate, c) ELSE UNCHANGED <<eraseMap, flush>>
      BY <2>1 DEF WingateReads
    <3> DEFINE ok == event # "OnDisconnect"
               stage == IF event = "OnDisconnect" THEN "end" ELSE "write"
    <3>2. visit.conn = c /\ visit.stage # "end" /\ At(c, stage, ok)
      BY <3>1 DEF Reads
    <3>a. IF ok THEN UNCHANGED farewells ELSE Farewell(c)
      BY <3>1 DEF Reads
    <3>b. ok \in BOOLEAN /\ stage \in {"write", "end"} /\ (ok \/ stage = "end")
      OBVIOUS
    <3>3. /\ flush' \subseteq flush \cup {c}
          /\ eraseMap' = eraseMap \/ eraseMap' = scheduleErasure(c)
      BY <3>1 DEF Disconnect
    <3>4. connected' = connected
      BY <2>1 DEF WingateReads
    <3> HIDE DEF ok, stage
    <3> QED
      BY <3>1, <3>2, <3>3, <3>4, <3>a, <3>b
  <2>2. CASE WingateConnects
    <3>1. PICK c \in Conn, event \in {"OnConnect", "OnConnectFail", "OnTimeout", "nothing"} :
            owner[c] = Wingate /\ Connects(c, event)
      BY <2>2 DEF WingateConnects
    <3> DEFINE ok == event \in {"OnConnect", "nothing"}
    <3>2. /\ visit.conn = c /\ visit.stage # "end" /\ connected' \subseteq connected \cup {c}
          /\ At(c, "end", ok)
      BY <3>1 DEF Connects
    <3>a. (IF ok THEN UNCHANGED farewells ELSE Farewell(c)) /\ ok \in BOOLEAN
      <4>1. /\ event \in {"OnConnectFail", "OnTimeout"} => Farewell(c)
            /\ event \notin {"OnConnectFail", "OnTimeout"} => UNCHANGED farewells
        BY <3>1 DEF Connects
      <4>2. event \in {"OnConnectFail", "OnTimeout"} <=> ~ok
        BY <3>1
      <4> QED
        BY <4>1, <4>2
    <3>3. flush' = flush /\ eraseMap' = eraseMap
      BY <2>2 DEF WingateConnects
    <3> HIDE DEF ok
    <3> QED
      BY <3>1, <3>2, <3>3, <3>a
  <2> QED
    BY <2>1, <2>2
<1>4. /\ Ends' /\ eraseMap' \in Seq(Conn) /\ Live' = Live
      /\ ToSet(eraseMap') \subseteq Live' /\ farewells' \in [Conn -> 0..2]
      /\ visit' \in [conn : Live' \cup {None}, stage : {"read", "write", "end"}, ok : BOOLEAN]
      /\ \A d \in Conn \ {c} : farewells'[d] = farewells[d]
      /\ ToSet(eraseMap') \subseteq ToSet(eraseMap) \cup {c}
  BY <1>2, <1>3, Staging DEF loop
<1>5. c \in Live
  BY <1>1, <1>3 DEF Live
<1>6. CMTypeOK'
  BY <1>1, <1>2, <1>3, <1>4, <1>5 DEF CMTypeOK
<1>7. TypeOK'
  BY <1>1, <1>2, <1>6 DEF TypeOK, loop
<1>8. Pointer'
  <2>1. \A d \in Conn : owner'[d] = Server => d # c
    BY <1>1, <1>2, <1>3
  <2> QED
    BY <1>1, <1>2, <1>4, <2>1 DEF Pointer, loop, TypeOK
<1> QED
  BY <1>4, <1>6, <1>7, <1>8 DEF UInv

(* PointersLive of the main loop: unless the attempt to connect timed out, *)
(* its pointer leads to a connection of the server, in whatever order      *)
(* connections are made, refused, closed by either side and erased; and    *)
(* every handler is told once that a connection is over, every object      *)
(* erased once.                                                            *)
THEOREM PointersStayAlive == Spec => []PointersLive
<1>1. UInv /\ [Next]_vars => UInv'
  <2> SUFFICES ASSUME UInv, [Next]_vars
               PROVE  UInv'
    OBVIOUS
  <2>1. CASE UNCHANGED vars
    <3>1. UNCHANGED <<now, conns, eraseMap, polling, errors, farewells>> /\ UNCHANGED loop
      BY <2>1 DEF vars, cmVars
    <3>2. /\ UNCHANGED <<now, owner, connected, deadline, out, flush, eraseMap, todo, ready,
                         visit, errors, farewells>>
          /\ UNCHANGED <<pc, serverConnection, keepRunning, lastLoop, hubTimedOut, fault>>
      BY <3>1 DEF conns, polling, loop
    <3> QED
      BY <3>2 DEF UInv, TypeOK, CMTypeOK, Ends, Pointer, Live, Visiting
  <2> QED
    BY <2>1, ConnectUplinkKeeps, CheckIPKeeps, IterateKeeps, doShutdownKeeps, PollKeeps,
       PollEraseKeeps, VisitsKeep, RestKeeps, ServerReadsKeeps, AnyWritesKeeps,
       ServerConnectsKeeps, WingateKeeps
    DEF Next, Loop
<1>2. UInv => PointersLive
  BY DEF UInv, PointersLive, OneEnd, PointerLives, Ends, Pointer, Dangling, Live, TypeOK
<1> QED
  BY UInit, <1>1, <1>2, PTL DEF Spec

-----------------------------------------------------------------------------
(* The timer system.                                                       *)

(* getUniqueTimerID() returns an identifier that is not in use, as long as *)
(* there is one.                                                           *)
LEMMA FirstFreeIsFree ==
    ASSUME T!TimersAssumption, NEW from \in T!TimerID, NEW used, T!TimerID \ used # {}
    PROVE  /\ T!FirstFree(from, used) \in T!TimerID
           /\ T!FirstFree(from, used) \notin used
<1> DEFINE D == {T!Distance(from, i) : i \in T!TimerID \ used}
<1>1. D \subseteq Nat /\ D # {}
  BY DEF T!TimersAssumption, T!TimerID, T!Distance
<1>2. PICK d \in D : \A e \in D : ~(<<e, d>> \in OpToRel(<, Nat))
  BY <1>1, NatLessThanWellFounded, WFMin
<1>3. \A e \in D : d <= e
  <2> SUFFICES ASSUME NEW e \in D PROVE d <= e
    OBVIOUS
  <2>1. ~(e < d)
    BY <1>1, <1>2 DEF OpToRel
  <2> QED
    BY <1>1, <2>1
<1>4. \E i \in T!TimerID \ used :
         \A j \in T!TimerID \ used : T!Distance(from, i) <= T!Distance(from, j)
  BY <1>3
<1> QED
  BY <1>4 DEF T!FirstFree

LEMMA SuccessorType ==
    ASSUME T!TimersAssumption
    PROVE  \A i \in T!TimerID : T!Successor(i) \in T!TimerID
  BY DEF T!TimersAssumption, T!TimerID, T!Successor

(* A handler is on the stack only during CheckTimers(), and nothing is     *)
(* pending after doShutdown().                                             *)
Stack ==
    /\ info # T!NoTimer => checking
    /\ ~running => ~checking /\ timerQueue = {}

TInv ==
    /\ T!TypeOK
    /\ Stack
    /\ T!TimerIDsUnique
    /\ T!NoTimerOfDetached
    /\ T!LoadBehindUnload
    /\ T!ReloadNeverLosesClient

LEMMA NoTimerIsNotATimer ==
    ASSUME T!TimersAssumption
    PROVE  T!NoTimer \notin T!Timer
  BY DEF T!TimersAssumption, T!NoTimer, T!Timer, T!TimerID

LEMMA RequestType ==
    ASSUME T!TimersAssumption, NEW ID \in T!TimerID, NEW absTime \in -MaxLate .. MaxDelay,
           NEW kind \in {"client", "load", "unload"}, NEW c \in Module
    PROVE  T!Request(ID, absTime, kind, c) \in T!Timer
  BY DEF T!Request, T!Timer, T!Handler

LEMMA TInit ==
    ASSUME T!TimersAssumption
    PROVE  T!Init => TInv
<1> SUFFICES ASSUME T!Init PROVE TInv
  OBVIOUS
<1>1. T!TypeOK /\ Stack
  <2>1. 1 \in T!TimerID /\ 0 \in -MaxLate .. 0
    BY DEF T!TimersAssumption, T!TimerID
  <2> QED
    BY <2>1 DEF T!Init, T!TypeOK, Stack
<1>2. T!Active = {}
  BY DEF T!Init, T!Active
<1>3. T!TimerIDsUnique /\ T!NoTimerOfDetached
  BY <1>2 DEF T!Init, T!TimerIDsUnique, T!NoTimerOfDetached
<1>4. T!LoadBehindUnload /\ T!ReloadNeverLosesClient
  BY DEF T!Init, T!LoadBehindUnload, T!ReloadNeverLosesClient
<1> QED
  BY <1>1, <1>3, <1>4 DEF TInv

LEMMA RegisterTimerStep ==
    ASSUME T!TimersAssumption, TInv, NEW c \in Module, NEW delay \in T!Delays,
           T!RegisterTimer(c, delay)
    PROVE  TInv'
<1> DEFINE ID == T!FirstFree(lastTimerID, uniqueTimerMap)
<1> DEFINE new == T!Request(ID, delay, "client", c)
<1>1. ID \in T!TimerID /\ ID \notin uniqueTimerMap
  BY FirstFreeIsFree DEF TInv, T!TypeOK, T!RegisterTimer
<1>2. new \in T!Timer /\ new.ID = ID /\ new.theHandler.kind = "client"
                    /\ new.theHandler.client = c
  BY <1>1, RequestType DEF T!Delays, T!Request
<1>3. /\ timerQueue' = timerQueue \cup {new}
      /\ uniqueTimerMap' = uniqueTimerMap \cup {ID}
      /\ lastTimerID' = T!Successor(ID)
      /\ UNCHANGED <<checking, started, info, attached, failed, running>>
      /\ c \in attached /\ running
  BY DEF T!RegisterTimer, T!InClientCode
<1>4. T!Active' = T!Active \cup {new}
  BY <1>3 DEF T!Active
<1> HIDE DEF ID, new
<1>5. T!TypeOK'
  BY <1>1, <1>2, <1>3, SuccessorType DEF TInv, T!TypeOK
<1>6. Stack'
  BY <1>3 DEF TInv, Stack
<1>7. T!TimerIDsUnique'
  <2>1. \A t \in T!Active : t.ID # ID
    BY <1>1 DEF TInv, T!TimerIDsUnique
  <2> QED
    BY <1>2, <1>3, <1>4, <2>1 DEF TInv, T!TimerIDsUnique, T!Active
<1>8. T!NoTimerOfDetached'
  BY <1>2, <1>3, <1>4 DEF TInv, T!NoTimerOfDetached
<1>9. T!LoadBehindUnload'
  BY <1>2, <1>3, <1>4 DEF TInv, T!LoadBehindUnload, T!Queued
<1>10. T!ReloadNeverLosesClient'
  BY <1>3 DEF TInv, T!ReloadNeverLosesClient, T!Queued
<1> QED
  BY <1>5, <1>6, <1>7, <1>8, <1>9, <1>10 DEF TInv

LEMMA ReloadStep ==
    ASSUME T!TimersAssumption, TInv, NEW c \in Module, T!Reload(c)
    PROVE  TInv'
<1> DEFINE u == T!FirstFree(lastTimerID, uniqueTimerMap)
<1> DEFINE l == T!FirstFree(T!Successor(u), uniqueTimerMap \cup {u})
<1> DEFINE unload == T!Request(u, 0, "unload", c)
<1> DEFINE load == T!Request(l, LoadDelay, "load", c)
<1>1. u \in T!TimerID /\ u \notin uniqueTimerMap
  BY FirstFreeIsFree DEF TInv, T!TypeOK, T!Reload
<1>2. l \in T!TimerID /\ l \notin uniqueTimerMap \cup {u}
  <2>1. T!TimerID \ (uniqueTimerMap \cup {u}) # {}
    BY DEF T!Reload
  <2>2. T!Successor(u) \in T!TimerID
    BY <1>1, SuccessorType
  <2> QED
    BY <2>1, <2>2, FirstFreeIsFree
<1>3. /\ unload \in T!Timer /\ unload.ID = u /\ unload.absTime = 0
      /\ unload.theHandler.kind = "unload" /\ unload.theHandler.client = c
  BY <1>1, RequestType DEF T!TimersAssumption, T!Request
<1>4. /\ load \in T!Timer /\ load.ID = l /\ load.absTime = LoadDelay
      /\ load.theHandler.kind = "load" /\ load.theHandler.client = c
  BY <1>2, RequestType DEF T!TimersAssumption, T!Request
<1>5. /\ timerQueue' = timerQueue \cup {unload, load}
      /\ uniqueTimerMap' = uniqueTimerMap \cup {u, l}
      /\ lastTimerID' = T!Successor(l)
      /\ UNCHANGED <<checking, started, info, attached, failed, running>>
      /\ c \in attached /\ running
  BY DEF T!Reload, T!InClientCode
<1>6. T!Active' = T!Active \cup {unload, load}
  BY <1>5 DEF T!Active
<1> HIDE DEF u, l, unload, load
<1>7. T!TypeOK'
  BY <1>1, <1>2, <1>3, <1>4, <1>5, SuccessorType DEF TInv, T!TypeOK
<1>8. Stack'
  BY <1>5 DEF TInv, Stack
<1>9. T!TimerIDsUnique'
  <2>1. \A t \in T!Active : t.ID # u /\ t.ID # l
    BY <1>1, <1>2 DEF TInv, T!TimerIDsUnique
  <2> QED
    BY <1>2, <1>3, <1>4, <1>5, <1>6, <2>1
    DEF TInv, T!TimerIDsUnique, T!Active
<1>10. T!NoTimerOfDetached'
  BY <1>3, <1>4, <1>5, <1>6 DEF TInv, T!NoTimerOfDetached
<1>11. T!LoadBehindUnload'
  <2>1. load.absTime > unload.absTime
    BY <1>3, <1>4 DEF T!TimersAssumption
  <2> QED
    BY <1>3, <1>4, <1>5, <2>1 DEF TInv, T!LoadBehindUnload, T!Queued
<1>12. T!ReloadNeverLosesClient'
  BY <1>5 DEF TInv, T!ReloadNeverLosesClient, T!Queued
<1> QED
  BY <1>7, <1>8, <1>9, <1>10, <1>11, <1>12 DEF TInv

LEMMA UnRegisterTimerStep ==
    ASSUME T!TimersAssumption, TInv, NEW t \in timerQueue, T!UnRegisterTimer(t)
    PROVE  TInv'
<1>1. /\ timerQueue' = timerQueue \ {t}
      /\ uniqueTimerMap' = uniqueTimerMap \ {t.ID}
      /\ UNCHANGED <<lastTimerID, checking, started, info, attached, failed,
                     running>>
      /\ t.theHandler.kind = "client"
  BY DEF T!UnRegisterTimer
<1>2. T!Active' \subseteq T!Active
  BY <1>1 DEF T!Active
<1>3. t \notin T!Active' \/ t = info
  BY <1>1 DEF T!Active
<1>4. T!TypeOK'
  BY <1>1 DEF TInv, T!TypeOK
<1>5. Stack'
  BY <1>1 DEF TInv, Stack
<1>6. T!TimerIDsUnique'
  BY <1>1, <1>2, <1>3 DEF TInv, T!TimerIDsUnique, T!Active
<1>7. T!NoTimerOfDetached'
  BY <1>1, <1>2 DEF TInv, T!NoTimerOfDetached
<1>8. T!LoadBehindUnload'
  BY <1>1 DEF TInv, T!LoadBehindUnload, T!Queued
<1>9. T!ReloadNeverLosesClient'
  BY <1>1 DEF TInv, T!ReloadNeverLosesClient, T!Queued
<1> QED
  BY <1>4, <1>5, <1>6, <1>7, <1>8, <1>9 DEF TInv

LEMMA BeginOnTimerStep ==
    ASSUME T!TimersAssumption, TInv, NEW t \in timerQueue, T!BeginOnTimer(t)
    PROVE  TInv'
<1> DEFINE c == t.theHandler.client
<1>1. /\ checking /\ info = T!NoTimer
      /\ \A s \in timerQueue : t.absTime <= s.absTime
      /\ timerQueue' = timerQueue \ {t} /\ info' = t
      /\ UNCHANGED <<uniqueTimerMap, lastTimerID, checking, started, running>>
  BY DEF T!BeginOnTimer, T!IsTop
<1>2. /\ attached \subseteq attached'
      /\ t.theHandler.kind = "load" => c \in attached' \cup failed'
      /\ attached' \subseteq attached \cup {c}
      /\ failed' \subseteq failed \cup {c}
      /\ \A d \in Module : d # c /\ d \in failed => d \in failed'
      /\ t.theHandler.kind # "load" => failed' = failed
  BY DEF T!BeginOnTimer
<1>3. t \in T!Timer /\ t \in T!Active /\ t # T!NoTimer /\ c \in Module
  BY NoTimerIsNotATimer DEF TInv, T!TypeOK, T!Timer, T!Handler, T!Active
<1>4. T!Active' = T!Active
  BY <1>1, <1>3 DEF T!Active
<1>5. T!TypeOK'
  BY <1>1, <1>2, <1>3 DEF TInv, T!TypeOK
<1>6. Stack'
  BY <1>1 DEF TInv, Stack
<1>7. T!TimerIDsUnique'
  BY <1>1, <1>4 DEF TInv, T!TimerIDsUnique
<1>8. T!NoTimerOfDetached'
  BY <1>2, <1>4 DEF TInv, T!NoTimerOfDetached
<1>9. T!LoadBehindUnload'
  <2>1. ASSUME NEW u \in timerQueue, u.theHandler.kind = "unload"
        PROVE  \E l \in T!Queued("load", u.theHandler.client)' :
                    l.absTime > u.absTime
    <3>1. PICK l \in T!Queued("load", u.theHandler.client) :
                    l.absTime > u.absTime
      BY <2>1 DEF TInv, T!LoadBehindUnload
    <3>2. l # t
      BY <1>1, <3>1 DEF TInv, T!TypeOK, T!Timer
    <3> QED
      BY <1>1, <3>1, <3>2 DEF T!Queued
  <2> QED
    BY <1>1, <2>1 DEF T!LoadBehindUnload
<1>10. T!ReloadNeverLosesClient'
  <2> SUFFICES ASSUME running', NEW d \in Module,
                      d \notin attached', d \notin failed'
               PROVE  T!Queued("load", d)' # {}
    BY DEF T!ReloadNeverLosesClient
  <2>1. CASE d = c /\ t.theHandler.kind = "load"
    BY <1>2, <2>1
  <2>2. CASE ~(d = c /\ t.theHandler.kind = "load")
    <3>1. d \notin attached /\ d \notin failed /\ running
      BY <1>1, <1>2, <2>2
    <3>2. PICK l \in timerQueue : /\ l.theHandler.kind = "load"
                                  /\ l.theHandler.client = d
      BY <3>1 DEF TInv, T!ReloadNeverLosesClient, T!Queued
    <3> QED
      BY <1>1, <2>2, <3>2 DEF T!Queued
  <2> QED
    BY <2>1, <2>2
<1> QED
  BY <1>5, <1>6, <1>7, <1>8, <1>9, <1>10 DEF TInv

LEMMA EndOnTimerStep ==
    ASSUME T!TimersAssumption, TInv, T!EndOnTimer
    PROVE  TInv'
<1> DEFINE c == info.theHandler.client
<1>1. /\ checking /\ info # T!NoTimer /\ info' = T!NoTimer
      /\ uniqueTimerMap' = uniqueTimerMap \ {info.ID}
      /\ UNCHANGED <<lastTimerID, checking, started, failed, running>>
  BY DEF T!EndOnTimer
<1>2. \/ /\ info.theHandler.kind = "unload"
         /\ attached' = attached \ {c}
         /\ timerQueue' = timerQueue \ T!Queued("client", c)
      \/ UNCHANGED <<attached, timerQueue>>
  BY DEF T!EndOnTimer, T!WithoutTimersOf
<1>3. /\ timerQueue' \subseteq timerQueue
      /\ T!Active' = timerQueue'
      /\ \A t \in timerQueue : t.theHandler.kind # "client" => t \in timerQueue'
  BY <1>1, <1>2 DEF T!Active, T!Queued
<1>4. T!TypeOK'
  BY <1>1, <1>2, <1>3 DEF TInv, T!TypeOK
<1>5. Stack'
  BY <1>1, <1>3 DEF TInv, Stack
<1>6. T!TimerIDsUnique'
  BY <1>1, <1>3 DEF TInv, T!TimerIDsUnique, T!Active
<1>7. T!NoTimerOfDetached'
  BY <1>2, <1>3 DEF TInv, T!NoTimerOfDetached, T!Active, T!Queued
<1>8. T!LoadBehindUnload'
  <2> SUFFICES ASSUME NEW u \in timerQueue, u.theHandler.kind = "unload"
               PROVE  \E l \in T!Queued("load", u.theHandler.client)' :
                        l.absTime > u.absTime
    BY <1>1, <1>3 DEF T!LoadBehindUnload
  <2>1. PICK l \in T!Queued("load", u.theHandler.client) : l.absTime > u.absTime
    BY DEF TInv, T!LoadBehindUnload
  <2> QED
    BY <1>3, <2>1 DEF T!Queued
<1>9. T!ReloadNeverLosesClient'
  <2> SUFFICES ASSUME running', NEW d \in Module,
                      d \notin attached', d \notin failed'
               PROVE  T!Queued("load", d)' # {}
    BY DEF T!ReloadNeverLosesClient
  <2>1. T!Queued("load", d) # {}
    <3>1. CASE d \notin attached
      BY <1>1, <3>1 DEF TInv, T!ReloadNeverLosesClient
    <3>2. CASE d \in attached
      BY <1>1, <1>2, <3>2 DEF TInv, T!LoadBehindUnload
    <3> QED
      BY <3>1, <3>2
  <2> QED
    BY <1>3, <2>1 DEF T!Queued
<1> QED
  BY <1>4, <1>5, <1>6, <1>7, <1>8, <1>9 DEF TInv

LEMMA TickStep ==
    ASSUME T!TimersAssumption, TInv, T!Tick
    PROVE  TInv'
<1> DEFINE Earlier(t) == [t EXCEPT !.absTime = @ - 1]
<1>1. /\ timerQueue' = {Earlier(t) : t \in timerQueue}
      /\ \A t \in timerQueue : t.absTime > -MaxLate
      /\ checking => started > -MaxLate
      /\ started' = IF checking THEN started - 1 ELSE started
      /\ running
      /\ UNCHANGED <<uniqueTimerMap, lastTimerID, checking, info, attached,
                     failed, running>>
  BY DEF T!Tick
<1>2. \A t \in timerQueue :
        /\ Earlier(t) \in T!Timer /\ Earlier(t) \in timerQueue'
        /\ Earlier(t).ID = t.ID /\ Earlier(t).theHandler = t.theHandler
        /\ Earlier(t).absTime = t.absTime - 1 /\ t.absTime \in Int
  <2> SUFFICES ASSUME NEW t \in timerQueue
               PROVE  /\ Earlier(t) \in T!Timer /\ Earlier(t) \in timerQueue'
                      /\ Earlier(t).ID = t.ID
                      /\ Earlier(t).theHandler = t.theHandler
                      /\ Earlier(t).absTime = t.absTime - 1
                      /\ t.absTime \in Int
    OBVIOUS
  <2>1. t \in T!Timer
    BY DEF TInv, T!TypeOK
  <2>2. t.absTime - 1 \in -MaxLate .. MaxDelay /\ t.absTime \in Int
    BY <1>1, <2>1 DEF T!TimersAssumption, T!Timer
  <2>3. Earlier(t) = [ID |-> t.ID, absTime |-> t.absTime - 1,
                      theHandler |-> t.theHandler]
    BY <2>1 DEF T!Timer
  <2> HIDE DEF Earlier
  <2>4. Earlier(t) \in T!Timer
    BY <2>1, <2>2, <2>3 DEF T!Timer
  <2>5. Earlier(t) \in timerQueue'
    BY <1>1 DEF Earlier
  <2> QED
    BY <2>2, <2>3, <2>4, <2>5
<1>3. \A s \in timerQueue' : \E t \in timerQueue : s = Earlier(t)
  BY <1>1
<1> HIDE DEF Earlier
<1>4. T!TypeOK'
  <2>1. started' \in -MaxLate .. 0
    BY <1>1 DEF T!TimersAssumption, TInv, T!TypeOK
  <2> QED
    BY <1>1, <1>2, <1>3, <2>1 DEF TInv, T!TypeOK
<1>5. Stack'
  BY <1>1 DEF TInv, Stack
<1>6. T!TimerIDsUnique'
  <2>1. \A s, t \in timerQueue : s.ID = t.ID => s = t
    BY DEF TInv, T!TimerIDsUnique
  <2>2. \A s, t \in timerQueue' : s.ID = t.ID => s = t
    BY <1>2, <1>3, <2>1
  <2>3. info' # T!NoTimer => \A t \in timerQueue' : t.ID # info'.ID
    BY <1>1, <1>2, <1>3 DEF TInv, T!TimerIDsUnique
  <2>4. \A t \in T!Active' : t.ID \in uniqueTimerMap'
    BY <1>1, <1>2, <1>3 DEF TInv, T!TimerIDsUnique, T!Active
  <2> QED
    BY <2>2, <2>3, <2>4 DEF T!TimerIDsUnique
<1>7. T!NoTimerOfDetached'
  BY <1>1, <1>2, <1>3 DEF TInv, T!NoTimerOfDetached, T!Active
<1>8. \A d : T!Queued("load", d) # {} => T!Queued("load", d)' # {}
  BY <1>2 DEF T!Queued
<1>9. T!LoadBehindUnload'
  <2>1. ASSUME NEW s \in timerQueue', s.theHandler.kind = "unload"
        PROVE  \E l \in T!Queued("load", s.theHandler.client)' :
                    l.absTime > s.absTime
    <3>1. PICK u \in timerQueue : s = Earlier(u)
      BY <1>3
    <3>2. PICK l \in T!Queued("load", u.theHandler.client) :
                    l.absTime > u.absTime
      BY <1>2, <2>1, <3>1 DEF TInv, T!LoadBehindUnload
    <3>3. l \in timerQueue
      BY <3>2 DEF T!Queued
    <3>4. Earlier(l).absTime > s.absTime
      BY <1>2, <3>1, <3>2, <3>3
    <3> QED
      BY <1>2, <3>1, <3>2, <3>3, <3>4 DEF T!Queued
  <2> QED
    BY <1>1, <1>8, <2>1 DEF TInv, T!LoadBehindUnload
<1>10. T!ReloadNeverLosesClient'
  BY <1>1, <1>8 DEF TInv, T!ReloadNeverLosesClient
<1> QED
  BY <1>4, <1>5, <1>6, <1>7, <1>9, <1>10 DEF TInv

(* Every step of the timer system keeps the invariant.                     *)
LEMMA TStep ==
    ASSUME T!TimersAssumption
    PROVE  TInv /\ [T!Next]_(T!vars) => TInv'
<1> SUFFICES ASSUME TInv, [T!Next]_(T!vars)
             PROVE  TInv'
  OBVIOUS
<1>1. ASSUME NEW c \in Module, NEW delay \in T!Delays,
             T!RegisterTimer(c, delay)
      PROVE  TInv'
  BY <1>1, RegisterTimerStep
<1>2. ASSUME NEW t \in timerQueue, T!UnRegisterTimer(t) PROVE TInv'
  BY <1>2, UnRegisterTimerStep
<1>3. ASSUME NEW c \in Module, T!Reload(c) PROVE TInv'
  BY <1>3, ReloadStep
<1>4. CASE T!BeginCheckTimers
  <2>1. 0 \in -MaxLate .. 0
    BY DEF T!TimersAssumption
  <2>2. T!TypeOK' /\ Stack'
    BY <1>4, <2>1 DEF T!BeginCheckTimers, TInv, T!TypeOK, Stack
  <2>3. T!Active' = T!Active /\ \A kind, c : T!Queued(kind, c)' = T!Queued(kind, c)
    BY <1>4 DEF T!BeginCheckTimers, T!Active, T!Queued
  <2>4. T!TimerIDsUnique' /\ T!NoTimerOfDetached'
    BY <1>4, <2>3 DEF T!BeginCheckTimers, TInv, T!TimerIDsUnique, T!NoTimerOfDetached
  <2>5. T!LoadBehindUnload' /\ T!ReloadNeverLosesClient'
    BY <1>4, <2>3 DEF T!BeginCheckTimers, TInv, T!LoadBehindUnload, T!ReloadNeverLosesClient
  <2> QED
    BY <2>2, <2>4, <2>5 DEF TInv
<1>5. ASSUME NEW t \in timerQueue, T!BeginOnTimer(t) PROVE TInv'
  BY <1>5, BeginOnTimerStep
<1>6. CASE T!EndOnTimer
  BY <1>6, EndOnTimerStep
<1>7. CASE T!EndCheckTimers
  <2>1. 0 \in -MaxLate .. 0
    BY DEF T!TimersAssumption
  <2>2. T!TypeOK' /\ Stack'
    BY <1>7, <2>1 DEF T!EndCheckTimers, TInv, T!TypeOK, Stack
  <2>3. T!Active' = T!Active /\ \A kind, c : T!Queued(kind, c)' = T!Queued(kind, c)
    BY <1>7 DEF T!EndCheckTimers, T!Active, T!Queued
  <2>4. T!TimerIDsUnique' /\ T!NoTimerOfDetached'
    BY <1>7, <2>3 DEF T!EndCheckTimers, TInv, T!TimerIDsUnique, T!NoTimerOfDetached
  <2>5. T!LoadBehindUnload' /\ T!ReloadNeverLosesClient'
    BY <1>7, <2>3 DEF T!EndCheckTimers, TInv, T!LoadBehindUnload, T!ReloadNeverLosesClient
  <2> QED
    BY <2>2, <2>4, <2>5 DEF TInv
<1>8. CASE T!DoShutdown
  BY <1>8
  DEF T!DoShutdown, TInv, T!TypeOK, Stack, T!TimerIDsUnique, T!Active,
      T!NoTimerOfDetached, T!LoadBehindUnload, T!ReloadNeverLosesClient, T!Queued
<1>9. CASE T!Tick
  BY <1>9, TickStep
<1>10. CASE UNCHANGED T!vars
  BY <1>10
  DEF T!vars, TInv, T!TypeOK, Stack, T!TimerIDsUnique, T!Active,
      T!NoTimerOfDetached, T!LoadBehindUnload, T!ReloadNeverLosesClient, T!Queued
<1> QED
  BY <1>1, <1>2, <1>3, <1>4, <1>5, <1>6, <1>7, <1>8, <1>9, <1>10 DEF T!Next

THEOREM TimersInvariance ==
    ASSUME T!TimersAssumption
    PROVE  T!Spec => []TInv
  BY TInit, TStep, PTL DEF T!Spec

(* Type correctness of the timer system.                                   *)
THEOREM TimersTypeOK ==
    ASSUME T!TimersAssumption
    PROVE  T!Spec => []T!TypeOK
<1>1. TInv => T!TypeOK
  BY DEF TInv
<1> QED
  BY <1>1, TimersInvariance, PTL

(* Identifiers of pending and running timers never clash, also after       *)
(* lastTimerID has wrapped around.                                         *)
THEOREM TimersIDsUnique ==
    ASSUME T!TimersAssumption
    PROVE  T!Spec => []TimerIDsUnique
<1>1. TInv => TimerIDsUnique
  BY DEF TInv, T!TimerIDsUnique, TimerIDsUnique, T!Active, Active, T!NoTimer, NoTimer
<1> QED
  BY <1>1, TimersInvariance, PTL

(* No pending or running timer belongs to a deleted client.                *)
THEOREM TimersSafeAfterDetach ==
    ASSUME T!TimersAssumption
    PROVE  T!Spec => []NoTimerOfDetached
<1>1. TInv => NoTimerOfDetached
  BY DEF TInv, T!NoTimerOfDetached, NoTimerOfDetached, T!Active, Active, T!NoTimer, NoTimer
<1> QED
  BY <1>1, TimersInvariance, PTL

(* A reload never loses its client, whatever the lag of the main loop and  *)
(* however many reloads are queued.                                        *)
THEOREM ReloadsComeBack ==
    ASSUME T!TimersAssumption
    PROVE  T!Spec => []ReloadNeverLosesClient
<1>1. TInv => ReloadNeverLosesClient
  BY DEF TInv, T!ReloadNeverLosesClient, ReloadNeverLosesClient, T!Queued, Queued
<1> QED
  BY <1>1, TimersInvariance, PTL
=============================================================================
