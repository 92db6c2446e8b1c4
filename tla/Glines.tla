------------------------------- MODULE Glines -------------------------------
(***************************************************************************)
(* Where a gline is kept and how the copies follow each other: the list of *)
(* xServer, the list mod.ccontrol keeps in memory, the table it saves them *)
(* in, and the list of mod.cservice.  Glines come from the network, from   *)
(* commands, from a queue and from the modules themselves; they are        *)
(* removed, expire on three timers, and outlive a restart in the table.    *)
(*                                                                         *)
(* A handler sends its queries one after the other and waits for each.  A  *)
(* connection to the database that is lost stays lost for the rest of the  *)
(* handler.  EVT_GLINE and EVT_REMGLINE are delivered before PostEvent()   *)
(* returns.  The table of mod.cservice is only written: loadGlines()       *)
(* empties it first.                                                       *)
(***************************************************************************)
EXTENDS Naturals, Sequences, FiniteSets

CONSTANTS
    Host,       \* what a gline may be set on
    RealName,   \* those that start with "$"
    None,       \* no gline
    Duration,   \* how long glines are set for
    MaxTime,    \* bound: the clock
    MaxQueue,   \* bound: glines waiting in glineQueue
    MaxFail,    \* bound: handlers with a failed query
    MaxStarts   \* bound: restarts of the process and reloads of mod.ccontrol

ASSUME GlinesAssumption ==
    /\ RealName \subseteq Host
    /\ Duration \subseteq Nat \ {0} /\ MaxTime \in Nat
    /\ MaxQueue \in {1, 2} /\ MaxFail \in Nat /\ MaxStarts \in Nat
    /\ None \notin [exp : Nat, mod : Nat] \cup [exp : Nat, upd : Nat]
    /\ None \notin [exp : Nat, upd : Nat, id : {"none", "row", "stale"}]

Time == 0..MaxTime
Expiry == {t + d : t \in Time, d \in Duration}

VARIABLES
    now,
    bursting,   \* getUplink()->isBursting()
    core,       \* xServer::glineList: expiration and lastmod
    memory,     \* ccontrol::glineList and rnGlineList: expiry, LastUpdated, Id
    table,      \* the table glines of mod.ccontrol: expiry, LastUpdated
    cs,         \* cservice::glineList: expiry, LastUpdated
    queue,      \* ccontrol::glineQueue: host, duration, LastUpdated
    starts, fails,
    unsure,     \* hosts with a failed query since they were last saved
    unsent,     \* hosts mod.ccontrol holds and never told the server of
    removed     \* hosts removed with every query done, and not set since

vars == <<now, bursting, core, memory, table, cs, queue, starts, fails, unsure, unsent, removed>>

Shared == [exp : Expiry, mod : Time]
Kept == [exp : Expiry, upd : Time]

TypeOK ==
    /\ now \in Time /\ bursting \in BOOLEAN /\ starts \in 0..MaxStarts /\ fails \in 0..MaxFail
    /\ core \in [Host -> Shared \cup {None}]
    /\ memory \in [Host -> [exp : Expiry, upd : Time, id : {"none", "row", "stale"}] \cup {None}]
    /\ \A f \in {table, cs} : f \in [Host -> Kept \cup {None}]
    /\ queue \in Seq([host : Host \ RealName, dur : Duration, upd : Time])
    /\ Len(queue) <= MaxQueue
    /\ \A f \in {unsure, unsent, removed} : f \subseteq Host

Init ==
    /\ now = 0 /\ bursting = TRUE
    /\ core = [h \in Host |-> None] /\ memory = core /\ table = core /\ cs = core
    /\ queue = <<>> /\ starts = 0 /\ fails = 0
    /\ unsure = {} /\ unsent = {} /\ removed = {}

-----------------------------------------------------------------------------
(* Queries.  A handler that has n of them has "done" of them succeed.      *)

Queries(n, done) ==
    /\ done \in (IF fails < MaxFail THEN 0 ELSE n)..n
    /\ fails' = IF done = n THEN fails ELSE fails + 1

Row(g) == [exp |-> g.exp, upd |-> g.upd]

(* Insert() deletes the row of the host, then inserts a new one ...        *)
Inserted(h, g, done) ==
    [table EXCEPT ![h] = CASE done = 0 -> @ [] done = 1 -> None [] OTHER -> Row(g)]

(* Mutant: the identifier of the new row is not read back.                 *)
IdAfter_Kept(id, done) == IF id = "none" THEN "none" ELSE "stale"

(* ... and only loadData() tells the gline the identifier of that row.     *)
IdAfter(id, done) ==
    IF done = 3 THEN "row" ELSE IF done = 0 \/ id = "none" THEN id ELSE "stale"

(* Update() and Delete() name the row by the identifier: with none the     *)
(* statement is not SQL, with an old one it changes nothing.               *)
Updated(h, g, ok) ==
    IF h \in ok /\ memory[h].id = "row" THEN [table EXCEPT ![h] = Row(g)] ELSE table

Deleted(ok) ==
    [h \in Host |-> IF h \in ok /\ memory[h].id = "row" THEN None ELSE table[h]]

(* One such statement for each of the hosts, of which those for ok succeed.*)
Statements(hosts, ok) ==
    /\ ok \in (IF fails < MaxFail THEN SUBSET hosts ELSE {hosts})
    /\ fails' = IF ok = hosts THEN fails ELSE fails + 1

Failed(hosts, ok) == (hosts \ ok) \cup {h \in hosts : memory[h].id = "none"}

AfterInsert(h, done) == IF done = 3 THEN unsure \ {h} ELSE unsure \cup {h}

-----------------------------------------------------------------------------
(* What the modules do when they are told.                                 *)

(* ccontrol::findGline() looks in the list without the "$" glines.         *)
findGline(h) == IF h \in RealName THEN None ELSE memory[h]

(* EVT_GLINE in mod.ccontrol: what is not older than what it has is saved. *)
Told_ccontrol(h, g) ==
    LET old == findGline(h)
        e(id) == [exp |-> g.exp, upd |-> IF old = None THEN 0 ELSE old.upd, id |-> id]
    IN  IF old # None /\ old.upd >= g.mod
        THEN UNCHANGED <<memory, table, fails, unsure>>
        ELSE \E done \in 0..3 :
                /\ Queries(3, done)
                /\ memory' = [memory EXCEPT
                        ![h] = e(IdAfter(IF old = None THEN "none" ELSE old.id, done))]
                /\ table' = Inserted(h, e("none"), done)
                /\ unsure' = AfterInsert(h, done)

(* EVT_GLINE in mod.cservice, which keeps no "$" glines.                   *)
Told_cservice(h, g) ==
    cs' = IF h \in RealName \/ (cs[h] # None /\ cs[h].upd >= g.mod) THEN cs
          ELSE [cs EXCEPT ![h] = [exp |-> g.exp, upd |-> IF cs[h] = None THEN 0 ELSE cs[h].upd]]

(* Mutant: a gline that goes is only dropped if it has expired here too.   *)
Forgotten_Expired(hosts) ==
    LET mine == {h \in hosts : findGline(h) # None /\ findGline(h).exp <= now}
    IN  \E ok \in SUBSET Host :
            /\ Statements(mine, ok)
            /\ memory' = [h \in Host |-> IF h \in mine THEN None ELSE memory[h]]
            /\ table' = Deleted(ok)
            /\ unsure' = unsure \cup Failed(mine, ok)

(* EVT_REMGLINE in mod.ccontrol: it forgets the gline whether or not it    *)
(* can be deleted; a "$" gline is not found.                               *)
Forgotten(hosts) ==
    LET mine == {h \in hosts : findGline(h) # None}
    IN  \E ok \in SUBSET Host :
            /\ Statements(mine, ok)
            /\ memory' = [h \in Host |-> IF h \in mine THEN None ELSE memory[h]]
            /\ table' = Deleted(ok)
            /\ unsure' = unsure \cup Failed(mine, ok)

WithoutCs(hosts) == [h \in Host |-> IF h \in hosts THEN None ELSE cs[h]]

(* setGline() and msg_GL: the list takes the gline, whatever it held.      *)
Listed(h, g) ==
    /\ core' = [core EXCEPT ![h] = g]
    /\ unsent' = unsent \ {h}
    /\ removed' = removed \ {h}

-----------------------------------------------------------------------------
(* The network.                                                            *)

(* msg_GL, a gline: its lastmod may be older than that of the list.        *)
msg_GL_Add(h, d, mod) ==
    LET g == [exp |-> now + d, mod |-> mod]
    IN  /\ Listed(h, g)
        /\ Told_ccontrol(h, g) /\ Told_cservice(h, g)
        /\ UNCHANGED <<now, bursting, queue, starts>>

(* msg_GL, a gline removed.                                                *)
msg_GL_Remove(h) ==
    /\ core[h] # None
    /\ core' = [core EXCEPT ![h] = None]
    /\ Forgotten({h}) /\ cs' = WithoutCs({h})
    /\ UNCHANGED <<now, bursting, queue, starts, unsent, removed>>

(* The end of the burst of the uplink: the clients and their channels are  *)
(* burst; xServer::BurstGlines() is not called.                            *)
msg_EB ==
    /\ bursting
    /\ bursting' = FALSE
    /\ UNCHANGED <<now, core, memory, table, cs, queue, starts, fails, unsure, unsent, removed>>

-----------------------------------------------------------------------------
(* The modules.  Commands come from users, who know of the bots once the   *)
(* burst is over.                                                          *)

(* GLINE, FORCEGLINE, GCHAN and SGLINE: sent to the server, then saved.    *)
GLINE(h, d) ==
    LET old == findGline(h)
        e(id) == [exp |-> now + d, upd |-> now, id |-> id]
        g == [exp |-> now + d, mod |-> now]
    IN  /\ ~bursting
        /\ Listed(h, g) /\ Told_cservice(h, g)
        /\ IF old # None
           THEN \E ok \in SUBSET Host :
                   /\ Statements({h}, ok)
                   /\ memory' = [memory EXCEPT ![h] = e(@.id)]
                   /\ table' = Updated(h, e("none"), ok)
                   /\ unsure' = unsure \cup Failed({h}, ok)
           ELSE \E done \in 0..3 :
                   /\ Queries(3, done)
                   /\ memory' = [memory EXCEPT ![h] = e(IdAfter("none", done))]
                   /\ table' = Inserted(h, e("none"), done)
                   /\ unsure' = AfterInsert(h, done)
        /\ UNCHANGED <<now, bursting, queue, starts>>

(* REMGLINE, REMGCHAN and REMSGLINE: the module's own gline goes, then the *)
(* server's; only what the server had is told to the other modules.        *)
REMGLINE(h) ==
    /\ ~bursting
    /\ core[h] # None \/ memory[h] # None
    /\ LET mine == {h} \ {i \in Host : memory[i] = None}
       IN  \E ok \in SUBSET Host :
            /\ Statements(mine, ok)
            /\ table' = Deleted(ok)
            /\ unsure' = unsure \cup Failed(mine, ok)
    /\ memory' = [memory EXCEPT ![h] = None]
    /\ core' = [core EXCEPT ![h] = None]
    /\ cs' = IF core[h] # None THEN WithoutCs({h}) ELSE cs
    /\ unsent' = unsent \ {h}
    /\ removed' = IF h \in unsure' THEN removed ELSE removed \cup {h}
    /\ UNCHANGED <<now, bursting, queue, starts>>

(* A gline for too many connections: saved, and sent unless bursting.      *)
AutoGline(h, d) ==
    LET e(id) == [exp |-> now + d, upd |-> now, id |-> id]
        g == [exp |-> now + d, mod |-> now]
    IN  /\ h \notin RealName
        /\ \E done \in 0..3 :
            /\ Queries(3, done)
            /\ memory' = [memory EXCEPT ![h] = e(IdAfter("none", done))]
            /\ table' = Inserted(h, e("none"), done)
            /\ unsure' = AfterInsert(h, done)
        /\ IF bursting
           THEN /\ unsent' = IF core[h] = None THEN unsent \cup {h} ELSE unsent
                /\ removed' = removed \ {h}
                /\ UNCHANGED <<core, cs>>
           ELSE Listed(h, g) /\ Told_cservice(h, g)
        /\ UNCHANGED <<now, bursting, queue, starts>>

(* glineChannelUsers(): one gline of a GLINE of the users of a channel.    *)
queueGline(h, d) ==
    /\ ~bursting /\ h \notin RealName /\ Len(queue) < MaxQueue
    /\ queue' = Append(queue, [host |-> h, dur |-> d, upd |-> now])
    /\ UNCHANGED <<now, bursting, core, memory, table, cs, starts, fails, unsure, unsent, removed>>

(* processGlineQueue(): its loop compares with the shrinking length, so of *)
(* one or two it takes one.                                                *)
processGlineQueue ==
    /\ ~bursting /\ queue # <<>>
    /\ LET q == Head(queue)
           e(id) == [exp |-> q.dur + now, upd |-> q.upd, id |-> id]
           g == [exp |-> q.dur + now, mod |-> q.upd]
       IN  /\ Listed(q.host, g) /\ Told_cservice(q.host, g)
           /\ \E done \in 0..3 :
                /\ Queries(3, done)
                /\ memory' = [memory EXCEPT ![q.host] = e(IdAfter("none", done))]
                /\ table' = Inserted(q.host, e("none"), done)
                /\ unsure' = AfterInsert(q.host, done)
    /\ queue' = Tail(queue)
    /\ UNCHANGED <<now, bursting, starts>>

(* cservice::doInternalGline().                                            *)
doInternalGline(h, d) ==
    LET g == [exp |-> now + d, mod |-> now]
    IN  /\ ~bursting /\ h \notin RealName
        /\ Listed(h, g) /\ Told_ccontrol(h, g)
        /\ cs' = [cs EXCEPT ![h] = [exp |-> now + d, upd |-> now]]
        /\ UNCHANGED <<now, bursting, queue, starts>>

-----------------------------------------------------------------------------
(* Timers.                                                                 *)

(* xServer::updateGlines().                                                *)
updateGlines ==
    LET over == {h \in Host : core[h] # None /\ core[h].exp <= now}
    IN  /\ over # {}
        /\ core' = [h \in Host |-> IF h \in over THEN None ELSE core[h]]
        /\ Forgotten(over) /\ cs' = WithoutCs(over)
        /\ UNCHANGED <<now, bursting, queue, starts, unsent, removed>>

Overdue(f) == {h \in Host : f[h] # None /\ f[h].exp <= now}

(* Mutant: only the list without the "$" glines is looked through.         *)
Stale_Plain == Overdue(memory) \ RealName

(* Both lists of mod.ccontrol are looked through.                          *)
Stale == Overdue(memory)

(* ccontrol::refreshGlines().                                              *)
refreshGlines ==
    /\ Stale # {}
    /\ \E ok \in SUBSET Host :
        /\ Statements(Stale, ok)
        /\ table' = Deleted(ok)
        /\ unsure' = unsure \cup Failed(Stale, ok)
    /\ memory' = [h \in Host |-> IF h \in Stale THEN None ELSE memory[h]]
    /\ unsent' = unsent \ Stale
    /\ UNCHANGED <<now, bursting, core, cs, queue, starts, removed>>

(* cservice::expireGlines().                                               *)
expireGlines ==
    /\ Overdue(cs) # {}
    /\ cs' = WithoutCs(Overdue(cs))
    /\ UNCHANGED <<now, bursting, core, memory, table, queue, starts, fails, unsure, unsent, removed>>

Tick ==
    /\ now < MaxTime
    /\ now' = now + 1
    /\ UNCHANGED <<bursting, core, memory, table, cs, queue, starts, fails, unsure, unsent, removed>>

-----------------------------------------------------------------------------
(* Starting again.                                                         *)

(* loadGlines(): every row, those that have expired too.                   *)
loadGlines ==
    memory' = [h \in Host |->
        IF table[h] = None THEN None
        ELSE [exp |-> table[h].exp, upd |-> table[h].upd, id |-> "row"]]

(* The process is started again and links.                                 *)
Restart ==
    /\ starts < MaxStarts /\ starts' = starts + 1
    /\ bursting' = TRUE /\ queue' = <<>>
    /\ core' = [h \in Host |-> None] /\ cs' = [h \in Host |-> None]
    /\ loadGlines
    /\ unsent' = {h \in Host : table[h] # None} /\ unsure' = {}
    /\ UNCHANGED <<now, table, fails, removed>>

(* ccontrol::BurstGlines() sends every gline of both lists.                *)
BurstGlines(h) == memory'[h] # None

(* mod.ccontrol is unloaded and loaded again: AttachClient() calls         *)
(* BurstGlines().                                                          *)
Reload ==
    LET g(h) == [exp |-> memory'[h].exp, mod |-> memory'[h].upd]
    IN  /\ ~bursting /\ starts < MaxStarts /\ starts' = starts + 1
        /\ queue' = <<>>
        /\ loadGlines
        /\ core' = [h \in Host |-> IF BurstGlines(h) THEN g(h) ELSE core[h]]
        /\ cs' = [h \in Host |->
                IF ~BurstGlines(h) \/ h \in RealName THEN cs[h]
                ELSE IF cs[h] = None THEN [exp |-> g(h).exp, upd |-> 0]
                ELSE IF cs[h].upd >= g(h).mod THEN cs[h]
                ELSE [cs[h] EXCEPT !.exp = g(h).exp]]
        /\ unsent' = {} /\ unsure' = {}
        /\ UNCHANGED <<now, bursting, table, fails, removed>>

-----------------------------------------------------------------------------
Next ==
    \/ \E h \in Host, d \in Duration :
        \/ \E mod \in 0..now : msg_GL_Add(h, d, mod)
        \/ GLINE(h, d) \/ AutoGline(h, d) \/ queueGline(h, d) \/ doInternalGline(h, d)
    \/ \E h \in Host : msg_GL_Remove(h) \/ REMGLINE(h)
    \/ msg_EB \/ processGlineQueue
    \/ updateGlines \/ refreshGlines \/ expireGlines
    \/ Tick \/ Restart \/ Reload

Spec == Init /\ [][Next]_vars
FairSpec == Spec /\ WF_vars(updateGlines) /\ WF_vars(refreshGlines)

-----------------------------------------------------------------------------
(* Properties.                                                             *)

(* What mod.ccontrol has in memory of a host is what its table has, and it *)
(* knows the row, unless a query for that host has failed since it was     *)
(* last saved; and what a module believes to be a gline of the network the *)
(* server has too, except what was loaded when the process started or was  *)
(* found while bursting, and "$" glines.                                   *)
Agreement ==
    /\ \A h \in Host \ unsure :
          IF memory[h] = None THEN table[h] = None
          ELSE memory[h].id = "row" /\ table[h] = Row(memory[h])
    /\ \A h \in Host \ RealName :
          /\ memory[h] # None => core[h] # None \/ h \in unsent
          /\ cs[h] # None => core[h] # None

(* A gline that was removed with every query done stays away from the      *)
(* server, the modules and the table, through restarts and reloads, until  *)
(* somebody sets it again.                                                 *)
RemovedStaysAway ==
    \A h \in removed :
        core[h] = None /\ memory[h] = None /\ table[h] = None /\ cs[h] = None

(* A gline that has expired leaves the server, and leaves the table unless *)
(* a query for its host fails.                                             *)
ExpiredGo ==
    \A h \in Host :
        /\ h \in Overdue(core) ~> h \notin Overdue(core)
        /\ h \in Overdue(table) \ unsure ~> h \notin Overdue(table) \ unsure
=============================================================================
