---------------------------- MODULE ChannelAccess ----------------------------
(***************************************************************************)
(* The access lists of mod.cservice: the records it keeps in memory and in *)
(* the database, the commands that change them, forced access, suspension  *)
(* of records and of whole accounts, registration and purge of channels,   *)
(* and the timers that bring memory and database together again.           *)
(*                                                                         *)
(* Every command reads memory only and then writes memory and database;    *)
(* any query may fail.                                                     *)
(***************************************************************************)
EXTENDS Naturals, FiniteSets

CONSTANTS
    User, Chan,
    Star,           \* "*", the access list of the admins
    Level,          \* the access levels in play
    Asked,          \* the levels SUSPEND is asked for
    Slot,           \* bound: who may be on which access list
    Start,          \* the rows there are when the module is loaded
    Strict,         \* channels with F_STRICTOP
    Accounts,       \* bound: users whose account is suspended
    InstantReg,     \* no supporters required
    None,
    MaxMishaps      \* bound: queries that fail and changes made by the website

(* expire: suspend_expires is zero, in the future, or over but not yet     *)
(* reset.                                                                  *)
Record == [access : Level, expire : {"zero", "later", "past"}, slevel : Level \cup {0}]

ASSUME ChannelAccessAssumption ==
    /\ Level \subseteq 1..1000 /\ 500 \in Level /\ Asked \subseteq Nat \ {0}
    /\ Star \in Chan /\ Slot \subseteq User \X Chan /\ Accounts \subseteq User
    /\ Strict \subseteq Chan \ {Star} /\ InstantReg \in BOOLEAN /\ MaxMishaps \in Nat
    /\ Start \in [Slot -> Record \cup {None}]
    /\ None \notin Record \cup [access : Level, suspended : Level \cup {0}]

VARIABLES
    registered,     \* sqlChannelCache
    dbRegistered,   \* channels whose row has registered_ts # 0
    level,          \* sqlLevelCache
    db,             \* the table levels
    fresh,          \* rows changed since they were last read, by last_updated
    forceMap,       \* forced access, 0 for none
    globalSuspend,  \* users with F_GLOBAL_SUSPEND, in memory
    dbGlobalSuspend,\* and in the database
    fails, edits    \* counters, bounded

lists == <<level, db, fresh>>
chans == <<registered, dbRegistered, forceMap>>
users == <<globalSuspend, dbGlobalSuspend>>
vars == <<lists, chans, users, fails, edits>>

NewRecord(a) == [access |-> a, expire |-> "zero", slevel |-> 0]
Ordinary == Chan \ {Star}
On(c) == {p \in Slot : p[2] = c}
Of(u) == {p \in Slot : p[1] = u}
NoForce == [uc \in User \X Chan |-> 0]

TypeOK ==
    /\ registered \subseteq Chan /\ Star \in registered
    /\ dbRegistered \subseteq Chan
    /\ level \in [Slot -> Record \cup {None}] /\ db \in [Slot -> Record \cup {None}]
    /\ fresh \subseteq Slot
    /\ forceMap \in [User \X Chan -> 0..1000]
    /\ globalSuspend \subseteq User /\ dbGlobalSuspend \subseteq User
    /\ fails \in 0..MaxMishaps /\ edits \in 0..MaxMishaps

(* preloadChannelCache(), preloadLevelsCache()                              *)
Init ==
    /\ registered = Chan /\ dbRegistered = Chan
    /\ level = Start /\ db = Start /\ fresh = {}
    /\ forceMap = NoForce
    /\ globalSuspend = {} /\ dbGlobalSuspend = {}
    /\ fails = 0 /\ edits = 0

-----------------------------------------------------------------------------
(* Reading memory.                                                         *)
HasRecord(u, c) == <<u, c>> \in Slot /\ level[<<u, c>>] # None

(* The access of a record that is neither absent nor suspended.            *)
Listed(u, c) ==
    IF HasRecord(u, c) /\ level[<<u, c>>].expire # "later" THEN level[<<u, c>>].access ELSE 0

getAdminAccessLevel(u) == IF u \in globalSuspend THEN 0 ELSE Listed(u, Star)

(* Forced access comes before the suspension of the record.                *)
getEffectiveAccessLevel(u, c) ==
    CASE u \in globalSuspend -> 0
      [] u \notin globalSuspend /\ forceMap[<<u, c>>] > 0 -> forceMap[<<u, c>>]
      [] OTHER -> Listed(u, c)

Access(u, c) == getEffectiveAccessLevel(u, c)
Allowed(u, c, ordinary, admin) ==
    c \in registered /\ Access(u, c) >= (IF c = Star THEN admin ELSE ordinary)

-----------------------------------------------------------------------------
(* Writing.  A query succeeds or fails.                                    *)
Outcome == {TRUE} \cup (IF fails + edits < MaxMishaps THEN {FALSE} ELSE {})
Query(ok) ==
    /\ ok \/ fails + edits < MaxMishaps
    /\ fails' = IF ok THEN fails ELSE fails + 1

Put(p, r) == level' = [level EXCEPT ![p] = r]

(* sqlLevel::commit(): an UPDATE of the row, if there is one.              *)
Commit(p, r, ok) ==
    IF ok /\ db[p] # None THEN db' = [db EXCEPT ![p] = r] /\ fresh' = fresh \cup {p}
    ELSE UNCHANGED <<db, fresh>>

Changed(p, r, ok) == Query(ok) /\ Put(p, r) /\ Commit(p, r, ok) /\ UNCHANGED <<chans, users, edits>>

(* Mutant: the record is kept in memory although the INSERT failed.        *)
InsertedAnyway(p, r, stored) ==
    /\ Put(p, r)
    /\ IF stored THEN db' = [db EXCEPT ![p] = r] /\ fresh' = fresh \cup {p}
       ELSE UNCHANGED <<db, fresh>>

(* INSERT, and on success into memory.                                     *)
Inserted(p, r, stored) ==
    IF stored
    THEN Put(p, r) /\ db' = [db EXCEPT ![p] = r] /\ fresh' = fresh \cup {p}
    ELSE UNCHANGED lists

-----------------------------------------------------------------------------
(* The commands of channel users, by v about the record of u on c.         *)
Holds(u, c, r) == HasRecord(u, c) /\ level[<<u, c>>] = r

(* The table has one row for a user and a channel: a second INSERT fails.  *)
ADDUSER(v, u, c, a, ok) ==
    /\ Allowed(v, c, 400, 800) /\ <<u, c>> \in Slot
    /\ a \in 1..999 /\ a < Access(v, c)
    /\ ~HasRecord(u, c)
    /\ Query(ok) /\ Inserted(<<u, c>>, NewRecord(a), ok /\ db[<<u, c>>] = None)
    /\ UNCHANGED <<chans, users, edits>>

(* The record leaves memory even if the DELETE fails.  Whoever removes     *)
(* himself needs no access.                                                *)
REMUSER(v, u, c, ok) ==
    /\ c \in registered /\ HasRecord(u, c)
    /\ \/ u = v /\ c # Star /\ level[<<u, c>>].access # 500
       \/ u # v /\ Allowed(v, c, 400, 800) /\ level[<<u, c>>].access < Access(v, c)
    /\ Query(ok) /\ Put(<<u, c>>, None)
    /\ IF ok THEN db' = [db EXCEPT ![<<u, c>>] = None] /\ fresh' = fresh \ {<<u, c>>}
       ELSE UNCHANGED <<db, fresh>>
    /\ UNCHANGED <<chans, users, edits>>

(* MODINFO ACCESS: whoever is forced may change a record above his access. *)
MODINFO(v, u, c, a, ok) ==
    /\ Allowed(v, c, 400, 800) /\ HasRecord(u, c)
    /\ level[<<u, c>>].access < Access(v, c) \/ forceMap[<<v, c>>] > 0
    /\ a \in 1..999 /\ a < Access(v, c)
    /\ Changed(<<u, c>>, [level[<<u, c>>] EXCEPT !.access = a], ok)

(* SUSPEND: s is the level asked for; one above 500 or above the access of *)
(* v is replaced by the access of v.                                       *)
SUSPEND(v, u, c, s, ok) ==
    LET r == level[<<u, c>>]
        slevel == IF s > Access(v, c) \/ s > 500 THEN Access(v, c) ELSE s
    IN
    /\ Allowed(v, c, 100, 600) /\ HasRecord(u, c)
    /\ r.access < Access(v, c) /\ r.expire # "later"
    /\ slevel \in Level
    /\ Changed(<<u, c>>, [r EXCEPT !.expire = "later", !.slevel = slevel], ok)

(* Mutant: the level of the suspension is not looked at.                   *)
MayLiftAny(v, c, r) == r.access < Access(v, c)
MayLift(v, c, r) == r.access < Access(v, c) /\ r.slevel <= Access(v, c)

(* SUSPEND for no time.                                                    *)
CancelSuspend(v, u, c, ok) ==
    /\ Allowed(v, c, 100, 600) /\ HasRecord(u, c) /\ MayLift(v, c, level[<<u, c>>])
    /\ Changed(<<u, c>>, [level[<<u, c>>] EXCEPT !.expire = "zero"], ok)

UNSUSPEND(v, u, c, ok) ==
    /\ Allowed(v, c, 100, 800) /\ HasRecord(u, c) /\ level[<<u, c>>].expire # "zero"
    /\ MayLift(v, c, level[<<u, c>>])
    /\ Changed(<<u, c>>, [level[<<u, c>>] EXCEPT !.expire = "zero"], ok)

-----------------------------------------------------------------------------
(* The commands of admins.                                                 *)
Flagged(u, on, ok) ==
    /\ globalSuspend' = IF on THEN globalSuspend \cup {u} ELSE globalSuspend \ {u}
    /\ dbGlobalSuspend' = IF ~ok THEN dbGlobalSuspend
                          ELSE IF on THEN dbGlobalSuspend \cup {u}
                          ELSE dbGlobalSuspend \ {u}

(* Clients of u have op on the channels of C: their records go from memory.*)
SUSPENDAccount(v, u, C, ok) ==
    /\ getAdminAccessLevel(v) >= 750 /\ getAdminAccessLevel(u) < getAdminAccessLevel(v)
    /\ u \notin globalSuspend /\ C \subseteq Strict \cap registered
    /\ Query(ok) /\ Flagged(u, TRUE, ok)
    /\ level' = [p \in Slot |-> IF p[1] = u /\ p[2] \in C THEN None ELSE level[p]]
    /\ UNCHANGED <<db, fresh, chans, edits>>

(* Mutant: the records that were dropped are not read again.               *)
ReturnedNone(u) == level
(* updateUserLevels()                                                      *)
Returned(u) ==
    [p \in Slot |-> IF p[1] = u /\ p[2] \in registered /\ db[p] # None
                    THEN db[p] ELSE level[p]]

UNSUSPENDAccount(v, u, ok, read) ==
    /\ getAdminAccessLevel(v) >= 750 /\ u \in globalSuspend
    /\ Query(ok /\ read) /\ Flagged(u, FALSE, ok)
    /\ level' = IF read THEN Returned(u) ELSE level
    /\ UNCHANGED <<db, fresh, chans, edits>>

SUSPENDME(u, ok) ==
    /\ u \notin globalSuspend /\ Query(ok) /\ Flagged(u, TRUE, ok)
    /\ UNCHANGED <<lists, chans, edits>>

(* The entry of forceMap stays as it was if there is one.                  *)
FORCE(v, c) ==
    /\ getAdminAccessLevel(v) >= 1 /\ c \in registered \cap Ordinary
    /\ forceMap[<<v, c>>] = 0
    /\ forceMap' = [forceMap EXCEPT ![<<v, c>>] = getAdminAccessLevel(v)]
    /\ UNCHANGED <<lists, users, registered, dbRegistered, fails, edits>>

UNFORCE(v, c) ==
    /\ getAdminAccessLevel(v) >= 1 /\ c \in registered /\ forceMap[<<v, c>>] > 0
    /\ forceMap' = [forceMap EXCEPT ![<<v, c>>] = 0]
    /\ UNCHANGED <<lists, users, registered, dbRegistered, fails, edits>>

(* The channel leaves memory; its records stay, in memory and in the table.*)
PURGE(v, c, ok) ==
    /\ getAdminAccessLevel(v) >= 750 /\ c \in registered \cap Ordinary
    /\ Query(ok)
    /\ registered' = registered \ {c}
    /\ dbRegistered' = IF ok THEN dbRegistered \ {c} ELSE dbRegistered
    /\ forceMap' = [uc \in DOMAIN forceMap |-> IF uc[2] = c THEN 0 ELSE forceMap[uc]]
    /\ UNCHANGED <<lists, users, edits>>

(* Memory loses the records that have a row; the DELETE comes after.       *)
REMOVEALL(v, c, ok) ==
    /\ getAdminAccessLevel(v) >= 750 /\ c \in registered \cap Ordinary
    /\ Query(ok)
    /\ level' = [p \in Slot |-> IF p \in On(c) /\ db[p] # None THEN None ELSE level[p]]
    /\ IF ok
       THEN /\ db' = [p \in Slot |-> IF p \in On(c) THEN None ELSE db[p]]
            /\ fresh' = fresh \ On(c)
       ELSE UNCHANGED <<db, fresh>>
    /\ UNCHANGED <<chans, users, edits>>

-----------------------------------------------------------------------------
(* sqlRegisterChannel(): the channel is in memory first; then the rows of  *)
(* an earlier registration are deleted, then the manager is inserted.  at  *)
(* is the query that fails; only that of the channel itself is ignored.    *)
Register(c, m, at) ==
    LET mine == <<m, c>> IN
    /\ c \in Ordinary \ registered /\ mine \in Slot
    /\ Query(at = "none")
    /\ registered' = registered \cup {c}
    /\ dbRegistered' = IF at = "channel" THEN dbRegistered ELSE dbRegistered \cup {c}
    /\ IF at = "levels" THEN UNCHANGED lists
       ELSE LET emptied(f) == [p \in Slot |-> IF p \in On(c) THEN None ELSE f[p]] IN
            IF at = "manager"
            THEN level' = emptied(level) /\ db' = emptied(db) /\ fresh' = fresh \ On(c)
            ELSE /\ level' = [emptied(level) EXCEPT ![mine] = NewRecord(500)]
                 /\ db' = [emptied(db) EXCEPT ![mine] = NewRecord(500)]
                 /\ fresh' = (fresh \ On(c)) \cup {mine}
    /\ UNCHANGED <<forceMap, users>>

Failing == {"none", "channel", "levels", "manager"}

REGISTER(v, c, m, at) ==
    /\ getAdminAccessLevel(v) >= 750 \/ (InstantReg /\ v \notin globalSuspend)
    /\ v = m \/ getAdminAccessLevel(v) > 0
    /\ Register(c, m, at) /\ UNCHANGED edits

(* A channel accepted on the website, found by updateChannels().           *)
updateChannels(c, m, at) ==
    fails + edits < MaxMishaps /\ edits' = edits + 1 /\ Register(c, m, at)

(* The website gives u another access on c, or a first one.                *)
WebEdit(u, c, a) ==
    /\ fails + edits < MaxMishaps /\ edits' = edits + 1
    /\ c \in registered /\ <<u, c>> \in Slot
    /\ db' = [db EXCEPT ![<<u, c>>] = IF @ = None THEN NewRecord(a) ELSE [@ EXCEPT !.access = a]]
    /\ fresh' = fresh \cup {<<u, c>>}
    /\ UNCHANGED <<level, chans, users, fails>>

-----------------------------------------------------------------------------
(* The timers.                                                             *)

(* Mutant: only records that are in memory are read again.                 *)
RereadKnown(p) == p \in fresh /\ p[2] \in registered /\ level[p] # None
Reread(p) == p \in fresh /\ p[2] \in registered

(* processDBUpdates(): updateLevels() reads the rows changed since the last*)
(* time.                                                                   *)
updateLevels ==
    /\ fresh # {}
    /\ level' = [p \in Slot |-> IF Reread(p) THEN db[p] ELSE level[p]]
    /\ fresh' = {}
    /\ UNCHANGED <<db, chans, users, fails, edits>>

Over(r) == r # None /\ r.expire = "later"
Ended(r) == [r EXCEPT !.expire = "past"]
(* The time of a suspension comes; memory and row hold the same time,      *)
(* unless a commit failed.                                                 *)
Elapse(p, here, there) ==
    /\ here \/ there
    /\ here => Over(level[p])
    /\ there => Over(db[p])
    /\ level[p] = db[p] => here = there
    /\ level' = IF here THEN [level EXCEPT ![p] = Ended(@)] ELSE level
    /\ db' = IF there THEN [db EXCEPT ![p] = Ended(@)] ELSE db
    /\ UNCHANGED <<fresh, chans, users, fails, edits>>

(* expireSuspends(): the rows whose time has come are found in the table.  *)
Expired(r) == [r EXCEPT !.expire = "zero", !.slevel = 0]
expireSuspends(ok) ==
    LET P == {p \in Slot : db[p] # None /\ db[p].expire = "past"} IN
    /\ P # {} /\ Query(ok)
    /\ level' = [p \in Slot |-> IF p \in P /\ level[p] # None
                                THEN Expired(level[p]) ELSE level[p]]
    /\ db' = IF ok THEN [p \in Slot |-> IF p \in P THEN Expired(db[p]) ELSE db[p]] ELSE db
    /\ UNCHANGED <<fresh, chans, users, edits>>

(* cacheExpireLevels(): forced access ends.                                *)
cacheExpireLevels ==
    /\ forceMap # NoForce
    /\ forceMap' = [uc \in DOMAIN forceMap |-> IF uc[2] \in registered THEN 0 ELSE forceMap[uc]]
    /\ UNCHANGED <<lists, users, registered, dbRegistered, fails, edits>>

(* cacheExpireUsers(): a user who is not logged in leaves memory and is    *)
(* read again when he is next asked for.                                   *)
cacheExpireUsers(u) ==
    /\ (u \in globalSuspend) # (u \in dbGlobalSuspend)
    /\ globalSuspend' = IF u \in dbGlobalSuspend THEN globalSuspend \cup {u}
                        ELSE globalSuspend \ {u}
    /\ UNCHANGED <<lists, chans, dbGlobalSuspend, fails, edits>>

(* The module is loaded again.                                             *)
Restart ==
    /\ registered' = dbRegistered
    /\ level' = [p \in Slot |-> IF p[2] \in dbRegistered THEN db[p] ELSE None]
    /\ fresh' = {} /\ forceMap' = NoForce /\ globalSuspend' = dbGlobalSuspend
    /\ UNCHANGED <<db, dbRegistered, dbGlobalSuspend, fails, edits>>

-----------------------------------------------------------------------------
ListCommand(v, u, c, ok) ==
    \/ \E a \in Level : ADDUSER(v, u, c, a, ok) \/ MODINFO(v, u, c, a, ok)
    \/ REMUSER(v, u, c, ok)
    \/ \E s \in Asked : SUSPEND(v, u, c, s, ok)
    \/ CancelSuspend(v, u, c, ok) \/ UNSUSPEND(v, u, c, ok)

AccountCommand(v, u, ok) ==
    \/ \E C \in SUBSET Strict : SUSPENDAccount(v, u, C, ok)
    \/ \E read \in BOOLEAN : UNSUSPENDAccount(v, u, ok, read)
    \/ v = u /\ SUSPENDME(u, ok)

ChannelCommand(v, c, ok) ==
    \/ PURGE(v, c, ok) \/ REMOVEALL(v, c, ok)
    \/ ok /\ (FORCE(v, c) \/ UNFORCE(v, c))
    \/ \E m \in User, at \in Failing : (ok <=> at = "none") /\ REGISTER(v, c, m, at)

Command(v) ==
    \E ok \in Outcome :
        \/ \E u \in User, c \in Chan : ListCommand(v, u, c, ok)
        \/ \E u \in Accounts : AccountCommand(v, u, ok)
        \/ \E c \in Chan : ChannelCommand(v, c, ok)

Website ==
    \/ \E u \in User, c \in Ordinary, a \in Level : a <= 500 /\ WebEdit(u, c, a)
    \/ \E c \in Chan, m \in User, at \in Failing : updateChannels(c, m, at)

Timer ==
    \/ updateLevels \/ cacheExpireLevels
    \/ \E ok \in BOOLEAN : expireSuspends(ok)
    \/ \E u \in User : cacheExpireUsers(u)

Time == \E p \in Slot, here, there \in BOOLEAN : Elapse(p, here, there)

Next == (\E v \in User : Command(v)) \/ Website \/ Timer \/ Time \/ Restart

(* The update timer is registered again each time it fires.                *)
Spec == Init /\ [][Next]_vars /\ WF_vars(updateLevels)

-----------------------------------------------------------------------------
(* As long as no query failed, memory and table agree on the channels that *)
(* are registered: but for what the website changed and the next update    *)
(* will read, and what a global suspension took out of memory.             *)
Agreement ==
    fails = 0 =>
        \A p \in Slot : p[2] \in registered =>
            \/ level[p] = db[p]
            \/ p \in fresh
            \/ level[p] = None /\ p[1] \in globalSuspend /\ p[2] \in Strict

(* Whatever fails, nobody has access by a record that has no row: what     *)
(* memory grants is granted after a restart too, or the row differs, but   *)
(* it is there to be found.                                                *)
Backed ==
    \A p \in Slot : p[2] \in registered /\ level[p] # None => db[p] # None

(* A row the website changed or added reaches memory.                      *)
EditsArrive ==
    \A p \in Slot \ On(Star) : p \in fresh ~> (p[2] \notin registered \/ level[p] = db[p])

(* The access lists obey AccessRules, whatever fails: every change is one  *)
(* of those it names.  A suspension that is over does not count.  The      *)
(* records of a purged channel stay in memory and are in force again if a  *)
(* query fails when the channel is registered the next time.               *)
Seen(r) ==
    IF r = None THEN None
    ELSE [access |-> r.access, suspended |-> IF r.expire = "later" THEN r.slevel ELSE 0]
Rules == INSTANCE AccessRules WITH
    held <- [p \in Slot |-> Seen(level[p])],
    stored <- [p \in Slot |-> Seen(db[p])],
    forced <- forceMap
RulesSpec == Rules!Spec
=============================================================================
