------------------------ MODULE ChannelAccess_proofs ------------------------
(* Proofs about the access lists of mod.cservice, for every set of users,  *)
(* channels and levels, whatever rows there are at the start and however   *)
(* many queries fail.                                                      *)
EXTENDS ChannelAccess, TLAPS

(* Backed, said of the records of purged channels too: they are in force   *)
(* again if the channel is registered while a query fails.                 *)
BackedAll == \A p \in Slot : level[p] # None => db[p] # None

(* A flag that differs is the trace of a query that failed.                *)
FlagsAgree == fails = 0 => globalSuspend = dbGlobalSuspend

(* Nobody is forced among the admins, who are not purged either.           *)
AdminsUnforced == \A u \in User : forceMap[<<u, Star>>] = 0

IInv ==
    /\ TypeOK
    /\ Star \in dbRegistered
    /\ BackedAll
    /\ Agreement
    /\ FlagsAgree
    /\ AdminsUnforced

-----------------------------------------------------------------------------
LEMMA NewRecordType == \A a \in Level : NewRecord(a) \in Record
  BY DEF NewRecord, Record

LEMMA NoneIsNoRecord == None \notin Record
  BY ChannelAccessAssumption

LEMMA RecordType ==
    ASSUME NEW r \in Record
    PROVE  r.access \in Level /\ r.slevel \in Level \cup {0} /\ r.expire \in {"zero", "later", "past"}
  BY DEF Record

LEMMA LevelType == \A a \in Level : a \in 1 .. 1000
  BY ChannelAccessAssumption

LEMMA LevelIsPositive == \A a \in Level : a \in Nat /\ a > 0
<1>1. \A a \in 1 .. 1000 : a \in Nat /\ a > 0
  OBVIOUS
<1> QED
  BY <1>1, LevelType

LEMMA ListedType ==
    ASSUME TypeOK, NEW u, NEW c
    PROVE  Listed(u, c) \in 0 .. 1000
<1>1. CASE HasRecord(u, c)
  <2>1. level[<<u, c>>] \in Record
    BY <1>1 DEF TypeOK, HasRecord
  <2> DEFINE a == level[<<u, c>>].access
  <2>2. a \in 1 .. 1000
    BY <2>1, RecordType, LevelType
  <2>3. Listed(u, c) \in {a, 0}
    BY DEF Listed
  <2> HIDE DEF a
  <2> QED
    BY <2>2, <2>3
<1>2. CASE ~HasRecord(u, c)
  BY <1>2 DEF Listed
<1> QED
  BY <1>1, <1>2

LEMMA AccessType ==
    ASSUME TypeOK, NEW u \in User, NEW c \in Chan
    PROVE  Access(u, c) \in 0 .. 1000 /\ getAdminAccessLevel(u) \in 0 .. 1000
<1>1. Listed(u, c) \in 0 .. 1000 /\ Listed(u, Star) \in 0 .. 1000
  BY ListedType
<1>2. forceMap[<<u, c>>] \in 0 .. 1000
  BY DEF TypeOK
<1> QED
  BY <1>1, <1>2 DEF Access, getEffectiveAccessLevel, getAdminAccessLevel

LEMMA AccessIsNat ==
    ASSUME TypeOK, NEW u \in User, NEW c \in Chan
    PROVE  Access(u, c) \in Nat /\ getAdminAccessLevel(u) \in Nat
<1> DEFINE a == Access(u, c)
<1> DEFINE b == getAdminAccessLevel(u)
<1>1. a \in 0 .. 1000 /\ b \in 0 .. 1000
  BY AccessType
<1> HIDE DEF a, b
<1>2. a \in Nat /\ b \in Nat
  BY <1>1
<1> QED
  BY <1>2 DEF a, b

(* What a query does to the count of the failures.                         *)
LEMMA QueryCounts ==
    ASSUME TypeOK, NEW ok \in BOOLEAN, Query(ok)
    PROVE  /\ fails' \in 0 .. MaxMishaps
           /\ fails' = 0 => ok /\ fails = 0
<1>1. fails \in Nat /\ edits \in Nat /\ MaxMishaps \in Nat
  BY ChannelAccessAssumption DEF TypeOK
<1> QED
  BY <1>1 DEF TypeOK, Query

(* A command that changes the record p, which there is.                    *)
LEMMA ChangedStep ==
    ASSUME IInv, NEW p \in Slot, NEW r \in Record, NEW ok \in BOOLEAN,
           level[p] # None, Changed(p, r, ok)
    PROVE  IInv'
<1>1. db[p] # None
  BY DEF IInv, BackedAll
<1>2. /\ level' = [level EXCEPT ![p] = r]
      /\ db' = IF ok THEN [db EXCEPT ![p] = r] ELSE db
      /\ fresh' = IF ok THEN fresh \cup {p} ELSE fresh
      /\ UNCHANGED <<chans, users, edits>>
  BY <1>1 DEF Changed, Put, Commit
<1>3. fails' \in 0 .. MaxMishaps /\ (fails' = 0 => ok /\ fails = 0)
  BY QueryCounts DEF Changed, IInv
<1>4. TypeOK'
  BY <1>2, <1>3 DEF IInv, TypeOK, chans, users
<1>5. BackedAll'
  BY <1>1, <1>2, NoneIsNoRecord DEF IInv, BackedAll, TypeOK
<1>6. Agreement'
  <2> SUFFICES ASSUME fails' = 0, NEW q \in Slot, q[2] \in registered'
               PROVE  \/ level'[q] = db'[q]
                      \/ q \in fresh'
                      \/ level'[q] = None /\ q[1] \in globalSuspend' /\ q[2] \in Strict
    BY DEF Agreement
  <2> QED
    BY <1>2, <1>3 DEF IInv, Agreement, TypeOK, chans, users
<1> QED
  BY <1>2, <1>3, <1>4, <1>5, <1>6
     DEF IInv, FlagsAgree, AdminsUnforced, chans, users

LEMMA SlotType ==
    ASSUME NEW p \in Slot
    PROVE  p[1] \in User /\ p[2] \in Chan /\ p = <<p[1], p[2]>>
  BY ChannelAccessAssumption

(* The record that is there when a command finds one.                      *)
LEMMA HeldType ==
    ASSUME TypeOK, NEW u, NEW c, HasRecord(u, c)
    PROVE  <<u, c>> \in Slot /\ level[<<u, c>>] # None /\ level[<<u, c>>] \in Record
  BY DEF TypeOK, HasRecord

LEMMA ADDUSERStep ==
    ASSUME IInv, NEW v \in User, NEW u \in User, NEW c \in Chan,
           NEW a \in Level, NEW ok \in BOOLEAN, ADDUSER(v, u, c, a, ok)
    PROVE  IInv'
<1> DEFINE p == <<u, c>>
<1> DEFINE r == NewRecord(a)
<1> DEFINE stored == ok /\ db[p] = None
<1>1. p \in Slot /\ r \in Record /\ r # None /\ level[p] = None
  BY NewRecordType, NoneIsNoRecord DEF ADDUSER, HasRecord
<1>2. /\ level' = IF stored THEN [level EXCEPT ![p] = r] ELSE level
      /\ db' = IF stored THEN [db EXCEPT ![p] = r] ELSE db
      /\ fresh' = IF stored THEN fresh \cup {p} ELSE fresh
      /\ UNCHANGED <<chans, users, edits>>
  BY DEF ADDUSER, Inserted, Put, lists
<1>3. fails' \in 0 .. MaxMishaps /\ (fails' = 0 => ok /\ fails = 0)
  BY QueryCounts DEF ADDUSER, IInv
<1> HIDE DEF p, r, stored
<1>4. TypeOK'
  BY <1>1, <1>2, <1>3 DEF IInv, TypeOK, chans, users
<1>5. BackedAll'
  BY <1>1, <1>2 DEF IInv, BackedAll, TypeOK
<1>6. Agreement'
  BY <1>1, <1>2, <1>3 DEF IInv, Agreement, TypeOK, chans, users
<1> QED
  BY <1>2, <1>3, <1>4, <1>5, <1>6
     DEF IInv, FlagsAgree, AdminsUnforced, chans, users

LEMMA REMUSERStep ==
    ASSUME IInv, NEW v \in User, NEW u \in User, NEW c \in Chan,
           NEW ok \in BOOLEAN, REMUSER(v, u, c, ok)
    PROVE  IInv'
<1> DEFINE p == <<u, c>>
<1>1. p \in Slot
  BY DEF REMUSER, HasRecord
<1>2. /\ level' = [level EXCEPT ![p] = None]
      /\ db' = IF ok THEN [db EXCEPT ![p] = None] ELSE db
      /\ fresh' = IF ok THEN fresh \ {p} ELSE fresh
      /\ UNCHANGED <<chans, users, edits>>
  BY DEF REMUSER, Put
<1>3. fails' \in 0 .. MaxMishaps /\ (fails' = 0 => ok /\ fails = 0)
  BY QueryCounts DEF REMUSER, IInv
<1> HIDE DEF p
<1>4. TypeOK'
  BY <1>1, <1>2, <1>3 DEF IInv, TypeOK, chans, users
<1>5. BackedAll'
  BY <1>1, <1>2 DEF IInv, BackedAll, TypeOK
<1>6. Agreement'
  BY <1>1, <1>2, <1>3 DEF IInv, Agreement, TypeOK, chans, users
<1> QED
  BY <1>2, <1>3, <1>4, <1>5, <1>6
     DEF IInv, FlagsAgree, AdminsUnforced, chans, users

(* The four commands that change a record that is there.                   *)
LEMMA ListCommandStep ==
    ASSUME IInv, NEW v \in User, NEW u \in User, NEW c \in Chan,
           NEW ok \in BOOLEAN, ListCommand(v, u, c, ok)
    PROVE  IInv'
<1> DEFINE p == <<u, c>>
<1>1. CASE \E a \in Level : ADDUSER(v, u, c, a, ok)
  BY <1>1, ADDUSERStep
<1>2. CASE REMUSER(v, u, c, ok)
  BY <1>2, REMUSERStep
<1>3. ASSUME NEW a \in Level, MODINFO(v, u, c, a, ok)
      PROVE  IInv'
  <2>1. p \in Slot /\ level[p] # None /\ level[p] \in Record
    BY <1>3, HeldType DEF MODINFO, IInv
  <2>2. [level[p] EXCEPT !.access = a] \in Record
    BY <2>1 DEF Record
  <2> QED
    BY <1>3, <2>1, <2>2, ChangedStep DEF MODINFO
<1>4. ASSUME NEW s \in Asked, SUSPEND(v, u, c, s, ok)
      PROVE  IInv'
  <2> DEFINE slevel == IF s > Access(v, c) \/ s > 500 THEN Access(v, c) ELSE s
  <2>1. p \in Slot /\ level[p] # None /\ level[p] \in Record
    BY <1>4, HeldType DEF SUSPEND, IInv
  <2>2. /\ slevel \in Level
        /\ Changed(p, [level[p] EXCEPT !.expire = "later", !.slevel = slevel], ok)
    BY <1>4 DEF SUSPEND
  <2> HIDE DEF slevel
  <2>3. [level[p] EXCEPT !.expire = "later", !.slevel = slevel] \in Record
    BY <2>1, <2>2 DEF Record
  <2> QED
    BY <2>1, <2>2, <2>3, ChangedStep
<1>5. CASE CancelSuspend(v, u, c, ok) \/ UNSUSPEND(v, u, c, ok)
  <2>1. p \in Slot /\ level[p] # None /\ level[p] \in Record
    BY <1>5, HeldType DEF CancelSuspend, UNSUSPEND, IInv
  <2>2. [level[p] EXCEPT !.expire = "zero"] \in Record
    BY <2>1 DEF Record
  <2> QED
    BY <1>5, <2>1, <2>2, ChangedStep DEF CancelSuspend, UNSUSPEND
<1> QED
  BY <1>1, <1>2, <1>3, <1>4, <1>5 DEF ListCommand

-----------------------------------------------------------------------------
LEMMA SUSPENDAccountStep ==
    ASSUME IInv, NEW v \in User, NEW u \in User, NEW C \in SUBSET Strict,
           NEW ok \in BOOLEAN, SUSPENDAccount(v, u, C, ok)
    PROVE  IInv'
<1>1. /\ level' = [p \in Slot |-> IF p[1] = u /\ p[2] \in C THEN None ELSE level[p]]
      /\ globalSuspend' = globalSuspend \cup {u}
      /\ dbGlobalSuspend' = IF ok THEN dbGlobalSuspend \cup {u} ELSE dbGlobalSuspend
      /\ UNCHANGED <<db, fresh, chans, edits>>
  BY DEF SUSPENDAccount, Flagged
<1>2. fails' \in 0 .. MaxMishaps /\ (fails' = 0 => ok /\ fails = 0)
  BY QueryCounts DEF SUSPENDAccount, IInv
<1>3. TypeOK'
  BY <1>1, <1>2 DEF IInv, TypeOK, chans
<1>4. BackedAll'
  BY <1>1 DEF IInv, BackedAll, TypeOK
<1>5. Agreement'
  BY <1>1, <1>2 DEF IInv, Agreement, TypeOK, chans
<1>6. FlagsAgree' /\ AdminsUnforced'
  BY <1>1, <1>2 DEF IInv, FlagsAgree, AdminsUnforced, chans
<1> QED
  BY <1>1, <1>3, <1>4, <1>5, <1>6 DEF IInv, chans

LEMMA UNSUSPENDAccountStep ==
    ASSUME IInv, NEW v \in User, NEW u \in User, NEW ok \in BOOLEAN,
           NEW read \in BOOLEAN, UNSUSPENDAccount(v, u, ok, read)
    PROVE  IInv'
<1>1. /\ level' = IF read THEN [p \in Slot |-> IF p[1] = u /\ p[2] \in registered /\ db[p] # None
                                               THEN db[p] ELSE level[p]]
                  ELSE level
      /\ globalSuspend' = globalSuspend \ {u}
      /\ dbGlobalSuspend' = IF ok THEN dbGlobalSuspend \ {u} ELSE dbGlobalSuspend
      /\ UNCHANGED <<db, fresh, chans, edits>>
  BY DEF UNSUSPENDAccount, Flagged, Returned
<1>2. fails' \in 0 .. MaxMishaps /\ (fails' = 0 => (ok /\ read) /\ fails = 0)
  BY QueryCounts DEF UNSUSPENDAccount, IInv
<1>3. TypeOK'
  BY <1>1, <1>2 DEF IInv, TypeOK, chans
<1>4. BackedAll'
  BY <1>1 DEF IInv, BackedAll, TypeOK
<1>5. Agreement'
  <2> SUFFICES ASSUME fails' = 0, NEW p \in Slot, p[2] \in registered'
               PROVE  \/ level'[p] = db'[p]
                      \/ p \in fresh'
                      \/ level'[p] = None /\ p[1] \in globalSuspend' /\ p[2] \in Strict
    BY DEF Agreement
  <2>1. /\ fails = 0 /\ p[2] \in registered
        /\ level'[p] = IF p[1] = u /\ db[p] # None THEN db[p] ELSE level[p]
    BY <1>1, <1>2 DEF chans
  <2>2. level[p] # None => db[p] # None
    BY DEF IInv, BackedAll
  <2> QED
    BY <1>1, <2>1, <2>2 DEF IInv, Agreement, chans
<1>6. FlagsAgree' /\ AdminsUnforced'
  BY <1>1, <1>2 DEF IInv, FlagsAgree, AdminsUnforced, chans
<1> QED
  BY <1>1, <1>3, <1>4, <1>5, <1>6 DEF IInv, chans

LEMMA SUSPENDMEStep ==
    ASSUME IInv, NEW u \in User, NEW ok \in BOOLEAN, SUSPENDME(u, ok)
    PROVE  IInv'
<1>1. /\ globalSuspend' = globalSuspend \cup {u}
      /\ dbGlobalSuspend' = IF ok THEN dbGlobalSuspend \cup {u} ELSE dbGlobalSuspend
      /\ UNCHANGED <<lists, chans, edits>>
  BY DEF SUSPENDME, Flagged
<1>2. fails' \in 0 .. MaxMishaps /\ (fails' = 0 => ok /\ fails = 0)
  BY QueryCounts DEF SUSPENDME, IInv
<1>3. TypeOK' /\ BackedAll' /\ Agreement'
  BY <1>1, <1>2 DEF IInv, TypeOK, BackedAll, Agreement, chans, lists
<1> QED
  BY <1>1, <1>2, <1>3 DEF IInv, FlagsAgree, AdminsUnforced, chans, lists

-----------------------------------------------------------------------------
LEMMA FORCEStep ==
    ASSUME IInv, NEW v \in User, NEW c \in Chan, FORCE(v, c) \/ UNFORCE(v, c)
    PROVE  IInv'
<1>1. PICK n \in 0 .. 1000 : /\ forceMap' = [forceMap EXCEPT ![<<v, c>>] = n]
                             /\ c = Star => n = 0
  <2>1. CASE FORCE(v, c)
    <3> DEFINE n == getAdminAccessLevel(v)
    <3>1. n \in 0 .. 1000 /\ c # Star
      BY <2>1, AccessType DEF FORCE, IInv, Ordinary
    <3>2. forceMap' = [forceMap EXCEPT ![<<v, c>>] = n]
      BY <2>1 DEF FORCE
    <3> HIDE DEF n
    <3> DEFINE P(k) == forceMap' = [forceMap EXCEPT ![<<v, c>>] = k] /\ (c = Star => k = 0)
    <3>3. P(n)
      BY <3>1, <3>2
    <3> HIDE DEF P
    <3>4. \E k \in 0 .. 1000 : P(k)
      BY <3>1, <3>3
    <3> QED
      BY <3>4 DEF P
  <2>2. CASE UNFORCE(v, c)
    BY <2>2 DEF UNFORCE
  <2> QED
    BY <2>1, <2>2
<1>2. UNCHANGED <<lists, users, registered, dbRegistered, fails, edits>>
  BY DEF FORCE, UNFORCE
<1>3. TypeOK'
  BY <1>1, <1>2 DEF IInv, TypeOK, lists, users
<1>4. AdminsUnforced'
  BY <1>1, <1>2, ChannelAccessAssumption DEF IInv, AdminsUnforced, TypeOK
<1> QED
  BY <1>2, <1>3, <1>4 DEF IInv, BackedAll, Agreement, FlagsAgree, lists, users

LEMMA PURGEStep ==
    ASSUME IInv, NEW v \in User, NEW c \in Chan, NEW ok \in BOOLEAN, PURGE(v, c, ok)
    PROVE  IInv'
<1>1. /\ c # Star
      /\ registered' = registered \ {c}
      /\ dbRegistered' = IF ok THEN dbRegistered \ {c} ELSE dbRegistered
      /\ forceMap' = [uc \in DOMAIN forceMap |-> IF uc[2] = c THEN 0 ELSE forceMap[uc]]
      /\ UNCHANGED <<lists, users, edits>>
  BY DEF PURGE, Ordinary
<1>2. fails' \in 0 .. MaxMishaps /\ (fails' = 0 => ok /\ fails = 0)
  BY QueryCounts DEF PURGE, IInv
<1>3. TypeOK'
  BY <1>1, <1>2 DEF IInv, TypeOK, lists, users
<1>4. AdminsUnforced'
  BY <1>1, ChannelAccessAssumption DEF IInv, AdminsUnforced, TypeOK
<1> QED
  BY <1>1, <1>2, <1>3, <1>4 DEF IInv, BackedAll, Agreement, FlagsAgree, lists, users

LEMMA REMOVEALLStep ==
    ASSUME IInv, NEW v \in User, NEW c \in Chan, NEW ok \in BOOLEAN, REMOVEALL(v, c, ok)
    PROVE  IInv'
<1>1. /\ level' = [p \in Slot |-> IF p \in On(c) /\ db[p] # None THEN None ELSE level[p]]
      /\ db' = IF ok THEN [p \in Slot |-> IF p \in On(c) THEN None ELSE db[p]] ELSE db
      /\ fresh' = IF ok THEN fresh \ On(c) ELSE fresh
      /\ UNCHANGED <<chans, users, edits>>
  BY DEF REMOVEALL
<1>2. fails' \in 0 .. MaxMishaps /\ (fails' = 0 => ok /\ fails = 0)
  BY QueryCounts DEF REMOVEALL, IInv
<1>3. TypeOK'
  BY <1>1, <1>2 DEF IInv, TypeOK, chans, users
<1>4. BackedAll'
  BY <1>1 DEF IInv, BackedAll, TypeOK
<1>5. Agreement'
  BY <1>1, <1>2 DEF IInv, BackedAll, Agreement, TypeOK, chans, users
<1> QED
  BY <1>1, <1>2, <1>3, <1>4, <1>5
     DEF IInv, FlagsAgree, AdminsUnforced, chans, users

(* What sqlRegisterChannel() leaves of the records, by the query that      *)
(* fails: nothing changes, the list is empty, or the manager is alone.     *)
LEMMA RegisterLists ==
    ASSUME TypeOK, NEW c \in Chan, NEW m \in User, NEW at \in Failing,
           Register(c, m, at)
    PROVE  \/ at = "levels" /\ UNCHANGED lists
           \/ \E r \in {None, NewRecord(500)} :
                  LET kept(f) == [p \in Slot |-> IF p = <<m, c>> THEN r
                                                 ELSE IF p \in On(c) THEN None ELSE f[p]]
                  IN  /\ <<m, c>> \in Slot
                      /\ level' = kept(level) /\ db' = kept(db)
                      /\ fresh' \subseteq Slot
                      /\ \A p \in Slot \ On(c) : p \in fresh' <=> p \in fresh
<1>1. <<m, c>> \in Slot /\ <<m, c>> \in On(c)
  BY DEF Register, On
<1>2. CASE at = "levels"
  BY <1>2 DEF Register
<1>3. CASE at = "manager"
  <2>1. /\ level' = [p \in Slot |-> IF p \in On(c) THEN None ELSE level[p]]
        /\ db' = [p \in Slot |-> IF p \in On(c) THEN None ELSE db[p]]
        /\ fresh' = fresh \ On(c)
    BY <1>3 DEF Register
  <2>2. /\ level' = [p \in Slot |-> IF p = <<m, c>> THEN None
                                     ELSE IF p \in On(c) THEN None ELSE level[p]]
        /\ db' = [p \in Slot |-> IF p = <<m, c>> THEN None
                                  ELSE IF p \in On(c) THEN None ELSE db[p]]
    BY <1>1, <2>1
  <2> QED
    BY <1>1, <2>1, <2>2 DEF TypeOK
<1>4. CASE at \notin {"levels", "manager"}
  <2> DEFINE new == NewRecord(500)
  <2>1. /\ level' = [[p \in Slot |-> IF p \in On(c) THEN None ELSE level[p]]
                        EXCEPT ![<<m, c>>] = new]
        /\ db' = [[p \in Slot |-> IF p \in On(c) THEN None ELSE db[p]]
                     EXCEPT ![<<m, c>>] = new]
        /\ fresh' = (fresh \ On(c)) \cup {<<m, c>>}
    BY <1>4 DEF Register
  <2> HIDE DEF new
  <2>2. /\ level' = [p \in Slot |-> IF p = <<m, c>> THEN new
                                     ELSE IF p \in On(c) THEN None ELSE level[p]]
        /\ db' = [p \in Slot |-> IF p = <<m, c>> THEN new
                                  ELSE IF p \in On(c) THEN None ELSE db[p]]
    BY <1>1, <2>1
  <2>3. new \in {None, NewRecord(500)}
    BY DEF new
  <2>4. fresh' \subseteq Slot /\ \A p \in Slot \ On(c) : p \in fresh' <=> p \in fresh
    BY <1>1, <2>1 DEF TypeOK
  <2> QED
    BY <1>1, <2>2, <2>3, <2>4
<1> QED
  BY <1>2, <1>3, <1>4

LEMMA RegisterStep ==
    ASSUME IInv, NEW c \in Chan, NEW m \in User, NEW at \in Failing,
           Register(c, m, at), edits' \in 0 .. MaxMishaps
    PROVE  IInv'
<1>1. /\ c # Star /\ c \notin registered
      /\ registered' = registered \cup {c}
      /\ dbRegistered' = IF at = "channel" THEN dbRegistered ELSE dbRegistered \cup {c}
      /\ UNCHANGED <<forceMap, users>>
  BY DEF Register, Ordinary
<1>2. fails' \in 0 .. MaxMishaps /\ (fails' = 0 => at = "none" /\ fails = 0)
  BY QueryCounts DEF Register, IInv
<1>3. Star \in dbRegistered' /\ FlagsAgree' /\ AdminsUnforced'
  BY <1>1, <1>2 DEF IInv, FlagsAgree, AdminsUnforced, users
<1>4. CASE at = "levels" /\ UNCHANGED lists
  <2>1. TypeOK' /\ BackedAll' /\ Agreement'
    BY <1>1, <1>2, <1>4 DEF IInv, TypeOK, BackedAll, Agreement, lists, users
  <2> QED
    BY <1>3, <2>1 DEF IInv
<1>5. ASSUME NEW r \in {None, NewRecord(500)},
             LET kept(f) == [p \in Slot |-> IF p = <<m, c>> THEN r
                                            ELSE IF p \in On(c) THEN None ELSE f[p]]
             IN  /\ <<m, c>> \in Slot
                 /\ level' = kept(level) /\ db' = kept(db)
                 /\ fresh' \subseteq Slot
                 /\ \A p \in Slot \ On(c) : p \in fresh' <=> p \in fresh
      PROVE  IInv'
  <2>1. r \in Record \cup {None}
    BY NewRecordType, ChannelAccessAssumption
  <2>2. TypeOK'
    BY <1>1, <1>2, <1>5, <2>1 DEF IInv, TypeOK, users
  <2>3. BackedAll'
    BY <1>5 DEF IInv, BackedAll, TypeOK
  <2>4. Agreement'
    <3> SUFFICES ASSUME fails' = 0, NEW q \in Slot, q[2] \in registered'
                 PROVE  \/ level'[q] = db'[q]
                        \/ q \in fresh'
                        \/ level'[q] = None /\ q[1] \in globalSuspend' /\ q[2] \in Strict
      BY DEF Agreement
    <3>1. CASE q \in On(c)
      BY <1>5, <3>1
    <3>2. CASE q \notin On(c)
      <4>1. q[2] \in registered /\ q # <<m, c>> /\ fails = 0
        BY <1>1, <1>2, <1>5, <3>2 DEF On
      <4> QED
        BY <1>1, <1>5, <3>2, <4>1 DEF IInv, Agreement, users
    <3> QED
      BY <3>1, <3>2
  <2> QED
    BY <1>3, <2>2, <2>3, <2>4 DEF IInv
<1> QED
  BY <1>4, <1>5, RegisterLists DEF IInv

LEMMA WebEditStep ==
    ASSUME IInv, NEW u \in User, NEW c \in Chan, NEW a \in Level, WebEdit(u, c, a)
    PROVE  IInv'
<1> DEFINE p == <<u, c>>
<1> DEFINE r == IF db[p] = None THEN NewRecord(a) ELSE [db[p] EXCEPT !.access = a]
<1>1. p \in Slot
  BY DEF WebEdit
<1>2. r \in Record
  <2>1. CASE db[p] = None
    BY <2>1, NewRecordType
  <2>2. CASE db[p] # None
    <3>1. db[p] \in Record
      BY <1>1, <2>2 DEF IInv, TypeOK
    <3> QED
      BY <2>2, <3>1 DEF Record
  <2> QED
    BY <2>1, <2>2
<1>3. /\ db' = [db EXCEPT ![p] = r]
      /\ fresh' = fresh \cup {p}
      /\ edits' \in 0 .. MaxMishaps
      /\ UNCHANGED <<level, chans, users, fails>>
  BY <1>1, ChannelAccessAssumption DEF WebEdit, IInv, TypeOK
<1> HIDE DEF p, r
<1>4. TypeOK'
  BY <1>1, <1>2, <1>3 DEF IInv, TypeOK, chans, users
<1>5. BackedAll'
  BY <1>1, <1>2, <1>3, NoneIsNoRecord DEF IInv, BackedAll, TypeOK
<1>6. Agreement'
  BY <1>1, <1>3 DEF IInv, Agreement, TypeOK, chans, users
<1> QED
  BY <1>3, <1>4, <1>5, <1>6 DEF IInv, FlagsAgree, AdminsUnforced, chans, users

-----------------------------------------------------------------------------
LEMMA updateLevelsStep ==
    ASSUME IInv, updateLevels
    PROVE  IInv'
<1>1. /\ level' = [p \in Slot |-> IF p \in fresh /\ p[2] \in registered THEN db[p] ELSE level[p]]
      /\ fresh' = {}
      /\ UNCHANGED <<db, chans, users, fails, edits>>
  BY DEF updateLevels, Reread
<1>2. TypeOK'
  BY <1>1 DEF IInv, TypeOK, chans, users
<1>3. BackedAll' /\ Agreement'
  BY <1>1 DEF IInv, BackedAll, Agreement, TypeOK, chans, users
<1> QED
  BY <1>1, <1>2, <1>3 DEF IInv, FlagsAgree, AdminsUnforced, chans, users

LEMMA EndedType ==
    ASSUME NEW r \in Record
    PROVE  /\ Ended(r) \in Record /\ Expired(r) \in Record
           /\ Ended(r).access = r.access /\ Expired(r).access = r.access
           /\ Ended(r).expire = "past" /\ Expired(r).expire = "zero"
  BY DEF Record, Ended, Expired

LEMMA ElapseStep ==
    ASSUME IInv, NEW p \in Slot, NEW here \in BOOLEAN, NEW there \in BOOLEAN,
           Elapse(p, here, there)
    PROVE  IInv'
<1>1. /\ level' = IF here THEN [level EXCEPT ![p] = Ended(level[p])] ELSE level
      /\ db' = IF there THEN [db EXCEPT ![p] = Ended(db[p])] ELSE db
      /\ UNCHANGED <<fresh, chans, users, fails, edits>>
  BY DEF Elapse
<1>2. /\ here => level[p] # None /\ level[p] \in Record
      /\ there => db[p] # None /\ db[p] \in Record
  BY DEF Elapse, Over, IInv, TypeOK
<1>3. /\ here => Ended(level[p]) \in Record /\ Ended(level[p]) # None
      /\ there => Ended(db[p]) \in Record /\ Ended(db[p]) # None
  BY <1>2, EndedType, NoneIsNoRecord
<1>4. TypeOK'
  BY <1>1, <1>3 DEF IInv, TypeOK, chans, users
<1>5. BackedAll'
  BY <1>1, <1>2, <1>3 DEF IInv, BackedAll, TypeOK
<1>6. Agreement'
  <2> SUFFICES ASSUME fails' = 0, NEW q \in Slot, q[2] \in registered'
               PROVE  \/ level'[q] = db'[q]
                      \/ q \in fresh'
                      \/ level'[q] = None /\ q[1] \in globalSuspend' /\ q[2] \in Strict
    BY DEF Agreement
  <2>1. \/ level[q] = db[q]
        \/ q \in fresh
        \/ level[q] = None /\ q[1] \in globalSuspend /\ q[2] \in Strict
    BY <1>1 DEF IInv, Agreement, chans
  <2>2. CASE q # p
    BY <1>1, <2>1, <2>2 DEF IInv, TypeOK, chans, users
  <2>3. CASE q = p /\ level[p] = db[p]
    <3>1. here = there
      BY <2>3 DEF Elapse
    <3> QED
      BY <1>1, <2>3, <3>1 DEF IInv, TypeOK
  <2>4. CASE q = p /\ level[p] # db[p]
    BY <1>1, <1>2, <2>1, <2>4 DEF IInv, TypeOK, chans, users
  <2> QED
    BY <2>2, <2>3, <2>4
<1> QED
  BY <1>1, <1>4, <1>5, <1>6 DEF IInv, FlagsAgree, AdminsUnforced, chans, users

LEMMA expireSuspendsStep ==
    ASSUME IInv, NEW ok \in BOOLEAN, expireSuspends(ok)
    PROVE  IInv'
<1> DEFINE P == {p \in Slot : db[p] # None /\ db[p].expire = "past"}
<1>1. /\ level' = [p \in Slot |-> IF p \in P /\ level[p] # None
                                  THEN Expired(level[p]) ELSE level[p]]
      /\ db' = IF ok THEN [p \in Slot |-> IF p \in P THEN Expired(db[p]) ELSE db[p]] ELSE db
      /\ UNCHANGED <<fresh, chans, users, edits>>
  BY DEF expireSuspends
<1>2. fails' \in 0 .. MaxMishaps /\ (fails' = 0 => ok /\ fails = 0)
  BY QueryCounts DEF expireSuspends, IInv
<1>3. \A p \in Slot : /\ level[p] # None => Expired(level[p]) \in Record \ {None}
                      /\ p \in P => db[p] # None /\ Expired(db[p]) \in Record \ {None}
  BY EndedType, NoneIsNoRecord DEF IInv, TypeOK
<1> HIDE DEF P
<1>4. TypeOK'
  BY <1>1, <1>2, <1>3 DEF IInv, TypeOK, chans, users
<1>5. BackedAll'
  BY <1>1, <1>3 DEF IInv, BackedAll, TypeOK
<1>6. Agreement'
  BY <1>1, <1>2, <1>3 DEF IInv, Agreement, TypeOK, chans, users
<1> QED
  BY <1>1, <1>2, <1>4, <1>5, <1>6 DEF IInv, FlagsAgree, AdminsUnforced, chans, users

LEMMA cacheExpireStep ==
    ASSUME IInv, cacheExpireLevels \/ \E u \in User : cacheExpireUsers(u)
    PROVE  IInv'
<1>1. CASE cacheExpireLevels
  BY <1>1 DEF cacheExpireLevels, IInv, TypeOK, BackedAll, Agreement, FlagsAgree,
              AdminsUnforced, lists, users
<1>2. ASSUME NEW u \in User, cacheExpireUsers(u)
      PROVE  IInv'
  <2>1. fails # 0
    BY <1>2 DEF cacheExpireUsers, IInv, FlagsAgree
  <2>2. /\ globalSuspend' \subseteq User
        /\ UNCHANGED <<lists, chans, dbGlobalSuspend, fails, edits>>
    BY <1>2 DEF cacheExpireUsers, IInv, TypeOK
  <2> QED
    BY <2>1, <2>2 DEF IInv, TypeOK, BackedAll, Agreement, FlagsAgree,
                      AdminsUnforced, lists, chans
<1> QED
  BY <1>1, <1>2

LEMMA RestartStep ==
    ASSUME IInv, Restart
    PROVE  IInv'
<1>1. /\ registered' = dbRegistered
      /\ level' = [p \in Slot |-> IF p[2] \in dbRegistered THEN db[p] ELSE None]
      /\ fresh' = {} /\ globalSuspend' = dbGlobalSuspend
      /\ forceMap' = [uc \in User \X Chan |-> 0]
      /\ UNCHANGED <<db, dbRegistered, dbGlobalSuspend, fails, edits>>
  BY DEF Restart, NoForce
<1>2. TypeOK'
  BY <1>1, ChannelAccessAssumption DEF IInv, TypeOK
<1>3. BackedAll' /\ Agreement'
  BY <1>1 DEF BackedAll, Agreement
<1>4. AdminsUnforced'
  BY <1>1, ChannelAccessAssumption DEF AdminsUnforced
<1> QED
  BY <1>1, <1>2, <1>3, <1>4 DEF IInv, FlagsAgree

-----------------------------------------------------------------------------
LEMMA InitIInv == Init => IInv
<1> SUFFICES ASSUME Init PROVE IInv
  OBVIOUS
<1>1. TypeOK
  BY ChannelAccessAssumption DEF Init, TypeOK, NoForce
<1>2. Star \in dbRegistered /\ AdminsUnforced
  BY ChannelAccessAssumption DEF Init, AdminsUnforced, NoForce
<1> QED
  BY <1>1, <1>2 DEF Init, IInv, BackedAll, Agreement, FlagsAgree

LEMMA NextIInv == IInv /\ [Next]_vars => IInv'
<1> SUFFICES ASSUME IInv, [Next]_vars PROVE IInv'
  OBVIOUS
<1>1. ASSUME NEW v \in User, NEW ok \in BOOLEAN, NEW u \in User, NEW c \in Chan,
             ListCommand(v, u, c, ok)
      PROVE  IInv'
  BY <1>1, ListCommandStep
<1>2. ASSUME NEW v \in User, NEW ok \in BOOLEAN, NEW u \in Accounts,
             AccountCommand(v, u, ok)
      PROVE  IInv'
  <2>1. u \in User
    BY ChannelAccessAssumption
  <2> QED
    BY <1>2, <2>1, SUSPENDAccountStep, UNSUSPENDAccountStep, SUSPENDMEStep
       DEF AccountCommand
<1>3. ASSUME NEW v \in User, NEW ok \in BOOLEAN, NEW c \in Chan,
             ChannelCommand(v, c, ok)
      PROVE  IInv'
  <2>1. ASSUME NEW m \in User, NEW at \in Failing, REGISTER(v, c, m, at)
        PROVE  IInv'
    <3>1. Register(c, m, at) /\ edits' \in 0 .. MaxMishaps
      BY <2>1 DEF REGISTER, IInv, TypeOK
    <3> QED
      BY <3>1, RegisterStep
  <2> QED
    BY <1>3, <2>1, FORCEStep, PURGEStep, REMOVEALLStep DEF ChannelCommand
<1>4. CASE Website
  <2>1. ASSUME NEW c \in Chan, NEW m \in User, NEW at \in Failing,
               updateChannels(c, m, at)
        PROVE  IInv'
    <3>1. Register(c, m, at) /\ edits' \in 0 .. MaxMishaps
      BY <2>1, ChannelAccessAssumption DEF updateChannels, IInv, TypeOK
    <3> QED
      BY <3>1, RegisterStep
  <2>2. ASSUME NEW u \in User, NEW c \in Ordinary, NEW a \in Level, WebEdit(u, c, a)
        PROVE  IInv'
    BY <2>2, WebEditStep DEF Ordinary
  <2> QED
    BY <1>4, <2>1, <2>2 DEF Website
<1>5. CASE Timer
  BY <1>5, updateLevelsStep, expireSuspendsStep, cacheExpireStep DEF Timer
<1>6. CASE Time
  BY <1>6, ElapseStep DEF Time
<1>7. CASE Restart
  BY <1>7, RestartStep
<1>8. CASE UNCHANGED vars
  BY <1>8 DEF IInv, TypeOK, BackedAll, Agreement, FlagsAgree, AdminsUnforced,
              vars, lists, chans, users
<1> QED
  <2>1. Outcome \subseteq BOOLEAN
    BY DEF Outcome
  <2> QED
    BY <1>1, <1>2, <1>3, <1>4, <1>5, <1>6, <1>7, <1>8, <2>1 DEF Next, Command

(* The inductive invariant holds in every reachable state.                 *)
THEOREM Invariance == Spec => []IInv
  BY InitIInv, NextIInv, PTL DEF Spec

(* Every variable keeps its type; the row "*" stays registered, and nobody *)
(* has a record or forced access above 1000.                               *)
THEOREM AccessTypes == Spec => []TypeOK
  BY Invariance, PTL DEF IInv

(* A record in memory has a row in the table, whatever queries failed: no  *)
(* order of commands, timers and failures makes mod.cservice grant access  *)
(* that no row accounts for.                                               *)
THEOREM AccessIsBacked == Spec => []Backed
<1>1. IInv => Backed
  BY DEF IInv, BackedAll, Backed
<1> QED
  BY <1>1, Invariance, PTL

(* As long as no query failed, memory and table agree on the registered    *)
(* channels, but for rows waiting for updateLevels() and for records a     *)
(* global suspension took out of memory.                                   *)
THEOREM MemoryAgrees == Spec => []Agreement
  BY Invariance, PTL DEF IInv

-----------------------------------------------------------------------------
(* The refinement of AccessRules: every step of a command, a timer or the  *)
(* website is a step of the rules, or changes nothing they speak of.       *)
LEMMA SeenType ==
    /\ Seen(None) = None
    /\ \A r \in Record :
          /\ Seen(r) # None
          /\ Seen(r).access = r.access
          /\ Seen(r).suspended = (IF r.expire = "later" THEN r.slevel ELSE 0)
          /\ Seen(r) = [access |-> r.access,
                        suspended |-> IF r.expire = "later" THEN r.slevel ELSE 0]
<1>1. ASSUME NEW r \in Record
      PROVE  Seen(r) \in [access : Level, suspended : Level \cup {0}]
  BY RecordType, NoneIsNoRecord DEF Seen
<1>2. None \notin [access : Level, suspended : Level \cup {0}]
  BY ChannelAccessAssumption
<1> QED
  BY <1>1, <1>2, NoneIsNoRecord DEF Seen

(* The access a user has by the code is the authority of the rules.        *)
LEMMA AccessIsAuthority ==
    ASSUME IInv, NEW v \in User, NEW c \in Chan
    PROVE  /\ Access(v, c) > 0 => Rules!Authority(v, c) = Access(v, c)
           /\ getAdminAccessLevel(v) > 0 =>
                  Rules!Authority(v, Star) = getAdminAccessLevel(v)
<1>1. ASSUME NEW d \in Chan, Listed(v, d) > 0
      PROVE  /\ <<v, d>> \in Slot
             /\ Seen(level[<<v, d>>]) # None
             /\ Seen(level[<<v, d>>]).suspended = 0
             /\ Seen(level[<<v, d>>]).access = Listed(v, d)
  <2>1. HasRecord(v, d) /\ level[<<v, d>>].expire # "later"
        /\ Listed(v, d) = level[<<v, d>>].access
    BY <1>1 DEF Listed
  <2> QED
    BY <2>1, HeldType, SeenType DEF IInv
<1>2. Access(v, c) > 0 => Rules!Authority(v, c) = Access(v, c)
  <2> SUFFICES ASSUME Access(v, c) > 0 PROVE Rules!Authority(v, c) = Access(v, c)
    OBVIOUS
  <2>1. CASE forceMap[<<v, c>>] > 0
    BY <2>1 DEF Rules!Authority, Access, getEffectiveAccessLevel
  <2>2. CASE ~(forceMap[<<v, c>>] > 0)
    <3>1. Access(v, c) = Listed(v, c)
      BY <2>2 DEF Access, getEffectiveAccessLevel
    <3> QED
      BY <1>1, <2>2, <3>1 DEF Rules!Authority
  <2> QED
    BY <2>1, <2>2
<1>3. getAdminAccessLevel(v) > 0 => Rules!Authority(v, Star) = getAdminAccessLevel(v)
  <2> SUFFICES ASSUME getAdminAccessLevel(v) > 0
               PROVE  Rules!Authority(v, Star) = getAdminAccessLevel(v)
    OBVIOUS
  <2>1. getAdminAccessLevel(v) = Listed(v, Star)
    BY DEF getAdminAccessLevel
  <2>2. Star \in Chan /\ ~(forceMap[<<v, Star>>] > 0)
    BY ChannelAccessAssumption DEF IInv, AdminsUnforced
  <2> QED
    BY <1>1, <2>1, <2>2 DEF Rules!Authority
<1> QED
  BY <1>2, <1>3

(* A change of one record by somebody the rules let change it.             *)
LEMMA OneRecordChanges ==
    ASSUME IInv, NEW v \in User, NEW p \in Slot, NEW r \in Record \cup {None},
           level' = [level EXCEPT ![p] = r],
           db' = db \/ db' = [db EXCEPT ![p] = r],
           UNCHANGED forceMap,
           Rules!May(v, p, Seen(r))
    PROVE  [Rules!Next]_(Rules!vars)
<1> DEFINE held == [q \in Slot |-> Seen(level[q])]
<1> DEFINE stored == [q \in Slot |-> Seen(db[q])]
<1>1. held' = [q \in Slot |-> IF q = p THEN Seen(r) ELSE held[q]]
  BY DEF IInv, TypeOK
<1>2. \/ stored' = stored
      \/ stored' = [q \in Slot |-> IF q = p THEN Seen(r) ELSE stored[q]]
  BY DEF IInv, TypeOK
<1>3. CASE held'[p] # held[p] \/ stored'[p] # stored[p]
  <2>1. \A q \in Slot \ {p} : held'[q] = held[q] /\ stored'[q] = stored[q]
    BY <1>1, <1>2
  <2>2. held'[p] = Seen(r) /\ stored'[p] \in {stored[p], held'[p]}
    BY <1>1, <1>2
  <2>3. Rules!Change
    BY <1>3, <2>1, <2>2 DEF Rules!Change, Rules!Only, Rules!Stores
  <2> QED
    BY <2>3 DEF Rules!Next
<1>4. CASE held'[p] = held[p] /\ stored'[p] = stored[p]
  <2>1. held' = held /\ stored' = stored
    BY <1>1, <1>2, <1>4
  <2> QED
    BY <2>1 DEF Rules!vars
<1> QED
  BY <1>3, <1>4

LEMMA ADDUSERObeys ==
    ASSUME IInv, NEW v \in User, NEW u \in User, NEW c \in Chan,
           NEW a \in Level, NEW ok \in BOOLEAN, ADDUSER(v, u, c, a, ok)
    PROVE  [Rules!Next]_(Rules!vars)
<1> DEFINE p == <<u, c>>
<1> DEFINE r == NewRecord(a)
<1>1. p \in Slot /\ p[2] = c /\ r \in Record /\ level[p] = None /\ UNCHANGED forceMap
  BY NewRecordType DEF ADDUSER, HasRecord, chans
<1>2. CASE ok /\ db[p] = None
  <2>1. level' = [level EXCEPT ![p] = r] /\ db' = [db EXCEPT ![p] = r]
    BY <1>2 DEF ADDUSER, Inserted, Put
  <2>2. Access(v, c) \in Nat /\ Access(v, c) > a /\ a \in Nat /\ a > 0
    BY AccessIsNat, LevelIsPositive DEF ADDUSER, IInv
  <2>3. Rules!Authority(v, c) = Access(v, c)
    BY <2>2, AccessIsAuthority
  <2>4. Seen(r) # None /\ Seen(r).access = a /\ Seen(r).suspended = 0
    BY <1>1, SeenType DEF NewRecord
  <2>5. Rules!May(v, p, Seen(r))
    BY <1>1, <2>2, <2>3, <2>4, SeenType DEF Rules!May
  <2> QED
    BY <1>1, <2>1, <2>5, OneRecordChanges
<1>3. CASE ~(ok /\ db[p] = None)
  <2>1. UNCHANGED lists
    BY <1>3 DEF ADDUSER, Inserted
  <2> QED
    BY <1>1, <2>1 DEF Rules!vars, lists
<1> QED
  BY <1>2, <1>3

LEMMA REMUSERObeys ==
    ASSUME IInv, NEW v \in User, NEW u \in User, NEW c \in Chan,
           NEW ok \in BOOLEAN, REMUSER(v, u, c, ok)
    PROVE  [Rules!Next]_(Rules!vars)
<1> DEFINE p == <<u, c>>
<1>1. p \in Slot /\ p[2] = c /\ level[p] # None /\ level[p] \in Record
  BY HeldType DEF REMUSER, IInv
<1>2. /\ level' = [level EXCEPT ![p] = None]
      /\ db' = db \/ db' = [db EXCEPT ![p] = None]
      /\ UNCHANGED forceMap
  BY DEF REMUSER, Put, chans
<1>3. Seen(level[p]) # None /\ Seen(level[p]).access = level[p].access
  BY <1>1, SeenType
<1>4. \/ u # v /\ Allowed(v, c, 400, 800) /\ level[p].access < Access(v, c)
      \/ u = v /\ c # Star /\ level[p].access # 500
  BY DEF REMUSER
<1> HIDE DEF p
<1>5. CASE u # v /\ Allowed(v, c, 400, 800) /\ level[p].access < Access(v, c)
  <2>1. Access(v, c) \in Nat /\ level[p].access \in Nat /\ level[p].access > 0
    BY <1>1, AccessIsNat, LevelIsPositive, RecordType DEF IInv
  <2>2. Access(v, c) > 0
    BY <1>5, <2>1
  <2>3. Access(v, c) > 0 /\ Rules!Authority(v, c) = Access(v, c)
    BY <2>2, AccessIsAuthority
  <2>4. Rules!May(v, p, Seen(None))
    BY <1>1, <1>3, <1>5, <2>3, SeenType DEF Rules!May
  <2> QED
    BY <1>1, <1>2, <2>4, OneRecordChanges
<1>6. CASE u = v /\ c # Star /\ level[p].access # 500
  <2> DEFINE held == [q \in Slot |-> Seen(level[q])]
  <2> DEFINE stored == [q \in Slot |-> Seen(db[q])]
  <2>1. held' = [q \in Slot |-> IF q = p THEN None ELSE held[q]]
    BY <1>2, SeenType DEF IInv, TypeOK
  <2>2. \/ stored' = stored
        \/ stored' = [q \in Slot |-> IF q = p THEN None ELSE stored[q]]
    BY <1>2, SeenType DEF IInv, TypeOK
  <2>3. \A q \in Slot \ {p} : held'[q] = held[q] /\ stored'[q] = stored[q]
    BY <2>1, <2>2
  <2>4. held'[p] = None /\ stored'[p] \in {stored[p], held'[p]}
    BY <1>1, <2>1, <2>2
  <2>5. held[p] # None /\ held[p].access # 500 /\ p[2] # Star
    BY <1>1, <1>3, <1>6
  <2>6. Rules!Leave
    BY <1>1, <1>2, <2>3, <2>4, <2>5 DEF Rules!Leave, Rules!Only, Rules!Stores
  <2> QED
    BY <2>6 DEF Rules!Next
<1> QED
  BY <1>5, <1>6, <1>4

LEMMA MODINFOObeys ==
    ASSUME IInv, NEW v \in User, NEW u \in User, NEW c \in Chan,
           NEW a \in Level, NEW ok \in BOOLEAN, MODINFO(v, u, c, a, ok)
    PROVE  [Rules!Next]_(Rules!vars)
<1> DEFINE p == <<u, c>>
<1> DEFINE r == [level[p] EXCEPT !.access = a]
<1>1. p \in Slot /\ p[2] = c /\ level[p] # None /\ level[p] \in Record
  BY HeldType DEF MODINFO, IInv
<1>2. r \in Record /\ r.access = a /\ r.expire = level[p].expire /\ r.slevel = level[p].slevel
  BY <1>1 DEF Record
<1>3. /\ level' = [level EXCEPT ![p] = r]
      /\ db' = db \/ db' = [db EXCEPT ![p] = r]
      /\ UNCHANGED forceMap
  BY DEF MODINFO, Changed, Put, Commit, chans
<1>4. /\ Access(v, c) \in Nat /\ Access(v, c) > a /\ a \in Nat /\ a > 0
      /\ level[p].access < Access(v, c) \/ forceMap[<<v, c>>] > 0
  BY AccessIsNat, LevelIsPositive DEF MODINFO, IInv
<1>5. Rules!Authority(v, c) = Access(v, c)
  BY <1>4, AccessIsAuthority
<1> HIDE DEF r
<1>6. Rules!May(v, p, Seen(r))
  BY <1>1, <1>2, <1>4, <1>5, SeenType DEF Rules!May
<1> QED
  BY <1>1, <1>2, <1>3, <1>6, OneRecordChanges

LEMMA SUSPENDObeys ==
    ASSUME IInv, NEW v \in User, NEW u \in User, NEW c \in Chan,
           NEW s \in Asked, NEW ok \in BOOLEAN, SUSPEND(v, u, c, s, ok)
    PROVE  [Rules!Next]_(Rules!vars)
<1> DEFINE p == <<u, c>>
<1> DEFINE slevel == IF s > Access(v, c) \/ s > 500 THEN Access(v, c) ELSE s
<1> DEFINE r == [level[p] EXCEPT !.expire = "later", !.slevel = slevel]
<1>1. p \in Slot /\ p[2] = c /\ level[p] # None /\ level[p] \in Record
  BY HeldType DEF SUSPEND, IInv
<1>2. /\ Access(v, c) \in Nat /\ level[p].access \in Nat /\ level[p].access > 0
      /\ level[p].access < Access(v, c) /\ level[p].expire # "later"
      /\ slevel \in Level
  BY <1>1, AccessIsNat, LevelIsPositive, RecordType DEF SUSPEND, IInv
<1>3. slevel <= Access(v, c)
  <2>1. s \in Nat
    BY ChannelAccessAssumption
  <2> QED
    BY <1>2, <2>1
<1>4. /\ level' = [level EXCEPT ![p] = r]
      /\ db' = db \/ db' = [db EXCEPT ![p] = r]
      /\ UNCHANGED forceMap
  BY DEF SUSPEND, Changed, Put, Commit, chans
<1> HIDE DEF p, slevel
<1>5. r \in Record /\ r.access = level[p].access /\ r.expire = "later" /\ r.slevel = slevel
  BY <1>1, <1>2 DEF Record
<1>6. Access(v, c) > 0 /\ Rules!Authority(v, c) = Access(v, c)
  <2>1. Access(v, c) > 0
    BY <1>2
  <2> QED
    BY <2>1, AccessIsAuthority
<1> HIDE DEF r
<1>7. Rules!May(v, p, Seen(r))
  <2>1. /\ Seen(r) # None /\ Seen(r).access = level[p].access /\ Seen(r).suspended = slevel
        /\ Seen(level[p]) # None /\ Seen(level[p]).access = level[p].access
        /\ Seen(level[p]).suspended = 0
    BY <1>1, <1>2, <1>5, SeenType
  <2> QED
    BY <1>1, <1>2, <1>3, <1>6, <2>1 DEF Rules!May
<1> QED
  BY <1>1, <1>4, <1>5, <1>7, OneRecordChanges

LEMMA LiftObeys ==
    ASSUME IInv, NEW v \in User, NEW u \in User, NEW c \in Chan, NEW ok \in BOOLEAN,
           CancelSuspend(v, u, c, ok) \/ UNSUSPEND(v, u, c, ok)
    PROVE  [Rules!Next]_(Rules!vars)
<1> DEFINE p == <<u, c>>
<1> DEFINE r == [level[p] EXCEPT !.expire = "zero"]
<1>1. p \in Slot /\ p[2] = c /\ level[p] # None /\ level[p] \in Record
  BY HeldType DEF CancelSuspend, UNSUSPEND, IInv
<1>2. /\ Access(v, c) \in Nat /\ level[p].access \in Nat /\ level[p].access > 0
      /\ level[p].access < Access(v, c) /\ level[p].slevel <= Access(v, c)
  BY <1>1, AccessIsNat, LevelIsPositive, RecordType
     DEF CancelSuspend, UNSUSPEND, MayLift, IInv
<1>3. /\ level' = [level EXCEPT ![p] = r]
      /\ db' = db \/ db' = [db EXCEPT ![p] = r]
      /\ UNCHANGED forceMap
  BY DEF CancelSuspend, UNSUSPEND, Changed, Put, Commit, chans
<1> HIDE DEF p
<1>4. r \in Record /\ r.access = level[p].access /\ r.expire = "zero"
  BY <1>1 DEF Record
<1>5. Access(v, c) > 0 /\ Rules!Authority(v, c) = Access(v, c)
  <2>1. Access(v, c) > 0
    BY <1>2
  <2> QED
    BY <2>1, AccessIsAuthority
<1> HIDE DEF r
<1>6. Rules!May(v, p, Seen(r))
  <2>1. /\ Seen(r) # None /\ Seen(r).access = level[p].access /\ Seen(r).suspended = 0
        /\ Seen(level[p]) # None /\ Seen(level[p]).access = level[p].access
        /\ Seen(level[p]).suspended \in {0, level[p].slevel}
    BY <1>1, <1>4, SeenType
  <2> QED
    BY <1>1, <1>2, <1>5, <2>1 DEF Rules!May
<1> QED
  BY <1>1, <1>3, <1>4, <1>6, OneRecordChanges

LEMMA AdminIsAdmin ==
    ASSUME IInv, NEW v \in User, getAdminAccessLevel(v) >= 750
    PROVE  Rules!Admin(750)
<1>1. Star \in Chan
  BY ChannelAccessAssumption
<1>2. getAdminAccessLevel(v) \in Nat
  BY <1>1, AccessIsNat DEF IInv
<1>3. Rules!Authority(v, Star) = getAdminAccessLevel(v)
  BY <1>1, <1>2, AccessIsAuthority
<1> QED
  BY <1>3 DEF Rules!Admin

(* A list, or the records of a user, is dropped here or there.             *)
LEMMA RecordsDropped ==
    ASSUME IInv, NEW v \in User, getAdminAccessLevel(v) >= 750,
           NEW P \in {On(c) : c \in Chan \ {Star}} \cup {Of(u) : u \in User},
           UNCHANGED forceMap,
           level' \in [Slot -> Record \cup {None}], db' \in [Slot -> Record \cup {None}],
           \A p \in P : level'[p] \in {level[p], None} /\ db'[p] \in {db[p], None},
           \A p \in Slot \ P : level'[p] = level[p] /\ db'[p] = db[p]
    PROVE  [Rules!Next]_(Rules!vars)
<1> DEFINE held == [q \in Slot |-> Seen(level[q])]
<1> DEFINE stored == [q \in Slot |-> Seen(db[q])]
<1>1. \A p \in Slot : held'[p] \in {held[p], None} /\ stored'[p] \in {stored[p], None}
  BY SeenType
<1>2. \A p \in Slot \ P : held'[p] = held[p] /\ stored'[p] = stored[p]
  OBVIOUS
<1>3. P \in {Rules!On(c) : c \in Chan \ {Star}} \cup {Rules!Of(u) : u \in User}
  BY DEF On, Of, Rules!On, Rules!Of
<1>4. Rules!Only(P)
  BY <1>2 DEF Rules!Only
<1>5. Rules!Clear
  BY <1>1, <1>3, <1>4, AdminIsAdmin DEF Rules!Clear
<1> QED
  BY <1>5 DEF Rules!Next

(* Records are read back.                                                  *)
LEMMA RecordsRead ==
    ASSUME level' \in [Slot -> Record \cup {None}],
           \A p \in Slot : level'[p] \in {level[p], db[p]},
           UNCHANGED <<db, forceMap>>
    PROVE  [Rules!Next]_(Rules!vars)
<1>1. Rules!Reload
  BY DEF Rules!Reload
<1> QED
  BY <1>1 DEF Rules!Next

LEMMA AccountCommandObeys ==
    ASSUME IInv, NEW v \in User, NEW u \in User, NEW ok \in BOOLEAN,
           AccountCommand(v, u, ok)
    PROVE  [Rules!Next]_(Rules!vars)
<1>1. ASSUME NEW C \in SUBSET Strict, SUSPENDAccount(v, u, C, ok)
      PROVE  [Rules!Next]_(Rules!vars)
  <2>1. /\ level' = [p \in Slot |-> IF p[1] = u /\ p[2] \in C THEN None ELSE level[p]]
        /\ UNCHANGED <<db, forceMap>>
        /\ getAdminAccessLevel(v) >= 750
    BY <1>1 DEF SUSPENDAccount, chans
  <2>2. level' \in [Slot -> Record \cup {None}] /\ db' \in [Slot -> Record \cup {None}]
    BY <2>1 DEF IInv, TypeOK
  <2>3. \A p \in Of(u) : level'[p] \in {level[p], None} /\ db'[p] \in {db[p], None}
    BY <2>1 DEF Of
  <2>4. \A p \in Slot \ Of(u) : level'[p] = level[p] /\ db'[p] = db[p]
    BY <2>1 DEF Of
  <2>5. Of(u) \in {On(c) : c \in Chan \ {Star}} \cup {Of(w) : w \in User}
    OBVIOUS
  <2> HIDE DEF Of
  <2> QED
    BY <2>1, <2>2, <2>3, <2>4, <2>5, RecordsDropped
<1>2. ASSUME NEW read \in BOOLEAN, UNSUSPENDAccount(v, u, ok, read)
      PROVE  [Rules!Next]_(Rules!vars)
  <2>1. /\ level' = IF read THEN Returned(u) ELSE level
        /\ UNCHANGED <<db, forceMap>>
    BY <1>2 DEF UNSUSPENDAccount, chans
  <2>2. /\ level' \in [Slot -> Record \cup {None}]
        /\ \A p \in Slot : level'[p] \in {level[p], db[p]}
    BY <2>1 DEF Returned, IInv, TypeOK
  <2> QED
    BY <2>1, <2>2, RecordsRead
<1>3. CASE SUSPENDME(u, ok)
  BY <1>3 DEF SUSPENDME, Rules!vars, lists, chans
<1> QED
  BY <1>1, <1>2, <1>3 DEF AccountCommand

LEMMA RegisterObeys ==
    ASSUME IInv, NEW c \in Chan, NEW m \in User, NEW at \in Failing, Register(c, m, at)
    PROVE  [Rules!Next]_(Rules!vars)
<1>1. c \in Chan \ {Star} /\ UNCHANGED forceMap
  BY DEF Register, Ordinary
<1>2. CASE UNCHANGED lists
  BY <1>1, <1>2 DEF Rules!vars, lists
<1>3. ASSUME NEW r \in {None, NewRecord(500)},
             LET kept(f) == [p \in Slot |-> IF p = <<m, c>> THEN r
                                            ELSE IF p \in On(c) THEN None ELSE f[p]]
             IN  /\ <<m, c>> \in Slot
                 /\ level' = kept(level) /\ db' = kept(db)
                 /\ fresh' \subseteq Slot
                 /\ \A p \in Slot \ On(c) : p \in fresh' <=> p \in fresh
      PROVE  [Rules!Next]_(Rules!vars)
  <2> DEFINE mine == <<m, c>>
  <2> DEFINE held == [q \in Slot |-> Seen(level[q])]
  <2> DEFINE stored == [q \in Slot |-> Seen(db[q])]
  <2>1. mine \in On(c) /\ Rules!On(c) = On(c)
    BY <1>3 DEF On, Rules!On
  <2>2. /\ level' = [p \in Slot |-> IF p = mine THEN r
                                    ELSE IF p \in On(c) THEN None ELSE level[p]]
        /\ db' = [p \in Slot |-> IF p = mine THEN r
                                 ELSE IF p \in On(c) THEN None ELSE db[p]]
    BY <1>3
  <2>3. Seen(r) \in {None, [access |-> 500, suspended |-> 0]}
    <3>1. NewRecord(500) \in Record
      BY NewRecordType, ChannelAccessAssumption
    <3> QED
      BY <3>1, SeenType DEF NewRecord
  <2> HIDE DEF mine
  <2>4. \A p \in On(c) : /\ held'[p] = IF p = mine THEN Seen(r) ELSE None
                         /\ stored'[p] = held'[p]
    BY <2>1, <2>2, SeenType DEF On
  <2>5. \A p \in Slot \ On(c) : held'[p] = held[p] /\ stored'[p] = stored[p]
    BY <2>1, <2>2
  <2> HIDE DEF held, stored
  <2>6. \A p \in On(c) : held'[p] \in {None, [access |-> 500, suspended |-> 0]}
    BY <2>3, <2>4
  <2>7. \A p, q \in On(c) : held'[p] # None /\ held'[q] # None => p = q
    BY <2>4
  <2>8. Rules!Only(Rules!On(c))
    BY <2>1, <2>5 DEF Rules!Only, held, stored
  <2>9. \A p \in On(c) : stored'[p] = held'[p]
    BY <2>4
  <2>10. Rules!Register
    BY <1>1, <2>1, <2>6, <2>7, <2>8, <2>9 DEF Rules!Register, held, stored
  <2> QED
    BY <2>10 DEF Rules!Next
<1> QED
  BY <1>2, <1>3, RegisterLists DEF IInv

LEMMA ChannelCommandObeys ==
    ASSUME IInv, NEW v \in User, NEW c \in Chan, NEW ok \in BOOLEAN,
           ChannelCommand(v, c, ok)
    PROVE  [Rules!Next]_(Rules!vars)
<1>1. CASE PURGE(v, c, ok)
  <2>1. /\ forceMap' = [uc \in DOMAIN forceMap |-> IF uc[2] = c THEN 0 ELSE forceMap[uc]]
        /\ UNCHANGED lists
    BY <1>1 DEF PURGE
  <2>2. \A uc \in User \X Chan : forceMap'[uc] \in {forceMap[uc], 0}
    BY <2>1 DEF IInv, TypeOK
  <2>3. Rules!UnForce
    BY <2>1, <2>2 DEF Rules!UnForce, lists
  <2> QED
    BY <2>3 DEF Rules!Next
<1>2. CASE REMOVEALL(v, c, ok)
  <2>1. /\ level' = [p \in Slot |-> IF p \in On(c) /\ db[p] # None THEN None ELSE level[p]]
        /\ db' = IF ok THEN [p \in Slot |-> IF p \in On(c) THEN None ELSE db[p]] ELSE db
        /\ UNCHANGED forceMap
        /\ getAdminAccessLevel(v) >= 750 /\ c \in Chan \ {Star}
    BY <1>2 DEF REMOVEALL, chans, Ordinary
  <2>2. level' \in [Slot -> Record \cup {None}] /\ db' \in [Slot -> Record \cup {None}]
    BY <2>1 DEF IInv, TypeOK
  <2>3. \A p \in On(c) : level'[p] \in {level[p], None} /\ db'[p] \in {db[p], None}
    BY <2>1 DEF On
  <2>4. \A p \in Slot \ On(c) : level'[p] = level[p] /\ db'[p] = db[p]
    BY <2>1
  <2>5. On(c) \in {On(d) : d \in Chan \ {Star}} \cup {Of(u) : u \in User}
    BY <2>1
  <2> QED
    BY <2>1, <2>2, <2>3, <2>4, <2>5, RecordsDropped
<1>3. CASE FORCE(v, c)
  <2>1. /\ forceMap' = [forceMap EXCEPT ![<<v, c>>] = getAdminAccessLevel(v)]
        /\ UNCHANGED lists
        /\ getAdminAccessLevel(v) >= 1 /\ c \in Chan \ {Star}
        /\ forceMap[<<v, c>>] = 0
    BY <1>3 DEF FORCE, Ordinary
  <2>2. getAdminAccessLevel(v) > 0
    BY <2>1, AccessIsNat DEF IInv
  <2>3. Rules!Authority(v, Star) = getAdminAccessLevel(v)
    BY <2>2, AccessIsAuthority
  <2>4. Rules!Force
    BY <2>1, <2>2, <2>3 DEF Rules!Force, lists
  <2> QED
    BY <2>4 DEF Rules!Next
<1>4. CASE UNFORCE(v, c)
  <2>1. forceMap' = [forceMap EXCEPT ![<<v, c>>] = 0] /\ UNCHANGED lists
    BY <1>4 DEF UNFORCE
  <2>2. \A uc \in User \X Chan : forceMap'[uc] \in {forceMap[uc], 0}
    BY <2>1 DEF IInv, TypeOK
  <2>3. Rules!UnForce
    BY <2>1, <2>2 DEF Rules!UnForce, lists
  <2> QED
    BY <2>3 DEF Rules!Next
<1>5. ASSUME NEW m \in User, NEW at \in Failing, REGISTER(v, c, m, at)
      PROVE  [Rules!Next]_(Rules!vars)
  BY <1>5, RegisterObeys DEF REGISTER
<1> QED
  BY <1>1, <1>2, <1>3, <1>4, <1>5 DEF ChannelCommand

-----------------------------------------------------------------------------
LEMMA TimeObeys ==
    ASSUME IInv,
           \/ \E p \in Slot, here, there \in BOOLEAN : Elapse(p, here, there)
           \/ \E ok \in BOOLEAN : expireSuspends(ok)
    PROVE  [Rules!Next]_(Rules!vars)
<1> DEFINE Passed(old, new) ==
      new = old \/ (old \in Record /\ new \in {Ended(old), Expired(old)})
<1>1. /\ \A p \in Slot : Passed(level[p], level'[p]) /\ Passed(db[p], db'[p])
      /\ level' \in [Slot -> Record \cup {None}] /\ db' \in [Slot -> Record \cup {None}]
      /\ UNCHANGED forceMap
  <2>1. level' \in [Slot -> Record \cup {None}] /\ db' \in [Slot -> Record \cup {None}]
    BY ElapseStep, expireSuspendsStep DEF IInv, TypeOK
  <2>2. ASSUME NEW p \in Slot, NEW here \in BOOLEAN, NEW there \in BOOLEAN,
               Elapse(p, here, there)
        PROVE  \A q \in Slot : Passed(level[q], level'[q]) /\ Passed(db[q], db'[q])
    <3>1. /\ here => level[p] \in Record
          /\ there => db[p] \in Record
      BY <2>2 DEF Elapse, Over, IInv, TypeOK
    <3>2. /\ level' = IF here THEN [level EXCEPT ![p] = Ended(level[p])] ELSE level
          /\ db' = IF there THEN [db EXCEPT ![p] = Ended(db[p])] ELSE db
      BY <2>2 DEF Elapse
    <3> QED
      BY <3>1, <3>2 DEF IInv, TypeOK
  <2>3. ASSUME NEW ok \in BOOLEAN, expireSuspends(ok)
        PROVE  \A q \in Slot : Passed(level[q], level'[q]) /\ Passed(db[q], db'[q])
    <3> DEFINE P == {p \in Slot : db[p] # None /\ db[p].expire = "past"}
    <3>1. /\ level' = [p \in Slot |-> IF p \in P /\ level[p] # None
                                      THEN Expired(level[p]) ELSE level[p]]
          /\ db' = IF ok THEN [p \in Slot |-> IF p \in P THEN Expired(db[p]) ELSE db[p]] ELSE db
      BY <2>3 DEF expireSuspends
    <3>2. \A p \in P : db[p] # None
      OBVIOUS
    <3> HIDE DEF P
    <3>3. \A p \in Slot : level[p] # None => level[p] \in Record
      BY DEF IInv, TypeOK
    <3>4. \A p \in Slot : db[p] # None => db[p] \in Record
      BY DEF IInv, TypeOK
    <3> QED
      BY <3>1, <3>2, <3>3, <3>4
  <2>4. UNCHANGED forceMap
    BY DEF Elapse, expireSuspends, chans
  <2> QED
    BY <2>1, <2>2, <2>3, <2>4
<1>2. ASSUME NEW old, NEW new, Passed(old, new)
      PROVE  Rules!Lapsed(Seen(old), Seen(new))
  <2>1. CASE new = old
    BY <2>1 DEF Rules!Lapsed
  <2>2. CASE old \in Record /\ new \in {Ended(old), Expired(old)}
    <3>1. new \in Record /\ new.access = old.access /\ new.expire # "later"
      BY <2>2, EndedType
    <3>2. /\ Seen(old) # None
          /\ Seen(old) = [access |-> old.access,
                          suspended |-> IF old.expire = "later" THEN old.slevel ELSE 0]
      BY <2>2, SeenType
    <3>3. Seen(new) = [access |-> old.access, suspended |-> 0]
      BY <3>1, SeenType
    <3> QED
      BY <3>2, <3>3 DEF Rules!Lapsed
  <2> QED
    BY <1>2, <2>1, <2>2
<1> HIDE DEF Passed
<1>3. Rules!Lapse
  <2>1. \A p \in Slot : /\ Rules!Lapsed(Seen(level[p]), Seen(level'[p]))
                        /\ Rules!Lapsed(Seen(db[p]), Seen(db'[p]))
    BY <1>1, <1>2
  <2> QED
    BY <1>1, <2>1 DEF Rules!Lapse
<1> QED
  BY <1>3 DEF Rules!Next

LEMMA RestartObeys ==
    ASSUME IInv, Restart
    PROVE  [Rules!Next]_(Rules!vars)
<1>1. /\ level' = [p \in Slot |-> IF p[2] \in dbRegistered THEN db[p] ELSE None]
      /\ forceMap' = [uc \in User \X Chan |-> 0]
      /\ UNCHANGED db
  BY DEF Restart, NoForce
<1>2. \A p \in Slot : Seen(level'[p]) \in {Seen(db[p]), None}
  BY <1>1, SeenType
<1>3. Rules!Restart
  BY <1>1, <1>2 DEF Rules!Restart
<1> QED
  BY <1>3 DEF Rules!Next

LEMMA StepObeys == IInv /\ [Next]_vars => [Rules!Next]_(Rules!vars)
<1> SUFFICES ASSUME IInv, [Next]_vars PROVE [Rules!Next]_(Rules!vars)
  OBVIOUS
<1>1. ASSUME NEW v \in User, NEW ok \in BOOLEAN, NEW u \in User, NEW c \in Chan,
             ListCommand(v, u, c, ok)
      PROVE  [Rules!Next]_(Rules!vars)
  BY <1>1, ADDUSERObeys, REMUSERObeys, MODINFOObeys, SUSPENDObeys, LiftObeys
     DEF ListCommand
<1>2. ASSUME NEW v \in User, NEW ok \in BOOLEAN, NEW u \in Accounts,
             AccountCommand(v, u, ok)
      PROVE  [Rules!Next]_(Rules!vars)
  <2>1. u \in User
    BY ChannelAccessAssumption
  <2> QED
    BY <1>2, <2>1, AccountCommandObeys
<1>3. ASSUME NEW v \in User, NEW ok \in BOOLEAN, NEW c \in Chan,
             ChannelCommand(v, c, ok)
      PROVE  [Rules!Next]_(Rules!vars)
  BY <1>3, ChannelCommandObeys
<1>4. CASE Website
  <2>1. ASSUME NEW c \in Chan, NEW m \in User, NEW at \in Failing,
               updateChannels(c, m, at)
        PROVE  [Rules!Next]_(Rules!vars)
    BY <2>1, RegisterObeys DEF updateChannels
  <2>2. ASSUME NEW u \in User, NEW c \in Ordinary, NEW a \in Level, WebEdit(u, c, a)
        PROVE  [Rules!Next]_(Rules!vars)
    <3>1. Rules!Web
      BY <2>2 DEF WebEdit, Rules!Web, chans
    <3> QED
      BY <3>1 DEF Rules!Next
  <2> QED
    BY <1>4, <2>1, <2>2 DEF Website
<1>5. CASE Timer
  <2>1. CASE updateLevels
    <3>1. /\ level' = [p \in Slot |-> IF Reread(p) THEN db[p] ELSE level[p]]
          /\ UNCHANGED <<db, forceMap>>
      BY <2>1 DEF updateLevels, chans
    <3>2. /\ level' \in [Slot -> Record \cup {None}]
          /\ \A p \in Slot : level'[p] \in {level[p], db[p]}
      BY <3>1 DEF IInv, TypeOK
    <3> QED
      BY <3>1, <3>2, RecordsRead
  <2>2. CASE cacheExpireLevels
    <3>1. \A uc \in User \X Chan : forceMap'[uc] \in {forceMap[uc], 0}
      BY <2>2 DEF cacheExpireLevels, IInv, TypeOK
    <3>2. Rules!UnForce
      BY <2>2, <3>1 DEF Rules!UnForce, cacheExpireLevels, lists
    <3> QED
      BY <3>2 DEF Rules!Next
  <2>3. ASSUME NEW u \in User, cacheExpireUsers(u)
        PROVE  [Rules!Next]_(Rules!vars)
    BY <2>3 DEF cacheExpireUsers, Rules!vars, lists, chans
  <2> QED
    BY <1>5, <2>1, <2>2, <2>3, TimeObeys DEF Timer
<1>6. CASE Time
  BY <1>6, TimeObeys DEF Time
<1>7. CASE Restart
  BY <1>7, RestartObeys
<1>8. CASE UNCHANGED vars
  BY <1>8 DEF vars, lists, chans, Rules!vars
<1> QED
  <2>1. Outcome \subseteq BOOLEAN
    BY DEF Outcome
  <2> QED
    BY <1>1, <1>2, <1>3, <1>4, <1>5, <1>6, <1>7, <1>8, <2>1 DEF Next, Command

(* The access lists obey AccessRules: whatever queries fail, each change   *)
(* of who holds what on which channel, in memory and in the table, is one  *)
(* that somebody above the record was entitled to, that its owner made by  *)
(* leaving, that time or the website brought, or that reading back, a      *)
(* registration or an admin's clearing of a list brings.                   *)
THEOREM AccessListsObey == Spec => RulesSpec
<1>1. Init => Rules!Init
  BY DEF Init, Rules!Init, NoForce
<1> QED
  BY <1>1, Invariance, StepObeys, PTL DEF Spec, RulesSpec, Rules!Spec
=============================================================================
