---------------------------- MODULE Control_proofs ---------------------------
(* Proofs about mod.ccontrol: the copies of a gline, for every set of      *)
(* hosts and durations and however many queries fail, and its operators,   *)
(* for any users, clients and accounts.                                    *)
EXTENDS MCControl, TLAPS

-----------------------------------------------------------------------------
(* Glines.                                                                 *)

(* Agreement in two parts: memory and table, the modules and the server.   *)
Follows ==
    \A h \in Host \ unsure :
        IF memory[h] = None THEN table[h] = None
        ELSE memory[h].id = "row" /\ table[h] = Row(memory[h])
Known ==
    \A h \in Host \ RealName :
        /\ memory[h] # None => core[h] # None \/ h \in unsent
        /\ cs[h] # None => core[h] # None

(* mod.cservice has no "$" glines, so that one removed is not left there.  *)
NoPlain == \A h \in RealName : cs[h] = None

IInv == TypeOK /\ Follows /\ Known /\ RemovedStaysAway /\ NoPlain

LEMMA AgreementInParts == Agreement <=> Follows /\ Known
  BY DEF Agreement, Follows, Known

-----------------------------------------------------------------------------
Id == {"none", "row", "stale"}
InMemory == [exp : Expiry, upd : Time, id : Id]

LEMMA Constants ==
    /\ \A d \in Duration : d \in Nat
    /\ MaxTime \in Nat /\ MaxFail \in Nat /\ MaxStarts \in Nat
  BY GlinesAssumption

LEMMA PlainHosts == RealName \subseteq Host
  BY GlinesAssumption

LEMMA TimeType == Time \subseteq Nat /\ 0 \in Time
  BY Constants DEF Time

LEMMA NoneIsNoGline ==
    /\ None \notin Shared
    /\ None \notin Kept
    /\ None \notin InMemory
<1>1. Time \subseteq Nat /\ Expiry \subseteq Nat
  BY Constants, TimeType DEF Expiry
<1> QED
  BY <1>1, GlinesAssumption DEF Shared, Kept, InMemory, Id

LEMMA ExpiryType ==
    ASSUME NEW t \in Time, NEW d \in Duration
    PROVE  t + d \in Expiry /\ d + t \in Expiry
<1>1. t \in Nat /\ d \in Nat
  BY Constants, TimeType
<1>2. t + d = d + t
  BY <1>1
<1> QED
  BY <1>2 DEF Expiry

(* The types, one by one.                                                  *)
LEMMA Types ==
    ASSUME TypeOK
    PROVE  /\ fails \in 0 .. MaxFail
           /\ core \in [Host -> Shared \cup {None}]
           /\ memory \in [Host -> InMemory \cup {None}]
           /\ table \in [Host -> Kept \cup {None}]
           /\ cs \in [Host -> Kept \cup {None}]
           /\ unsure \subseteq Host /\ unsent \subseteq Host /\ removed \subseteq Host
  BY DEF TypeOK, InMemory, Id

(* What a failed query costs.                                              *)
LEMMA QueriesFail ==
    ASSUME TypeOK, NEW n \in Nat, NEW done, Queries(n, done)
    PROVE  fails' \in 0 .. MaxFail
  BY Constants, Types DEF Queries

LEMMA StatementsFail ==
    ASSUME TypeOK, NEW hosts, NEW ok, Statements(hosts, ok)
    PROVE  fails' \in 0 .. MaxFail /\ ok \subseteq hosts
  BY Constants, Types DEF Statements

(* A gline that is inserted: the row and its identifier go together, or    *)
(* the host is among those with a failed query.                            *)
LEMMA Inserting ==
    ASSUME TypeOK, Follows, NEW h \in Host, NEW x \in Expiry, NEW y \in Time,
           NEW id \in Id, NEW done \in 0 .. 3,
           Queries(3, done),
           memory' = [memory EXCEPT ![h] = [exp |-> x, upd |-> y, id |-> IdAfter(id, done)]],
           table' = Inserted(h, [exp |-> x, upd |-> y, id |-> "none"], done),
           unsure' = AfterInsert(h, done)
    PROVE  /\ memory' \in [Host -> InMemory \cup {None}]
           /\ table' \in [Host -> Kept \cup {None}]
           /\ unsure' \subseteq Host /\ fails' \in 0 .. MaxFail
           /\ Follows'
           /\ memory'[h] # None
           /\ \A i \in Host \ {h} : memory'[i] = memory[i] /\ table'[i] = table[i]
<1> DEFINE m == [exp |-> x, upd |-> y, id |-> IdAfter(id, done)]
<1> DEFINE r == [exp |-> x, upd |-> y]
<1>1. m \in InMemory /\ m # None /\ (done = 3 => m.id = "row") /\ Row(m) = r
  <2>1. IdAfter(id, done) \in Id /\ (done = 3 => IdAfter(id, done) = "row")
    BY DEF IdAfter, Id
  <2>2. m \in InMemory
    BY <2>1 DEF InMemory
  <2>3. m # None
    BY <2>2, NoneIsNoGline
  <2>4. (done = 3 => m.id = "row") /\ Row(m) = r
    BY <2>1 DEF Row
  <2> QED
    BY <2>2, <2>3, <2>4
<1>2. PICK z \in Kept \cup {None} : table' = [table EXCEPT ![h] = z] /\ (done = 3 => z = r)
  <2> DEFINE z == CASE done = 0 -> table[h] [] done = 1 -> None [] OTHER -> r
  <2>1. r \in Kept /\ table[h] \in Kept \cup {None}
    BY Types DEF Kept
  <2>2. table' = [table EXCEPT ![h] = z]
    BY DEF Inserted, Row
  <2> HIDE DEF r
  <2>3. z \in {table[h], None, r} /\ (done = 3 => z = r)
    OBVIOUS
  <2> HIDE DEF z
  <2> QED
    BY <2>1, <2>2, <2>3
<1>3. memory' = [memory EXCEPT ![h] = m]
  OBVIOUS
<1> HIDE DEF m, r
<1>4. memory' \in [Host -> InMemory \cup {None}] /\ memory'[h] = m
  BY <1>1, <1>3, Types
<1>5. table' \in [Host -> Kept \cup {None}] /\ (done = 3 => table'[h] = r)
  BY <1>2, Types
<1>6. \A i \in Host \ {h} : memory'[i] = memory[i] /\ table'[i] = table[i]
  BY <1>2, <1>3, Types
<1>7. /\ unsure' \subseteq Host
      /\ \A i \in Host \ unsure' : i \notin unsure \/ (i = h /\ done = 3)
      /\ h \notin unsure' => done = 3
  BY Types DEF AfterInsert
<1>8. Follows'
  <2> SUFFICES ASSUME NEW i \in Host, i \notin unsure'
               PROVE  IF memory'[i] = None THEN table'[i] = None
                      ELSE memory'[i].id = "row" /\ table'[i] = Row(memory'[i])
    BY DEF Follows
  <2>1. CASE i = h
    BY <1>1, <1>4, <1>5, <1>7, <2>1
  <2>2. CASE i # h
    BY <1>6, <1>7, <2>2 DEF Follows
  <2> QED
    BY <2>1, <2>2
<1> QED
  BY <1>1, <1>4, <1>5, <1>6, <1>7, <1>8, QueriesFail

(* Glines that leave memory, each with its DELETE.                         *)
LEMMA Forgetting ==
    ASSUME TypeOK, Follows, NEW mine \in SUBSET Host,
           \A h \in mine : memory[h] # None,
           NEW ok, Statements(mine, ok),
           memory' = [h \in Host |-> IF h \in mine THEN None ELSE memory[h]],
           table' = Deleted(ok),
           unsure' = unsure \cup Failed(mine, ok)
    PROVE  /\ memory' \in [Host -> InMemory \cup {None}]
           /\ table' \in [Host -> Kept \cup {None}]
           /\ unsure' \subseteq Host /\ fails' \in 0 .. MaxFail
           /\ Follows'
           /\ \A h \in Host : /\ memory'[h] \in {memory[h], None}
                              /\ table'[h] \in {table[h], None}
<1>1. ok \subseteq mine /\ fails' \in 0 .. MaxFail
  BY StatementsFail
<1>2. table' = [h \in Host |-> IF h \in ok /\ memory[h].id = "row" THEN None ELSE table[h]]
  BY DEF Deleted
<1>3. memory' \in [Host -> InMemory \cup {None}] /\ table' \in [Host -> Kept \cup {None}]
  BY <1>2, Types
<1>4. unsure' \subseteq Host
  BY <1>1, Types DEF Failed
<1>5. Follows'
  <2> SUFFICES ASSUME NEW i \in Host, i \notin unsure'
               PROVE  IF memory'[i] = None THEN table'[i] = None
                      ELSE memory'[i].id = "row" /\ table'[i] = Row(memory'[i])
    BY DEF Follows
  <2>1. i \notin unsure
    OBVIOUS
  <2>2. CASE i \in mine
    <3>1. i \in ok /\ memory[i].id = "row"
      BY <2>1, <2>2 DEF Follows, Failed
    <3> QED
      BY <1>2, <2>2, <3>1
  <2>3. CASE i \notin mine
    BY <1>1, <1>2, <2>1, <2>3 DEF Follows
  <2> QED
    BY <2>2, <2>3
<1>6. \A h \in Host : memory'[h] \in {memory[h], None} /\ table'[h] \in {table[h], None}
  BY <1>2
<1> QED
  BY <1>1, <1>3, <1>4, <1>5, <1>6

-----------------------------------------------------------------------------
(* What holds of memory and table after a step that leaves the other hosts *)
(* alone, whatever became of h.                                            *)
OthersAlone(h) ==
    /\ memory' \in [Host -> InMemory \cup {None}]
    /\ table' \in [Host -> Kept \cup {None}]
    /\ unsure' \subseteq Host /\ fails' \in 0 .. MaxFail
    /\ Follows'
    /\ \A i \in Host \ {h} : memory'[i] = memory[i] /\ table'[i] = table[i]

(* EVT_GLINE in the two modules.                                           *)
LEMMA ToldControl ==
    ASSUME TypeOK, Follows, NEW h \in Host, NEW g \in Shared, Told_ccontrol(h, g)
    PROVE  OthersAlone(h)
<1> DEFINE old == findGline(h)
<1> DEFINE y == IF old = None THEN 0 ELSE old.upd
<1> DEFINE id == IF old = None THEN "none" ELSE old.id
<1>1. old \in InMemory \cup {None}
  BY Types DEF findGline
<1>2. y \in Time /\ id \in Id /\ g.exp \in Expiry
  BY <1>1, TimeType DEF InMemory, Shared, Id
<1>3. CASE UNCHANGED <<memory, table, fails, unsure>>
  BY <1>3, Types DEF OthersAlone, Follows
<1>4. CASE \E done \in 0 .. 3 :
               /\ Queries(3, done)
               /\ memory' = [memory EXCEPT
                       ![h] = [exp |-> g.exp, upd |-> y, id |-> IdAfter(id, done)]]
               /\ table' = Inserted(h, [exp |-> g.exp, upd |-> y, id |-> "none"], done)
               /\ unsure' = AfterInsert(h, done)
  <2>1. PICK done \in 0 .. 3 :
          /\ Queries(3, done)
          /\ memory' = [memory EXCEPT
                  ![h] = [exp |-> g.exp, upd |-> y, id |-> IdAfter(id, done)]]
          /\ table' = Inserted(h, [exp |-> g.exp, upd |-> y, id |-> "none"], done)
          /\ unsure' = AfterInsert(h, done)
    BY <1>4
  <2> HIDE DEF old, y, id
  <2> QED
    BY <1>2, <2>1, Inserting DEF OthersAlone
<1> QED
  BY <1>3, <1>4 DEF Told_ccontrol

LEMMA ToldService ==
    ASSUME TypeOK, NoPlain, NEW h \in Host, NEW g \in Shared, Told_cservice(h, g)
    PROVE  /\ cs' \in [Host -> Kept \cup {None}]
           /\ NoPlain'
           /\ \A i \in Host \ {h} : cs'[i] = cs[i]
<1>1. CASE cs' = cs
  BY <1>1, Types DEF NoPlain
<1>2. CASE h \notin RealName /\ cs' = [cs EXCEPT
               ![h] = [exp |-> g.exp, upd |-> IF cs[h] = None THEN 0 ELSE cs[h].upd]]
  <2> DEFINE y == IF cs[h] = None THEN 0 ELSE cs[h].upd
  <2> DEFINE r == [exp |-> g.exp, upd |-> y]
  <2>1. cs[h] \in Kept \cup {None}
    BY Types
  <2>2. y \in Time
    BY <2>1, TimeType DEF Kept
  <2> HIDE DEF y
  <2>3. r \in Kept
    BY <2>2 DEF Kept, Shared
  <2>4. cs' = [cs EXCEPT ![h] = r]
    BY <1>2 DEF y
  <2> HIDE DEF r
  <2> QED
    BY <1>2, <2>3, <2>4, Types, PlainHosts DEF NoPlain
<1> QED
  BY <1>1, <1>2 DEF Told_cservice

LEMMA ListedStep ==
    ASSUME TypeOK, NEW h \in Host, NEW g \in Shared, Listed(h, g)
    PROVE  /\ core' \in [Host -> Shared \cup {None}] /\ core'[h] # None
           /\ unsent' \subseteq Host /\ removed' \subseteq Host /\ h \notin removed'
           /\ \A i \in Host \ {h} : /\ core'[i] = core[i]
                                    /\ i \in unsent' <=> i \in unsent
                                    /\ i \in removed' <=> i \in removed
  BY Types, NoneIsNoGline DEF Listed

(* A gline that is set: the server has it and the other hosts are as they  *)
(* were.                                                                   *)
LEMMA SetStep ==
    ASSUME IInv, NEW h \in Host, NEW g \in Shared,
           Listed(h, g), OthersAlone(h),
           cs' \in [Host -> Kept \cup {None}], NoPlain',
           \A i \in Host \ {h} : cs'[i] = cs[i],
           queue' \in Seq([host : Host \ RealName, dur : Duration, upd : Time]),
           Len(queue') <= MaxQueue,
           UNCHANGED <<now, bursting, starts>>
    PROVE  IInv'
<1>1. /\ core' \in [Host -> Shared \cup {None}] /\ core'[h] # None
      /\ unsent' \subseteq Host /\ removed' \subseteq Host /\ h \notin removed'
      /\ \A i \in Host \ {h} : /\ core'[i] = core[i]
                               /\ i \in unsent' <=> i \in unsent
                               /\ i \in removed' <=> i \in removed
  BY ListedStep DEF IInv
<1>2. TypeOK'
  BY <1>1 DEF IInv, TypeOK, OthersAlone, InMemory, Id
<1>3. Known'
  <2> SUFFICES ASSUME NEW i \in Host \ RealName
               PROVE  /\ memory'[i] # None => core'[i] # None \/ i \in unsent'
                      /\ cs'[i] # None => core'[i] # None
    BY DEF Known
  <2> QED
    BY <1>1 DEF IInv, Known, OthersAlone
<1>4. RemovedStaysAway'
  BY <1>1 DEF IInv, RemovedStaysAway, OthersAlone
<1> QED
  BY <1>2, <1>3, <1>4 DEF IInv, OthersAlone

LEMMA msg_GL_AddStep ==
    ASSUME IInv, NEW h \in Host, NEW d \in Duration, NEW mod \in 0 .. now,
           msg_GL_Add(h, d, mod)
    PROVE  IInv'
<1> DEFINE g == [exp |-> now + d, mod |-> mod]
<1>1. now \in Time /\ mod \in Time /\ now + d \in Expiry
  BY ExpiryType, Constants DEF IInv, TypeOK, Time
<1>2. g \in Shared
  BY <1>1 DEF Shared
<1>3. /\ Listed(h, g) /\ Told_ccontrol(h, g) /\ Told_cservice(h, g)
      /\ UNCHANGED <<now, bursting, queue, starts>>
  BY DEF msg_GL_Add
<1> HIDE DEF g
<1> QED
  BY <1>2, <1>3, SetStep, ToldControl, ToldService DEF IInv, TypeOK

LEMMA doInternalGlineStep ==
    ASSUME IInv, NEW h \in Host, NEW d \in Duration, doInternalGline(h, d)
    PROVE  IInv'
<1> DEFINE g == [exp |-> now + d, mod |-> now]
<1> DEFINE mine == [exp |-> now + d, upd |-> now]
<1>1. g \in Shared /\ mine \in Kept
  BY ExpiryType DEF IInv, TypeOK, Shared, Kept
<1>2. /\ Listed(h, g) /\ Told_ccontrol(h, g) /\ h \notin RealName
      /\ cs' = [cs EXCEPT ![h] = mine]
      /\ UNCHANGED <<now, bursting, queue, starts>>
  BY DEF doInternalGline
<1> HIDE DEF g, mine
<1>3. /\ cs' \in [Host -> Kept \cup {None}] /\ NoPlain'
      /\ \A i \in Host \ {h} : cs'[i] = cs[i]
  BY <1>1, <1>2, Types, PlainHosts DEF IInv, NoPlain
<1>4. OthersAlone(h)
  BY <1>1, <1>2, ToldControl DEF IInv
<1> QED
  BY <1>1, <1>2, <1>3, <1>4, SetStep DEF IInv, TypeOK

(* GLINE for a host that has one: an UPDATE of the row.                    *)
LEMMA Updating ==
    ASSUME TypeOK, Follows, NEW h \in Host, memory[h] # None,
           NEW x \in Expiry, NEW y \in Time, NEW ok, Statements({h}, ok),
           memory' = [memory EXCEPT ![h] = [exp |-> x, upd |-> y, id |-> memory[h].id]],
           table' = Updated(h, [exp |-> x, upd |-> y, id |-> "none"], ok),
           unsure' = unsure \cup Failed({h}, ok)
    PROVE  OthersAlone(h)
<1> DEFINE m == [exp |-> x, upd |-> y, id |-> memory[h].id]
<1> DEFINE r == [exp |-> x, upd |-> y]
<1>1. memory[h] \in InMemory
  BY Types
<1>2. m \in InMemory /\ m # None /\ m.id = memory[h].id /\ Row(m) = r /\ r \in Kept
  <2>1. m \in InMemory /\ r \in Kept
    BY <1>1 DEF InMemory, Kept
  <2> QED
    BY <2>1, NoneIsNoGline DEF Row
<1>3. /\ memory' = [memory EXCEPT ![h] = m]
      /\ table' = IF h \in ok /\ memory[h].id = "row" THEN [table EXCEPT ![h] = r] ELSE table
  BY DEF Updated, Row
<1>4. ok \subseteq {h} /\ fails' \in 0 .. MaxFail
  BY StatementsFail
<1> HIDE DEF m, r
<1>5. memory' \in [Host -> InMemory \cup {None}] /\ table' \in [Host -> Kept \cup {None}]
  BY <1>2, <1>3, Types
<1>6. \A i \in Host \ {h} : memory'[i] = memory[i] /\ table'[i] = table[i]
  BY <1>3, Types
<1>7. unsure' \subseteq Host
  BY Types DEF Failed
<1>8. Follows'
  <2> SUFFICES ASSUME NEW i \in Host, i \notin unsure'
               PROVE  IF memory'[i] = None THEN table'[i] = None
                      ELSE memory'[i].id = "row" /\ table'[i] = Row(memory'[i])
    BY DEF Follows
  <2>1. CASE i = h
    <3>1. h \in ok /\ memory[h].id = "row"
      BY <2>1 DEF Follows, Failed
    <3>2. memory'[h] = m /\ table'[h] = r
      BY <1>3, <3>1, Types
    <3> QED
      BY <1>2, <2>1, <3>1, <3>2
  <2>2. CASE i # h
    BY <1>6, <2>2 DEF Follows
  <2> QED
    BY <2>1, <2>2
<1> QED
  BY <1>4, <1>5, <1>6, <1>7, <1>8 DEF OthersAlone

LEMMA GLINEStep ==
    ASSUME IInv, NEW h \in Host, NEW d \in Duration, GLINE(h, d)
    PROVE  IInv'
<1> DEFINE g == [exp |-> now + d, mod |-> now]
<1>1. now + d \in Expiry /\ now \in Time
  BY ExpiryType DEF IInv, TypeOK
<1>2. g \in Shared
  BY <1>1 DEF Shared
<1>3. Listed(h, g) /\ Told_cservice(h, g) /\ UNCHANGED <<now, bursting, queue, starts>>
  BY DEF GLINE
<1>4. OthersAlone(h)
  <2>1. CASE findGline(h) # None
    <3>1. memory[h] # None
      BY <2>1 DEF findGline
    <3>2. PICK ok \in SUBSET Host :
            /\ Statements({h}, ok)
            /\ memory' = [memory EXCEPT ![h] = [exp |-> now + d, upd |-> now, id |-> @.id]]
            /\ table' = Updated(h, [exp |-> now + d, upd |-> now, id |-> "none"], ok)
            /\ unsure' = unsure \cup Failed({h}, ok)
      BY <2>1 DEF GLINE
    <3>3. memory' = [memory EXCEPT ![h] = [exp |-> now + d, upd |-> now, id |-> memory[h].id]]
      BY <3>2, Types DEF IInv
    <3> QED
      BY <1>1, <3>1, <3>2, <3>3, Updating DEF IInv
  <2>2. CASE findGline(h) = None
    <3>1. PICK done \in 0 .. 3 :
            /\ Queries(3, done)
            /\ memory' = [memory EXCEPT
                    ![h] = [exp |-> now + d, upd |-> now, id |-> IdAfter("none", done)]]
            /\ table' = Inserted(h, [exp |-> now + d, upd |-> now, id |-> "none"], done)
            /\ unsure' = AfterInsert(h, done)
      BY <2>2 DEF GLINE
    <3> QED
      BY <1>1, <3>1, Inserting DEF IInv, Id, OthersAlone
  <2> QED
    BY <2>1, <2>2
<1> HIDE DEF g
<1> QED
  BY <1>2, <1>3, <1>4, SetStep, ToldService DEF IInv, TypeOK

LEMMA AutoGlineStep ==
    ASSUME IInv, NEW h \in Host, NEW d \in Duration, AutoGline(h, d)
    PROVE  IInv'
<1> DEFINE g == [exp |-> now + d, mod |-> now]
<1>1. now + d \in Expiry /\ now \in Time
  BY ExpiryType DEF IInv, TypeOK
<1>2. g \in Shared
  BY <1>1 DEF Shared
<1>3. PICK done \in 0 .. 3 :
        /\ Queries(3, done)
        /\ memory' = [memory EXCEPT
                ![h] = [exp |-> now + d, upd |-> now, id |-> IdAfter("none", done)]]
        /\ table' = Inserted(h, [exp |-> now + d, upd |-> now, id |-> "none"], done)
        /\ unsure' = AfterInsert(h, done)
  BY DEF AutoGline
<1>4. OthersAlone(h)
  BY <1>1, <1>3, Inserting DEF IInv, Id, OthersAlone
<1>5. CASE bursting
  <2>1. /\ unsent' = IF core[h] = None THEN unsent \cup {h} ELSE unsent
        /\ removed' = removed \ {h}
        /\ UNCHANGED <<core, cs, now, bursting, queue, starts>>
    BY <1>5 DEF AutoGline
  <2>2. TypeOK'
    BY <1>4, <2>1 DEF IInv, TypeOK, OthersAlone, InMemory, Id
  <2>3. Known'
    BY <1>4, <2>1 DEF IInv, Known, OthersAlone
  <2>4. RemovedStaysAway'
    BY <1>4, <2>1, Types DEF IInv, RemovedStaysAway, OthersAlone
  <2> QED
    BY <1>4, <2>1, <2>2, <2>3, <2>4 DEF IInv, NoPlain, OthersAlone
<1>6. CASE ~bursting
  <2>1. Listed(h, g) /\ Told_cservice(h, g) /\ UNCHANGED <<now, bursting, queue, starts>>
    BY <1>6 DEF AutoGline
  <2> HIDE DEF g
  <2> QED
    BY <1>2, <1>4, <2>1, SetStep, ToldService DEF IInv, TypeOK
<1> QED
  BY <1>5, <1>6

LEMMA queueGlineStep ==
    ASSUME IInv, NEW h \in Host, NEW d \in Duration, queueGline(h, d)
    PROVE  IInv'
<1> DEFINE q == [host |-> h, dur |-> d, upd |-> now]
<1> DEFINE Waiting == [host : Host \ RealName, dur : Duration, upd : Time]
<1>1. /\ queue' = Append(queue, q) /\ Len(queue) < MaxQueue /\ h \notin RealName
      /\ UNCHANGED <<now, bursting, core, memory, table, cs, starts, fails,
                     unsure, unsent, removed>>
  BY DEF queueGline
<1>2. q \in Waiting /\ queue \in Seq(Waiting) /\ MaxQueue \in Nat
  BY <1>1, GlinesAssumption DEF IInv, TypeOK
<1> HIDE DEF q
<1>3. queue' \in Seq(Waiting) /\ Len(queue') <= MaxQueue
  <2> HIDE DEF Waiting
  <2> QED
    BY <1>1, <1>2
<1>4. TypeOK'
  BY <1>1, <1>3 DEF IInv, TypeOK
<1> QED
  BY <1>1, <1>4 DEF IInv, Follows, Known, RemovedStaysAway, NoPlain

LEMMA processGlineQueueStep ==
    ASSUME IInv, processGlineQueue
    PROVE  IInv'
<1> DEFINE Waiting == [host : Host \ RealName, dur : Duration, upd : Time]
<1> DEFINE q == Head(queue)
<1> DEFINE g == [exp |-> q.dur + now, mod |-> q.upd]
<1>1. queue # <<>> /\ queue' = Tail(queue) /\ UNCHANGED <<now, bursting, starts>>
  BY DEF processGlineQueue
<1>2. queue \in Seq(Waiting) /\ Len(queue) <= MaxQueue /\ MaxQueue \in Nat
  BY GlinesAssumption DEF IInv, TypeOK
<1>3. q \in Waiting /\ queue' \in Seq(Waiting) /\ Len(queue') <= MaxQueue
  <2> HIDE DEF Waiting
  <2> QED
    BY <1>1, <1>2
<1>4. PICK done \in 0 .. 3 :
        /\ Queries(3, done)
        /\ memory' = [memory EXCEPT
                ![q.host] = [exp |-> q.dur + now, upd |-> q.upd, id |-> IdAfter("none", done)]]
        /\ table' = Inserted(q.host, [exp |-> q.dur + now, upd |-> q.upd, id |-> "none"], done)
        /\ unsure' = AfterInsert(q.host, done)
  BY DEF processGlineQueue
<1>5. Listed(q.host, g) /\ Told_cservice(q.host, g)
  BY DEF processGlineQueue
<1> HIDE DEF q
<1>6. q.host \in Host /\ q.dur \in Duration /\ q.upd \in Time /\ now \in Time
  BY <1>3 DEF IInv, TypeOK
<1>7. q.dur + now \in Expiry
  BY <1>6, ExpiryType
<1>8. g \in Shared
  BY <1>6, <1>7 DEF Shared
<1>9. OthersAlone(q.host)
  BY <1>4, <1>6, <1>7, Inserting DEF IInv, Id, OthersAlone
<1> HIDE DEF g
<1> QED
  BY <1>1, <1>3, <1>5, <1>6, <1>8, <1>9, SetStep, ToldService DEF IInv

-----------------------------------------------------------------------------
(* Steps that only take glines away.                                       *)
LEMMA Leaving ==
    ASSUME IInv,
           memory' \in [Host -> InMemory \cup {None}],
           table' \in [Host -> Kept \cup {None}],
           unsure' \subseteq Host, fails' \in 0 .. MaxFail,
           Follows',
           \A i \in Host : /\ memory'[i] \in {memory[i], None}
                           /\ table'[i] \in {table[i], None},
           core' \in [Host -> Shared \cup {None}],
           \A i \in Host : core'[i] \in {core[i], None},
           cs' \in [Host -> Kept \cup {None}],
           \A i \in Host : cs'[i] \in {cs[i], None},
           Known',
           unsent' \subseteq Host, UNCHANGED removed,
           UNCHANGED <<now, bursting, queue, starts>>
    PROVE  IInv'
<1>1. TypeOK'
  BY DEF IInv, TypeOK, InMemory, Id
<1>2. RemovedStaysAway'
  BY Types DEF IInv, RemovedStaysAway
<1>3. NoPlain'
  BY PlainHosts DEF IInv, NoPlain
<1> QED
  BY <1>1, <1>2, <1>3 DEF IInv

LEMMA WithoutCsType ==
    ASSUME TypeOK, NEW hosts, cs' = WithoutCs(hosts)
    PROVE  /\ cs' \in [Host -> Kept \cup {None}]
           /\ \A i \in Host : cs'[i] = IF i \in hosts THEN None ELSE cs[i]
  BY Types DEF WithoutCs

(* Glines of the server that go: the modules are told.                     *)
LEMMA GoneStep ==
    ASSUME IInv, NEW hosts \in SUBSET Host,
           core' = [i \in Host |-> IF i \in hosts THEN None ELSE core[i]],
           Forgotten(hosts), cs' = WithoutCs(hosts),
           UNCHANGED <<now, bursting, queue, starts, unsent, removed>>
    PROVE  IInv'
<1> DEFINE mine == {i \in hosts : findGline(i) # None}
<1>1. PICK ok \in SUBSET Host :
        /\ Statements(mine, ok)
        /\ memory' = [i \in Host |-> IF i \in mine THEN None ELSE memory[i]]
        /\ table' = Deleted(ok)
        /\ unsure' = unsure \cup Failed(mine, ok)
  BY DEF Forgotten
<1>2. mine \in SUBSET Host /\ \A i \in mine : memory[i] # None
  BY DEF findGline
<1>3. \A i \in hosts \ RealName : i \notin mine => memory[i] = None
  BY DEF findGline
<1> HIDE DEF mine
<1>4. /\ memory' \in [Host -> InMemory \cup {None}]
      /\ table' \in [Host -> Kept \cup {None}]
      /\ unsure' \subseteq Host /\ fails' \in 0 .. MaxFail
      /\ Follows'
      /\ \A i \in Host : /\ memory'[i] \in {memory[i], None}
                         /\ table'[i] \in {table[i], None}
  BY <1>1, <1>2, Forgetting DEF IInv
<1>5. /\ core' \in [Host -> Shared \cup {None}]
      /\ \A i \in Host : core'[i] \in {core[i], None}
  BY Types DEF IInv
<1>6. /\ cs' \in [Host -> Kept \cup {None}]
      /\ \A i \in Host : cs'[i] = IF i \in hosts THEN None ELSE cs[i]
  BY WithoutCsType DEF IInv
<1>7. Known'
  <2> SUFFICES ASSUME NEW i \in Host \ RealName
               PROVE  /\ memory'[i] # None => core'[i] # None \/ i \in unsent'
                      /\ cs'[i] # None => core'[i] # None
    BY DEF Known
  <2>1. CASE i \in hosts
    BY <1>1, <1>3, <1>6, <2>1, Types DEF IInv
  <2>2. CASE i \notin hosts
    BY <1>4, <1>6, <2>2 DEF IInv, Known
  <2> QED
    BY <2>1, <2>2
<1>8. unsent' \subseteq Host
  BY DEF IInv, TypeOK
<1> QED
  BY <1>4, <1>5, <1>6, <1>7, <1>8, Leaving

LEMMA msg_GL_RemoveStep ==
    ASSUME IInv, NEW h \in Host, msg_GL_Remove(h)
    PROVE  IInv'
<1>1. core' = [i \in Host |-> IF i \in {h} THEN None ELSE core[i]]
  BY Types DEF IInv, msg_GL_Remove
<1> QED
  BY <1>1, GoneStep DEF msg_GL_Remove

LEMMA updateGlinesStep ==
    ASSUME IInv, updateGlines
    PROVE  IInv'
<1> DEFINE over == {i \in Host : core[i] # None /\ core[i].exp <= now}
<1>1. /\ core' = [i \in Host |-> IF i \in over THEN None ELSE core[i]]
      /\ Forgotten(over) /\ cs' = WithoutCs(over)
      /\ UNCHANGED <<now, bursting, queue, starts, unsent, removed>>
  BY DEF updateGlines
<1>2. over \in SUBSET Host
  OBVIOUS
<1> HIDE DEF over
<1> QED
  BY <1>1, <1>2, GoneStep

LEMMA REMGLINEStep ==
    ASSUME IInv, NEW h \in Host, REMGLINE(h)
    PROVE  IInv'
<1> DEFINE mine == {h} \ {i \in Host : memory[i] = None}
<1>1. PICK ok \in SUBSET Host :
        /\ Statements(mine, ok)
        /\ table' = Deleted(ok)
        /\ unsure' = unsure \cup Failed(mine, ok)
  BY DEF REMGLINE
<1>2. mine \in SUBSET Host /\ \A i \in mine : memory[i] # None
  OBVIOUS
<1>3. memory' = [i \in Host |-> IF i \in mine THEN None ELSE memory[i]] /\ memory'[h] = None
  BY Types DEF IInv, REMGLINE
<1> HIDE DEF mine
<1>4. /\ memory' \in [Host -> InMemory \cup {None}]
      /\ table' \in [Host -> Kept \cup {None}]
      /\ unsure' \subseteq Host /\ fails' \in 0 .. MaxFail
      /\ Follows'
      /\ \A i \in Host : /\ memory'[i] \in {memory[i], None}
                         /\ table'[i] \in {table[i], None}
  BY <1>1, <1>2, <1>3, Forgetting DEF IInv
<1>5. /\ core' \in [Host -> Shared \cup {None}] /\ core'[h] = None
      /\ \A i \in Host \ {h} : core'[i] = core[i]
  BY Types DEF IInv, REMGLINE
<1>6. /\ cs' \in [Host -> Kept \cup {None}]
      /\ cs'[h] = None
      /\ \A i \in Host \ {h} : cs'[i] = cs[i]
  <2>1. CASE core[h] # None
    BY <2>1, WithoutCsType DEF IInv, REMGLINE
  <2>2. CASE core[h] = None
    <3>1. cs' = cs
      BY <2>2 DEF REMGLINE
    <3> QED
      BY <2>2, <3>1, Types DEF IInv, Known, NoPlain
  <2> QED
    BY <2>1, <2>2
<1>7. unsent' = unsent \ {h} /\ UNCHANGED <<now, bursting, queue, starts>>
  BY DEF REMGLINE
<1>8. removed' = removed \/ (h \notin unsure' /\ removed' = removed \cup {h})
  BY DEF REMGLINE
<1>9. TypeOK'
  BY <1>4, <1>5, <1>6, <1>7, <1>8 DEF IInv, TypeOK, InMemory, Id
<1>10. Known'
  BY <1>3, <1>4, <1>5, <1>6, <1>7 DEF IInv, Known
<1>11. RemovedStaysAway'
  <2>1. \A i \in removed : core'[i] = None /\ memory'[i] = None /\ table'[i] = None /\ cs'[i] = None
    BY <1>4, <1>5, <1>6, Types DEF IInv, RemovedStaysAway
  <2>2. h \notin unsure' => table'[h] = None
    BY <1>3, <1>4 DEF Follows
  <2> QED
    BY <1>3, <1>5, <1>6, <1>8, <2>1, <2>2 DEF RemovedStaysAway
<1>12. NoPlain'
  BY <1>6, PlainHosts DEF IInv, NoPlain
<1> QED
  BY <1>4, <1>9, <1>10, <1>11, <1>12 DEF IInv

LEMMA refreshGlinesStep ==
    ASSUME IInv, refreshGlines
    PROVE  IInv'
<1>1. PICK ok \in SUBSET Host :
        /\ Statements(Stale, ok)
        /\ table' = Deleted(ok)
        /\ unsure' = unsure \cup Failed(Stale, ok)
  BY DEF refreshGlines
<1>2. memory' = [i \in Host |-> IF i \in Stale THEN None ELSE memory[i]]
  BY DEF refreshGlines
<1>3. Stale \in SUBSET Host /\ \A i \in Stale : memory[i] # None
  BY DEF Stale, Overdue
<1>4. /\ memory' \in [Host -> InMemory \cup {None}]
      /\ table' \in [Host -> Kept \cup {None}]
      /\ unsure' \subseteq Host /\ fails' \in 0 .. MaxFail
      /\ Follows'
      /\ \A i \in Host : /\ memory'[i] \in {memory[i], None}
                         /\ table'[i] \in {table[i], None}
  BY <1>1, <1>2, <1>3, Forgetting DEF IInv
<1>5. unsent' = unsent \ Stale /\ UNCHANGED <<now, bursting, core, cs, queue, starts, removed>>
  BY DEF refreshGlines
<1>6. Known'
  BY <1>2, <1>4, <1>5 DEF IInv, Known
<1> QED
  BY <1>4, <1>5, <1>6, Leaving, Types DEF IInv

LEMMA expireGlinesStep ==
    ASSUME IInv, expireGlines
    PROVE  IInv'
<1>1. /\ cs' \in [Host -> Kept \cup {None}]
      /\ \A i \in Host : cs'[i] = IF i \in Overdue(cs) THEN None ELSE cs[i]
  BY WithoutCsType DEF IInv, expireGlines
<1>2. UNCHANGED <<now, bursting, core, memory, table, queue, starts, fails,
                  unsure, unsent, removed>>
  BY DEF expireGlines
<1>3. Known' /\ Follows'
  BY <1>1, <1>2 DEF IInv, Known, Follows
<1>4. \A i \in Host : cs'[i] \in {cs[i], None}
  BY <1>1
<1> QED
  BY <1>1, <1>2, <1>3, <1>4, Leaving, Types DEF IInv

-----------------------------------------------------------------------------
(* The clock, the end of a burst, and starting again.                      *)
LEMMA ClockStep ==
    ASSUME IInv, Tick \/ msg_EB
    PROVE  IInv'
<1>1. /\ UNCHANGED <<core, memory, table, cs, queue, starts, fails, unsure, unsent, removed>>
  BY DEF Tick, msg_EB
<1>2. bursting' \in BOOLEAN
  BY DEF Tick, msg_EB, IInv, TypeOK
<1>3. now' \in Time
  <2>1. now' = now \/ (now < MaxTime /\ now' = now + 1)
    BY DEF Tick, msg_EB
  <2> QED
    BY <2>1, Constants DEF IInv, TypeOK, Time
<1> QED
  BY <1>1, <1>2, <1>3 DEF IInv, TypeOK, Follows, Known, RemovedStaysAway, NoPlain

(* Every row is loaded with its identifier.                                *)
LEMMA Loading ==
    ASSUME IInv, loadGlines, UNCHANGED table, unsure' = {}
    PROVE  /\ memory' \in [Host -> InMemory \cup {None}]
           /\ \A h \in Host : memory'[h] = None <=> table[h] = None
           /\ Follows'
<1> SUFFICES ASSUME NEW h \in Host
             PROVE  /\ memory'[h] \in InMemory \cup {None}
                    /\ memory'[h] = None <=> table[h] = None
                    /\ memory'[h] # None => /\ memory'[h].id = "row"
                                            /\ table[h] = Row(memory'[h])
  BY DEF loadGlines, Follows
<1>1. CASE table[h] = None
  BY <1>1 DEF loadGlines
<1>2. CASE table[h] # None
  <2> DEFINE m == [exp |-> table[h].exp, upd |-> table[h].upd, id |-> "row"]
  <2>1. table[h] \in Kept
    BY <1>2, Types DEF IInv
  <2>2. m \in InMemory /\ m.id = "row" /\ Row(m) = table[h]
    BY <2>1 DEF InMemory, Id, Kept, Row
  <2>3. memory'[h] = m
    BY <1>2 DEF loadGlines
  <2> HIDE DEF m
  <2> QED
    BY <1>2, <2>2, <2>3, NoneIsNoGline
<1> QED
  BY <1>1, <1>2

LEMMA RestartStep ==
    ASSUME IInv, Restart
    PROVE  IInv'
<1>1. /\ starts' = starts + 1 /\ starts < MaxStarts
      /\ bursting' = TRUE /\ queue' = <<>>
      /\ core' = [h \in Host |-> None] /\ cs' = [h \in Host |-> None]
      /\ loadGlines
      /\ unsent' = {h \in Host : table[h] # None} /\ unsure' = {}
      /\ UNCHANGED <<now, table, fails, removed>>
  BY DEF Restart
<1>2. /\ memory' \in [Host -> InMemory \cup {None}]
      /\ \A h \in Host : memory'[h] = None <=> table[h] = None
      /\ Follows'
  BY <1>1, Loading
<1>3. starts' \in 0 .. MaxStarts
  BY <1>1, Constants DEF IInv, TypeOK
<1>4. queue' \in Seq([host : Host \ RealName, dur : Duration, upd : Time]) /\ Len(queue') <= MaxQueue
  BY <1>1, GlinesAssumption
<1>5. TypeOK'
  BY <1>1, <1>2, <1>3, <1>4 DEF IInv, TypeOK, InMemory, Id
<1>6. Known' /\ NoPlain'
  BY <1>1, <1>2, PlainHosts DEF Known, NoPlain
<1>7. RemovedStaysAway'
  BY <1>1, <1>2, Types DEF IInv, RemovedStaysAway
<1> QED
  BY <1>2, <1>5, <1>6, <1>7 DEF IInv

LEMMA ReloadStep ==
    ASSUME IInv, Reload
    PROVE  IInv'
<1> DEFINE g(h) == [exp |-> memory'[h].exp, mod |-> memory'[h].upd]
<1> DEFINE c(h) == IF ~BurstGlines(h) \/ h \in RealName THEN cs[h]
                   ELSE IF cs[h] = None THEN [exp |-> g(h).exp, upd |-> 0]
                   ELSE IF cs[h].upd >= g(h).mod THEN cs[h]
                   ELSE [cs[h] EXCEPT !.exp = g(h).exp]
<1>1. /\ starts' = starts + 1 /\ starts < MaxStarts /\ queue' = <<>>
      /\ loadGlines
      /\ core' = [h \in Host |-> IF BurstGlines(h) THEN g(h) ELSE core[h]]
      /\ cs' = [h \in Host |-> c(h)]
      /\ unsent' = {} /\ unsure' = {}
      /\ UNCHANGED <<now, bursting, table, fails, removed>>
  BY DEF Reload
<1>2. /\ memory' \in [Host -> InMemory \cup {None}]
      /\ \A h \in Host : memory'[h] = None <=> table[h] = None
      /\ Follows'
  BY <1>1, Loading
<1>3. \A h \in Host : BurstGlines(h) => g(h) \in Shared /\ g(h) # None /\ g(h).exp \in Expiry
  <2>1. \A h \in Host : BurstGlines(h) => memory'[h] \in InMemory
    BY <1>2 DEF BurstGlines
  <2>2. \A h \in Host : BurstGlines(h) => g(h) \in Shared /\ g(h).exp \in Expiry
    BY <2>1 DEF InMemory, Shared
  <2> QED
    BY <2>2, NoneIsNoGline
<1>4. \A h \in Host : c(h) \in Kept \cup {None}
  <2> SUFFICES ASSUME NEW h \in Host
               PROVE  c(h) \in Kept \cup {None}
    OBVIOUS
  <2> DEFINE x == g(h).exp
  <2>1. cs[h] \in Kept \cup {None}
    BY Types DEF IInv
  <2>2. CASE ~BurstGlines(h) \/ h \in RealName
    BY <2>1, <2>2
  <2>3. CASE BurstGlines(h) /\ h \notin RealName
    <3>1. x \in Expiry
      BY <1>3, <2>3
    <3> HIDE DEF x
    <3>2. [exp |-> x, upd |-> 0] \in Kept
      BY <3>1, TimeType DEF Kept
    <3>3. cs[h] # None => [cs[h] EXCEPT !.exp = x] \in Kept
      BY <2>1, <3>1 DEF Kept
    <3>4. c(h) \in {cs[h], [exp |-> x, upd |-> 0]} \/ (cs[h] # None /\ c(h) = [cs[h] EXCEPT !.exp = x])
      BY <2>3 DEF x
    <3> QED
      BY <2>1, <3>2, <3>3, <3>4
  <2> QED
    BY <2>2, <2>3
<1>5. \A h \in Host : ~BurstGlines(h) => c(h) = cs[h]
  OBVIOUS
<1>6. \A h \in RealName : c(h) = cs[h]
  OBVIOUS
<1> HIDE DEF g, c
<1>7. /\ core' \in [Host -> Shared \cup {None}]
      /\ \A h \in Host : core'[h] = None <=> ~BurstGlines(h) /\ core[h] = None
  BY <1>1, <1>3, Types DEF IInv
<1>8. cs' \in [Host -> Kept \cup {None}]
  BY <1>1, <1>4
<1>9. starts' \in 0 .. MaxStarts
  BY <1>1, Constants DEF IInv, TypeOK
<1>10. queue' \in Seq([host : Host \ RealName, dur : Duration, upd : Time]) /\ Len(queue') <= MaxQueue
  BY <1>1, GlinesAssumption
<1>11. TypeOK'
  BY <1>1, <1>2, <1>7, <1>8, <1>9, <1>10 DEF IInv, TypeOK, InMemory, Id
<1>12. Known'
  BY <1>1, <1>5, <1>7 DEF IInv, Known, BurstGlines
<1>13. RemovedStaysAway'
  BY <1>1, <1>2, <1>5, <1>7, Types DEF IInv, RemovedStaysAway, BurstGlines
<1>14. NoPlain'
  BY <1>1, <1>6, PlainHosts DEF IInv, NoPlain
<1> QED
  BY <1>2, <1>11, <1>12, <1>13, <1>14 DEF IInv

-----------------------------------------------------------------------------
LEMMA InitIInv == Init => IInv
<1> SUFFICES ASSUME Init
             PROVE  IInv
  OBVIOUS
<1>1. 0 \in 0 .. MaxStarts /\ 0 \in 0 .. MaxFail /\ 0 \in Time
  BY Constants, TimeType
<1>2. queue \in Seq([host : Host \ RealName, dur : Duration, upd : Time]) /\ Len(queue) <= MaxQueue
  BY GlinesAssumption DEF Init
<1>3. TypeOK
  BY <1>1, <1>2 DEF Init, TypeOK
<1>4. Follows /\ Known /\ RemovedStaysAway /\ NoPlain
  BY PlainHosts DEF Init, Follows, Known, RemovedStaysAway, NoPlain
<1> QED
  BY <1>3, <1>4 DEF IInv

LEMMA NextIInv == IInv /\ [Next]_vars => IInv'
<1> SUFFICES ASSUME IInv, [Next]_vars
             PROVE  IInv'
  OBVIOUS
<1>1. CASE UNCHANGED vars
  <2>1. UNCHANGED <<now, bursting, core, memory, table, cs, queue, starts, fails,
                    unsure, unsent, removed>>
    BY <1>1 DEF vars
  <2> QED
    BY <2>1 DEF IInv, TypeOK, Follows, Known, RemovedStaysAway, NoPlain
<1>2. CASE Next
  <2>1. CASE \E h \in Host, d \in Duration : \E mod \in 0 .. now : msg_GL_Add(h, d, mod)
    BY <2>1, msg_GL_AddStep
  <2>2. CASE \E h \in Host, d \in Duration : GLINE(h, d)
    BY <2>2, GLINEStep
  <2>3. CASE \E h \in Host, d \in Duration : AutoGline(h, d)
    BY <2>3, AutoGlineStep
  <2>4. CASE \E h \in Host, d \in Duration : queueGline(h, d)
    BY <2>4, queueGlineStep
  <2>5. CASE \E h \in Host, d \in Duration : doInternalGline(h, d)
    BY <2>5, doInternalGlineStep
  <2>6. CASE \E h \in Host : msg_GL_Remove(h)
    BY <2>6, msg_GL_RemoveStep
  <2>7. CASE \E h \in Host : REMGLINE(h)
    BY <2>7, REMGLINEStep
  <2>8. CASE Tick \/ msg_EB
    BY <2>8, ClockStep
  <2>9. CASE processGlineQueue
    BY <2>9, processGlineQueueStep
  <2>10. CASE updateGlines
    BY <2>10, updateGlinesStep
  <2>11. CASE refreshGlines
    BY <2>11, refreshGlinesStep
  <2>12. CASE expireGlines
    BY <2>12, expireGlinesStep
  <2>13. CASE Restart
    BY <2>13, RestartStep
  <2>14. CASE Reload
    BY <2>14, ReloadStep
  <2> QED
    BY <1>2, <2>1, <2>2, <2>3, <2>4, <2>5, <2>6, <2>7, <2>8, <2>9, <2>10,
       <2>11, <2>12, <2>13, <2>14 DEF Next
<1> QED
  BY <1>1, <1>2

(* The inductive invariant holds in every reachable state.                 *)
THEOREM Invariance == Spec => []IInv
  BY InitIInv, NextIInv, PTL DEF Spec

(* Every list and the table only hold glines, whoever wrote them last.     *)
THEOREM GlineTypes == Spec => []TypeOK
<1>1. IInv => TypeOK
  BY DEF IInv
<1> QED
  BY <1>1, Invariance, PTL

(* mod.ccontrol's memory, its table and the server agree, unless a query   *)
(* failed, however glines are set, removed, expired and loaded.            *)
THEOREM CopiesAgree == Spec => []Agreement
<1>1. IInv => Agreement
  BY AgreementInParts DEF IInv
<1> QED
  BY <1>1, Invariance, PTL

(* A gline removed with every query done does not come back by itself.     *)
THEOREM NoReturn == Spec => []RemovedStaysAway
<1>1. IInv => RemovedStaysAway
  BY DEF IInv
<1> QED
  BY <1>1, Invariance, PTL

-----------------------------------------------------------------------------
(* Operators.                                                              *)

(* The halves of a session, what accountsMap says, and that who is         *)
(* remembered has shown who he is.                                         *)
Halves(t, on) ==
    /\ \A c \in Client, u \in User :
        t.dbUser[c] = u <=> t.users[u] # Nobody /\ c \in t.users[u].clients
    /\ \A c \in Client : t.dbUser[c] \in User => on[c] # Nobody

Leads(t, a, u) == t.users[u] # Nobody /\ (t.users[u].listed \/ t.users[u].account # a)

Accounts(t) ==
    /\ \A a \in Account, u \in User : t.accountsMap[a] = u => Leads(t, a, u)
    /\ \A u \in User, a \in Account :
        t.users[u] # Nobody /\ t.users[u].listed /\ t.users[u].account = a => t.accountsMap[a] = u

Stamp(c, ts) == <<c, ts>>
Proof(c, ts, u) == <<c, ts, u>>
Shown(t, e) ==
    \A u \in User, c \in Client, ts \in Nat :
        t.users[u] # Nobody /\ t.users[u].last = Stamp(c, ts) => Proof(c, ts, u) \in e

Good(t, on, e) == t \in O!Tables /\ Halves(t, on) /\ Accounts(t) /\ Shown(t, e)

OInv ==
    /\ O!OpersAssumption /\ O!TypeOK
    /\ ~fault => Good(opers, online, earned)

LEMMA Apart ==
    ASSUME O!OpersAssumption
    PROVE  /\ Nobody \notin User /\ Nobody \notin Account /\ Nobody \notin O!Person
           /\ Nobody \notin O!ccUser /\ Nobody \notin O!Row /\ Nobody \notin Client \X Nat
           /\ NoData \notin User /\ NoData # Nobody
           /\ \A c \in Client, ts \in Nat : Stamp(c, ts) # Nobody
BY DEF O!OpersAssumption, Stamp

(* A table, part by part.                                                  *)
LEMMA Parts ==
    ASSUME NEW t \in O!Tables
    PROVE  /\ t.users \in [User -> O!ccUser \cup {Nobody}]
           /\ t.accountsMap \in [Account -> User \cup {Nobody}]
           /\ t.dbUser \in [Client -> User \cup {Nobody, NoData}]
           /\ \A x \in [User -> O!ccUser \cup {Nobody}] : [t EXCEPT !.users = x] \in O!Tables
BY DEF O!Tables

LEMMA WithUser ==
    ASSUME NEW t \in O!Tables, NEW u \in User, NEW x \in O!ccUser \cup {Nobody}
    PROVE  LET r == [t EXCEPT !.users[u] = x] IN
           /\ r \in O!Tables /\ r.dbUser = t.dbUser /\ r.accountsMap = t.accountsMap
           /\ r.users[u] = x /\ \A w \in User \ {u} : r.users[w] = t.users[w]
BY DEF O!Tables

(* What commands change of a user and no session rests on.                 *)
Same(x, y) == x.clients = y.clients /\ x.listed = y.listed /\ x.account = y.account
              /\ x.last \in {y.last, Nobody}

LEMMA UserEdited ==
    ASSUME O!OpersAssumption, NEW on, NEW e, NEW t, Good(t, on, e),
           NEW u \in User, t.users[u] # Nobody, NEW x \in O!ccUser, Same(x, t.users[u])
    PROVE  Good([t EXCEPT !.users[u] = x], on, e)
<1> DEFINE r == [t EXCEPT !.users[u] = x]
<1>1. /\ r \in O!Tables /\ r.dbUser = t.dbUser /\ r.accountsMap = t.accountsMap
      /\ r.users[u] = x /\ \A w \in User \ {u} : r.users[w] = t.users[w]
      /\ x # Nobody
  BY WithUser, Apart DEF Good
<1> HIDE DEF r
<1>2. Halves(r, on)
  BY <1>1 DEF Good, Halves, Same
<1>3. Accounts(r)
  BY <1>1 DEF Good, Accounts, Leads, Same
<1>4. Shown(r, e)
  BY <1>1, Apart DEF Good, Shown, Same
<1> QED
  BY <1>1, <1>2, <1>3, <1>4 DEF Good, r

(* Sessions begin and end.                                                 *)
LEMMA Noted ==
    ASSUME NEW t \in O!Tables, NEW c \in Client, NEW v \in {Nobody, NoData}
    PROVE  LET r == [t EXCEPT !.dbUser[c] = v] IN
           /\ r \in O!Tables /\ r.users = t.users /\ r.accountsMap = t.accountsMap
           /\ r.dbUser[c] = v /\ \A d \in Client \ {c} : r.dbUser[d] = t.dbUser[d]
BY DEF O!Tables

LEMMA NotOn ==
    ASSUME O!OpersAssumption, NEW on, NEW e, NEW t, Good(t, on, e), NEW c \in Client,
           t.dbUser[c] \notin User, NEW v \in {Nobody, NoData},
           NEW on2, \A d \in Client \ {c} : on2[d] = on[d]
    PROVE  Good([t EXCEPT !.dbUser[c] = v], on2, e)
<1> DEFINE r == [t EXCEPT !.dbUser[c] = v]
<1>1. /\ r \in O!Tables /\ r.users = t.users /\ r.accountsMap = t.accountsMap
      /\ r.dbUser[c] = v /\ \A d \in Client \ {c} : r.dbUser[d] = t.dbUser[d]
  BY Noted DEF Good
<1>2. v \notin User
  BY Apart
<1> HIDE DEF r
<1>3. Halves(r, on2)
  BY <1>1, <1>2 DEF Good, Halves
<1>4. Accounts(r) /\ Shown(r, e)
  BY <1>1 DEF Good, Accounts, Leads, Shown
<1> QED
  BY <1>1, <1>3, <1>4 DEF Good, r

LEMMA AuthKeeps ==
    ASSUME O!OpersAssumption, NEW on, NEW e, NEW t, Good(t, on, e), NEW c \in Client,
           on[c] # Nobody, NEW u \in User, t.users[u] # Nobody, t.dbUser[c] \notin User
    PROVE  /\ Good(O!AuthUser(t, c, u), on, e)
           /\ \A d \in Client : O!AuthUser(t, c, u).dbUser[d] # t.dbUser[d]
                => d = c /\ O!AuthUser(t, c, u).dbUser[d] = u
           /\ O!AuthUser(t, c, u).users[u] # Nobody
<1>1. CASE t.dbUser[c] = NoData
  BY <1>1 DEF O!AuthUser
<1>2. CASE t.dbUser[c] # NoData
  <2> DEFINE x == [t.users[u] EXCEPT !.clients = t.users[u].clients \cup {c}]
             r == [t EXCEPT !.dbUser[c] = u, !.users[u] = x]
  <2>0. t \in O!Tables /\ t.users[u] \in O!ccUser
    BY Parts DEF Good
  <2>1. O!AuthUser(t, c, u) = r
    BY <1>2, <2>0 DEF O!AuthUser, O!Tables
  <2>2. /\ x \in O!ccUser /\ x.clients = t.users[u].clients \cup {c}
        /\ x.listed = t.users[u].listed /\ x.account = t.users[u].account /\ x.last = t.users[u].last
    BY <2>0 DEF O!ccUser
  <2> HIDE DEF x
  <2>3. /\ r \in O!Tables /\ r.accountsMap = t.accountsMap
        /\ r.dbUser[c] = u /\ \A d \in Client \ {c} : r.dbUser[d] = t.dbUser[d]
        /\ r.users[u] = x /\ \A w \in User \ {u} : r.users[w] = t.users[w]
    BY <2>0, <2>2 DEF O!Tables
  <2>4. x # Nobody
    BY <2>2, Apart
  <2> HIDE DEF r
  <2>5. Halves(r, on)
    BY <2>2, <2>3, <2>4 DEF Good, Halves
  <2>6. Accounts(r)
    BY <2>2, <2>3, <2>4 DEF Good, Accounts, Leads
  <2>7. Shown(r, e)
    BY <2>2, <2>3 DEF Good, Shown
  <2> QED
    BY <2>1, <2>3, <2>4, <2>5, <2>6, <2>7 DEF Good
<1> QED
  BY <1>1, <1>2

LEMMA DeauthKeeps ==
    ASSUME O!OpersAssumption, NEW on, NEW e, NEW t, Good(t, on, e), NEW c \in Client,
           t.dbUser[c] \in User
    PROVE  LET r == O!deAuthUser(t, c) IN
           /\ Good(r, on, e) /\ r.dbUser[c] = Nobody /\ r.accountsMap = t.accountsMap
           /\ \A d \in Client \ {c} : r.dbUser[d] = t.dbUser[d]
           /\ \A w \in User : r.users[w] = Nobody <=> t.users[w] = Nobody
<1> DEFINE u == t.dbUser[c]
           x == [t.users[u] EXCEPT !.clients = t.users[u].clients \ {c}]
           r == [t EXCEPT !.dbUser[c] = Nobody, !.users[u] = x]
<1>1. u \in User /\ t \in O!Tables /\ t.users[u] \in O!ccUser /\ t.users[u] # Nobody
      /\ c \in t.users[u].clients
  BY Parts DEF Good, Halves
<1>2. O!deAuthUser(t, c) = r
  BY <1>1 DEF O!deAuthUser, O!Tables
<1>3. /\ x \in O!ccUser /\ x.clients = t.users[u].clients \ {c}
      /\ x.listed = t.users[u].listed /\ x.account = t.users[u].account /\ x.last = t.users[u].last
  BY <1>1 DEF O!ccUser
<1>4. \A w \in User : t.dbUser[c] = w <=> w = u
  OBVIOUS
<1> HIDE DEF x, u
<1>5. /\ r \in O!Tables /\ r.accountsMap = t.accountsMap
      /\ r.dbUser[c] = Nobody /\ \A d \in Client \ {c} : r.dbUser[d] = t.dbUser[d]
      /\ r.users[u] = x /\ \A w \in User \ {u} : r.users[w] = t.users[w]
  BY <1>1, <1>3 DEF O!Tables
<1>6. x # Nobody /\ Nobody \notin User
  BY <1>3, Apart
<1> HIDE DEF r
<1>7. Halves(r, on)
  BY <1>1, <1>3, <1>4, <1>5, <1>6 DEF Good, Halves
<1>8. Accounts(r) /\ Shown(r, e)
  BY <1>1, <1>3, <1>5, <1>6 DEF Good, Accounts, Leads, Shown
<1> QED
  BY <1>1, <1>2, <1>5, <1>6, <1>7, <1>8 DEF Good
LEMMA MoreShown ==
    ASSUME NEW on, NEW e, NEW t, Good(t, on, e), NEW e2, e \subseteq e2
    PROVE  Good(t, on, e2)
BY DEF Good, Shown

IdSet(t, u, i) == [t EXCEPT !.users[u].id = i]

LEMMA IdStored ==
    ASSUME O!OpersAssumption, NEW on, NEW e, NEW t, Good(t, on, e),
           NEW u \in User, t.users[u] # Nobody, NEW i \in Nat
    PROVE  /\ Good(IdSet(t, u, i), on, e) /\ IdSet(t, u, i).dbUser = t.dbUser
           /\ IdSet(t, u, i).users[u] # Nobody
           /\ IdSet(t, u, i).users[u].sso = t.users[u].sso
<1> DEFINE x == [t.users[u] EXCEPT !.id = i]
           s == [t EXCEPT !.users[u] = x]
<1>1. t \in O!Tables /\ t.users[u] \in O!ccUser
  BY Parts DEF Good
<1>2. IdSet(t, u, i) = s
  BY <1>1 DEF O!Tables, IdSet
<1>3. x \in O!ccUser /\ Same(x, t.users[u]) /\ x.sso = t.users[u].sso
  BY <1>1 DEF O!ccUser, Same
<1> HIDE DEF x
<1>4. Good(s, on, e)
  BY <1>3, UserEdited
<1>5. s.dbUser = t.dbUser /\ s.users[u] = x
  BY <1>1, <1>3 DEF O!Tables
<1> QED
  BY <1>2, <1>3, <1>4, <1>5, Apart

LEMMA SignedOn ==
    ASSUME O!OpersAssumption, NEW on, NEW e, NEW t, Good(t, on, e), NEW c \in Client,
           on[c] # Nobody, NEW who \in O!Person
    PROVE  /\ Good(O!handleAC(t, c, who), on, e)
           /\ \A d \in Client : O!handleAC(t, c, who).dbUser[d] # t.dbUser[d] =>
                /\ d = c /\ O!handleAC(t, c, who).dbUser[d] \in User
                /\ who.account \in Account
                /\ O!handleAC(t, c, who).dbUser[d] = t.accountsMap[who.account]
                /\ O!MaySignOn(t, t.accountsMap[who.account], who)
<1> DEFINE u == IF who.account = Nobody THEN Nobody ELSE t.accountsMap[who.account]
<1>1. CASE u = Nobody \/ t.dbUser[c] \in User \/ ~O!MaySignOn(t, u, who)
  <2>1. O!handleAC(t, c, who) = t
    BY <1>1 DEF O!handleAC
  <2> QED
    BY <2>1
<1>2. CASE u # Nobody /\ t.dbUser[c] \notin User /\ O!MaySignOn(t, u, who)
  <2> DEFINE s == IF t.users[u].id = 0 THEN [t EXCEPT !.users[u].id = who.id] ELSE t
  <2>1. /\ who.account \in Account /\ who.id \in Nat
        /\ u = t.accountsMap[who.account] /\ u \in User /\ t.users[u] # Nobody
        /\ t.users[u].sso
    <3>1. who.account \in Account /\ who.id \in Nat /\ u = t.accountsMap[who.account]
      BY <1>2 DEF O!Person
    <3>2. u \in User
      BY <1>2, <3>1, Parts DEF Good
    <3> QED
      BY <1>2, <3>1, <3>2 DEF Good, Accounts, Leads, O!MaySignOn
  <2>2. O!handleAC(t, c, who) = O!OkAuthUser(s, c, u, who)
    BY <1>2 DEF O!handleAC
  <2> HIDE DEF u
  <2>3. Good(s, on, e) /\ s.dbUser = t.dbUser /\ s.users[u] # Nobody /\ s.users[u].sso
    <3>1. s = IdSet(t, u, who.id) \/ s = t
      BY DEF IdSet
    <3> HIDE DEF s
    <3> QED
      BY <2>1, <3>1, IdStored
  <2> HIDE DEF s
  <2>4. O!handleAC(t, c, who) = O!AuthUser(s, c, u)
    BY <2>1, <2>2, <2>3, Apart DEF O!OkAuthUser
  <2>5. /\ Good(O!AuthUser(s, c, u), on, e)
        /\ \A d \in Client : O!AuthUser(s, c, u).dbUser[d] # s.dbUser[d]
             => d = c /\ O!AuthUser(s, c, u).dbUser[d] = u
    BY <1>2, <2>1, <2>3, AuthKeeps
  <2> QED
    BY <1>2, <2>1, <2>3, <2>4, <2>5
<1> QED
  BY <1>1, <1>2

LEMMA Remembered ==
    ASSUME O!OpersAssumption, NEW on, NEW e, NEW t, Good(t, on, e), NEW c \in Client,
           NEW u \in User, t.users[u] # Nobody, NEW ts \in Nat, Proof(c, ts, u) \in e
    PROVE  LET r == [t EXCEPT !.users[u].last = <<c, ts>>] IN
           Good(r, on, e) /\ r.dbUser = t.dbUser
<1> DEFINE x == [t.users[u] EXCEPT !.last = <<c, ts>>]
           r == [t EXCEPT !.users[u] = x]
<1>1. t \in O!Tables /\ t.users[u] \in O!ccUser
  BY Parts DEF Good
<1>2. [t EXCEPT !.users[u].last = <<c, ts>>] = r
  BY <1>1 DEF O!Tables
<1>3. /\ x \in O!ccUser /\ x.clients = t.users[u].clients
      /\ x.listed = t.users[u].listed /\ x.account = t.users[u].account /\ x.last = Stamp(c, ts)
  BY <1>1 DEF O!ccUser, Stamp
<1> HIDE DEF x
<1>4. /\ r \in O!Tables /\ r.dbUser = t.dbUser /\ r.accountsMap = t.accountsMap
      /\ r.users[u] = x /\ \A w \in User \ {u} : r.users[w] = t.users[w] /\ x # Nobody
  BY <1>1, <1>3, WithUser, Apart
<1>5. \A d \in Client, k \in Nat : Stamp(d, k) = Stamp(c, ts) => d = c /\ k = ts
  BY DEF Stamp
<1> HIDE DEF r
<1>6. Halves(r, on) /\ Accounts(r)
  BY <1>3, <1>4, Apart DEF Good, Halves, Accounts, Leads
<1>7. Shown(r, e)
  BY <1>3, <1>4, <1>5 DEF Good, Shown
<1> QED
  BY <1>2, <1>4, <1>6, <1>7 DEF Good

LEMMA LoggedIn ==
    ASSUME O!OpersAssumption, NEW on, NEW e, NEW t, Good(t, on, e), NEW c \in Client,
           on[c] # Nobody, NEW who \in O!Person, NEW u \in User, t.users[u] # Nobody,
           t.dbUser[c] \notin User, Proof(c, who.ts, u) \in e
    PROVE  LET r == O!OkAuthUser(O!WithId(t, u, who), c, u, who) IN
           /\ Good(r, on, e)
           /\ \A d \in Client : r.dbUser[d] # t.dbUser[d] => d = c /\ r.dbUser[d] = u
<1> DEFINE s == O!WithId(t, u, who)
           a == O!AuthUser(s, c, u)
           r == O!OkAuthUser(s, c, u, who)
<1>1. who.id \in Nat /\ who.ts \in Nat
  BY DEF O!Person
<1>2. Good(s, on, e) /\ s.dbUser = t.dbUser /\ s.users[u] # Nobody
  BY <1>1, IdStored DEF O!WithId, IdSet
<1> HIDE DEF s
<1>3. /\ Good(a, on, e) /\ a.users[u] # Nobody
      /\ \A d \in Client : a.dbUser[d] # s.dbUser[d] => d = c /\ a.dbUser[d] = u
  BY <1>2, AuthKeeps
<1>4. r = a \/ r = [a EXCEPT !.users[u].last = <<c, who.ts>>]
  BY DEF O!OkAuthUser
<1> HIDE DEF a, r
<1>5. CASE r = a
  BY <1>2, <1>3, <1>5 DEF r, s
<1>6. CASE r = [a EXCEPT !.users[u].last = <<c, who.ts>>]
  <2>1. Good(r, on, e) /\ r.dbUser = a.dbUser
    BY <1>1, <1>3, <1>6, Remembered
  <2> QED
    BY <1>2, <1>3, <2>1 DEF r, s
<1> QED
  BY <1>4, <1>5, <1>6

LEMMA LeftKeeps ==
    ASSUME O!OpersAssumption, NEW on, NEW e, NEW t, Good(t, on, e), NEW c \in Client,
           NEW on2, \A d \in Client \ {c} : on2[d] = on[d]
    PROVE  /\ Good(O!Left(t, c), on2, e)
           /\ \A d \in Client : O!Left(t, c).dbUser[d] # t.dbUser[d] => d = c /\ O!Left(t, c).dbUser[d] \notin User
<1> DEFINE s == IF t.dbUser[c] \in User THEN O!deAuthUser(t, c) ELSE t
           r == [s EXCEPT !.dbUser[c] = NoData]
<1>1. O!Left(t, c) = r
  BY DEF O!Left
<1>2. /\ Good(s, on, e) /\ s.dbUser[c] \notin User
      /\ \A d \in Client \ {c} : s.dbUser[d] = t.dbUser[d]
  BY DeauthKeeps, Apart
<1> HIDE DEF s
<1>3. Good(r, on2, e)
  BY <1>2, NotOn
<1>4. r.dbUser[c] = NoData /\ \A d \in Client \ {c} : r.dbUser[d] = s.dbUser[d]
  BY <1>2, Noted DEF Good
<1> QED
  BY <1>1, <1>2, <1>3, <1>4, Apart
(* What every step has to leave.                                           *)
Becomes(d) == opers'.dbUser[d]
EntitledStep ==
    \A d \in Client : Becomes(d) \in User /\ Becomes(d) # opers.dbUser[d] =>
        \/ <<d, online'[d].ts, Becomes(d)>> \in earned'
        \/ O!LeftOver(online'[d].account, Becomes(d))
Holds == OInv' /\ EntitledStep

LEMMA Counted == ASSUME OInv, O!Change \/ UNCHANGED changes PROVE changes' \in 0..MaxChanges
BY DEF OInv, O!Change, O!TypeOK, O!OpersAssumption

LEMMA KeptIs ==
    ASSUME OInv, Good(opers', online', earned'),
           online' \in [Client -> O!Person \cup {Nobody}],
           db' \in BOOLEAN, fault' \in BOOLEAN, O!Change \/ UNCHANGED changes,
           EntitledStep
    PROVE  Holds
BY Counted DEF OInv, O!TypeOK, O!OpersAssumption, Good, Holds

LEMMA Given ==
    ASSUME OInv
    PROVE  /\ O!OpersAssumption /\ opers \in O!Tables /\ online \in [Client -> O!Person \cup {Nobody}]
           /\ db \in BOOLEAN /\ fault \in BOOLEAN
           /\ ~fault => Good(opers, online, earned)
BY DEF OInv, O!TypeOK

(* Sessions.                                                               *)
LEMMA Earned ==
    ASSUME OInv, ~fault, NEW c \in Client, NEW who \in O!Person, who.account \in Account,
           opers.accountsMap[who.account] \in User,
           O!MaySignOn(opers, opers.accountsMap[who.account], who)
    PROVE  \/ <<c, who.ts, opers.accountsMap[who.account]>> \in O!Earns(c, who)
           \/ O!LeftOver(who.account, opers.accountsMap[who.account])
<1> DEFINE u == opers.accountsMap[who.account]
<1>1. who.account # Nobody /\ opers.users[u] # Nobody
      /\ (opers.users[u].listed \/ opers.users[u].account # who.account)
  BY Given, Apart DEF Good, Accounts, Leads
<1>2. CASE opers.users[u].account # who.account
  BY <1>1, <1>2 DEF O!LeftOver
<1>3. CASE opers.users[u].account = who.account
  BY <1>1, <1>3 DEF O!Earns, O!Listed
<1> QED
  BY <1>2, <1>3

LEMMA SignsOnKeeps ==
    ASSUME OInv, ~fault, NEW c \in Client, NEW who \in O!Person, online[c] # Nobody,
           O!SignsOn(c, who), O!Change \/ UNCHANGED changes
    PROVE  Holds
<1> DEFINE e == earned \cup O!Earns(c, who)
<1>1. /\ online' = [online EXCEPT ![c] = who] /\ opers' = O!handleAC(opers, c, who)
      /\ earned' = e /\ db' = db /\ fault' = fault
  BY DEF O!SignsOn
<1>2. /\ online' \in [Client -> O!Person \cup {Nobody}] /\ online'[c] = who
      /\ \A d \in Client \ {c} : online'[d] = online[d]
      /\ who # Nobody
  BY <1>1, Given, Apart
<1>3. Good(opers, online', e)
  <2>1. Good(opers, online, e)
    BY Given, MoreShown
  <2> HIDE DEF e
  <2> QED
    BY <1>2, <2>1 DEF Good, Halves
<1> HIDE DEF e
<1>4. /\ Good(opers', online', earned')
      /\ \A d \in Client : opers'.dbUser[d] # opers.dbUser[d] =>
            /\ d = c /\ opers'.dbUser[d] \in User
            /\ who.account \in Account
            /\ opers'.dbUser[d] = opers.accountsMap[who.account]
            /\ O!MaySignOn(opers, opers.accountsMap[who.account], who)
  <2> DEFINE r == O!handleAC(opers, c, who)
  <2>1. /\ Good(r, online', e)
        /\ \A d \in Client : r.dbUser[d] # opers.dbUser[d] =>
              /\ d = c /\ r.dbUser[d] \in User
              /\ who.account \in Account
              /\ r.dbUser[d] = opers.accountsMap[who.account]
              /\ O!MaySignOn(opers, opers.accountsMap[who.account], who)
    BY <1>2, <1>3, Given, SignedOn
  <2> QED
    BY <1>1, <2>1
<1>5. EntitledStep
  <2> SUFFICES ASSUME NEW d \in Client, opers'.dbUser[d] \in User,
                      opers'.dbUser[d] # opers.dbUser[d]
               PROVE  \/ <<d, online'[d].ts, opers'.dbUser[d]>> \in earned'
                      \/ O!LeftOver(online'[d].account, opers'.dbUser[d])
    BY DEF EntitledStep, Becomes
  <2>1. /\ d = c /\ who.account \in Account /\ opers'.dbUser[d] = opers.accountsMap[who.account]
        /\ O!MaySignOn(opers, opers.accountsMap[who.account], who)
    BY <1>4
  <2>2. \/ <<c, who.ts, opers.accountsMap[who.account]>> \in O!Earns(c, who)
        \/ O!LeftOver(who.account, opers.accountsMap[who.account])
    BY <2>1, Earned
  <2> QED
    BY <1>1, <1>2, <2>1, <2>2 DEF e
<1> QED
  BY <1>1, <1>2, <1>4, <1>5, Given, KeptIs

LEMMA ConnectKeeps ==
    ASSUME OInv, ~fault, NEW c \in Client, NEW who \in O!Person, O!Connect(c, who)
    PROVE  Holds
<1> DEFINE e == earned \cup O!Earns(c, who)
           t == [opers EXCEPT !.dbUser[c] = Nobody]
           r == O!handleAC(t, c, who)
           before == {u \in O!Listed(r) : r.users[u].last = <<c, who.ts>>}
<1>1. /\ online[c] = Nobody /\ online' = [online EXCEPT ![c] = who]
      /\ earned' = e /\ db' = db /\ fault' = fault /\ changes' = changes
  BY DEF O!Connect
<1>2. /\ online' \in [Client -> O!Person \cup {Nobody}] /\ online'[c] = who
      /\ \A d \in Client \ {c} : online'[d] = online[d]
      /\ who # Nobody /\ who.ts \in Nat
  BY <1>1, Given, Apart DEF O!Person
<1>3. opers.dbUser[c] \notin User
  BY <1>1, Given DEF Good, Halves
<1>4. /\ Good(t, online', e)
      /\ t.users = opers.users /\ t.accountsMap = opers.accountsMap
      /\ t.dbUser[c] = Nobody /\ \A d \in Client \ {c} : t.dbUser[d] = opers.dbUser[d]
  <2>1. Good(opers, online, e)
    BY Given, MoreShown
  <2> HIDE DEF e
  <2>2. Good(t, online', e)
    BY <1>2, <1>3, <2>1, Given, NotOn
  <2> QED
    BY <2>2, Given, Noted
<1>5. O!MaySignOn(t, opers.accountsMap[who.account], who)
        => O!MaySignOn(opers, opers.accountsMap[who.account], who)
  BY <1>4 DEF O!MaySignOn, O!SameId, O!GotMask
<1>6. opers' = r \/ \E u \in before : r.dbUser[c] = Nobody /\ opers' = O!AuthUser(r, c, u)
  BY DEF O!Connect
<1> HIDE DEF e, t
<1>7. /\ Good(r, online', e)
      /\ \A d \in Client : r.dbUser[d] # t.dbUser[d] =>
            /\ d = c /\ r.dbUser[d] \in User
            /\ who.account \in Account
            /\ r.dbUser[d] = t.accountsMap[who.account]
            /\ O!MaySignOn(t, t.accountsMap[who.account], who)
  BY <1>2, <1>4, Given, SignedOn
<1>8. CASE opers' = r
  <2>1. EntitledStep
    <3> SUFFICES ASSUME NEW d \in Client, opers'.dbUser[d] \in User,
                        opers'.dbUser[d] # opers.dbUser[d]
                 PROVE  \/ <<d, online'[d].ts, opers'.dbUser[d]>> \in earned'
                        \/ O!LeftOver(online'[d].account, opers'.dbUser[d])
      BY DEF EntitledStep, Becomes
    <3>1. r.dbUser[d] # t.dbUser[d]
      BY <1>4, <1>8, Given, Apart
    <3>2. /\ d = c /\ who.account \in Account /\ opers'.dbUser[d] = opers.accountsMap[who.account]
          /\ O!MaySignOn(opers, opers.accountsMap[who.account], who)
      BY <1>4, <1>5, <1>7, <1>8, <3>1
    <3>3. \/ <<c, who.ts, opers.accountsMap[who.account]>> \in O!Earns(c, who)
          \/ O!LeftOver(who.account, opers.accountsMap[who.account])
      BY <3>2, Earned
    <3> QED
      BY <1>1, <1>2, <3>2, <3>3 DEF e
  <2> QED
    BY <1>1, <1>2, <1>7, <1>8, <2>1, Given, KeptIs
<1> HIDE DEF r
<1>9. ASSUME NEW u \in before, r.dbUser[c] = Nobody, opers' = O!AuthUser(r, c, u)
      PROVE  Holds
  <2>1. u \in User /\ r.users[u] # Nobody /\ Proof(c, who.ts, u) \in e
    BY <1>2, <1>7, <1>9 DEF O!Listed, Good, Shown, Stamp
  <2>2. /\ Good(opers', online', e)
        /\ \A d \in Client : opers'.dbUser[d] # r.dbUser[d] => d = c /\ opers'.dbUser[d] = u
    BY <1>2, <1>7, <1>9, <2>1, Given, Apart, AuthKeeps
  <2>3. \A d \in Client \ {c} : opers'.dbUser[d] = opers.dbUser[d]
    BY <1>4, <1>7, <2>2
  <2>4. opers'.dbUser[c] = u \/ opers'.dbUser[c] = Nobody
    BY <1>9, <2>2
  <2>5. EntitledStep
    BY <1>1, <1>2, <2>1, <2>3, <2>4, Given, Apart DEF EntitledStep, Becomes, Proof
  <2> QED
    BY <1>1, <1>2, <2>2, <2>5, Given, KeptIs
<1> QED
  BY <1>6, <1>8, <1>9

(* Good does not depend on what the client is, if it is on.                *)
LEMMA StillOn ==
    ASSUME NEW t, NEW on, NEW e, Good(t, on, e),
           NEW on2, \A d \in Client : t.dbUser[d] \in User => on2[d] # Nobody
    PROVE  Good(t, on2, e)
BY DEF Good, Halves

LEMMA NoneNew ==
    ASSUME \A d \in Client : opers'.dbUser[d] # opers.dbUser[d] => opers'.dbUser[d] \notin User
    PROVE  EntitledStep
BY DEF EntitledStep, Becomes

LEMMA NetworkKeeps == ASSUME OInv, ~fault, O!Network PROVE Holds
<1>0. \A c \in Client : \A v \in Visitor[c] : v \in O!Person
  BY Given DEF O!OpersAssumption
<1>1. ASSUME NEW c \in Client, NEW v \in Visitor[c], O!Connect(c, v) PROVE Holds
  BY <1>0, <1>1, ConnectKeeps
<1>2. ASSUME NEW c \in Client, NEW v \in Visitor[c], O!OnAccount(c, v) PROVE Holds
  <2> DEFINE who == [online[c] EXCEPT !.account = v.account, !.id = v.id]
  <2>1. online[c] # Nobody /\ O!SignsOn(c, who) /\ O!Change
    BY <1>2 DEF O!OnAccount
  <2>2. who \in O!Person
    BY <1>0, <2>1, Given DEF O!Person
  <2> QED
    BY <2>1, <2>2, SignsOnKeeps
<1>3. ASSUME NEW c \in Client, O!OnOper(c) PROVE Holds
  <2> DEFINE who == [online[c] EXCEPT !.oper = TRUE]
  <2>1. online[c] # Nobody /\ O!SignsOn(c, who) /\ UNCHANGED changes
    BY <1>3 DEF O!OnOper
  <2>2. who \in O!Person
    BY <2>1, Given DEF O!Person
  <2> QED
    BY <2>1, <2>2, SignsOnKeeps
<1>4. ASSUME NEW c \in Client, NEW who \in O!Person, online[c] # Nobody, O!Becomes(c, who) PROVE Holds
  <2>1. /\ online' = [online EXCEPT ![c] = who] /\ O!Change
        /\ opers' = opers /\ earned' = earned /\ db' = db /\ fault' = fault
    BY <1>4 DEF O!Becomes
  <2>2. online' \in [Client -> O!Person \cup {Nobody}]
        /\ \A d \in Client : online[d] # Nobody => online'[d] # Nobody
    BY <1>4, <2>1, Given, Apart
  <2>3. Good(opers, online', earned)
    BY <2>2, Given, StillOn DEF Good, Halves
  <2>4. EntitledStep
    BY <2>1, NoneNew
  <2> QED
    BY <2>1, <2>2, <2>3, <2>4, Given, KeptIs
<1>5. ASSUME NEW c \in Client, O!NoOper(c) PROVE Holds
  <2> DEFINE who == [online[c] EXCEPT !.oper = FALSE]
  <2>1. online[c] # Nobody /\ O!Becomes(c, who)
    BY <1>5 DEF O!NoOper
  <2>2. who \in O!Person
    BY <2>1, Given DEF O!Person
  <2> QED
    BY <2>1, <2>2, <1>4
<1>6. ASSUME NEW c \in Client, NEW v \in Visitor[c], O!NewNick(c, v) PROVE Holds
  <2> DEFINE who == [online[c] EXCEPT !.ts = v.ts]
  <2>1. online[c] # Nobody /\ O!Becomes(c, who)
    BY <1>6 DEF O!NewNick
  <2>2. who \in O!Person
    BY <1>0, <2>1, Given DEF O!Person
  <2> QED
    BY <2>1, <2>2, <1>4
<1>7. ASSUME NEW c \in Client, O!Quit(c) PROVE Holds
  <2> DEFINE r == O!Left(opers, c)
  <2>1. /\ online' = [online EXCEPT ![c] = Nobody] /\ opers' = r /\ O!Change
        /\ earned' = earned /\ db' = db /\ fault' = fault
    BY <1>7 DEF O!Quit
  <2>2. online' \in [Client -> O!Person \cup {Nobody}]
        /\ \A d \in Client \ {c} : online'[d] = online[d]
    BY <2>1, Given
  <2>3. /\ Good(r, online', earned)
        /\ \A d \in Client : r.dbUser[d] # opers.dbUser[d] => r.dbUser[d] \notin User
    BY <2>2, Given, LeftKeeps
  <2> HIDE DEF r
  <2>4. EntitledStep
    BY <2>1, <2>3, NoneNew
  <2> QED
    BY <2>1, <2>2, <2>3, <2>4, Given, KeptIs
<1> QED
  BY <1>1, <1>2, <1>3, <1>5, <1>6, <1>7 DEF O!Network

LEMMA DeauthsKeep ==
    ASSUME OInv, ~fault, NEW c \in Client, O!Say(c) \/ O!Deauth(c)
    PROVE  Holds
<1> DEFINE r == O!deAuthUser(opers, c)
<1>1. /\ opers.dbUser[c] \in User
      /\ db' = db /\ fault' = fault /\ online' = online /\ changes' = changes
  BY DEF O!Say, O!Deauth, O!Heard, O!Fallen
<1>2. /\ Good(r, online, earned) /\ r.dbUser[c] = Nobody
      /\ \A d \in Client \ {c} : r.dbUser[d] = opers.dbUser[d]
      /\ \A w \in User : r.users[w] = Nobody <=> opers.users[w] = Nobody
  BY <1>1, Given, DeauthKeeps
<1>3. CASE O!Say(c)
  <2>1. opers' = r /\ earned' = earned
    BY <1>3 DEF O!Say
  <2> HIDE DEF r
  <2>2. EntitledStep
    BY <1>2, <2>1, NoneNew, Given, Apart
  <2> QED
    BY <1>1, <1>2, <2>1, <2>2, Given, KeptIs
<1>4. CASE O!Deauth(c)
  <2> DEFINE u == opers.dbUser[c]
             x == [r.users[u] EXCEPT !.last = Nobody]
             s == [r EXCEPT !.users[u] = x]
  <2>1. opers' = O!Forgotten(r, u) /\ earned' = {p \in earned : p[1] # c \/ p[3] # u}
    BY <1>4 DEF O!Deauth
  <2>2. r \in O!Tables /\ u \in User /\ r.users[u] # Nobody /\ r.users[u] \in O!ccUser
    <3>1. opers.users[u] # Nobody
      BY <1>1, Given DEF Good, Halves
    <3> QED
      BY <1>1, <1>2, <3>1, Parts DEF Good
  <2> HIDE DEF r, u
  <2>3. O!Forgotten(r, u) = s
    BY <2>2 DEF O!Forgotten, O!Tables
  <2>4. x \in O!ccUser /\ Same(x, r.users[u]) /\ x.last = Nobody
    BY <2>2 DEF O!ccUser, Same
  <2> HIDE DEF x
  <2>5. Good(s, online, earned)
    BY <1>2, <2>2, <2>4, Given, UserEdited
  <2>6. /\ s \in O!Tables /\ s.dbUser = r.dbUser
        /\ s.users[u] = x /\ \A w \in User \ {u} : s.users[w] = r.users[w]
    BY <2>2, <2>4, WithUser
  <2> HIDE DEF s
  <2>7. \A w \in User, d \in Client, ts \in Nat :
          w # u /\ Proof(d, ts, w) \in earned => Proof(d, ts, w) \in earned'
    BY <2>1 DEF Proof
  <2>8. Shown(s, earned')
    BY <2>4, <2>5, <2>6, <2>7, Given, Apart DEF Good, Shown
  <2>9. Good(s, online, earned')
    BY <2>5, <2>8 DEF Good
  <2>10. EntitledStep
    BY <1>2, <2>1, <2>3, <2>6, NoneNew, Given, Apart
  <2> QED
    BY <1>1, <2>1, <2>3, <2>9, <2>10, Given, KeptIs
<1> QED
  BY <1>3, <1>4

LEMMA LoginKeeps ==
    ASSUME OInv, ~fault, NEW c \in Client, NEW u \in User, NEW right \in BOOLEAN, O!Login(c, u, right)
    PROVE  Holds
<1> DEFINE t == IF O!Fallen(c) THEN O!deAuthUser(opers, c) ELSE opers
           who == online[c]
           known == /\ u \in O!Listed(t) /\ right /\ (who.oper \/ O!GotMask(t, u, who))
           ok == known /\ (who.oper \/ ~t.users[u].needop \/ t.users[u].autoop)
           r == O!OkAuthUser(O!WithId(t, u, who), c, u, who)
<1>1. /\ online[c] # Nobody /\ (opers.dbUser[c] \in User => O!Fallen(c))
      /\ db' = db /\ fault' = fault /\ online' = online /\ changes' = changes
      /\ opers' = (IF ok THEN r ELSE t)
      /\ earned' = (IF known THEN earned \cup {<<c, who.ts, u>>} ELSE earned)
  BY DEF O!Login
<1>2. /\ Good(t, online, earned) /\ t.dbUser[c] \notin User
      /\ \A d \in Client \ {c} : t.dbUser[d] = opers.dbUser[d]
  BY <1>1, Given, Apart, DeauthKeeps DEF O!Fallen
<1>3. who \in O!Person
  BY <1>1, Given
<1> HIDE DEF t, r, who
<1>4. Good(t, online, earned')
  <2>1. earned \subseteq earned'
    BY <1>1
  <2> QED
    BY <1>2, <2>1, MoreShown
<1>5. CASE ok
  <2>1. t.users[u] # Nobody /\ Proof(c, who.ts, u) \in earned' /\ opers' = r
    BY <1>1, <1>5 DEF O!Listed, Proof
  <2>2. /\ Good(r, online, earned')
        /\ \A d \in Client : r.dbUser[d] # t.dbUser[d] => d = c /\ r.dbUser[d] = u
    BY <1>1, <1>2, <1>3, <1>4, <2>1, Given, LoggedIn DEF r
  <2>3. EntitledStep
    BY <1>1, <1>2, <2>1, <2>2 DEF EntitledStep, Becomes, Proof, who
  <2> QED
    BY <1>1, <2>1, <2>2, <2>3, Given, KeptIs
<1>6. CASE ~ok
  <2>1. opers' = t
    BY <1>1, <1>6
  <2>2. EntitledStep
    BY <1>2, <2>1, NoneNew
  <2> QED
    BY <1>1, <1>4, <2>1, <2>2, Given, KeptIs
<1> QED
  BY <1>5, <1>6
(* Commands that change users.                                             *)
LEMMA ModifyKeeps ==
    ASSUME OInv, ~fault, NEW u \in User, u \in O!Listed(opers),
           NEW x \in O!ccUser, Same(x, opers.users[u]), opers' = [opers EXCEPT !.users[u] = x],
           O!Change, UNCHANGED <<online, db, earned, fault>>
    PROVE  Holds
<1>1. opers.users[u] # Nobody /\ Good(opers, online, earned)
  BY Given DEF O!Listed
<1>2. Good(opers', online', earned')
  <2> DEFINE r == [opers EXCEPT !.users[u] = x]
  <2>1. Good(r, online, earned)
    BY <1>1, Given, UserEdited
  <2> QED
    BY <2>1
<1>3. opers'.dbUser = opers.dbUser
  BY <1>1, WithUser DEF Good
<1>4. EntitledStep
  BY <1>3, NoneNew
<1> QED
  BY <1>2, <1>4, Given, KeptIs

LEMMA ListedUser ==
    ASSUME OInv, NEW u \in O!Listed(opers)
    PROVE  u \in User /\ opers.users[u] \in O!ccUser
BY Given, Parts DEF O!Listed

LEMMA AttributesKeep ==
    ASSUME OInv, ~fault, NEW c \in Client, NEW u \in User, NEW v \in BOOLEAN,
           O!Suspend(c, u, v) \/ O!SetSso(c, u, v) \/ O!SetSsooo(c, u, v) \/ O!SetAutoOp(c, u, v)
               \/ O!SetNeedOp(c, u, v)
    PROVE  Holds
<1>1. /\ u \in O!Listed(opers) /\ O!Change /\ UNCHANGED <<online, db, earned, fault>>
  BY DEF O!Suspend, O!SetSso, O!SetSsooo, O!SetAutoOp, O!SetNeedOp, O!MayModify, O!Command, O!Modify
<1>2. opers.users[u] \in O!ccUser
  BY <1>1, ListedUser
<1>3. \E x \in O!ccUser : Same(x, opers.users[u]) /\ opers' = [opers EXCEPT !.users[u] = x]
  <2> DEFINE P(x) == Same(x, opers.users[u]) /\ opers' = [opers EXCEPT !.users[u] = x]
             y == opers.users[u]
  <2>1. CASE O!Suspend(c, u, v)
    BY <1>2, <2>1 DEF O!Suspend, O!Modify, O!ccUser, Same
  <2>2. CASE O!SetSso(c, u, v)
    BY <1>2, <2>2 DEF O!SetSso, O!Modify, O!ccUser, Same
  <2>3. CASE O!SetSsooo(c, u, v)
    BY <1>2, <2>3 DEF O!SetSsooo, O!Modify, O!ccUser, Same
  <2>4. CASE O!SetAutoOp(c, u, v)
    BY <1>2, <2>4 DEF O!SetAutoOp, O!Modify, O!ccUser, Same
  <2>5. CASE O!SetNeedOp(c, u, v)
    BY <1>2, <2>5 DEF O!SetNeedOp, O!Modify, O!ccUser, Same
  <2> QED
    BY <2>1, <2>2, <2>3, <2>4, <2>5
<1> QED
  BY <1>1, <1>3, ModifyKeeps

LEMMA LevelsAndHostsKeep ==
    ASSUME OInv, ~fault, NEW u \in User,
           \/ \E c \in Client, level \in Level : O!SetType(c, u, level)
           \/ \E c \in Client, h \in Mask : O!AddHost(c, u, h) \/ O!DelHost(c, u, h)
           \/ O!refreshSuspention(u)
    PROVE  Holds
<1>1. /\ u \in O!Listed(opers) /\ O!Change /\ UNCHANGED <<online, db, earned, fault>>
  BY DEF O!SetType, O!AddHost, O!DelHost, O!refreshSuspention, O!MayModify, O!Command, O!Modify
<1>2. opers.users[u] \in O!ccUser
  BY <1>1, ListedUser
<1>3. \E x \in O!ccUser : Same(x, opers.users[u]) /\ opers' = [opers EXCEPT !.users[u] = x]
  <2>1. ASSUME NEW c \in Client, NEW level \in Level, O!SetType(c, u, level)
        PROVE  \E x \in O!ccUser : Same(x, opers.users[u]) /\ opers' = [opers EXCEPT !.users[u] = x]
    <3>1. level \in 1..5
      BY Given DEF O!OpersAssumption
    <3> QED
      BY <1>2, <2>1, <3>1 DEF O!SetType, O!Modify, O!ccUser, Same
  <2>2. ASSUME NEW c \in Client, NEW h \in Mask, O!AddHost(c, u, h) \/ O!DelHost(c, u, h)
        PROVE  \E x \in O!ccUser : Same(x, opers.users[u]) /\ opers' = [opers EXCEPT !.users[u] = x]
    BY <1>2, <2>2 DEF O!AddHost, O!DelHost, O!Modify, O!ccUser, Same
  <2>3. CASE O!refreshSuspention(u)
    <3> DEFINE x == [opers.users[u] EXCEPT !.suspended = FALSE]
    <3>1. x \in O!ccUser /\ Same(x, opers.users[u])
      BY <1>2 DEF O!ccUser, Same
    <3>2. opers' = [opers EXCEPT !.users[u] = x]
      BY <2>3, Given DEF O!refreshSuspention, O!Tables
    <3> HIDE DEF x
    <3> QED
      BY <3>1, <3>2
  <2> QED
    BY <2>1, <2>2, <2>3
<1> QED
  BY <1>1, <1>3, ModifyKeeps

LEMMA AddUserKeeps ==
    ASSUME OInv, ~fault, NEW c \in Client, NEW u \in User, NEW level \in Level, O!AddUser(c, u, level, 1)
    PROVE  Holds
<1> DEFINE x == [type |-> level, account |-> Nobody, id |-> 1, sso |-> TRUE, ssooo |-> TRUE,
                 autoop |-> FALSE, needop |-> TRUE, suspended |-> FALSE, hosts |-> {},
                 clients |-> {}, last |-> Nobody, listed |-> TRUE]
           r == [opers EXCEPT !.users[u] = x]
<1>1. /\ opers.users[u] = Nobody /\ opers' = r /\ O!Change
      /\ UNCHANGED <<online, db, earned, fault>>
  BY DEF O!AddUser, O!Command
<1>2. x \in O!ccUser
  <2>1. level \in 1..5
    BY Given DEF O!OpersAssumption
  <2> QED
    BY <2>1 DEF O!ccUser
<1>3. x.clients = {} /\ x.account = Nobody /\ x.last = Nobody /\ x.listed
  OBVIOUS
<1> HIDE DEF x
<1>4. /\ r \in O!Tables /\ r.dbUser = opers.dbUser /\ r.accountsMap = opers.accountsMap
      /\ r.users[u] = x /\ \A w \in User \ {u} : r.users[w] = opers.users[w]
  BY <1>2, Given, WithUser
<1> HIDE DEF r
<1>5. Good(r, online, earned)
  <2>1. Good(opers, online, earned) /\ x # Nobody
    BY <1>2, Given, Apart
  <2>2. Halves(r, online)
    BY <1>1, <1>3, <1>4, <2>1 DEF Good, Halves
  <2>3. Accounts(r)
    BY <1>1, <1>3, <1>4, <2>1, Given, Apart DEF Good, Accounts, Leads
  <2>4. Shown(r, earned)
    BY <1>1, <1>3, <1>4, <2>1, Given, Apart DEF Good, Shown
  <2> QED
    BY <1>4, <2>2, <2>3, <2>4 DEF Good
<1>6. EntitledStep
  BY <1>1, <1>4, NoneNew
<1> QED
  BY <1>1, <1>5, <1>6, Given, KeptIs

LEMMA RemUserKeeps ==
    ASSUME OInv, ~fault, NEW c \in Client, NEW u \in User, NEW half \in BOOLEAN, O!RemUser(c, u, half)
    PROVE  Holds
<1> DEFINE x == [opers.users[u] EXCEPT !.listed = FALSE, !.hosts = {}]
           m == [a \in Account |-> IF a = opers.users[u].account THEN Nobody ELSE opers.accountsMap[a]]
           t == O!Unlisted(opers, u)
<1>1. /\ u \in O!Listed(opers) /\ O!Change /\ online' = online /\ db' = db
      /\ half => opers' = t /\ earned' = earned /\ fault' = fault
      /\ ~half => /\ opers' = [t EXCEPT !.users[u] = Nobody]
                  /\ fault' = \/ opers.users[u].clients # {}
                              \/ \E a \in Account : t.accountsMap[a] = u
                  /\ earned' = {p \in earned : p[3] # u}
  BY DEF O!RemUser, O!Command
<1>2. /\ Good(opers, online, earned) /\ opers.users[u] \in O!ccUser /\ opers.users[u] # Nobody
      /\ opers \in O!Tables /\ opers.users[u].listed
  BY <1>1, Given, ListedUser DEF O!Listed
<1>3. /\ x \in O!ccUser /\ x.clients = opers.users[u].clients /\ ~x.listed
      /\ x.account = opers.users[u].account /\ x.last = opers.users[u].last
  BY <1>2 DEF O!ccUser
<1>4. t = [opers EXCEPT !.users[u] = x, !.accountsMap = m]
  BY <1>2 DEF O!Unlisted, O!Tables
<1>5. \A a \in Account : m[a] = IF a = opers.users[u].account THEN Nobody ELSE opers.accountsMap[a]
  OBVIOUS
<1>6. m \in [Account -> User \cup {Nobody}]
  BY <1>2, Parts
<1> HIDE DEF x, m, t
<1>7. /\ t \in O!Tables /\ t.dbUser = opers.dbUser /\ t.accountsMap = m
      /\ t.users[u] = x /\ \A w \in User \ {u} : t.users[w] = opers.users[w]
      /\ x # Nobody
  <2>1. x # Nobody
    BY <1>3, Given, Apart
  <2> QED
    BY <1>2, <1>3, <1>4, <1>6, <2>1 DEF O!Tables
<1>8. Good(t, online, earned)
  <2>1. Halves(t, online)
    BY <1>2, <1>3, <1>7 DEF Good, Halves
  <2>2. Accounts(t)
    <3>1. ASSUME NEW a \in Account, NEW w \in User, m[a] = w PROVE Leads(t, a, w)
      <4>1. opers.accountsMap[a] = w /\ a # opers.users[u].account
        BY <1>5, <3>1, Given, Apart
      <4> QED
        BY <1>2, <1>3, <1>7, <4>1 DEF Good, Accounts, Leads
    <3>2. ASSUME NEW w \in User, NEW a \in Account,
                 t.users[w] # Nobody, t.users[w].listed, t.users[w].account = a
          PROVE  m[a] = w
      <4>1. w # u /\ t.users[w] = opers.users[w]
        BY <1>3, <1>7, <3>2
      <4>2. opers.accountsMap[a] = w
        BY <1>2, <3>2, <4>1 DEF Good, Accounts
      <4>3. a # opers.users[u].account
        BY <1>2, <4>1, <4>2 DEF Good, Accounts
      <4> QED
        BY <1>5, <4>2, <4>3
    <3> QED
      BY <1>7, <3>1, <3>2 DEF Accounts
  <2>3. Shown(t, earned)
    BY <1>2, <1>3, <1>7 DEF Good, Shown
  <2> QED
    BY <1>7, <2>1, <2>2, <2>3 DEF Good
<1>9. CASE half
  <2>1. EntitledStep
    BY <1>1, <1>7, <1>9, NoneNew
  <2> QED
    BY <1>1, <1>8, <1>9, <2>1, Given, KeptIs
<1>10. CASE ~half
  <2> DEFINE r == [t EXCEPT !.users[u] = Nobody]
  <2>1. /\ r \in O!Tables /\ r.dbUser = t.dbUser /\ r.accountsMap = t.accountsMap
        /\ r.users[u] = Nobody /\ \A w \in User \ {u} : r.users[w] = t.users[w]
    BY <1>7, WithUser
  <2>2. opers' = r
    BY <1>1, <1>10
  <2> HIDE DEF r
  <2>3. EntitledStep
    BY <1>7, <2>1, <2>2, NoneNew
  <2>4. fault' \in BOOLEAN
    BY <1>1, <1>10
  <2>5. CASE fault'
    BY <1>1, <2>1, <2>2, <2>3, <2>4, <2>5, Given, Counted DEF Holds, OInv, O!TypeOK, O!OpersAssumption, O!Tables
  <2>6. CASE ~fault'
    <3>1. x.clients = {} /\ \A a \in Account : t.accountsMap[a] # u
      BY <1>1, <1>3, <1>10, <2>6
    <3>2. Halves(r, online)
      BY <1>7, <1>8, <2>1, <3>1 DEF Good, Halves
    <3>3. Accounts(r)
      BY <1>7, <1>8, <2>1, <3>1 DEF Good, Accounts, Leads
    <3>4. \A w \in User, d \in Client, ts \in Nat :
            w # u /\ Proof(d, ts, w) \in earned => Proof(d, ts, w) \in earned'
      BY <1>1, <1>10 DEF Proof
    <3>5. Shown(r, earned')
      BY <1>8, <2>1, <3>4 DEF Good, Shown
    <3>6. Good(r, online, earned')
      BY <2>1, <3>2, <3>3, <3>5 DEF Good
    <3> QED
      BY <1>1, <2>2, <2>3, <2>4, <3>6, Given, KeptIs
  <2> QED
    BY <2>5, <2>6
<1> QED
  BY <1>9, <1>10

LEMMA SetAccountKeeps ==
    ASSUME OInv, ~fault, NEW c \in Client, NEW u \in User, O!SetAccount(c, u)
    PROVE  Holds
<1> DEFINE who == online[c]
           was == opers.users[u].account
           x == IF who.account # Nobody
                THEN [opers.users[u] EXCEPT !.account = who.account, !.id = who.id]
                ELSE [opers.users[u] EXCEPT !.account = Nobody, !.id = 0]
           m == IF who.account # Nobody
                THEN [opers.accountsMap EXCEPT ![who.account] = u]
                ELSE [a \in Account |-> IF a = was THEN Nobody ELSE opers.accountsMap[a]]
           r == [opers EXCEPT !.users[u] = x, !.accountsMap = m]
<1>1. /\ u \in O!Listed(opers) /\ O!Same(c, u) /\ O!Change
      /\ UNCHANGED <<online, db, earned, fault>>
      /\ who.account # Nobody => opers.accountsMap[who.account] = Nobody
  BY DEF O!SetAccount, O!Command
<1>2. /\ Good(opers, online, earned) /\ opers.users[u] \in O!ccUser /\ opers.users[u] # Nobody
      /\ opers \in O!Tables /\ opers.users[u].listed
  BY <1>1, Given, ListedUser DEF O!Listed
<1>3. who \in O!Person
  BY <1>1, <1>2, Given DEF O!Same, Good, Halves
<1>4. opers' = r
  <2>1. CASE who.account # Nobody
    BY <1>2, <2>1 DEF O!SetAccount, O!Tables
  <2>2. CASE who.account = Nobody
    BY <1>2, <2>2 DEF O!SetAccount, O!Tables
  <2> QED
    BY <2>1, <2>2
<1>5. /\ x \in O!ccUser /\ x.clients = opers.users[u].clients /\ x.listed
      /\ x.account = who.account /\ x.last = opers.users[u].last
  BY <1>2, <1>3 DEF O!ccUser, O!Person
<1>6. /\ m \in [Account -> User \cup {Nobody}]
      /\ \A a \in Account : m[a] = IF a = who.account THEN u
                                   ELSE IF who.account = Nobody /\ a = was THEN Nobody
                                   ELSE opers.accountsMap[a]
  <2>1. opers.accountsMap \in [Account -> User \cup {Nobody}] /\ Nobody \notin Account
    BY <1>2, Given, Apart, Parts
  <2>2. who.account \in Account \cup {Nobody}
    BY <1>3 DEF O!Person
  <2> HIDE DEF who, was
  <2> QED
    BY <2>1, <2>2
<1>7. who.account \in Account \cup {Nobody}
  BY <1>3 DEF O!Person
<1> HIDE DEF x, m, who
<1>8. /\ r \in O!Tables /\ r.dbUser = opers.dbUser /\ r.accountsMap = m
      /\ r.users[u] = x /\ \A w \in User \ {u} : r.users[w] = opers.users[w]
      /\ x # Nobody
  <2>1. x # Nobody
    BY <1>5, Given, Apart
  <2> QED
    BY <1>2, <1>5, <1>6, <2>1 DEF O!Tables
<1> HIDE DEF r
<1>9. Halves(r, online)
  BY <1>2, <1>5, <1>8 DEF Good, Halves
<1>10. Accounts(r)
  <2>1. ASSUME NEW a \in Account, NEW w \in User, m[a] = w PROVE Leads(r, a, w)
    <3>1. CASE w = u
      BY <1>5, <1>8, <3>1 DEF Leads
    <3>2. CASE w # u
      BY <1>2, <1>6, <1>8, <2>1, <3>2, Given, Apart DEF Good, Accounts, Leads
    <3> QED
      BY <3>1, <3>2
  <2>2. ASSUME NEW w \in User, NEW a \in Account,
               r.users[w] # Nobody, r.users[w].listed, r.users[w].account = a
        PROVE  m[a] = w
    <3>1. CASE w = u
      BY <1>5, <1>6, <1>8, <2>2, <3>1
    <3>2. CASE w # u
      <4>0. r.users[w] = opers.users[w] /\ w # Nobody
        BY <1>8, <3>2, Given, Apart
      <4>1. opers.accountsMap[a] = w /\ w # Nobody
        BY <1>2, <2>2, <4>0 DEF Good, Accounts
      <4>2. a # who.account
        BY <1>1, <4>0, <4>1, Given, Apart
      <4>3. a # was
        BY <1>2, <3>2, <4>1 DEF Good, Accounts
      <4> QED
        BY <1>6, <4>1, <4>2, <4>3
    <3> QED
      BY <3>1, <3>2
  <2> QED
    BY <1>8, <2>1, <2>2 DEF Accounts
<1>11. Shown(r, earned)
  BY <1>2, <1>5, <1>8 DEF Good, Shown
<1>12. Good(r, online, earned)
  BY <1>8, <1>9, <1>10, <1>11 DEF Good
<1>13. EntitledStep
  BY <1>4, <1>8, NoneNew
<1> QED
  BY <1>1, <1>4, <1>12, <1>13, Given, KeptIs

LEMMA NextKeeps == ASSUME OInv, O!Next PROVE Holds
<1>1. ~fault
  BY DEF O!Next
<1>2. CASE O!Edit
  BY <1>1, <1>2, RemUserKeeps, AttributesKeep, LevelsAndHostsKeep, AddUserKeeps, SetAccountKeeps DEF O!Edit
<1>3. CASE O!CheckDbConnection
  <2>1. /\ opers' = opers /\ online' = online /\ earned' = earned /\ fault' = fault /\ O!Change
        /\ db' \in BOOLEAN
    BY <1>3 DEF O!CheckDbConnection
  <2>2. EntitledStep
    BY <2>1, NoneNew
  <2> QED
    BY <1>1, <2>1, <2>2, Given, KeptIs
<1> QED
  BY <1>1, <1>2, <1>3, NetworkKeeps, DeauthsKeep, LoginKeeps, LevelsAndHostsKeep DEF O!Next
LEMMA LoadedUser ==
    ASSUME NEW x \in O!Row
    PROVE  /\ O!Loaded(x) \in O!ccUser /\ O!Loaded(x).clients = {} /\ O!Loaded(x).last = Nobody
           /\ O!Loaded(x).listed /\ O!Loaded(x).account = x.account
BY DEF O!Row, O!ccUser, O!Loaded

LEMMA OpersInit == ASSUME O!OpersAssumption, O!Init PROVE OInv
<1>1. PICK stored \in [User -> UNION {Stored[u] : u \in User}] :
        /\ \A u \in User : stored[u] \in Stored[u]
        /\ \A u, w \in User : u # w /\ stored[u] # Nobody /\ stored[w] # Nobody
                => stored[u].account # stored[w].account \/ stored[u].account = Nobody
        /\ opers = [users |-> [u \in User |-> IF stored[u] = Nobody THEN Nobody ELSE O!Loaded(stored[u])],
                    accountsMap |-> [a \in Account |->
                        LET us == {u \in User : stored[u] # Nobody /\ stored[u].account = a}
                        IN  IF us = {} THEN Nobody ELSE CHOOSE u \in us : TRUE],
                    dbUser |-> [c \in Client |-> NoData]]
  BY DEF O!Init
<1>2. \A u \in User : stored[u] # Nobody => stored[u] \in O!Row
  BY <1>1 DEF O!OpersAssumption
<1>3. \A u \in User : IF stored[u] = Nobody THEN opers.users[u] = Nobody
                      ELSE /\ opers.users[u] \in O!ccUser /\ opers.users[u] # Nobody
                           /\ opers.users[u].clients = {} /\ opers.users[u].last = Nobody
                           /\ opers.users[u].listed /\ opers.users[u].account = stored[u].account
  BY <1>1, <1>2, LoadedUser, Apart
<1>4. \A a \in Account :
        \/ /\ opers.accountsMap[a] \in User /\ stored[opers.accountsMap[a]] # Nobody
           /\ stored[opers.accountsMap[a]].account = a
        \/ /\ opers.accountsMap[a] = Nobody
           /\ \A u \in User : stored[u] = Nobody \/ stored[u].account # a
  BY <1>1
<1>5. \A c \in Client : opers.dbUser[c] = NoData
  BY <1>1
<1>6. opers \in O!Tables
  <2>1. opers.users \in [User -> O!ccUser \cup {Nobody}]
    <3>1. opers.users = [u \in User |-> opers.users[u]]
      BY <1>1
    <3> QED
      BY <1>3, <3>1
  <2>2. opers.accountsMap \in [Account -> User \cup {Nobody}]
    <3>1. opers.accountsMap = [a \in Account |-> opers.accountsMap[a]]
      BY <1>1
    <3> QED
      BY <1>4, <3>1
  <2>3. opers.dbUser \in [Client -> User \cup {Nobody, NoData}]
    BY <1>1
  <2>4. opers = [users |-> opers.users, accountsMap |-> opers.accountsMap, dbUser |-> opers.dbUser]
    BY <1>1
  <2> QED
    BY <2>1, <2>2, <2>3, <2>4 DEF O!Tables
<1>7. Halves(opers, online)
  BY <1>3, <1>5, Apart DEF Halves
<1>8. Accounts(opers)
  <2>1. \A a \in Account, u \in User : opers.accountsMap[a] = u => Leads(opers, a, u)
    BY <1>3, <1>4, Apart DEF Leads
  <2>2. ASSUME NEW u \in User, NEW a \in Account, opers.users[u] # Nobody, opers.users[u].account = a
        PROVE  opers.accountsMap[a] = u
    BY <1>1, <1>3, <1>4, <2>2, Apart
  <2> QED
    BY <2>1, <2>2 DEF Accounts
<1>9. Shown(opers, earned)
  BY <1>3, Apart DEF Shown
<1>10. online \in [Client -> O!Person \cup {Nobody}]
  <2>1. \A c \in Client : online[c] \in O!Person \cup {Nobody}
    BY DEF O!Init, O!OpersAssumption
  <2>2. online = [c \in Client |-> online[c]]
    BY DEF O!Init
  <2> QED
    BY <2>1, <2>2
<1>11. db \in BOOLEAN /\ fault \in BOOLEAN /\ changes \in 0..MaxChanges
  <2>1. changes = 0
    BY DEF O!Init
  <2>2. db = TRUE
    BY DEF O!Init
  <2>3. fault = FALSE
    BY DEF O!Init
  <2>4. MaxChanges \in Nat
    BY DEF O!OpersAssumption
  <2>5. changes \in 0..MaxChanges
    BY <2>1, <2>4
  <2>6. db \in BOOLEAN /\ fault \in BOOLEAN
    BY <2>2, <2>3
  <2> QED
    BY <2>5, <2>6
<1>12. Good(opers, online, earned)
  BY <1>6, <1>7, <1>8, <1>9 DEF Good
<1>13. O!TypeOK
  BY <1>6, <1>10, <1>11 DEF O!TypeOK
<1> QED
  BY <1>12, <1>13 DEF OInv

LEMMA OpersStep == ASSUME OInv, [O!Next]_(O!vars) PROVE OInv'
<1>1. CASE UNCHANGED O!vars
  BY <1>1 DEF OInv, O!vars, O!OpersAssumption, O!TypeOK, Good, Halves, Accounts, Leads, Shown
<1> QED
  BY <1>1, NextKeeps DEF Holds

(* However a session began, by password, account or after a split, and     *)
(* whoever ended it or what it rests on: a user has a client in his list   *)
(* exactly while the client has him, and the account of a user leads to    *)
(* him, until the removal of a user faults (src/mod.ccontrol/ccontrol.cc). *)
THEOREM OperSessionsAgree == O!Spec => []SessionsAgree
<1>1. ASSUME OInv PROVE O!TypeOK /\ O!SessionsAgree
  <2>1. O!TypeOK
    BY <1>1 DEF OInv
  <2>2. CASE ~fault
    <3>1. Good(opers, online, earned) /\ opers \in O!Tables
      BY <1>1, <2>2, Given
    <3>2. ASSUME NEW a \in Account, opers.accountsMap[a] # Nobody
          PROVE  opers.accountsMap[a] \in O!Listed(opers) \/ O!LeftOver(a, opers.accountsMap[a])
      <4>1. opers.accountsMap[a] \in User /\ a # Nobody
        BY <1>1, <3>1, <3>2, Parts, Given, Apart
      <4> QED
        BY <3>1, <4>1 DEF Good, Accounts, Leads, O!Listed, O!LeftOver
    <3>3. ASSUME NEW u \in O!Listed(opers), opers.users[u].account # Nobody
          PROVE  opers.accountsMap[opers.users[u].account] = u
      <4>1. opers.users[u].account \in Account
        BY <1>1, <3>3, ListedUser DEF O!ccUser
      <4> QED
        BY <3>1, <3>3, <4>1 DEF Good, Accounts, O!Listed
    <3> QED
      BY <2>1, <3>1, <3>2, <3>3 DEF Good, Halves, O!SessionsAgree
  <2> QED
    BY <2>1, <2>2 DEF O!SessionsAgree
<1>2. O!Init => OInv
  BY OpersInit, OpersAssumed
<1> QED
  BY <1>1, <1>2, OpersStep, PTL DEF O!Spec, SessionsAgree

(* Whenever a client becomes the client of a user, he has shown that he is *)
(* the user and has not logged out since, or has an account the user had   *)
(* before.                                                                 *)
THEOREM OpersAreEntitled == O!Spec => Entitled
<1> DEFINE Step == \A c \in Client :
                      LET u == opers'.dbUser[c] IN
                      u \in User /\ u # opers.dbUser[c] =>
                          \/ <<c, online'[c].ts, u>> \in earned'
                          \/ O!LeftOver(online'[c].account, u)
<1>1. OInv /\ [O!Next]_(O!vars) => [Step]_(O!vars)
  BY NextKeeps DEF Holds, EntitledStep, Becomes
<1>2. O!Init => OInv
  BY OpersInit, OpersAssumed
<1> QED
  BY <1>1, <1>2, OpersStep, PTL DEF O!Spec, O!Entitled, Entitled
=============================================================================
