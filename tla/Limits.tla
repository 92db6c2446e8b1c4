------------------------------ MODULE Limits --------------------------------
(***************************************************************************)
(* The connection limits of mod.ccontrol: ISPs (ccIpLisp), their netblocks *)
(* (ccIpLnb), the counts kept in both while clients come and go, the       *)
(* decisions taken from them (a gline when a client connects, an answer to *)
(* iauth before it does), and the LIMITS command that changes the tables   *)
(* under the clients that are counted in them.                             *)
(*                                                                         *)
(* One address family.  A prefix is its length and the set of addresses it *)
(* has; Cut[l] is how the prefixes of length l divide the addresses.  The  *)
(* helpers work on a record t of the tables: isp (ipLispVector), blocks    *)
(* (ipLnbVector, by ISP and prefix) and list (ipLnumericMap).  An entry of *)
(* list outlives its client, and Dead stands in it for a netblock that was *)
(* deleted: a pointer to freed memory.                                     *)
(*                                                                         *)
(* t also has four history variables.  missed: the clients that connected  *)
(* while the database was down, and are not counted.  overlooked: those    *)
(* that a netblock's removal left where they were counted, and not where   *)
(* they would be now.  spoiled: the ISPs whose counts per user were left   *)
(* under keys that are no longer looked up.  fault: an entry of list that belongs to an earlier client of the   *)
(* numeric was taken off the counts, or freed memory was used; nothing is  *)
(* said of the program from there.                                         *)
(***************************************************************************)
EXTENDS Naturals, Integers, Bags, FiniteSetsExt, SequencesExt

CONSTANTS
    Client,     \* numerics (YYXXX)
    User,       \* user names
    Ip,         \* addresses
    Cut,        \* Cut[l]: the prefixes of length l, as sets of addresses
    Isp,        \* ids of ISPs
    Limit,      \* the limits that are given
    IdentLimit, \* the limit per user name of a new ISP (maxIClones)
    Stored,     \* the settings an ISP may be stored with
    MaxEdits,   \* bound on the LIMITS commands of a behaviour
    Offline, Dead, NoIsp

ASSUME LimitsAssumption ==
    /\ Limit \subseteq Nat \ {0} /\ IdentLimit \in Nat /\ MaxEdits \in Nat
    /\ \A l \in DOMAIN Cut : UNION Cut[l] = Ip /\ {} \notin Cut[l]
    /\ \A l \in DOMAIN Cut : \A p, q \in Cut[l] : p = q \/ p \cap q = {}
    /\ \A l, k \in DOMAIN Cut : l < k =>
            \A p \in Cut[k] : \E q \in Cut[l] : p \subseteq q

VARIABLES
    tables,     \* isp, blocks, list, missed, overlooked, spoiled, fault
    online,     \* Network: address and user name of each client, or Offline
    db,         \* dbConnected
    edits       \* LIMITS commands so far

vars == <<tables, online, db, edits>>

Prefix == UNION {[len : {l}, ips : Cut[l]] : l \in DOMAIN Cut}
Present == {c \in Client : online[c] # Offline}

(* The prefix of length l that has an address (IPCIDRMinIP).               *)
PrefixOf(ip, l) == [len |-> l, ips |-> CHOOSE p \in Cut[l] : ip \in p]

(* A netblock is named by its ISP and its prefix: insertIpLnb refuses a    *)
(* second one.                                                             *)
Block == [isp : Isp, prefix : Prefix]
Owned(t, i) == {b \in DOMAIN t.blocks : b.isp = i}

(* What the netblock counts a client under: m of isIpLClientAllowed.       *)
Key(t, b, ip) ==
    IF t.isp[b.isp].group THEN b.prefix ELSE PrefixOf(ip, t.isp[b.isp].clonecidr)

(* What its ISP counts a user name under: userip.  The name of the ISP     *)
(* stands where a prefix does, as one without addresses.                   *)
IspName == [len |-> 0, ips |-> {}]
UserKey(t, b, who) ==
    IF t.isp[b.isp].group THEN <<who.user, IspName>> ELSE <<who.user, Key(t, b, who.ip)>>

-----------------------------------------------------------------------------
(* Which netblocks count an address.  ipLnbVector is sorted with the       *)
(* netblocks of forcecount ISPs first, then by length, longest first.      *)

(* Those the first loop keeps: once an active one was met, a shorter one   *)
(* ends the loop, but for forcecount.                                      *)
Kept(t, ip) ==
    LET matching == {b \in DOMAIN t.blocks : ip \in b.prefix.ips}
    IN  {b \in matching :
            \/ t.blocks[b].forced
            \/ \A o \in matching : t.isp[o.isp].active => o.prefix.len <= b.prefix.len}

(* Those the second loop counts in: one that is only there by forcecount   *)
(* is left out if another of those kept counts per prefixes of its length. *)
Selected(t, ip) ==
    {b \in Kept(t, ip) :
        ~ /\ t.blocks[b].forced
          /\ \E o \in Kept(t, ip) : /\ ~t.blocks[o].forced
                                    /\ t.isp[o.isp].clonecidr = t.isp[b.isp].clonecidr}

One(x) == SetToBag({x})

(* isIpLClientAllowed with incCount: every selected netblock, and its ISP, *)
(* has one client more.                                                    *)
Count(t, c, who) ==
    LET chosen == Selected(t, who.ip)
        Mine(i) == chosen \cap Owned(t, i)
    IN  [t EXCEPT
            !.blocks = [b \in DOMAIN t.blocks |->
                IF b \notin chosen THEN t.blocks[b]
                ELSE [t.blocks[b] EXCEPT !.count = @ + 1,
                                         !.clones = @ (+) One(Key(t, b, who.ip))]],
            !.isp = [i \in Isp |->
                IF Mine(i) = {} THEN t.isp[i]
                ELSE [t.isp[i] EXCEPT
                        !.count = @ + Cardinality(Mine(i)),
                        !.idents = FoldSet(LAMBDA b, m : m (+) One(UserKey(t, b, who)),
                                           @, Mine(i))]],
            !.list[c] = chosen,
            !.missed = @ \ {c},
            !.overlooked = @ \ {c}]

(* ipLDropClient: the netblocks in the client's list have one client less, *)
(* under the keys of today.  A key that is not there is only logged.       *)
Drop(t, c, who) ==
    LET mine == t.list[c] \ {Dead}
        Mine(i) == {b \in mine : b.isp = i}
    IN  [t EXCEPT
            !.blocks = [b \in DOMAIN t.blocks |->
                IF b \notin mine THEN t.blocks[b]
                ELSE [t.blocks[b] EXCEPT !.count = @ - 1,
                                         !.clones = @ (-) One(Key(t, b, who.ip))]],
            !.isp = [i \in Isp |->
                IF Mine(i) = {} THEN t.isp[i]
                ELSE [t.isp[i] EXCEPT
                        !.count = @ - Cardinality(Mine(i)),
                        !.idents = FoldSet(LAMBDA b, m : m (-) One(UserKey(t, b, who)),
                                           @, Mine(i))]],
            !.fault = @ \/ (c \in t.missed /\ t.list[c] # {})]

-----------------------------------------------------------------------------
(* Decisions.  t is the tables with the client counted in.                 *)

IpCount(t, b, ip) ==
    IF t.isp[b.isp].group THEN t.isp[b.isp].count
    ELSE CopiesIn(Key(t, b, ip), t.blocks[b].clones)

TooManyIps(t, b, who) == IpCount(t, b, who.ip) > t.isp[b.isp].limit
TooManyIdents(t, b, who) ==
    LET i == t.isp[b.isp] IN
    i.identlimit > 0 /\ CopiesIn(UserKey(t, b, who), i.idents) > i.identlimit

(* The prefixes a gline is set on: each netblock of a group.               *)
Punished(t, b, ip) ==
    IF t.isp[b.isp].group THEN {o.prefix : o \in Owned(t, b.isp)}
    ELSE {PrefixOf(ip, t.isp[b.isp].clonecidr)}

Enforcing(t, ip) ==
    {b \in Selected(t, ip) : t.isp[b.isp].active /\ ~t.isp[b.isp].nogline}

(* handleNewClient: the masks that are glined, user name and prefix.  The  *)
(* verdict of GLUNIDENTED is overwritten (1734) and never leads to one.    *)
Glines(t, who) ==
    UNION {{"*"} \X Punished(t, b, who.ip) :
               b \in {x \in Enforcing(t, who.ip) : TooManyIps(t, x, who)}}
    \cup UNION {{who.user} \X Punished(t, b, who.ip) :
               b \in {x \in Enforcing(t, who.ip) : TooManyIdents(t, x, who)}}

(* Mutant: a netblock is full when it has more clients than its limit.     *)
Refused_Late(t, ip) ==
    \E b \in Selected(t, ip) :
        t.isp[b.isp].active /\ IpCount(t, b, ip) > t.isp[b.isp].limit

(* iauthXQCheck: the client is counted, answered and dropped again, which  *)
(* leaves the tables as they were; its user name is not counted.           *)
Refused(t, ip) ==
    \E b \in Selected(t, ip) :
        t.isp[b.isp].active /\ IpCount(t, b, ip) >= t.isp[b.isp].limit

-----------------------------------------------------------------------------
(* Netblocks come and go under the clients.                                *)

Overlap(p, q) == p.ips \subseteq q.ips \/ q.ips \subseteq p.ips

(* What insertIpLnb refuses: a netblock that is longer than the prefixes   *)
(* clones are counted by, and one that overlaps another of the ISP         *)
(* (cidrmatch).                                                            *)
Addable(t, b) ==
    /\ t.isp[b.isp].group \/ b.prefix.len <= t.isp[b.isp].clonecidr
    /\ \A o \in Owned(t, b.isp) : ~Overlap(b.prefix, o.prefix)

Recount(t, c) == Count(Drop(t, c, online[c]), c, online[c])

(* Mutant: the clients that are on already are not counted.                *)
Insert_Empty(t, b) ==
    IF ~Addable(t, b) THEN t
    ELSE [t EXCEPT !.blocks = (b :> [forced |-> t.isp[b.isp].forced, count |-> 0,
                                     clones |-> EmptyBag]) @@ @]

(* insertIpLnb: every client that matches is dropped and counted again.    *)
Insert(t, b) ==
    IF ~Addable(t, b) THEN t
    ELSE FoldSet(LAMBDA c, u : Recount(u, c),
                 [t EXCEPT !.blocks = (b :> [forced |-> t.isp[b.isp].forced, count |-> 0,
                                             clones |-> EmptyBag]) @@ @],
                 {c \in Present : online[c].ip \in b.prefix.ips})

(* delIpLnb: those counted in it are dropped, it goes, and they are        *)
(* counted again without it.  The lists of the others keep the pointer.    *)
(* A client it matched without counting him is not looked at, though a     *)
(* shorter netblock may count him now.                                     *)
Delete(t, b) ==
    LET there == {c \in Present : online[c].ip \in b.prefix.ips /\ b \in t.list[c]}
        dropped == FoldSet(LAMBDA c, u : Drop(u, c, online[c]), t, there)
        gone == [dropped EXCEPT
            !.blocks = [o \in DOMAIN @ \ {b} |-> @[o]],
            !.list = [c \in Client |-> IF b \in @[c] THEN (@[c] \ {b}) \cup {Dead} ELSE @[c]]]
        passed == {c \in Present \ (there \cup t.missed) :
                      /\ online[c].ip \in b.prefix.ips
                      /\ t.list[c] # Selected(gone, online[c].ip)}
    IN  FoldSet(LAMBDA c, u : Count(u, c, online[c]),
                [gone EXCEPT !.overlooked = @ \cup passed], there)

(* reloadIpLisp: all netblocks of an ISP are deleted and inserted again.   *)
(* One that is refused, by insertIpLnb or by the database (refused), is    *)
(* gone.                                                                   *)
Reload(t, i, refused) ==
    LET emptied == FoldSet(LAMBDA b, u : Delete(u, b), t, Owned(t, i))
    IN  FoldSet(LAMBDA b, u : Insert(u, b), emptied, Owned(t, i) \ refused)

(* The names of users stay under keys nobody asks for.                     *)
Spoil(t, i) == IF t.isp[i].idents = EmptyBag THEN t.spoiled ELSE t.spoiled \cup {i}

-----------------------------------------------------------------------------
(* Clients                                                                 *)

(* EVT_NICK: handleNewClient.  The glines it sets are Glines(tables', who). *)
Connect(c, who) ==
    /\ online[c] = Offline
    /\ online' = [online EXCEPT ![c] = who]
    /\ tables' = IF db THEN Count(tables, c, who)
                 ELSE [tables EXCEPT !.missed = @ \cup {c}]
    /\ UNCHANGED <<db, edits>>

(* EVT_QUIT and EVT_KILL: what the numeric's list has is dropped.          *)
Quit(c) ==
    /\ online[c] # Offline
    /\ tables' = [Drop(tables, c, online[c]) EXCEPT !.missed = @ \ {c}, !.overlooked = @ \ {c}]
    /\ online' = [online EXCEPT ![c] = Offline]
    /\ UNCHANGED <<db, edits>>

-----------------------------------------------------------------------------
(* The LIMITS command, which is refused while the database is down.        *)

Edit ==
    /\ db /\ edits < MaxEdits /\ edits' = edits + 1
    /\ UNCHANGED <<online, db>>

Live(i) == tables.isp[i] # NoIsp
With(i, field, v) == [tables EXCEPT !.isp[i][field] = v]

(* ADDISP: insertIpLisp.                                                   *)
AddIsp(i, limit, l) ==
    /\ Edit /\ ~Live(i)
    /\ tables' = [tables EXCEPT !.isp[i] =
            [clonecidr |-> l, forced |-> FALSE, group |-> FALSE, active |-> TRUE,
             nogline |-> FALSE, limit |-> limit, identlimit |-> IdentLimit,
             count |-> 0, idents |-> EmptyBag]]

AddNetblock(b) ==
    /\ Edit /\ Live(b.isp) /\ Addable(tables, b)
    /\ tables' = Insert(tables, b)

DelNetblock(b) ==
    /\ Edit /\ b \in DOMAIN tables.blocks
    /\ tables' = Delete(tables, b)

(* ACTIVE, NOGLINE and FORCECOUNT: the field is set, then all is reloaded. *)
SetFlag(i, flag, v, refused) ==
    /\ Edit /\ Live(i) /\ flag \in {"active", "nogline", "forced"}
    /\ tables.isp[i][flag] # v
    /\ tables' = Reload(With(i, flag, v), i, refused)

(* GROUP.                                                                  *)
SetGroup(i, v, refused) ==
    /\ Edit /\ Live(i) /\ tables.isp[i].group # v
    /\ LET t == [With(i, "group", v) EXCEPT !.spoiled = Spoil(tables, i)]
       IN  tables' = Reload(t, i, refused)

(* CHEMAIL and GLUNIDENTED set what no decision here is taken from, and    *)
(* reload as well; so does a command above or below that sets what is set. *)
Reloaded(i, refused) ==
    /\ Edit /\ Live(i)
    /\ tables' = Reload(tables, i, refused)

(* CHCCIDR, after ipLcidrChangeCheck.                                      *)
ChCcidr(i, l, refused) ==
    /\ Edit /\ Live(i) /\ tables.isp[i].clonecidr # l
    /\ \A b \in Owned(tables, i) : b.prefix.len <= l
    /\ LET t == [With(i, "clonecidr", l) EXCEPT
                    !.spoiled = IF tables.isp[i].group THEN @ ELSE Spoil(tables, i)]
       IN  tables' = Reload(t, i, refused)

ChLimit(i, n) == Edit /\ Live(i) /\ tables' = With(i, "limit", n)
ChIlimit(i, n) == Edit /\ Live(i) /\ tables' = With(i, "identlimit", n)

(* CHNAME: the users of a group are counted under its name, so what is     *)
(* counted so far is under the old one.  A name is not taken a second time. *)
ChName(i) ==
    /\ Edit /\ Live(i)
    /\ tables' = [With(i, "idents",
                       [k \in {x \in DOMAIN tables.isp[i].idents : x[2] # IspName} |->
                            tables.isp[i].idents[k]])
                  EXCEPT !.spoiled = IF tables.isp[i].group THEN Spoil(tables, i) ELSE @]

(* The orders ipLnbVector may have: its sort leaves those of one rank in   *)
(* the order of their addresses in memory.                                 *)
Before(b, o) ==
    \/ tables.blocks[b].forced /\ ~tables.blocks[o].forced
    \/ /\ ~tables.blocks[b].forced /\ ~tables.blocks[o].forced
       /\ b.prefix.len > o.prefix.len
Orders == {s \in SetToSeqs(DOMAIN tables.blocks) :
              \A m, n \in DOMAIN s : m < n => ~Before(s[n], s[m])}

(* delIpLisp holds an iterator to the next netblock across the erasure in  *)
(* delIpLnb, which moves the netblocks down: the one that follows is       *)
(* skipped, and after the last one it is beyond the end.                   *)
WalksWrong(s, i) ==
    \E n \in DOMAIN s : s[n].isp = i /\ (n = Len(s) \/ s[n + 1].isp = i)

Removed(t, i) == [t EXCEPT !.isp[i] = NoIsp, !.spoiled = @ \ {i}]

(* DELISP: delIpLisp.                                                      *)
DelIsp(i) ==
    /\ Edit /\ Live(i)
    /\ \E s \in Orders :
        tables' = IF WalksWrong(s, i) THEN [tables EXCEPT !.fault = TRUE]
                  ELSE Removed(FoldSet(LAMBDA b, u : Delete(u, b), tables, Owned(tables, i)), i)

(* CLEARALL deletes one ISP after the other: the walk that deletes the     *)
(* last netblock goes wrong.                                               *)
ClearAll ==
    /\ Edit
    /\ tables' = IF DOMAIN tables.blocks # {} THEN [tables EXCEPT !.fault = TRUE]
                 ELSE FoldSet(LAMBDA i, u : Removed(u, i), tables, Isp)

(* checkDbConnection finds the connection dead, and has it again.          *)
CheckDbConnection ==
    /\ db' = ~db
    /\ UNCHANGED <<tables, online, edits>>

-----------------------------------------------------------------------------
Who == [ip : Ip, user : User]
Length == DOMAIN Cut

(* loadExceptions: tables the commands may have stored, nobody counted.    *)
Loaded(config, owned) ==
    /\ \A b \in owned : config[b.isp] # NoIsp
    /\ tables = [isp |-> [i \in Isp |-> IF config[i] = NoIsp THEN NoIsp
                                        ELSE config[i] @@ [count |-> 0, idents |-> EmptyBag]],
                 blocks |-> [b \in owned |-> [forced |-> config[b.isp].forced, count |-> 0,
                                              clones |-> EmptyBag]],
                 list |-> [c \in Client |-> {}],
                 missed |-> {}, overlooked |-> {}, spoiled |-> {}, fault |-> FALSE]
    /\ \A b \in owned :
        /\ config[b.isp].group \/ b.prefix.len <= config[b.isp].clonecidr
        /\ \A o \in Owned(tables, b.isp) \ {b} : ~Overlap(b.prefix, o.prefix)

Start == online = [c \in Client |-> Offline] /\ db = TRUE /\ edits = 0

Init == Start /\ \E config \in [Isp -> Stored \cup {NoIsp}], owned \in SUBSET Block :
            Loaded(config, owned)

Lost(i) == SUBSET Owned(tables, i)

Command ==
    \/ \E i \in Isp, n \in Limit, l \in Length : AddIsp(i, n, l)
    \/ \E b \in Block : AddNetblock(b) \/ DelNetblock(b)
    \/ \E i \in Isp, r \in SUBSET Block, v \in BOOLEAN :
          /\ r \in Lost(i)
          /\ \/ \E f \in {"active", "nogline", "forced"} : SetFlag(i, f, v, r)
             \/ SetGroup(i, v, r)
    \/ \E i \in Isp : \E r \in Lost(i) : Reloaded(i, r)
    \/ \E i \in Isp, l \in Length : \E r \in Lost(i) : ChCcidr(i, l, r)
    \/ \E i \in Isp, n \in Limit : ChLimit(i, n) \/ ChIlimit(i, n)
    \/ \E i \in Isp : ChName(i) \/ DelIsp(i)
    \/ ClearAll

Next ==
    /\ ~tables.fault
    /\ \/ \E c \in Client, who \in Who : Connect(c, who)
       \/ \E c \in Client : Quit(c)
       \/ Command
       \/ CheckDbConnection

Spec == Init /\ [][Next]_vars

-----------------------------------------------------------------------------
(* Properties                                                              *)

TypeOK ==
    /\ \A i \in Isp : tables.isp[i] # NoIsp =>
            /\ tables.isp[i].clonecidr \in Length /\ tables.isp[i].count \in Int
            /\ IsABag(tables.isp[i].idents)
    /\ \A b \in DOMAIN tables.blocks :
            /\ b \in Block /\ tables.isp[b.isp] # NoIsp
            /\ tables.blocks[b].count \in Int /\ IsABag(tables.blocks[b].clones)
    /\ \A c \in Client : tables.list[c] \subseteq Block \cup {Dead}
    /\ tables.missed \subseteq Present /\ tables.overlooked \subseteq Present
    /\ tables.spoiled \subseteq Isp
    /\ db \in BOOLEAN /\ edits \in 0..MaxEdits

(* What the counts should be, from the network and today's tables; who is  *)
(* overlooked is still where he was.                                       *)
Known == Present \ tables.missed
Place(c) == IF c \in tables.overlooked THEN tables.list[c]
            ELSE Selected(tables, online[c].ip)
Users(b) == {c \in Known : b \in Place(c)}
Uses(i) == {x \in Known \X Owned(tables, i) : x[1] \in Users(x[2])}
Tally(f) == [k \in {f[x] : x \in DOMAIN f} |-> Cardinality({x \in DOMAIN f : f[x] = k})]

(* Whatever order clients come and go and the tables are edited under them *)
(* in, every netblock and every ISP count exactly the clients that are on  *)
(* and were seen by a live database, each under the key of the settings    *)
(* that are in force; except the user names of an ISP whose keys were      *)
(* changed, and whom a removal overlooked until he is counted again        *)
(* (ccontrol.cc:5014, 5399, 5482, 5667, 5840).                             *)
Counted ==
    ~tables.fault =>
    /\ \A b \in DOMAIN tables.blocks :
        /\ tables.blocks[b].count = Cardinality(Users(b))
        /\ tables.blocks[b].clones = Tally([c \in Users(b) |-> Key(tables, b, online[c].ip)])
    /\ \A i \in Isp : tables.isp[i] # NoIsp =>
        /\ tables.isp[i].count = Cardinality(Uses(i))
        /\ \/ i \in tables.spoiled
           \/ tables.isp[i].idents = Tally([x \in Uses(i) |-> UserKey(tables, x[2], online[x[1]])])

(* What one would say without knowing of the removals: false, as those who *)
(* match a netblock that is deleted, but were left to another one because  *)
(* it has forcecount, are not counted again (ccontrol.cc:5862-5899).       *)
NobodyOverlooked == ~tables.fault => tables.overlooked = {}

(* How many clients are on that the netblock holds against an address.     *)
Against(b, ip) ==
    IF tables.isp[b.isp].group THEN Cardinality(Uses(b.isp))
    ELSE Cardinality({c \in Users(b) :
                         Key(tables, b, online[c].ip) = Key(tables, b, ip)})

(* Nobody is punished for clients that have left, were moved to another    *)
(* netblock or are counted elsewhere, and nobody is let in although the    *)
(* limit is reached: at any time, iauth would be told to refuse an address *)
(* exactly when an active netblock has as many clients on as its limit,    *)
(* and a gline for all users would be set on the next client exactly when  *)
(* one that may set glines has (ccontrol.cc:1734, 5513, 6144).             *)
Enforced ==
    ~tables.fault => \A who \in Who :
        LET full == {b \in Selected(tables, who.ip) :
                        tables.isp[b.isp].active /\ Against(b, who.ip) >= tables.isp[b.isp].limit}
        IN  /\ Refused(tables, who.ip) <=> full # {}
            /\ \A c \in Client \ Present : db =>
                ((\E g \in Glines(Count(tables, c, who), who) : g[1] = "*")
                    <=> \E b \in full : ~tables.isp[b.isp].nogline)
=============================================================================
