------------------------------- MODULE Opers --------------------------------
(***************************************************************************)
(* Who is authenticated with mod.ccontrol: the operators (ccUser) with the *)
(* clients of each, the clients with the operator of each (ccUserData),    *)
(* and the three ways to be authenticated: the password, the account with  *)
(* the channel service (single sign on), and to come back after a netsplit *)
(* with the same numeric and the same timestamp.                           *)
(*                                                                         *)
(* A member of User is the address of a ccUser.  Passwords are left out:   *)
(* a client knows one or not.  So are the rights to single commands; those *)
(* of the commands here are given to anybody whose level allows them.      *)
(***************************************************************************)
EXTENDS Naturals

CONSTANTS
    User, Client,
    Account,    \* accounts with the channel service
    Host,       \* masks
    Visitor,    \* Visitor[c]: what the client may be when it connects
    Stored,     \* Stored[u]: what may be stored of the user, or None
    Level,      \* levels that are given
    MaxChanges,   \* bound on what may happen to those who are on
    None,
    NoData      \* a client without ccUserData

(* A client of the network, and a user as stored and as in memory.         *)
Person == [oper : BOOLEAN, account : Account \cup {None}, id : Nat, ts : Nat, host : Host]
Row == [type : 1..5, account : Account \cup {None}, id : Nat, sso : BOOLEAN, ssooo : BOOLEAN,
        autoop : BOOLEAN, needop : BOOLEAN, suspended : BOOLEAN, hosts : SUBSET Host]
ccUser == [type : 1..5, account : Account \cup {None}, id : Nat, sso : BOOLEAN, ssooo : BOOLEAN,
           autoop : BOOLEAN, needop : BOOLEAN, hosts : SUBSET Host, suspended : BOOLEAN,
           clients : SUBSET Client, last : (Client \X Nat) \cup {None}, listed : BOOLEAN]

(* What is assumed of the constants; the module of the run assumes it.     *)
OpersAssumption ==
    /\ Level \subseteq 1..5 /\ MaxChanges \in Nat
    /\ None \notin User \cup Account \cup (Client \X Nat) \cup Person \cup Row \cup ccUser
    /\ NoData \notin User \cup {None}
    /\ \A c \in Client : Visitor[c] \subseteq Person /\ \A v \in Visitor[c] : v.account = None => v.id = 0
    /\ \A u \in User : Stored[u] \subseteq Row \cup {None}

ADMIN == 3
SMT == 4
CODER == 5

VARIABLES
    opers,      \* users, accountsMap, and dbUser of each client
    online,     \* Network: what each client is, or None
    db,         \* dbConnected
    earned,     \* history: who showed that he is which user, and has not
                \* logged out since
    changes,
    fault       \* a ccUser was deleted that pointers still lead to

vars == <<opers, online, db, earned, changes, fault>>

(* The bound: on commands that change users, on clients who leave or are   *)
(* changed, and on failures of the database.                               *)
Change == changes < MaxChanges /\ changes' = changes + 1

(* In usersMap.                                                            *)
Listed(t) == {u \in User : t.users[u] # None /\ t.users[u].listed}

GotMask(t, u, who) == db /\ who.host \in t.users[u].hosts

-----------------------------------------------------------------------------
(* Authentication.                                                         *)

(* AuthUser(), which fails for a client without data.                      *)
AuthUser(t, c, u) ==
    IF t.dbUser[c] = NoData THEN t
    ELSE [t EXCEPT !.dbUser[c] = u, !.users[u].clients = @ \cup {c}]

(* OkAuthUser() remembers the numeric and the timestamp of a client that   *)
(* single sign on will not bring back, whether AuthUser() failed or not.   *)
OkAuthUser(t, c, u, who) ==
    IF who.account # None /\ t.users[u].sso THEN AuthUser(t, c, u)
    ELSE [AuthUser(t, c, u) EXCEPT !.users[u].last = <<c, who.ts>>]

(* The id of the account is stored when it is seen for the first time.     *)
WithId(t, u, who) ==
    IF t.users[u].id = 0 /\ t.users[u].account = who.account
    THEN [t EXCEPT !.users[u].id = who.id] ELSE t

SameId(t, u, who) == t.users[u].id = who.id \/ t.users[u].id = 0 \/ who.id = 0

MaySignOn(t, u, who) ==
    /\ SameId(t, u, who) /\ t.users[u].sso
    /\ who.oper \/ (~t.users[u].ssooo /\ GotMask(t, u, who))

(* handleAC(): of the user accountsMap has.                                *)
handleAC(t, c, who) ==
    LET u == IF who.account = None THEN None ELSE t.accountsMap[who.account] IN
    IF u = None \/ t.dbUser[c] \in User THEN t
    ELSE IF ~MaySignOn(t, u, who) THEN t
    ELSE LET s == IF t.users[u].id = 0 THEN [t EXCEPT !.users[u].id = who.id] ELSE t
         IN  OkAuthUser(s, c, u, who)

(* deAuthUser(), of the user the client has.                               *)
deAuthUser(t, c) ==
    [t EXCEPT !.dbUser[c] = None, !.users[t.dbUser[c]].clients = @ \ {c}]

-----------------------------------------------------------------------------
(* Events.  earned is what they show, from what is known of the client and *)
(* what is stored of the users.                                            *)
Earns(c, who) ==
    {<<c, who.ts, u>> : u \in {x \in Listed(opers) :
        /\ who.account # None /\ opers.users[x].account = who.account
        /\ MaySignOn(opers, x, who)}}

(* EVT_NICK: handleNewClient().  usersMap is searched for one who was      *)
(* authenticated with this numeric and timestamp last.                     *)
Connect(c, who) ==
    /\ online[c] = None
    /\ online' = [online EXCEPT ![c] = who]
    /\ LET t == handleAC([opers EXCEPT !.dbUser[c] = None], c, who)
           before == {u \in Listed(t) : t.users[u].last = <<c, who.ts>>}
       IN  IF t.dbUser[c] # None \/ before = {} THEN opers' = t
           ELSE \E u \in before : opers' = AuthUser(t, c, u)
    /\ earned' = earned \cup Earns(c, who)
    /\ UNCHANGED <<db, changes, fault>>

(* Mutant: the user keeps the client in his list.                          *)
Left_InList(t, c) == [t EXCEPT !.dbUser[c] = NoData]

(* EVT_QUIT and EVT_KILL.                                                  *)
Left(t, c) ==
    [(IF t.dbUser[c] \in User THEN deAuthUser(t, c) ELSE t) EXCEPT !.dbUser[c] = NoData]

Quit(c) ==
    /\ online[c] # None
    /\ online' = [online EXCEPT ![c] = None]
    /\ opers' = Left(opers, c)
    /\ Change
    /\ UNCHANGED <<db, earned, fault>>

SignsOn(c, who) ==
    /\ online' = [online EXCEPT ![c] = who]
    /\ opers' = handleAC(opers, c, who)
    /\ earned' = earned \cup Earns(c, who)
    /\ UNCHANGED <<db, fault>>

(* EVT_OPER, also after the +o that OkAuthUser() writes for autoop.        *)
OnOper(c) ==
    /\ online[c] # None /\ ~online[c].oper
    /\ SignsOn(c, [online[c] EXCEPT !.oper = TRUE])
    /\ UNCHANGED changes

(* EVT_ACCOUNT, with the account of a visitor.                             *)
OnAccount(c, v) ==
    /\ online[c] # None /\ online[c].account = None /\ v.account # None
    /\ SignsOn(c, [online[c] EXCEPT !.account = v.account, !.id = v.id])
    /\ Change

(* What happens to a client that is no event here: mode -o, a new nick.    *)
Becomes(c, who) ==
    /\ online' = [online EXCEPT ![c] = who]
    /\ Change
    /\ UNCHANGED <<opers, db, earned, fault>>

NoOper(c) == online[c] # None /\ online[c].oper /\ Becomes(c, [online[c] EXCEPT !.oper = FALSE])
NewNick(c, v) == online[c] # None /\ v.ts # online[c].ts /\ Becomes(c, [online[c] EXCEPT !.ts = v.ts])

-----------------------------------------------------------------------------
(* Messages of clients.  One who has autoop but is no oper (any more) is   *)
(* no longer authenticated when he says something.                         *)
Me(c) == opers.users[opers.dbUser[c]]
Fallen(c) == opers.dbUser[c] \in User /\ Me(c).autoop /\ ~online[c].oper

Say(c) ==
    /\ Fallen(c)
    /\ opers' = deAuthUser(opers, c)
    /\ UNCHANGED <<online, db, earned, changes, fault>>

(* LOGIN <u> with the right password, or a wrong one.                      *)
Login(c, u, right) ==
    /\ online[c] # None /\ db
    /\ opers.dbUser[c] \in User => Fallen(c)
    /\ LET t == IF Fallen(c) THEN deAuthUser(opers, c) ELSE opers
           who == online[c]
           x == t.users[u]
           known == u \in Listed(t) /\ right /\ (who.oper \/ GotMask(t, u, who))
           ok == known /\ (who.oper \/ ~x.needop \/ x.autoop)
       IN  /\ opers' = IF ok THEN OkAuthUser(WithId(t, u, who), c, u, who) ELSE t
           /\ earned' = IF known THEN earned \cup {<<c, who.ts, u>>} ELSE earned
    /\ UNCHANGED <<online, db, changes, fault>>

(* Is a command of this client done?                                       *)
Heard(c) ==
    /\ opers.dbUser[c] \in User /\ ~Fallen(c)
    /\ Me(c).needop => online[c].oper
    /\ ~Me(c).suspended

(* Mutant: the numeric and the timestamp are not forgotten.                *)
Forgotten_Not(t, u) == t

Forgotten(t, u) == [t EXCEPT !.users[u].last = None]

(* DEAUTH and LOGOUT.                                                      *)
Deauth(c) ==
    /\ Heard(c)
    /\ opers' = Forgotten(deAuthUser(opers, c), opers.dbUser[c])
    /\ earned' = {e \in earned : e[1] # c \/ e[3] # opers.dbUser[c]}
    /\ UNCHANGED <<online, db, changes, fault>>

-----------------------------------------------------------------------------
(* Commands that change users.  They need the database and an oper.        *)
Command(c) ==
    /\ Change
    /\ Heard(c) /\ online[c].oper /\ db
    /\ UNCHANGED <<online, db>>

Above(c, level) == IF Me(c).type < SMT THEN level < Me(c).type ELSE level <= Me(c).type
Same(c, u) == opers.dbUser[c] = u

(* ADDUSER.  The time of the day is stored as the id of his account.       *)
AddUser(c, u, level, id) ==
    /\ Command(c) /\ opers.users[u] = None
    /\ Me(c).type >= ADMIN /\ Above(c, level)
    /\ opers' = [opers EXCEPT !.users[u] =
            [type |-> level, account |-> None, id |-> id, sso |-> TRUE, ssooo |-> TRUE,
             autoop |-> FALSE, needop |-> TRUE, suspended |-> FALSE, hosts |-> {},
             clients |-> {}, last |-> None, listed |-> TRUE]]
    /\ UNCHANGED <<earned, fault>>

(* DeleteOper() takes the user off the maps between two queries, under the *)
(* account he has now; the first query deletes his masks.                  *)
Unlisted(t, u) ==
    [t EXCEPT !.users[u].listed = FALSE, !.users[u].hosts = {},
              !.accountsMap = [a \in Account |->
                  IF a = t.users[u].account THEN None ELSE t.accountsMap[a]]]

(* REMUSER: deAuthUser of a ccUser walks an empty list of clients and does *)
(* nothing; then the user is deleted.  half: the second query fails.       *)
RemUser(c, u, half) ==
    /\ Command(c) /\ u \in Listed(opers)
    /\ Me(c).type >= CODER \/ opers.users[u].type < Me(c).type
    /\ LET t == Unlisted(opers, u) IN
       IF half THEN opers' = t /\ UNCHANGED <<earned, fault>>
       ELSE /\ opers' = [t EXCEPT !.users[u] = None]
            /\ fault' = \/ opers.users[u].clients # {}
                        \/ \E a \in Account : t.accountsMap[a] = u
            /\ earned' = {e \in earned : e[3] # u}

(* What changes nothing is left out.                                       *)
Modify(u, x) ==
    /\ x # opers.users[u]
    /\ opers' = [opers EXCEPT !.users[u] = x]
    /\ UNCHANGED <<earned, fault>>

(* SUSPEND and UNSUSPEND, without its level, and its end.                  *)
Suspend(c, u, v) ==
    /\ Command(c) /\ u \in Listed(opers)
    /\ opers.users[u].suspended # v /\ Above(c, opers.users[u].type)
    /\ Modify(u, [opers.users[u] EXCEPT !.suspended = v])

refreshSuspention(u) ==
    /\ u \in Listed(opers) /\ opers.users[u].suspended
    /\ opers' = [opers EXCEPT !.users[u].suspended = FALSE]
    /\ Change
    /\ UNCHANGED <<online, db, earned, fault>>

(* MODUSER: whom, and for each option.                                     *)
MayModify(c, u) ==
    /\ Command(c) /\ u \in Listed(opers)
    /\ Same(c, u) \/ Above(c, opers.users[u].type)
    /\ opers.users[u].type <= Me(c).type

SetSso(c, u, v) == MayModify(c, u) /\ Modify(u, [opers.users[u] EXCEPT !.sso = v])

SetSsooo(c, u, v) ==
    MayModify(c, u) /\ Me(c).type >= SMT /\ Modify(u, [opers.users[u] EXCEPT !.ssooo = v])

SetAutoOp(c, u, v) ==
    /\ MayModify(c, u) /\ (v => Me(c).type >= SMT)
    /\ Modify(u, [opers.users[u] EXCEPT !.autoop = v])

SetNeedOp(c, u, v) ==
    MayModify(c, u) /\ Me(c).type >= SMT /\ Modify(u, [opers.users[u] EXCEPT !.needop = v])

SetType(c, u, level) ==
    /\ MayModify(c, u) /\ (Me(c).type >= CODER \/ level < Me(c).type)
    /\ Modify(u, [opers.users[u] EXCEPT !.type = level])

AddHost(c, u, h) ==
    /\ MayModify(c, u) /\ (Same(c, u) => Me(c).type >= ADMIN)
    /\ Modify(u, [opers.users[u] EXCEPT !.hosts = @ \cup {h}])

DelHost(c, u, h) == MayModify(c, u) /\ Modify(u, [opers.users[u] EXCEPT !.hosts = @ \ {h}])

(* MODUSER -x of oneself: the account one has now, if it is nobody's.  The *)
(* entry of the account one had before stays.                              *)
SetAccount(c, u) ==
    LET who == online[c] IN
    /\ Command(c) /\ u \in Listed(opers) /\ Same(c, u)
    /\ IF who.account # None
       THEN /\ who.account # opers.users[u].account
            /\ opers.accountsMap[who.account] = None
            /\ opers' = [opers EXCEPT
                    !.users[u] = [@ EXCEPT !.account = who.account, !.id = who.id],
                    !.accountsMap[who.account] = u]
       ELSE opers' = [opers EXCEPT
                    !.users[u] = [@ EXCEPT !.account = None, !.id = 0],
                    !.accountsMap = [a \in Account |-> IF a = opers.users[u].account THEN None
                                                        ELSE opers.accountsMap[a]]]
    /\ UNCHANGED <<earned, fault>>

CheckDbConnection == db' = ~db /\ Change /\ UNCHANGED <<opers, online, earned, fault>>

-----------------------------------------------------------------------------
Loaded(s) ==
    [type |-> s.type, account |-> s.account, id |-> s.id, sso |-> s.sso, ssooo |-> s.ssooo,
     autoop |-> s.autoop, needop |-> s.needop, hosts |-> s.hosts, suspended |-> s.suspended,
     clients |-> {}, last |-> None, listed |-> TRUE]

(* loadUsers().  Clients that are there when the module is loaded have no  *)
(* ccUserData.                                                             *)
Init ==
    /\ \E stored \in [User -> UNION {Stored[u] : u \in User}] :
        /\ \A u \in User : stored[u] \in Stored[u]
        /\ \A u, w \in User : u # w /\ stored[u] # None /\ stored[w] # None
                => stored[u].account # stored[w].account \/ stored[u].account = None
        /\ opers = [users |-> [u \in User |-> IF stored[u] = None THEN None ELSE
                        Loaded(stored[u])],
                    accountsMap |-> [a \in Account |->
                        LET us == {u \in User : stored[u] # None /\ stored[u].account = a}
                        IN  IF us = {} THEN None ELSE CHOOSE u \in us : TRUE],
                    dbUser |-> [c \in Client |-> NoData]]
    /\ online \in [Client -> UNION {Visitor[c] : c \in Client} \cup {None}]
    /\ \A c \in Client : online[c] \in Visitor[c] \cup {None}
    /\ db = TRUE /\ earned = {} /\ changes = 0 /\ fault = FALSE

Network ==
    \/ \E c \in Client : \E v \in Visitor[c] : Connect(c, v) \/ OnAccount(c, v) \/ NewNick(c, v)
    \/ \E c \in Client : Quit(c) \/ OnOper(c) \/ NoOper(c)

Edit ==
    \/ \E c \in Client, u \in User, v \in BOOLEAN :
        \/ RemUser(c, u, v) \/ Suspend(c, u, v)
        \/ SetSso(c, u, v) \/ SetSsooo(c, u, v) \/ SetAutoOp(c, u, v) \/ SetNeedOp(c, u, v)
    \/ \E c \in Client, u \in User, level \in Level :
        AddUser(c, u, level, 1) \/ SetType(c, u, level)
    \/ \E c \in Client, u \in User, h \in Host : AddHost(c, u, h) \/ DelHost(c, u, h)
    \/ \E c \in Client, u \in User : SetAccount(c, u)

Next ==
    /\ ~fault
    /\ \/ Network
       \/ \E c \in Client : Say(c) \/ Deauth(c)
       \/ \E c \in Client, u \in User, right \in BOOLEAN : Login(c, u, right)
       \/ Edit
       \/ \E u \in User : refreshSuspention(u)
       \/ CheckDbConnection

Spec == Init /\ [][Next]_vars

-----------------------------------------------------------------------------
(* Properties                                                              *)
Tables ==
    [users : [User -> ccUser \cup {None}], accountsMap : [Account -> User \cup {None}],
     dbUser : [Client -> User \cup {None, NoData}]]

TypeOK ==
    /\ opers \in Tables /\ online \in [Client -> Person \cup {None}]
    /\ db \in BOOLEAN /\ fault \in BOOLEAN /\ changes \in 0..MaxChanges

(* MODUSER -x left this entry of accountsMap: the user has another account *)
(* now, and the old one still signs on.                                    *)
LeftOver(a, u) ==
    a # None /\ opers.accountsMap[a] = u /\ opers.users[u].account # a

(* The two halves of a session agree, however it began and whoever ended   *)
(* it or what it rests on: a user has a client in his list exactly while   *)
(* the client, who is on, has the user as his; and a user who has an       *)
(* account is the one that the account leads to.  Until a user is removed  *)
(* who is authenticated or had another account (ccontrol.cc:1073, 2035,    *)
(* 2124, REMUSERCommand.cc:79).                                            *)
SessionsAgree ==
    ~fault =>
    /\ \A c \in Client : \A u \in User :
        opers.dbUser[c] = u <=> opers.users[u] # None /\ c \in opers.users[u].clients
    /\ \A c \in Client : opers.dbUser[c] \in User => online[c] # None
    /\ \A a \in Account : opers.accountsMap[a] # None =>
        opers.accountsMap[a] \in Listed(opers) \/ LeftOver(a, opers.accountsMap[a])
    /\ \A u \in Listed(opers) : opers.users[u].account # None =>
        opers.accountsMap[opers.users[u].account] = u

(* Nobody is authenticated as a user he has not shown to be: whenever a    *)
(* client becomes the client of a user, this numeric with this timestamp   *)
(* has given the password as an oper or from one of the user's masks, or   *)
(* has the account of the user and what single sign on demands, now or     *)
(* before a netsplit, and has not logged out since; or has an account the  *)
(* user had before (ccontrol.cc:1544, 1884, LOGINCommand.cc:78,            *)
(* DEAUTHCommand.cc:49).                                                   *)
Entitled ==
    [][\A c \in Client :
        LET u == opers'.dbUser[c] IN
        u \in User /\ u # opers.dbUser[c] =>
            \/ <<c, online'[c].ts, u>> \in earned'
            \/ LeftOver(online'[c].account, u)]_vars
=============================================================================
