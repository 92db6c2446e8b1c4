----------------------------- MODULE MCControl ------------------------------
(* Instances of two parts of mod.ccontrol for TLC, each in behaviours of   *)
(* its own.  Glines: one on user@host and one on a real name.  Opers: a    *)
(* coder with an account, of which the id may be known, perhaps an admin   *)
(* without one, and a client without account or with another; the other    *)
(* client has the coder's account, with an id of its own.                  *)
EXTENDS Glines

CONSTANTS
    h1, r1,                             \* the two of Host
    u1, u2, o1, o2, acc1, acc2, mask1,  \* of User, Client, Account and Mask
    User, Client, Account, Mask, Visitor, Stored, Level, MaxChanges,
    Nobody, NoData                      \* of Opers

VARIABLES
    part,       \* the module that moves
    opers, online, db, earned, changes, fault

O == INSTANCE Opers WITH Host <- Mask, None <- Nobody

ASSUME OpersAssumed == O!OpersAssumption

RealNames == {r1}

Plain == [oper |-> FALSE, account |-> Nobody, id |-> 0, ts |-> 1, host |-> mask1]
Visitors == [c \in Client |->
    IF c = o1 THEN {Plain, [Plain EXCEPT !.account = acc2, !.ts = 2]}
    ELSE {[Plain EXCEPT !.account = acc1, !.id = 2]}]

Coder == [type |-> 5, account |-> acc1, id |-> 0, sso |-> TRUE, ssooo |-> FALSE,
          autoop |-> FALSE, needop |-> FALSE, suspended |-> FALSE, hosts |-> {mask1}]
Admin == [type |-> 3, account |-> Nobody, id |-> 0, sso |-> FALSE, ssooo |-> FALSE,
          autoop |-> TRUE, needop |-> TRUE, suspended |-> FALSE, hosts |-> {mask1}]
StoredUsers == [u \in User |->
    IF u = u1 THEN {Coder, [Coder EXCEPT !.id = 1]} ELSE {Nobody, Admin}]

users == <<opers, online, db, earned, changes, fault>>
all == <<part, vars, users>>

(* The part that does not move has nothing in its tables.                  *)
MCInit ==
    /\ part \in {"glines", "opers"} /\ Init /\ O!Init
    /\ part = "glines" => /\ online = [c \in Client |-> Nobody]
                          /\ opers.users[u2] = Nobody /\ opers.users[u1].id = 0
    /\ part = "opers" => /\ online[o1] = Nobody
                         /\ opers.users[u1].id = 1 => opers.users[u2] = Nobody

MCNext ==
    \/ part = "glines" /\ Next /\ UNCHANGED <<part, users>>
    \/ part = "opers" /\ O!Next /\ UNCHANGED <<part, vars>>

(* The fairness of FairSpec in Glines.                                     *)
MCFairSpec ==
    /\ MCInit /\ [][MCNext]_all
    /\ WF_vars(part = "glines" /\ updateGlines) /\ WF_vars(part = "glines" /\ refreshGlines)

(* The properties of Opers with its type invariant; see there.             *)
SessionsAgree == O!TypeOK /\ O!SessionsAgree
Entitled == O!Entitled
=============================================================================
