----------------------------- MODULE AccessRules -----------------------------
(***************************************************************************)
(* What mod.cservice promises about access lists, without saying how: a    *)
(* table of who holds what on which channel, a stored copy that outlives   *)
(* the process, and the access an admin has forced for a while.  A record  *)
(* changes because somebody with more access than it changed it, because   *)
(* its owner left, because time passed, because the channel was given to a *)
(* new manager or cleared by an admin, or because what is stored was read  *)
(* back.                                                                   *)
(***************************************************************************)
EXTENDS Naturals

CONSTANTS
    User, Chan,
    Star,       \* the channel whose access list is that of the admins
    Slot,       \* who may be on which list: pairs of a user and a channel
    None        \* no record

VARIABLES
    held,       \* the access lists
    stored,     \* the copy in the database
    forced      \* forced access, 0 for none

vars == <<held, stored, forced>>

On(c) == {p \in Slot : p[2] = c}
Of(u) == {p \in Slot : p[1] = u}

(* A record has an access and the level it is suspended at, 0 if it is not.*)
Authority(v, c) ==
    IF forced[<<v, c>>] > 0 THEN forced[<<v, c>>]
    ELSE IF <<v, c>> \in Slot /\ held[<<v, c>>] # None /\ held[<<v, c>>].suspended = 0
    THEN held[<<v, c>>].access ELSE 0

Admin(level) == \E v \in User : Authority(v, Star) >= level

Init == held = stored /\ forced = [uc \in User \X Chan |-> 0]

Only(P) == \A q \in Slot \ P : held'[q] = held[q] /\ stored'[q] = stored[q]

(* What is stored follows or, if the query fails, does not.                *)
Stores(p) == stored'[p] \in {stored[p], held'[p]}

(* v changes the record p of another user to r: v is above what the record *)
(* was, unless v is forced, and above what it becomes, and neither sets a  *)
(* suspension above v nor lifts one.                                       *)
May(v, p, r) ==
    LET a == Authority(v, p[2])  old == held[p] IN
    /\ a > 0
    /\ old # None => old.access < a \/ forced[<<v, p[2]>>] > 0
    /\ r # None => r.access < a
    /\ LET before == IF old = None THEN 0 ELSE old.suspended IN
       r # None /\ r.suspended # before => r.suspended <= a /\ before <= a

Change ==
    \E p \in Slot :
        /\ held'[p] # held[p] \/ stored'[p] # stored[p]
        /\ \E v \in User : May(v, p, held'[p])
        /\ Only({p}) /\ Stores(p) /\ UNCHANGED forced

Leave ==
    \E p \in Slot :
        /\ held[p] # None /\ held[p].access # 500 /\ p[2] # Star
        /\ held'[p] = None /\ Only({p}) /\ Stores(p) /\ UNCHANGED forced

(* Time passes: suspensions end, here and in the copy.                     *)
Lapsed(old, new) ==
    new = old \/ (old # None /\ new = [old EXCEPT !.suspended = 0])
Lapse ==
    /\ \A p \in Slot : Lapsed(held[p], held'[p]) /\ Lapsed(stored[p], stored'[p])
    /\ UNCHANGED forced

(* An admin empties a list, or drops the records of a user for the time of *)
(* a global suspension.                                                    *)
Clear ==
    /\ Admin(750)
    /\ \A p \in Slot : held'[p] \in {held[p], None} /\ stored'[p] \in {stored[p], None}
    /\ \E P \in {On(c) : c \in Chan \ {Star}} \cup {Of(u) : u \in User} : Only(P)
    /\ UNCHANGED forced

(* A channel gets a manager, who is then alone on its list.                *)
Register ==
    \E c \in Chan \ {Star} :
        /\ \A p \in On(c) : held'[p] \in {None, [access |-> 500, suspended |-> 0]}
        /\ \A p, q \in On(c) : held'[p] # None /\ held'[q] # None => p = q
        /\ \A p \in On(c) : stored'[p] = held'[p]
        /\ Only(On(c)) /\ UNCHANGED forced

(* Records are read back as they are stored.                               *)
Reload ==
    /\ \A p \in Slot : held'[p] \in {held[p], stored[p]}
    /\ UNCHANGED <<stored, forced>>

(* The process starts again, without the channels that were given up.      *)
Restart ==
    /\ \A p \in Slot : held'[p] \in {stored[p], None}
    /\ stored' = stored /\ forced' = [uc \in User \X Chan |-> 0]

(* The website changes a stored record.                                    *)
Web == held' = held /\ UNCHANGED forced

Force ==
    \E v \in User, c \in Chan \ {Star} :
        /\ Authority(v, Star) > 0 /\ forced[<<v, c>>] = 0
        /\ forced' = [forced EXCEPT ![<<v, c>>] = Authority(v, Star)]
        /\ UNCHANGED <<held, stored>>

UnForce ==
    /\ \A uc \in User \X Chan : forced'[uc] \in {forced[uc], 0}
    /\ UNCHANGED <<held, stored>>

Next ==
    \/ Web \/ Force \/ UnForce \/ Reload \/ Change \/ Leave \/ Lapse \/ Clear
    \/ Register \/ Restart

Spec == Init /\ [][Next]_vars
=============================================================================
