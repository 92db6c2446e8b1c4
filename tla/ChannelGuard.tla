---------------------------- MODULE ChannelGuard ----------------------------
(***************************************************************************)
(* How mod.cservice keeps order on one registered channel: who may be an   *)
(* operator (NOOP, STRICTOP, suspended access, bans), who may stay          *)
(* (bans), protection against mass deops, the join limit and its timer,    *)
(* and what happens while the bot itself is not an operator or not there.  *)
(*                                                                         *)
(* Every call of the bot changes the tables at once and tells the bot of   *)
(* the change before it returns; a handler and the handlers it causes are  *)
(* one action.                                                             *)
(***************************************************************************)
EXTENDS Naturals, Sequences, FiniteSets, SequencesExt, FiniteSetsExt

CONSTANTS
    Client, User,
    NoUser,
    LoginOf,        \* the account each client may log in to
    AutoOp,         \* users whose record has F_AUTOOP
    Mask,           \* ban masks
    Matches,        \* the clients each of them matches
    HostMask,       \* Channel::createBan() of each client
    Access,         \* the levels the record of each user may have
    BanLevel,       \* the levels BAN is asked for
    BanCheck,       \* BAN_CHECK_ON_BURST
    Setting,        \* of the channel: MAX_BANS, the deops in one message that
                    \* are a mass deop, or 0, and the values F_JOINLIM takes
    LimitJoinMax,   \* JOINMAX
    MaxTimer        \* bound: identifiers of join limit timers

None == "none"
TimerID == 1..MaxTimer

ASSUME ChannelGuardAssumption ==
    /\ LoginOf \in [Client -> User] /\ AutoOp \subseteq User /\ NoUser \notin User
    /\ Matches \in [Mask -> SUBSET Client] /\ HostMask \in [Client -> Mask]
    /\ \A c \in Client : c \in Matches[HostMask[c]]
    /\ Access \in [User -> SUBSET (0..500)] /\ BanLevel \subseteq 1..500
    /\ \A s \in Setting : s.maxBans \in Nat /\ s.massDeopPro \in Nat /\ s.joinLim \subseteq BOOLEAN
    /\ BanCheck \in BOOLEAN
    /\ LimitJoinMax \in Nat \ {0} /\ MaxTimer \in Nat /\ MaxTimer > 1

VARIABLES
    setting,
    member,     \* the clients on the channel, without the bot
    op,         \* those with MODE_O
    bot,        \* the bot on the channel: "away", "plain" or "op"
    record,     \* the sqlChannel exists
    inChan,     \* its F_INCHAN
    noop, strictop,
    account,    \* the user each client is logged in as
    level,      \* the access of each user on the channel
    suspended,  \* users whose record on the channel is suspended
    bans,       \* banList, in the order of the identifiers: mask and level
    limit,      \* F_JOINLIM, limitJoinCount, limitJoinActive, limitJoinTimer
    timers,     \* pending timers that carry the sqlChannel
    lockedBy,   \* who set the mode the join limit uses: "none", "bot" or "user", or
                \* "left": the network has it still, the table has it no more
    freed       \* a deleted object or a null pointer has been used

people == <<account, level, suspended>>
limits == <<limit, timers, lockedBy>>
flags == <<record, inChan, noop, strictop>>
vars == <<setting, member, op, bot, flags, people, bans, limits, freed>>

Idle == [on |-> FALSE, count |-> 0, active |-> FALSE, timer |-> 0]

TypeOK ==
    /\ op \subseteq member /\ member \subseteq Client
    /\ bot \in {"away", "plain", "op"}
    /\ <<record, inChan, noop, strictop, freed>> \in BOOLEAN \X BOOLEAN \X BOOLEAN \X BOOLEAN \X BOOLEAN
    /\ account \in [Client -> User \cup {NoUser}]
    /\ \A u \in User : level[u] \in Access[u] \cup {0}
    /\ suspended \subseteq User
    /\ Len(bans) <= setting.maxBans + Cardinality(Client)
    /\ limit \in [on : BOOLEAN, count : 0..LimitJoinMax, active : BOOLEAN, timer : 0..MaxTimer]
    /\ timers \subseteq TimerID /\ lockedBy \in {"none", "bot", "user", "left"}

(* The bot has joined and is an operator.                                  *)
Init ==
    /\ setting \in Setting
    /\ member = {} /\ op = {} /\ bot = "op"
    /\ record = TRUE /\ inChan = TRUE /\ noop = FALSE /\ strictop = FALSE
    /\ account = [c \in Client |-> NoUser]
    /\ level \in [User -> UNION {Access[u] : u \in User}]
    /\ (\A u \in User : level[u] \in Access[u]) /\ suspended = {}
    /\ bans = <<>>
    /\ \E b \in setting.joinLim : limit = [Idle EXCEPT !.on = b]
    /\ timers = {} /\ lockedBy = "none" /\ freed = FALSE

-----------------------------------------------------------------------------
(* What the bot looks up.                                                  *)
Exists == member # {} \/ bot # "away"
Guards == record /\ inChan

getEffectiveAccessLevel(u) == IF u = NoUser \/ u \in suspended THEN 0 ELSE level[u]
Rank(c) == getEffectiveAccessLevel(account[c])

(* The level of the matching ban with the lowest identifier, which decides,*)
(* or 0.                                                                   *)
isBannedOnChan(c) == SelectInSeq(bans, LAMBDA b : c \in Matches[b.mask])
BanOn(c) == IF isBannedOnChan(c) = 0 THEN 0 ELSE bans[isBannedOnChan(c)].level
NoOps(c) == BanOn(c) \in 1..75
Shut(c) == BanOn(c) >= 75

(* The bans of s but those in gone, in their order.                        *)
Without(s, gone) ==
    LET kept[i \in 0..Len(s)] ==
            IF i = 0 THEN <<>> ELSE IF s[i] \in gone THEN kept[i - 1] ELSE Append(kept[i - 1], s[i])
    IN kept[Len(s)]

(* A call to op, deop, ban or kick: the bot must be an operator, or away,  *)
(* when it joins for the call and parts again.                             *)
Acts(b) == b # "plain"

(* Mutant: an account is enough.                                           *)
Outsider_Lax(c) == account[c] = NoUser
Outsider(c) == Rank(c) < 100

(* Does OnChannelModeO() deop c again, and whoever opped it?               *)
Wrong(c) == (strictop /\ Outsider(c)) \/ NoOps(c)
Refused(c) == noop \/ Wrong(c)

(* Whom OnChannelModeO() deops when src has opped S.                       *)
Deopped(S, src) ==
    {c \in S : Guards /\ Refused(c)} \cup {c \in {src} : Guards /\ \E d \in S : Wrong(d)}
Checked(ops, S, src, b) == (ops \cup S) \ (IF Acts(b) THEN Deopped(S, src) ELSE {})

(* Mutant: bans at level 75 are only about operators.                      *)
checkBansOnJoin_Above(c) == BanOn(c) > 75
(* Is c kicked when it joins or logs in?                                   *)
checkBansOnJoin(c) == Shut(c)

(* What doTheRightThing() leaves once the bot has joined or is an operator *)
(* again: doAllBansOnChan(), deopAllOnChan(), deopAllUnAuthedOnChan().     *)
Stays(c) == BanCheck => ~checkBansOnJoin(c)
KeepsOp(c) == Stays(c) /\ ~noop /\ ~(strictop /\ Outsider(c))
doTheRightThing ==
    /\ member' = {c \in member : Stays(c)}
    /\ op' = {c \in op : KeepsOp(c)}

(* The members M and operators O a handler leaves.  If the bot is away and *)
(* some call made it join, it has done the right thing too.                *)
Leaves(M, O, called) ==
    LET visit == called /\ bot = "away" /\ Guards
    IN /\ member' = {c \in M : visit => Stays(c)'}
       /\ op' = {c \in O \cap M : visit => KeepsOp(c)'}

-----------------------------------------------------------------------------
(* The join limit.                                                         *)
NewTimer == CHOOSE i \in TimerID \ (timers \cup {limit.timer}) : TRUE

(* Mutant: the timer is renewed and its identifier is not kept.            *)
Renewed_Forgets == limit
Renewed == [limit EXCEPT !.timer = NewTimer]

(* doJoinLimit(), for a user who is not logged in: late says that the      *)
(* session is over, b is the bot and locked the mode when it is called.    *)
(* It looks in the table for the mode.                                     *)
doJoinLimit(late, b, locked) ==
    LET n == Min({limit.count + 1, LimitJoinMax})
    IN \/ /\ limit.active
          /\ limit' = Renewed /\ lockedBy' = locked
          /\ timers' = (timers \ {limit.timer}) \cup {NewTimer}
       \/ /\ ~limit.active /\ (late \/ limit.count = 0)
          /\ limit' = [limit EXCEPT !.count = 1] /\ lockedBy' = locked
          /\ UNCHANGED timers
       \/ /\ ~limit.active /\ ~late /\ limit.count > 0
          /\ IF n < LimitJoinMax \/ b # "op" \/ locked \in {"bot", "user"}
             THEN /\ limit' = [limit EXCEPT !.count = n] /\ lockedBy' = locked
                  /\ UNCHANGED timers
             ELSE /\ limit' = [limit EXCEPT !.count = n, !.active = TRUE, !.timer = NewTimer]
                  /\ timers' = (timers \ {limit.timer}) \cup {NewTimer}
                  /\ lockedBy' = "bot"

(* Mutant: the mode goes and the flag stays.                               *)
Lifted_Active == [limit EXCEPT !.count = 0]
Lifted == [limit EXCEPT !.count = 0, !.active = FALSE]

(* undoJoinLimits() uses the Channel without asking whether there is one.  *)
(* It takes the mode from the table and writes M, whatever the bot is: the *)
(* network does not take it from one that is no operator.                  *)
undoJoinLimits(on) ==
    IF Exists
    THEN /\ limit' = [Lifted EXCEPT !.on = on]
         /\ lockedBy' = IF bot = "op" \/ lockedBy = "none" THEN "none" ELSE "left"
         /\ UNCHANGED freed
    ELSE freed' = TRUE /\ UNCHANGED <<limit, lockedBy>>

(* OnTimer() with the sqlChannel as parameter.                             *)
OnTimer(id) ==
    /\ id \in timers /\ timers' = timers \ {id}
    /\ IF ~record THEN freed' = TRUE /\ UNCHANGED <<limit, lockedBy>>
       ELSE IF limit.timer = id /\ limit.active THEN undoJoinLimits(limit.on)
       ELSE UNCHANGED <<limit, lockedBy, freed>>
    /\ UNCHANGED <<member, op, bot, flags, people, bans>>

-----------------------------------------------------------------------------
(* Messages from the network.                                              *)

(* Is a client of u opped when it joins or logs in, with F_AUTOOP?         *)
AutoOpped(u) == ~noop /\ u \in AutoOp \ suspended /\ level[u] > 0

(* EVT_JOIN: a client joins.                                               *)
Join(c, late) ==
    LET kick == Guards /\ checkBansOnJoin(c) /\ Acts(bot)
        opped == Guards /\ BanOn(c) = 0 /\ AutoOpped(account[c]) /\ Acts(bot)
                 /\ ~(strictop /\ Outsider(c))
    IN /\ c \notin member /\ Exists
       /\ UNCHANGED <<bot, flags, people, bans, freed>>
       /\ IF Guards /\ limit.on /\ BanOn(c) = 0 /\ account[c] = NoUser
          THEN doJoinLimit(late, bot, lockedBy) ELSE UNCHANGED limits
       /\ Leaves(IF kick THEN member ELSE member \cup {c},
                 IF opped THEN Checked(op, {c}, None, bot) ELSE op, kick \/ opped)

(* EVT_BURST, then the modes of the burst: a client comes with its server, *)
(* as an operator.                                                         *)
Burst(c) ==
    LET kick == Guards /\ checkBansOnJoin(c) /\ Acts(bot)
    IN /\ c \notin member
       /\ lockedBy' = IF Exists THEN lockedBy ELSE "none"
       /\ UNCHANGED <<bot, flags, people, bans, limit, timers, freed>>
       /\ Leaves(IF kick THEN member ELSE member \cup {c},
                 Checked(op, {c}, None, bot), kick \/ Deopped({c}, None) # {})

(* EVT_CREATE: the channel is made, or a message with an older timestamp   *)
(* takes all modes from it; whoever sent it is an operator.                *)
Create(c, late) ==
    LET b == IF bot = "away" THEN "away" ELSE "plain"
        kick == Guards /\ checkBansOnJoin(c) /\ Acts(b)
    IN /\ c \notin member
       /\ bot' = b
       /\ IF Guards /\ limit.on /\ BanOn(c) = 0 /\ account[c] = NoUser
          THEN doJoinLimit(late, b, "none") ELSE lockedBy' = "none" /\ UNCHANGED <<limit, timers>>
       /\ UNCHANGED <<flags, people, bans, freed>>
       /\ Leaves(IF kick THEN member ELSE member \cup {c}, {c}, kick)

(* EVT_PART, a quit or a kick by another operator.                         *)
Leave(c) ==
    /\ c \in member
    /\ member' = member \ {c} /\ op' = op \ {c}
    /\ UNCHANGED <<bot, flags, people, bans, limits, freed>>

(* doInternalBanAndKick() and doSingleBanAndKick(): the record of the user *)
(* is suspended unless it is a manager's or suspended for longer, its host *)
(* is banned, every client with that host is kicked.                       *)
Punished(src, longer) ==
    LET u == account[src]
        known == u # NoUser /\ level[u] \in 1..499 /\ ~(u \in suspended /\ longer)
        new == [mask |-> HostMask[src], level |-> IF known THEN level[u] + 1 ELSE 25]
    IN /\ suspended' = IF known THEN suspended \cup {u} ELSE suspended
       /\ bans' = IF \E i \in DOMAIN bans : bans[i].mask = new.mask THEN bans
                  ELSE Append(bans, new)

(* A mode message: src, a client or a server, ops S and deops D, and       *)
(* deops the bot too if it is a server.                                    *)
Mode(src, S, D, deopBot) ==
    LET b == IF deopBot /\ bot = "op" THEN "plain" ELSE bot
        hits == Cardinality(D) + (IF deopBot THEN 1 ELSE 0)
        mass == src # None /\ Guards /\ setting.massDeopPro > 0 /\ hits >= setting.massDeopPro
        out == {c \in member : mass /\ Acts(b) /\ HostMask[c] = HostMask[src]}
    IN /\ S \subseteq member \ op /\ D \subseteq op /\ src \in op \cup {None}
       /\ S \cup D # {} \/ deopBot
       /\ deopBot => src = None
       /\ bot' = b
       /\ IF mass THEN \E longer \in BOOLEAN : Punished(src, longer) ELSE UNCHANGED <<suspended, bans>>
       /\ UNCHANGED <<flags, account, level, limits, freed>>
       /\ Leaves(member \ out, Checked(op \ D, S, src, b), mass \/ Deopped(S, src) # {})

(* Somebody ops the bot.                                                   *)
OpBot ==
    /\ bot = "plain" /\ bot' = "op"
    /\ IF Guards THEN doTheRightThing ELSE UNCHANGED <<member, op>>
    /\ UNCHANGED <<flags, people, bans, limits, freed>>

(* A message that ops the bot and others, those of rest after the bot:     *)
(* doTheRightThing() kicks while the loop has them still to look at, by    *)
(* their ChannelUser, and the source after it, if anybody is deopped.      *)
OpBotAnd(src, S, rest) ==
    LET kicked == {c \in member : Guards /\ ~Stays(c)}
        again == Deopped(S, src)
        used == rest \cup (IF again = {} THEN {} ELSE {src})
    IN /\ bot = "plain" /\ src \in op \cup {None}
       /\ S \subseteq member \ op /\ S # {} /\ rest \subseteq S
       /\ IF used \cap kicked # {} THEN freed' = TRUE /\ UNCHANGED <<member, op, bot>>
          ELSE /\ bot' = "op" /\ member' = member \ kicked
               /\ op' = {c \in op \cup S : Guards => KeepsOp(c)} \ again
               /\ UNCHANGED freed
       /\ UNCHANGED <<flags, people, bans, limits>>

(* An operator of the network kicks the bot; cservice is not told.         *)
KickBot ==
    /\ bot # "away" /\ bot' = "away"
    /\ UNCHANGED <<member, op, flags, people, bans, limits, freed>>

(* Operators set and take the mode of the join limit themselves.           *)
ModeByUser ==
    /\ op # {}
    /\ lockedBy' = IF lockedBy = "none" THEN "user" ELSE "none"
    /\ UNCHANGED <<member, op, bot, flags, people, bans, limit, timers, freed>>

-----------------------------------------------------------------------------
(* Accounts.                                                               *)

(* doCommonAuth(): bans are looked at again, then F_AUTOOP is acted upon,  *)
(* only if the bot is there and an operator; OnChannelModeO() deops again  *)
(* whom STRICTOP or a ban forbids.                                         *)
Login(c) ==
    LET u == LoginOf[c]
        kick == Guards /\ c \in member /\ checkBansOnJoin(c) /\ Acts(bot)
        opped == Guards /\ c \in member /\ bot = "op" /\ AutoOpped(u)
    IN /\ account[c] = NoUser
       /\ account' = [account EXCEPT ![c] = u]
       /\ UNCHANGED <<bot, flags, level, suspended, bans, limits, freed>>
       /\ Leaves(IF kick THEN member \ {c} ELSE member, IF opped /\ ~Wrong(c)' THEN op \cup {c} ELSE op, kick)

(* A client that leaves the network and comes back is not logged in.       *)
Quit(c) ==
    /\ account[c] # NoUser /\ c \notin member
    /\ account' = [account EXCEPT ![c] = NoUser]
    /\ UNCHANGED <<member, op, bot, flags, level, suspended, bans, limits, freed>>

(* ADDUSER, REMUSER, MODINFO: nobody is deopped.                           *)
SetAccess(u, a) ==
    /\ record /\ level[u] # a /\ level' = [level EXCEPT ![u] = a]
    /\ suspended' = IF a = 0 THEN suspended \ {u} ELSE suspended
    /\ UNCHANGED <<member, op, bot, flags, account, bans, limits, freed>>

(* SUSPEND and deopSuspendedOnChan(), but not of a manager.                *)
SUSPEND(u) ==
    /\ record /\ level[u] \in 1..499 /\ u \notin suspended
    /\ suspended' = suspended \cup {u}
    /\ op' = IF inChan /\ bot = "op" THEN {c \in op : account[c] # u} ELSE op
    /\ UNCHANGED <<member, bot, flags, account, level, bans, limits, freed>>

UNSUSPEND(u) ==
    /\ record /\ u \in suspended /\ suspended' = suspended \ {u}
    /\ UNCHANGED <<member, op, bot, flags, account, level, bans, limits, freed>>

-----------------------------------------------------------------------------
(* Commands.                                                               *)
Asks(c, a) == record /\ Rank(c) >= a
Present == inChan /\ bot = "op"

(* OP passes over the targets OnChannelModeO() would deop.                 *)
OP(c, S) ==
    /\ Asks(c, 100) /\ Present /\ ~noop
    /\ S \subseteq {d \in member \ op : ~Wrong(d)} /\ S # {}
    /\ op' = Checked(op, S, None, bot)
    /\ UNCHANGED <<member, bot, flags, people, bans, limits, freed>>

DEOP(c, S) ==
    /\ Asks(c, 100) /\ Present /\ S \subseteq op /\ S # {}
    /\ op' = op \ S
    /\ UNCHANGED <<member, bot, flags, people, bans, limits, freed>>

(* KICK does not ask whether the bot is an operator; Kick() does.          *)
KICK(c, S) ==
    /\ Asks(c, 50) /\ inChan /\ Acts(bot) /\ S \subseteq member /\ S # {}
    /\ UNCHANGED <<bot, flags, people, bans, limits, freed>>
    /\ Leaves(member \ S, op, TRUE)

Covers(m, n) == Matches[n] \subseteq Matches[m]

(* Mutant: nobody on the channel is looked for.                            *)
Hit_None(m) == {}
Hit(m) == Matches[m] \cap member

(* BAN: refused if a ban covers the new one; replaces those it covers if   *)
(* the user may remove them; from 75 on whoever matches is kicked, below   *)
(* it is deopped.                                                          *)
BAN(c, m, l) ==
    /\ Asks(c, 75) /\ Present /\ l <= Rank(c) /\ Len(bans) < setting.maxBans
    /\ \A i \in DOMAIN bans :
          bans[i].mask # m /\ (Covers(bans[i].mask, m) => Covers(m, bans[i].mask))
    /\ bans' = Append(Without(bans, {b \in Range(bans) : Covers(m, b.mask) /\ b.level <= Rank(c)}),
                      [mask |-> m, level |-> l])
    /\ member' = IF l < 75 THEN member ELSE member \ Hit(m)
    /\ op' = op \ Hit(m)
    /\ UNCHANGED <<bot, flags, people, limits, freed>>

(* UNBAN: the ban itself, or else all the bans it covers; of a nick all    *)
(* the bans that cover its host.                                           *)
UNBAN(c, m, nick) ==
    LET may == {i \in DOMAIN bans :
                    /\ bans[i].level <= Rank(c)
                    /\ IF nick THEN Covers(bans[i].mask, m) ELSE Covers(m, bans[i].mask)}
        exact == {i \in may : bans[i].mask = m}
        gone == IF exact # {} THEN exact ELSE may
    IN /\ Asks(c, 75) /\ Present /\ gone # {}
       /\ bans' = Without(bans, {bans[i] : i \in gone})
       /\ UNCHANGED <<member, op, bot, flags, people, limits, freed>>

(* SET NOOP and SET STRICTOP.                                              *)
SETNoop(c, on) ==
    /\ Asks(c, 500) /\ noop' = on
    /\ op' = IF on /\ Present THEN {} ELSE op
    /\ UNCHANGED <<member, bot, record, inChan, strictop, people, bans, limits, freed>>

SETStrictop(c, on) ==
    /\ Asks(c, 500) /\ strictop' = on
    /\ op' = IF on /\ Present THEN {d \in op : ~Outsider(d)} ELSE op
    /\ UNCHANGED <<member, bot, record, inChan, noop, people, bans, limits, freed>>

SETJoinlim(c, on) ==
    /\ Asks(c, 450) /\ on \in setting.joinLim
    /\ IF on
       THEN /\ limit' = [limit EXCEPT !.on = TRUE, !.count = 0]
            /\ UNCHANGED <<timers, lockedBy, freed>>
       ELSE IF limit.active THEN timers' = timers \ {limit.timer} /\ undoJoinLimits(FALSE)
       ELSE limit' = [limit EXCEPT !.on = FALSE] /\ UNCHANGED <<timers, lockedBy, freed>>
    /\ UNCHANGED <<member, op, bot, flags, people, bans>>

(* SET JOINPERIOD, over: with less than has passed.                        *)
SETJoinperiod(c, over) ==
    /\ Asks(c, 450) /\ limit.active
    /\ IF over THEN timers' = timers \ {limit.timer} /\ undoJoinLimits(limit.on)
       ELSE /\ limit' = Renewed /\ timers' = (timers \ {limit.timer}) \cup {NewTimer}
            /\ UNCHANGED <<lockedBy, freed>>
    /\ UNCHANGED <<member, op, bot, flags, people, bans>>

(* JOIN, with a timestamp that may be older than that of the channel: then *)
(* all modes go.                                                           *)
JOIN(c, older) ==
    /\ Asks(c, 450) /\ ~inChan
    /\ inChan' = TRUE /\ bot' = "op"
    /\ member' = {d \in member : Stays(d)}
    /\ op' = {d \in op : ~older /\ KeepsOp(d)}
    /\ lockedBy' = IF Exists /\ ~older THEN lockedBy ELSE "none"
    /\ UNCHANGED <<record, noop, strictop, people, bans, limit, timers, freed>>

PART(c) ==
    /\ Asks(c, 500) /\ inChan
    /\ inChan' = FALSE /\ bot' = "away"
    /\ UNCHANGED <<member, op, record, noop, strictop, people, bans, limits, freed>>

(* PURGE deletes the sqlChannel; its timer is left alone.  Before, unless  *)
(* asked not to, it ops everybody with access, for which the bot joins or  *)
(* makes itself an operator.                                               *)
PURGE(reop) ==
    LET S == {c \in member : reop /\ Rank(c) >= 100}
        visit == S # {} /\ bot = "away" /\ Guards
    IN /\ record
       /\ member' = {c \in member : visit => Stays(c)}
       /\ op' = {c \in Checked(op, S, None, "op") : visit => KeepsOp(c)}
       /\ record' = FALSE /\ inChan' = FALSE /\ noop' = FALSE /\ strictop' = FALSE
       /\ bot' = "away" /\ bans' = <<>> /\ limit' = Idle
       /\ level' = [u \in User |-> 0] /\ suspended' = {}
       /\ UNCHANGED <<account, timers, lockedBy, freed>>

-----------------------------------------------------------------------------
(* Timers of the module.                                                   *)
performReops ==
    /\ bot = "plain"
    /\ IF Guards THEN bot' = "op" /\ doTheRightThing ELSE UNCHANGED <<bot, member, op>>
    /\ UNCHANGED <<flags, people, bans, limits, freed>>

expireBans(i) ==
    /\ record /\ i \in DOMAIN bans /\ bans' = Without(bans, {bans[i]})
    /\ UNCHANGED <<member, op, bot, flags, people, limits, freed>>

-----------------------------------------------------------------------------
Small == {S \in SUBSET Client : Cardinality(S) <= 2}

FromNetwork ==
    \/ \E c \in Client : Burst(c) \/ Leave(c) \/ Login(c) \/ Quit(c)
    \/ \E c \in Client, late \in BOOLEAN : Join(c, late) \/ Create(c, late)
    \/ \E S, D \in Small, src \in Client \cup {None}, d \in BOOLEAN : Mode(src, S, D, d)
    \/ \E S, rest \in Small, src \in Client \cup {None} : OpBotAnd(src, S, rest)
    \/ OpBot \/ KickBot \/ ModeByUser

Command ==
    \/ \E c \in Client, S \in SUBSET Client : OP(c, S) \/ DEOP(c, S) \/ KICK(c, S)
    \/ \E c \in Client, m \in Mask :
            (\E nick \in BOOLEAN : UNBAN(c, m, nick)) \/ \E l \in BanLevel : BAN(c, m, l)
    \/ \E c \in Client, on \in BOOLEAN :
            SETNoop(c, on) \/ SETStrictop(c, on) \/ SETJoinlim(c, on) \/ SETJoinperiod(c, on)
    \/ \E c \in Client : PART(c) \/ \E older \in BOOLEAN : JOIN(c, older)
    \/ \E u \in User : SUSPEND(u) \/ UNSUSPEND(u) \/ \E a \in Access[u] : SetAccess(u, a)
    \/ \E reop \in BOOLEAN : PURGE(reop)

Timer ==
    \/ \E id \in TimerID : OnTimer(id)
    \/ performReops
    \/ \E i \in 1..Len(bans) : expireBans(i)

Next == ~freed /\ UNCHANGED setting /\ (FromNetwork \/ Command \/ Timer)
Spec == Init /\ [][Next]_vars

(* Timers run (Timers, NoTimerStarves).                                    *)
FairSpec == Spec /\ \A id \in TimerID : WF_vars(~freed /\ UNCHANGED setting /\ OnTimer(id))

-----------------------------------------------------------------------------
(* While the bot is an operator nobody becomes one who is not to be, in    *)
(* whatever order ops, auto ops, logins, bans and changes of access come;  *)
(* those NOOP or STRICTOP forbids lose it when the flag is set and when    *)
(* the bot becomes an operator (again).  Who loses access stays one; so    *)
(* does who is opped by the message that deops too many, and is banned or  *)
(* loses access by what is done about it.                                  *)
OpsKept ==
    [][Guards' /\ bot' = "op" => \A c \in op' :
          /\ NoOps(c) /\ NoOps(c)' => c \in op
          /\ noop' => c \in op /\ noop /\ bot = "op"
          /\ strictop' /\ Rank(c) < 100 /\ Rank(c)' < 100 => c \in op /\ strictop /\ bot = "op"]_vars

(* The ban that decides about c goes.                                      *)
Released(c) == BanOn(c) > 0 /\ bans[isBannedOnChan(c)] \notin Range(bans')

(* doInternalBanAndKick() sets a ban for somebody that matches c, and      *)
(* kicks those only whose own mask is the same.                            *)
PassedOver(c) ==
    \E d \in member \ member' : c \in Matches[HostMask[d]] /\ HostMask[c] # HostMask[d]

(* A client kept out by a ban does not come in while the bot is an         *)
(* operator, whatever order joins, logins, bans and reops come in; and one *)
(* that is inside when such a ban is set or the bot is opped again goes.   *)
BansKept ==
    [][Guards /\ inChan' /\ bot # "away" /\ bot' = "op" =>
          \A c \in member' : Shut(c)' =>
              /\ c \in member
              /\ bot = "plain" => ~BanCheck
              /\ Shut(c) \/ Released(c) \/ PassedOver(c)]_vars

(* While the join limit is active a timer is pending that leads to the end *)
(* of it, and when it is not there is no mode of the bot that it still     *)
(* knows of.  What a bot that was no operator could not take back, "left", *)
(* stays on the network, and nothing of the module looks for it.           *)
LimitSound ==
    record /\ ~freed =>
        IF limit.active THEN limit.timer \in timers ELSE lockedBy # "bot"

(* The join limit, as the module has it, ends, unless joins renew it for   *)
(* ever.                                                                   *)
LimitLifted ==
    \A id \in TimerID :
        []<>(freed \/ ~record \/ ~limit.active \/ limit.timer # id)

(* A timer that fires finds the sqlChannel it was registered with, a limit *)
(* that is lifted the Channel it was set on, and a loop over the users a   *)
(* message ops the users.                                                  *)
NoUseOfDeleted == ~freed
=============================================================================
