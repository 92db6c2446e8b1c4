------------------------- MODULE ChannelGuard_proofs -------------------------
(* Proofs about what mod.cservice enforces on a channel: the join limit    *)
(* and its timer, who becomes an operator, and whom a ban keeps out.  For  *)
(* any number of clients, users, masks, bans and timers.                   *)
EXTENDS ChannelGuard, WellFoundedInduction, TLAPS

(* The limit is a record, only one timer is pending while the sqlChannel   *)
(* exists, and it is the one the limit knows; so that there is another.    *)
Limit == [on : BOOLEAN, count : 0..LimitJoinMax, active : BOOLEAN, timer : 0..MaxTimer]
Counted == limit.active => limit.timer \in timers
Unlocked == ~limit.active => lockedBy # "bot"
LInv ==
    /\ limit \in Limit
    /\ record /\ ~freed => timers \subseteq {limit.timer} /\ Counted /\ Unlocked

LEMMA MinOfTwo == ASSUME NEW x \in Int, NEW y \in Int PROVE Min({x, y}) = IF x > y THEN y ELSE x
<1> DEFINE m == IF x > y THEN y ELSE x
<1>1. m \in {x, y} /\ \A z \in {x, y} : m =< z
  OBVIOUS
<1>2. \A n \in {x, y} : (\A z \in {x, y} : n =< z) => n = m
  OBVIOUS
<1> HIDE DEF m
<1>3. Min({x, y}) = m
  BY <1>1, <1>2 DEF Min
<1> QED
  BY <1>3 DEF m

LEMMA Counting ==
    ASSUME NEW n \in 0..LimitJoinMax
    PROVE  Min({n + 1, LimitJoinMax}) \in 0..LimitJoinMax /\ 1 \in 0..LimitJoinMax /\ 0 \in 0..LimitJoinMax
<1>1. LimitJoinMax \in Nat /\ LimitJoinMax >= 1 /\ n \in Nat /\ n =< LimitJoinMax
  BY ChannelGuardAssumption
<1>2. Min({n + 1, LimitJoinMax}) = IF n + 1 > LimitJoinMax THEN LimitJoinMax ELSE n + 1
  BY <1>1, MinOfTwo
<1> QED
  BY <1>1, <1>2

(* What the limit is changed to.                                           *)
LEMMA Edited ==
    ASSUME limit \in Limit, NEW b \in BOOLEAN, NEW a \in BOOLEAN, NEW n \in 0..LimitJoinMax,
           NEW i \in 0..MaxTimer
    PROVE  /\ [limit EXCEPT !.on = b] \in Limit /\ [limit EXCEPT !.on = b].active = limit.active
           /\ [limit EXCEPT !.on = b].timer = limit.timer
           /\ [limit EXCEPT !.count = n] \in Limit /\ [limit EXCEPT !.count = n].active = limit.active
           /\ [limit EXCEPT !.count = n].timer = limit.timer
           /\ [limit EXCEPT !.on = b, !.count = n] \in Limit
           /\ [limit EXCEPT !.on = b, !.count = n].active = limit.active
           /\ [limit EXCEPT !.on = b, !.count = n].timer = limit.timer
           /\ [limit EXCEPT !.timer = i] \in Limit /\ [limit EXCEPT !.timer = i].timer = i
           /\ [limit EXCEPT !.timer = i].active = limit.active
           /\ [limit EXCEPT !.count = n, !.active = a, !.timer = i] \in Limit
           /\ [limit EXCEPT !.count = n, !.active = a, !.timer = i].active = a
           /\ [limit EXCEPT !.count = n, !.active = a, !.timer = i].timer = i
BY DEF Limit

LEMMA Lifting ==
    ASSUME limit \in Limit, NEW b \in BOOLEAN
    PROVE  [Lifted EXCEPT !.on = b] \in Limit /\ [Lifted EXCEPT !.on = b].active = FALSE
           /\ [Lifted EXCEPT !.on = b].timer = limit.timer
<1>1. 0 \in 0..LimitJoinMax
  BY ChannelGuardAssumption
<1> QED
  BY <1>1 DEF Limit, Lifted

(* There is an identifier for the next timer.                              *)
LEMMA NewTimerIs ==
    ASSUME limit \in Limit, timers \subseteq {limit.timer}
    PROVE  NewTimer \in 0..MaxTimer
<1>1. MaxTimer \in Nat /\ MaxTimer > 1
  BY ChannelGuardAssumption
<1>2. \E i \in TimerID : i # limit.timer
  <2>1. 1 \in TimerID /\ 2 \in TimerID
    BY <1>1 DEF TimerID
  <2> QED
    BY <2>1
<1>3. \E i : i \in TimerID \ (timers \cup {limit.timer})
  BY <1>2
<1>4. NewTimer \in TimerID
  BY <1>3 DEF NewTimer
<1> QED
  BY <1>1, <1>4 DEF TimerID

LEMMA JoinLimitKeeps ==
    ASSUME LInv, record, ~freed, record' = record, freed' = freed,
           NEW late \in BOOLEAN, NEW b, NEW locked \in {lockedBy, "none"},
           doJoinLimit(late, b, locked)
    PROVE  LInv'
<1> DEFINE n == Min({limit.count + 1, LimitJoinMax})
<1> DEFINE i == NewTimer
<1>1. limit \in Limit /\ timers \subseteq {limit.timer} /\ Counted /\ Unlocked
  BY DEF LInv
<1>2. limit.count \in 0..LimitJoinMax
  BY <1>1 DEF Limit
<1>3. n \in 0..LimitJoinMax /\ 1 \in 0..LimitJoinMax
  BY <1>2, Counting
<1>4. i \in 0..MaxTimer
  BY <1>1, NewTimerIs
<1>5. \/ /\ limit.active
         /\ limit' = [limit EXCEPT !.timer = i]
         /\ timers' = (timers \ {limit.timer}) \cup {i}
      \/ /\ ~limit.active /\ limit' = [limit EXCEPT !.count = 1] /\ lockedBy' = locked
         /\ timers' = timers
      \/ /\ ~limit.active /\ limit' = [limit EXCEPT !.count = n] /\ lockedBy' = locked
         /\ timers' = timers
      \/ /\ limit' = [limit EXCEPT !.count = n, !.active = TRUE, !.timer = i]
         /\ timers' = (timers \ {limit.timer}) \cup {i}
  <2>1. CASE limit.active
    BY <2>1 DEF doJoinLimit, Renewed
  <2>2. CASE ~limit.active /\ (late \/ limit.count = 0)
    BY <2>2 DEF doJoinLimit
  <2>3. CASE ~limit.active /\ ~(late \/ limit.count = 0)
    <3>1. CASE n < LimitJoinMax \/ b # "op" \/ locked \in {"bot", "user"}
      BY <2>3, <3>1 DEF doJoinLimit
    <3>2. CASE ~(n < LimitJoinMax \/ b # "op" \/ locked \in {"bot", "user"})
      BY <2>3, <3>2 DEF doJoinLimit
    <3> QED
      BY <3>1, <3>2
  <2> QED
    BY <2>1, <2>2, <2>3
<1> HIDE DEF n, i
<1>6. CASE /\ limit.active /\ limit' = [limit EXCEPT !.timer = i]
           /\ timers' = (timers \ {limit.timer}) \cup {i}
  <2>1. limit' \in Limit /\ limit'.timer = i /\ limit'.active
    BY <1>1, <1>4, <1>6, Edited, <1>3
  <2> QED
    BY <1>1, <1>6, <2>1 DEF LInv, Counted, Unlocked
<1>7. CASE /\ ~limit.active /\ timers' = timers /\ lockedBy' = locked
           /\ \E k \in {1, n} : limit' = [limit EXCEPT !.count = k]
  <2>1. limit' \in Limit /\ limit'.timer = limit.timer /\ limit'.active = limit.active
    <3>1. PICK k \in 0..LimitJoinMax : limit' = [limit EXCEPT !.count = k]
      BY <1>3, <1>7
    <3> QED
      BY <1>1, <1>4, <3>1, Edited
  <2> QED
    BY <1>1, <1>7, <2>1 DEF LInv, Counted, Unlocked
<1>8. CASE /\ limit' = [limit EXCEPT !.count = n, !.active = TRUE, !.timer = i]
           /\ timers' = (timers \ {limit.timer}) \cup {i}
  <2>1. limit' \in Limit
    BY <1>1, <1>3, <1>4, <1>8 DEF Limit
  <2>2. limit'.timer = i /\ limit'.active = TRUE
    BY <1>1, <1>8 DEF Limit
  <2> QED
    BY <1>1, <1>8, <2>1, <2>2 DEF LInv, Counted, Unlocked
<1> QED
  BY <1>5, <1>6, <1>7, <1>8

LEMMA UndoKeeps ==
    ASSUME LInv, record' = record, timers' = timers \ {limit.timer},
           NEW b \in BOOLEAN, undoJoinLimits(b)
    PROVE  LInv'
<1>1. limit \in Limit
  BY DEF LInv
<1>2. CASE limit' = [Lifted EXCEPT !.on = b] /\ lockedBy' \in {"none", "left"} /\ UNCHANGED freed
  <2>1. limit' \in Limit /\ ~limit'.active /\ limit'.timer = limit.timer
    BY <1>1, <1>2, Lifting
  <2> QED
    BY <1>2, <2>1 DEF LInv, Counted, Unlocked
<1>3. CASE freed' = TRUE /\ UNCHANGED <<limit, lockedBy>>
  BY <1>3 DEF LInv
<1> QED
  BY <1>2, <1>3 DEF undoJoinLimits

(* Nothing of the limit changes, or the mode alone.                        *)
LEMMA UnlimitedKeeps ==
    ASSUME LInv, UNCHANGED <<limit, timers, record, freed>>,
           lockedBy' # "bot" \/ lockedBy' = lockedBy
    PROVE  LInv'
BY DEF LInv, Counted, Unlocked

LEMMA TimerKeeps == ASSUME LInv, ~freed, NEW id \in TimerID, OnTimer(id) PROVE LInv'
<1>1. limit \in Limit /\ limit.on \in BOOLEAN
  BY DEF LInv, Limit
<1>2. CASE ~record
  BY <1>1, <1>2 DEF LInv, OnTimer, flags
<1>3. CASE record
  <2>1. timers \subseteq {limit.timer} /\ id \in timers /\ id = limit.timer /\ Counted /\ Unlocked
    BY <1>3 DEF LInv, OnTimer
  <2>2. record' = record /\ timers' = timers \ {limit.timer}
    BY <2>1 DEF OnTimer, flags
  <2>3. CASE limit.active
    BY <1>3, <2>1, <2>2, <2>3, <1>1, UndoKeeps DEF OnTimer
  <2>4. CASE ~limit.active
    BY <1>3, <2>1, <2>2, <2>4 DEF OnTimer, LInv, Counted, Unlocked
  <2> QED
    BY <2>3, <2>4
<1> QED
  BY <1>2, <1>3

LEMMA SETJoinlimKeeps ==
    ASSUME LInv, ~freed, NEW c, NEW on \in BOOLEAN, SETJoinlim(c, on) PROVE LInv'
<1>1. limit \in Limit /\ record' = record /\ record
  BY DEF LInv, SETJoinlim, Asks, flags
<1>2. 0 \in 0..LimitJoinMax /\ 0 \in 0..MaxTimer
  BY ChannelGuardAssumption
<1>3. CASE on
  <2>1. limit' = [limit EXCEPT !.on = TRUE, !.count = 0] /\ UNCHANGED <<timers, lockedBy, freed>>
    BY <1>3 DEF SETJoinlim
  <2>2. limit' \in Limit /\ limit'.active = limit.active /\ limit'.timer = limit.timer
    BY <1>1, <1>2, <2>1, Edited
  <2> QED
    BY <1>1, <2>1, <2>2 DEF LInv, Counted, Unlocked
<1>4. CASE ~on /\ limit.active
  BY <1>1, <1>4, UndoKeeps DEF SETJoinlim
<1>5. CASE ~on /\ ~limit.active
  <2>1. limit' = [limit EXCEPT !.on = FALSE] /\ UNCHANGED <<timers, lockedBy, freed>>
    BY <1>5 DEF SETJoinlim
  <2>2. limit' \in Limit /\ limit'.active = limit.active /\ limit'.timer = limit.timer
    BY <1>1, <1>2, <2>1, Edited
  <2> QED
    BY <1>1, <2>1, <2>2 DEF LInv, Counted, Unlocked
<1> QED
  BY <1>3, <1>4, <1>5

LEMMA SETJoinperiodKeeps ==
    ASSUME LInv, ~freed, NEW c, NEW over \in BOOLEAN, SETJoinperiod(c, over) PROVE LInv'
<1>1. limit \in Limit /\ record' = record /\ record /\ limit.active /\ limit.on \in BOOLEAN
  BY DEF LInv, SETJoinperiod, Asks, flags, Limit
<1>2. CASE over
  BY <1>1, <1>2, UndoKeeps DEF SETJoinperiod
<1>3. CASE ~over
  <2> DEFINE i == NewTimer
  <2>1. i \in 0..MaxTimer /\ 0 \in 0..LimitJoinMax
    BY <1>1, NewTimerIs, ChannelGuardAssumption DEF LInv
  <2>2. limit' = [limit EXCEPT !.timer = i] /\ timers' = (timers \ {limit.timer}) \cup {i}
    BY <1>3 DEF SETJoinperiod, Renewed
  <2> HIDE DEF i
  <2>3. limit' \in Limit /\ limit'.active /\ limit'.timer = i
    BY <1>1, <2>1, <2>2, Edited
  <2>4. timers \subseteq {limit.timer} /\ freed' = freed
    BY <1>1, <1>3 DEF LInv, SETJoinperiod
  <2> QED
    BY <1>1, <2>2, <2>3, <2>4 DEF LInv, Counted, Unlocked
<1> QED
  BY <1>2, <1>3

LEMMA NetworkKeeps == ASSUME LInv, ~freed, FromNetwork PROVE LInv'
<1>1. ASSUME NEW c \in Client, Burst(c) PROVE LInv'
  BY <1>1, UnlimitedKeeps DEF Burst, flags
<1>2. ASSUME NEW c \in Client, Leave(c) \/ Quit(c) \/ Login(c) PROVE LInv'
  BY <1>2, UnlimitedKeeps DEF Leave, Quit, Login, flags, limits
<1>3. ASSUME NEW c \in Client, NEW late \in BOOLEAN, Join(c, late) PROVE LInv'
  <2>1. record' = record /\ freed' = freed
    BY <1>3 DEF Join, flags
  <2>2. CASE Guards /\ limit.on /\ BanOn(c) = 0 /\ account[c] = NoUser
    <3>1. record /\ doJoinLimit(late, bot, lockedBy)
      BY <1>3, <2>2 DEF Join, Guards
    <3> QED
      BY <2>1, <3>1, JoinLimitKeeps
  <2>3. CASE ~(Guards /\ limit.on /\ BanOn(c) = 0 /\ account[c] = NoUser)
    <3>1. UNCHANGED limits
      BY <1>3, <2>3 DEF Join
    <3> QED
      BY <2>1, <3>1, UnlimitedKeeps DEF limits
  <2> QED
    BY <2>2, <2>3
<1>4. ASSUME NEW c \in Client, NEW late \in BOOLEAN, Create(c, late) PROVE LInv'
  <2>1. record' = record /\ freed' = freed
    BY <1>4 DEF Create, flags
  <2>2. CASE Guards /\ limit.on /\ BanOn(c) = 0 /\ account[c] = NoUser
    <3>1. record /\ \E b : doJoinLimit(late, b, "none")
      BY <1>4, <2>2 DEF Create, Guards
    <3> QED
      BY <2>1, <3>1, JoinLimitKeeps
  <2>3. CASE ~(Guards /\ limit.on /\ BanOn(c) = 0 /\ account[c] = NoUser)
    <3>1. lockedBy' = "none" /\ UNCHANGED <<limit, timers>>
      BY <1>4, <2>3 DEF Create
    <3> QED
      BY <2>1, <3>1, UnlimitedKeeps
  <2> QED
    BY <2>2, <2>3
<1>5. ASSUME NEW S, NEW D, NEW src, NEW d, Mode(src, S, D, d) PROVE LInv'
  BY <1>5, UnlimitedKeeps DEF Mode, flags, limits
<1>6. CASE OpBot \/ KickBot
  BY <1>6, UnlimitedKeeps DEF OpBot, KickBot, flags, limits
<1>7. CASE ModeByUser
  BY <1>7, UnlimitedKeeps DEF ModeByUser, flags
<1>8. ASSUME NEW S, NEW rest, NEW src, OpBotAnd(src, S, rest) PROVE LInv'
  BY <1>8 DEF OpBotAnd, flags, limits, LInv, Counted, Unlocked
<1> QED
  BY <1>1, <1>2, <1>3, <1>4, <1>5, <1>6, <1>7, <1>8 DEF FromNetwork

LEMMA CommandKeeps == ASSUME LInv, ~freed, Command PROVE LInv'
<1>1. ASSUME NEW c, NEW S, OP(c, S) \/ DEOP(c, S) \/ KICK(c, S) PROVE LInv'
  BY <1>1, UnlimitedKeeps DEF OP, DEOP, KICK, flags, limits
<1>2. ASSUME NEW c, NEW m, NEW x, UNBAN(c, m, x) \/ BAN(c, m, x) PROVE LInv'
  BY <1>2, UnlimitedKeeps DEF UNBAN, BAN, flags, limits
<1>3. ASSUME NEW c, NEW on, SETNoop(c, on) \/ SETStrictop(c, on) PROVE LInv'
  BY <1>3, UnlimitedKeeps DEF SETNoop, SETStrictop, limits
<1>4. ASSUME NEW c, NEW x, PART(c) \/ JOIN(c, x) PROVE LInv'
  BY <1>4, UnlimitedKeeps DEF PART, JOIN, limits
<1>5. ASSUME NEW u, NEW a, SUSPEND(u) \/ UNSUSPEND(u) \/ SetAccess(u, a) PROVE LInv'
  BY <1>5, UnlimitedKeeps DEF SUSPEND, UNSUSPEND, SetAccess, flags, limits
<1>6. ASSUME NEW reop, PURGE(reop) PROVE LInv'
  <2>1. Idle \in Limit
    BY ChannelGuardAssumption DEF Idle, Limit
  <2> QED
    BY <1>6, <2>1 DEF PURGE, LInv
<1> QED
  BY <1>1, <1>2, <1>3, <1>4, <1>5, <1>6, SETJoinlimKeeps, SETJoinperiodKeeps DEF Command

LEMMA LimitStep == ASSUME LInv, [Next]_vars PROVE LInv'
<1>1. CASE UNCHANGED vars
  BY <1>1 DEF LInv, Counted, Unlocked, vars, limits, flags
<1>2. CASE Next /\ Timer
  <2>1. CASE performReops \/ \E i \in 1..Len(bans) : expireBans(i)
    BY <2>1, UnlimitedKeeps DEF performReops, expireBans, flags, limits
  <2> QED
    BY <1>2, <2>1, TimerKeeps DEF Next, Timer
<1> QED
  BY <1>1, <1>2, NetworkKeeps, CommandKeeps DEF Next

(* While the join limit is active a timer is pending that ends it,         *)
(* whichever joins, settings, timers and departures of the bot come in     *)
(* between; and when it is not the module knows of no mode it has set.     *)
(* That the network has none is not claimed: a bot that is no operator     *)
(* when the limit ends leaves its mode there ("left"; doJoinLimit, OnTimer,*)
(* undoJoinLimits of mod.cservice/cservice.cc).                            *)
THEOREM LimitHasTimer == Spec => []LimitSound
<1>1. Init => LInv
  <2> SUFFICES ASSUME Init PROVE LInv
    OBVIOUS
  <2>1. PICK b \in BOOLEAN : limit = [Idle EXCEPT !.on = b]
    <3>1. setting.joinLim \subseteq BOOLEAN
      BY ChannelGuardAssumption DEF Init
    <3>2. \E b \in setting.joinLim : limit = [Idle EXCEPT !.on = b]
      BY DEF Init
    <3> QED
      BY <3>1, <3>2
  <2>2. 0 \in 0..LimitJoinMax /\ 0 \in 0..MaxTimer
    BY ChannelGuardAssumption
  <2>3. limit \in Limit /\ ~limit.active
    BY <2>1, <2>2 DEF Idle, Limit
  <2> QED
    BY <2>3 DEF Init, LInv, Counted, Unlocked
<1>2. LInv => LimitSound
  BY DEF LInv, LimitSound, Counted, Unlocked
<1> QED
  BY <1>1, <1>2, LimitStep, PTL DEF Spec

-----------------------------------------------------------------------------
(* Operators.  What OpsKept asks of a step.                                *)
OpsStay ==
    Guards' /\ bot' = "op" => \A c \in op' :
        /\ NoOps(c) /\ NoOps(c)' => c \in op
        /\ noop' => c \in op /\ noop /\ bot = "op"
        /\ strictop' /\ Rank(c) < 100 /\ Rank(c)' < 100 => c \in op /\ strictop /\ bot = "op"

(* Nobody is opped, or nobody who may not be.                              *)
LEMMA NobodyOpped ==
    ASSUME op' \subseteq op, bot' = "op" => bot = "op", UNCHANGED <<noop, strictop>>
    PROVE  OpsStay
BY DEF OpsStay

LEMMA OpsChecked ==
    ASSUME NEW S, NEW src, NEW O, O \subseteq op, op' \subseteq Checked(O, S, src, bot'),
           bot' = "op" => bot = "op", UNCHANGED <<flags>>
    PROVE  OpsStay
<1> SUFFICES ASSUME Guards', bot' = "op", NEW c \in op', c \notin op
             PROVE  ~Refused(c)
  BY Zenon DEF OpsStay, flags, Refused, Wrong, Outsider
<1>1. Guards /\ Acts(bot')
  BY DEF Guards, flags, Acts
<1>2. c \in S /\ c \notin Deopped(S, src)
  BY <1>1 DEF Checked
<1> QED
  BY <1>1, <1>2 DEF Deopped

LEMMA LeavesLess == ASSUME NEW M, NEW O, NEW called, Leaves(M, O, called) PROVE op' \subseteq O
BY DEF Leaves

LEMMA NetworkOps == ASSUME FromNetwork PROVE OpsStay
<1>1. ASSUME NEW c \in Client, NEW late \in BOOLEAN, Join(c, late) PROVE OpsStay
  <2> DEFINE opped == Guards /\ BanOn(c) = 0 /\ AutoOpped(account[c]) /\ Acts(bot)
                      /\ ~(strictop /\ Outsider(c))
  <2>1. UNCHANGED <<bot, flags>>
        /\ op' \subseteq (IF opped THEN Checked(op, {c}, None, bot) ELSE op)
    BY <1>1, LeavesLess DEF Join
  <2> HIDE DEF opped
  <2>2. CASE opped
    BY <2>1, <2>2, OpsChecked DEF flags
  <2>3. CASE ~opped
    BY <2>1, <2>3, NobodyOpped DEF flags
  <2> QED
    BY <2>2, <2>3
<1>2. ASSUME NEW c \in Client, Burst(c) PROVE OpsStay
  <2>1. UNCHANGED <<bot, flags>> /\ op' \subseteq Checked(op, {c}, None, bot)
    BY <1>2, LeavesLess DEF Burst
  <2> QED
    BY <2>1, OpsChecked DEF flags
<1>3. ASSUME NEW c \in Client, NEW late \in BOOLEAN, Create(c, late) PROVE OpsStay
  BY <1>3 DEF Create, OpsStay
<1>4. ASSUME NEW c \in Client, Leave(c) \/ Quit(c) PROVE OpsStay
  BY <1>4, NobodyOpped DEF Leave, Quit, flags
<1>5. ASSUME NEW S, NEW D, NEW src, NEW d, Mode(src, S, D, d) PROVE OpsStay
  <2> DEFINE b == IF d /\ bot = "op" THEN "plain" ELSE bot
  <2>1. UNCHANGED flags /\ bot' = b /\ op' \subseteq Checked(op \ D, S, src, b)
    BY <1>5, LeavesLess DEF Mode
  <2>2. b = "op" => bot = "op"
    OBVIOUS
  <2> HIDE DEF b
  <2> QED
    BY <2>1, <2>2, OpsChecked DEF flags
<1>6. CASE OpBot
  BY <1>6 DEF OpBot, OpsStay, doTheRightThing, KeepsOp, Guards, flags, Outsider
<1>7. CASE KickBot
  BY <1>7 DEF KickBot, OpsStay
<1>8. CASE ModeByUser
  BY <1>8, NobodyOpped DEF ModeByUser, flags
<1>9. ASSUME NEW c \in Client, Login(c) PROVE OpsStay
  <2>1. /\ UNCHANGED <<bot, flags>>
        /\ op' \subseteq op \cup (IF ~noop /\ ~Wrong(c)' THEN {c} ELSE {})
    <3> DEFINE opped == Guards /\ c \in member /\ bot = "op" /\ AutoOpped(LoginOf[c])
    <3> DEFINE late == opped /\ ~Wrong(c)'
    <3>1. UNCHANGED <<bot, flags>> /\ op' \subseteq (IF late THEN op \cup {c} ELSE op)
      BY <1>9, LeavesLess, Zenon DEF Login
    <3>2. late => ~noop /\ ~Wrong(c)'
      BY DEF AutoOpped
    <3> HIDE DEF late
    <3> QED
      BY <3>1, <3>2
  <2> SUFFICES ASSUME bot' = "op", NEW d \in op', d \notin op
               PROVE  ~noop' /\ ~Wrong(d)'
    BY <2>1, Zenon DEF OpsStay, Wrong, Outsider, flags
  <2> QED
    BY <2>1 DEF flags
<1>10. ASSUME NEW S, NEW rest, NEW src, OpBotAnd(src, S, rest) PROVE OpsStay
  <2>1. bot = "plain" /\ UNCHANGED flags
    BY <1>10 DEF OpBotAnd
  <2> SUFFICES ASSUME Guards', bot' = "op", NEW c \in op'
               PROVE  ~noop /\ ~(strictop /\ Outsider(c)) /\ (NoOps(c) => c \in op)
    BY <2>1 DEF OpsStay, flags, Outsider
  <2>2. Guards /\ op' = {d \in op \cup S : Guards => KeepsOp(d)} \ Deopped(S, src)
    BY <1>10, <2>1 DEF OpBotAnd, Guards, flags
  <2>3. KeepsOp(c) /\ (c \in op \/ (c \in S /\ c \notin Deopped(S, src)))
    BY <2>2
  <2>4. c \in op \/ ~Refused(c)
    BY <2>2, <2>3 DEF Deopped
  <2> QED
    BY <2>3, <2>4 DEF KeepsOp, Refused, Wrong
<1> QED
  BY <1>1, <1>2, <1>3, <1>4, <1>5, <1>6, <1>7, <1>8, <1>9, <1>10 DEF FromNetwork

LEMMA CommandOps == ASSUME Command PROVE OpsStay
<1>1. ASSUME NEW c, NEW S, OP(c, S) PROVE OpsStay
  BY <1>1, OpsChecked DEF OP, flags
<1>2. ASSUME NEW c, NEW S, DEOP(c, S) \/ KICK(c, S) PROVE OpsStay
  BY <1>2, LeavesLess, NobodyOpped DEF DEOP, KICK, flags
<1>3. ASSUME NEW c, NEW m, NEW x, UNBAN(c, m, x) \/ BAN(c, m, x) PROVE OpsStay
  BY <1>3, NobodyOpped DEF UNBAN, BAN, flags
<1>4. ASSUME NEW c, NEW on, SETNoop(c, on) PROVE OpsStay
  BY <1>4 DEF SETNoop, OpsStay, Guards, Present
<1>5. ASSUME NEW c, NEW on, SETStrictop(c, on) PROVE OpsStay
  BY <1>5 DEF SETStrictop, OpsStay, Guards, Present, Outsider
<1>6. ASSUME NEW c, NEW on, SETJoinlim(c, on) \/ SETJoinperiod(c, on) PROVE OpsStay
  BY <1>6, NobodyOpped DEF SETJoinlim, SETJoinperiod, flags
<1>7. ASSUME NEW c, NEW x, JOIN(c, x) PROVE OpsStay
  BY <1>7 DEF JOIN, OpsStay, KeepsOp, Outsider
<1>8. ASSUME NEW c, NEW x, PART(c) \/ PURGE(x) PROVE OpsStay
  BY <1>8 DEF PART, PURGE, OpsStay, Guards
<1>9. ASSUME NEW u, NEW a, SUSPEND(u) \/ UNSUSPEND(u) \/ SetAccess(u, a) PROVE OpsStay
  BY <1>9, NobodyOpped DEF SUSPEND, UNSUSPEND, SetAccess, flags
<1> QED
  BY <1>1, <1>2, <1>3, <1>4, <1>5, <1>6, <1>7, <1>8, <1>9 DEF Command

LEMMA TimerOps == ASSUME Timer PROVE OpsStay
<1>1. ASSUME NEW id, OnTimer(id) PROVE OpsStay
  BY <1>1, NobodyOpped DEF OnTimer, flags
<1>2. CASE performReops
  BY <1>2 DEF performReops, OpsStay, doTheRightThing, KeepsOp, Guards, flags, Outsider
<1>3. ASSUME NEW i, expireBans(i) PROVE OpsStay
  BY <1>3, NobodyOpped DEF expireBans, flags
<1> QED
  BY <1>1, <1>2, <1>3 DEF Timer

(* While the bot is an operator nobody becomes one whom NOOP, STRICTOP or  *)
(* a ban forbids it, however he is opped, and the flags take it from those *)
(* who have it (OnChannelModeO, doTheRightThing and doCommonAuth of        *)
(* mod.cservice/cservice.cc, OP and SET).                                  *)
THEOREM OpsAreKept == Spec => OpsKept
<1>1. [Next]_vars => [OpsStay]_vars
  BY NetworkOps, CommandOps, TimerOps DEF Next
<1> QED
  BY <1>1, PTL DEF Spec, OpsKept, OpsStay

-----------------------------------------------------------------------------
(* Bans.  Without is a recursive function; what it leaves is shown by the  *)
(* least number of bans it would fail for.                                 *)
LEMMA Least == ASSUME NEW S \in SUBSET Nat, S # {} PROVE \E m \in S : \A n \in S : m =< n
<1>1. PICK m \in S : \A n \in S : ~(<<n, m>> \in OpToRel(<, Nat))
  BY NatLessThanWellFounded, WFMin
<1>2. \A n \in S : m =< n
  <2> SUFFICES ASSUME NEW n \in S PROVE m =< n
    OBVIOUS
  <2>1. ~(n < m)
    BY <1>1 DEF OpToRel
  <2> QED
    BY <2>1
<1> QED
  BY <1>2

(* f is what the definition of Without makes of the first n bans of s.     *)
Keeps(s, gone, n, f) ==
    f = [i \in 0..n |->
            IF i = 0 THEN <<>> ELSE IF s[i] \in gone THEN f[i - 1] ELSE Append(f[i - 1], s[i])]

LEMMA KeepsExists == ASSUME NEW s, NEW gone, NEW n \in Nat PROVE \E f : Keeps(s, gone, n, f)
<1> DEFINE Bad == {k \in Nat : \A f : ~Keeps(s, gone, k, f)}
<1> SUFFICES ASSUME Bad # {} PROVE FALSE
  OBVIOUS
<1>1. PICK m \in Bad : \A k \in Bad : m =< k
  <2>1. Bad \in SUBSET Nat
    OBVIOUS
  <2> HIDE DEF Bad
  <2> QED
    BY <2>1, Least
<1>2. CASE m = 0
  <2>1. Keeps(s, gone, 0, [i \in 0..0 |-> <<>>])
    BY DEF Keeps
  <2> QED
    BY <1>2, <2>1
<1>3. CASE m # 0
  <2>1. m \in Nat /\ m - 1 \in Nat /\ ~(m =< m - 1)
    BY <1>3
  <2>2. PICK g : Keeps(s, gone, m - 1, g)
    BY <1>1, <2>1
  <2> DEFINE e == IF s[m] \in gone THEN g[m - 1] ELSE Append(g[m - 1], s[m])
  <2> DEFINE h == [i \in 0..m |-> IF i = m THEN e ELSE g[i]]
  <2>3. \A i \in 0..m : i = m \/ i \in 0..(m - 1)
    BY <2>1
  <2>4. \A i \in 0..m : i # 0 => i - 1 \in 0..(m - 1) /\ i - 1 \in 0..m /\ i - 1 # m
    BY <2>1
  <2>5. \A i \in 0..(m - 1) : h[i] = g[i]
    BY <2>1
  <2>6. \A i \in 0..(m - 1) :
           g[i] = IF i = 0 THEN <<>> ELSE IF s[i] \in gone THEN g[i - 1] ELSE Append(g[i - 1], s[i])
    BY <2>2 DEF Keeps
  <2>7. ASSUME NEW i \in 0..m
        PROVE  h[i] = IF i = 0 THEN <<>> ELSE IF s[i] \in gone THEN h[i - 1] ELSE Append(h[i - 1], s[i])
    <3>1. CASE i = m
      <4>1. h[i] = e /\ i # 0
        BY <1>3, <3>1
      <4>2. h[i - 1] = g[m - 1]
        BY <2>4, <2>5, <3>1, <4>1
      <4> HIDE DEF h
      <4> QED
        BY <3>1, <4>1, <4>2
    <3>2. CASE i # m
      <4>1. i \in 0..(m - 1) /\ h[i] = g[i]
        BY <2>3, <2>5, <3>2
      <4>2. i # 0 => h[i - 1] = g[i - 1]
        BY <2>4, <2>5
      <4> HIDE DEF h
      <4> QED
        BY <2>6, <4>1, <4>2
    <3> QED
      BY <3>1, <3>2
  <2>8. h = [i \in 0..m |-> h[i]]
    OBVIOUS
  <2> HIDE DEF h
  <2>9. Keeps(s, gone, m, h)
    BY <2>7, <2>8 DEF Keeps
  <2> QED
    BY <2>9
<1> QED
  BY <1>2, <1>3

LEMMA WithoutIs ==
    ASSUME NEW T, NEW s \in Seq(T), NEW gone
    PROVE  \E f : Keeps(s, gone, Len(s), f) /\ Without(s, gone) = f[Len(s)]
<1> DEFINE kept == CHOOSE f : Keeps(s, gone, Len(s), f)
<1>1. Keeps(s, gone, Len(s), kept)
  <2>1. Len(s) \in Nat
    OBVIOUS
  <2> QED
    BY <2>1, KeepsExists
<1>2. Without(s, gone) = kept[Len(s)]
  BY DEF Without, Keeps
<1> QED
  BY <1>1, <1>2

Ban == [mask : Mask, level : 1..500]

(* t is what is left of the first n bans of s: the first of those in H is  *)
(* still the first of them.                                                *)
Left(s, gone, H, n, t) ==
    /\ t \in Seq(Ban)
    /\ \A p \in 1..Len(t) : t[p] \notin gone /\ \E j \in 1..n : t[p] = s[j]
    /\ \A a \in 1..n :
          s[a] \in H \ gone /\ (\A j \in 1..n : j < a => s[j] \notin H) =>
              \E p \in 1..Len(t) : t[p] = s[a] /\ \A q \in 1..Len(t) : q < p => t[q] \notin H

LEMMA LeftStep ==
    ASSUME NEW s \in Seq(Ban), NEW gone, NEW H, NEW n \in 1..Len(s), NEW t,
           Left(s, gone, H, n - 1, t)
    PROVE  Left(s, gone, H, n, IF s[n] \in gone THEN t ELSE Append(t, s[n]))
<1>1. /\ t \in Seq(Ban) /\ n \in Nat /\ n \in 1..n /\ s[n] \in Ban /\ Len(t) \in Nat
      /\ \A j \in 1..(n - 1) : j \in 1..n /\ j < n
      /\ \A j \in 1..n : j = n \/ j \in 1..(n - 1)
  BY DEF Left
<1>2. \A p \in 1..Len(t) : t[p] \notin gone /\ \E j \in 1..n : t[p] = s[j]
  BY <1>1 DEF Left
<1>3. ASSUME NEW a \in 1..(n - 1), s[a] \in H \ gone, \A j \in 1..n : j < a => s[j] \notin H
      PROVE  \E p \in 1..Len(t) : t[p] = s[a] /\ \A q \in 1..Len(t) : q < p => t[q] \notin H
  <2>1. \A j \in 1..(n - 1) : j < a => s[j] \notin H
    BY <1>1, <1>3
  <2> QED
    BY <1>3, <2>1 DEF Left
<1>4. CASE s[n] \in gone
  <2>1. Left(s, gone, H, n, t)
    BY <1>1, <1>2, <1>3, <1>4 DEF Left
  <2> QED
    BY <1>4, <2>1
<1>5. CASE s[n] \notin gone
  <2> DEFINE u == Append(t, s[n])
  <2>1. /\ u \in Seq(Ban) /\ Len(u) = Len(t) + 1 /\ u[Len(t) + 1] = s[n]
        /\ \A p \in 1..Len(t) : u[p] = t[p]
    BY <1>1
  <2>2. /\ \A p \in 1..(Len(t) + 1) : p \in 1..Len(t) \/ p = Len(t) + 1
        /\ \A p \in 1..Len(t) : p \in 1..(Len(t) + 1) /\ p < Len(t) + 1 /\ ~(Len(t) + 1 < p)
        /\ Len(t) + 1 \in 1..(Len(t) + 1)
    BY <1>1
  <2> HIDE DEF u
  <2>3. \A p \in 1..Len(u) : u[p] \notin gone /\ \E j \in 1..n : u[p] = s[j]
    BY <1>1, <1>2, <1>5, <2>1, <2>2
  <2>4. ASSUME NEW a \in 1..n, s[a] \in H \ gone, \A j \in 1..n : j < a => s[j] \notin H
        PROVE  \E p \in 1..Len(u) : u[p] = s[a] /\ \A q \in 1..Len(u) : q < p => u[q] \notin H
    <3>1. CASE a = n
      <4>1. \A p \in 1..Len(t) : t[p] \notin H
        <5> SUFFICES ASSUME NEW p \in 1..Len(t) PROVE t[p] \notin H
          OBVIOUS
        <5>1. PICK j \in 1..(n - 1) : t[p] = s[j]
          BY DEF Left
        <5> QED
          BY <1>1, <2>4, <3>1, <5>1
      <4>2. \A q \in 1..Len(u) : q < Len(t) + 1 => u[q] \notin H
        BY <1>1, <2>1, <2>2, <4>1
      <4> QED
        BY <2>1, <2>2, <3>1, <4>2
    <3>2. CASE a # n
      <4>1. PICK p \in 1..Len(t) : t[p] = s[a] /\ \A q \in 1..Len(t) : q < p => t[q] \notin H
        BY <1>1, <1>3, <2>4, <3>2
      <4>2. \A q \in 1..Len(u) : q < p => u[q] \notin H
        BY <2>1, <2>2, <4>1
      <4> QED
        BY <2>1, <2>2, <4>1, <4>2
    <3> QED
      BY <3>1, <3>2
  <2>5. Left(s, gone, H, n, u)
    BY <2>1, <2>3, <2>4 DEF Left
  <2> QED
    BY <1>5, <2>5 DEF u
<1> QED
  BY <1>4, <1>5

LEMMA WithoutLeaves ==
    ASSUME NEW s \in Seq(Ban), NEW gone, NEW H
    PROVE  Left(s, gone, H, Len(s), Without(s, gone))
<1>1. PICK f : Keeps(s, gone, Len(s), f) /\ Without(s, gone) = f[Len(s)]
  BY WithoutIs
<1> DEFINE N == Len(s)
<1>2. N \in Nat
  OBVIOUS
<1>3. \A i \in 0..N :
         f[i] = IF i = 0 THEN <<>> ELSE IF s[i] \in gone THEN f[i - 1] ELSE Append(f[i - 1], s[i])
  BY <1>1 DEF Keeps
<1> DEFINE Bad == {i \in 0..N : ~Left(s, gone, H, i, f[i])}
<1>4. SUFFICES ASSUME Bad # {} PROVE FALSE
  BY <1>1, <1>2
<1>5. PICK m \in Bad : \A k \in Bad : m =< k
  <2>1. Bad \in SUBSET Nat
    BY <1>2
  <2> HIDE DEF Bad
  <2> QED
    BY <1>4, <2>1, Least
<1>6. CASE m = 0
  <2>1. f[0] = <<>>
    BY <1>2, <1>3
  <2>2. Left(s, gone, H, 0, <<>>)
    BY DEF Left
  <2> QED
    BY <1>5, <1>6, <2>1, <2>2
<1>7. CASE m # 0
  <2>1. m \in 1..N /\ m - 1 \in 0..N /\ ~(m =< m - 1)
    BY <1>2, <1>7
  <2>2. Left(s, gone, H, m - 1, f[m - 1])
    BY <1>5, <2>1
  <2>3. f[m] = IF s[m] \in gone THEN f[m - 1] ELSE Append(f[m - 1], s[m])
    BY <1>3, <1>7
  <2>4. Left(s, gone, H, m, f[m])
    BY <2>1, <2>2, <2>3, LeftStep
  <2> QED
    BY <2>4
<1> QED
  BY <1>6, <1>7

-----------------------------------------------------------------------------
(* The ban of s that decides about c, and its level.                       *)
Selected(s, c) == SelectInSeq(s, LAMBDA b : c \in Matches[b.mask])
LevelOn(s, c) == IF Selected(s, c) = 0 THEN 0 ELSE s[Selected(s, c)].level
On(c) == {b \in Ban : c \in Matches[b.mask]}

LEMMA Selecting ==
    ASSUME NEW s \in Seq(Ban), NEW c
    PROVE  \/ Selected(s, c) = 0 /\ \A i \in 1..Len(s) : s[i] \notin On(c)
           \/ /\ Selected(s, c) \in 1..Len(s) /\ s[Selected(s, c)] \in On(c)
              /\ \A i \in 1..Len(s) : i < Selected(s, c) => s[i] \notin On(c)
<1> DEFINE I == {i \in 1..Len(s) : c \in Matches[s[i].mask]}
<1>1. \A i \in 1..Len(s) : s[i] \in Ban /\ (i \in I <=> s[i] \in On(c))
  BY DEF On
<1>2. Selected(s, c) = IF I = {} THEN 0 ELSE Min(I)
  BY DEF Selected, SelectInSeq
<1>3. I \in SUBSET Nat
  OBVIOUS
<1>4. I \subseteq 1..Len(s)
  OBVIOUS
<1> HIDE DEF I
<1>5. CASE I = {}
  BY <1>1, <1>2, <1>5
<1>6. CASE I # {}
  <2>1. PICK m \in I : \A n \in I : m =< n
    BY <1>3, <1>6, Least
  <2>2. Min(I) \in I /\ \A n \in I : Min(I) =< n
    BY <2>1 DEF Min
  <2> DEFINE d == Min(I)
  <2>3. Selected(s, c) = d
    BY <1>2, <1>6
  <2> HIDE DEF d
  <2>4. d \in I /\ \A n \in I : d =< n
    BY <2>2 DEF d
  <2>5. \A i \in 1..Len(s) : i < d => i \notin I
    BY <1>3, <2>4
  <2> QED
    BY <1>1, <1>4, <2>3, <2>4, <2>5
<1> QED
  BY <1>5, <1>6

LEMMA LevelRange == ASSUME NEW s \in Seq(Ban), NEW c PROVE LevelOn(s, c) \in 0..500
<1>1. CASE Selected(s, c) = 0
  BY <1>1 DEF LevelOn
<1>2. CASE Selected(s, c) # 0
  <2>1. s[Selected(s, c)] \in Ban
    BY <1>2, Selecting
  <2>2. LevelOn(s, c) \in 1..500
    BY <1>2, <2>1 DEF LevelOn, Ban
  <2>3. 1..500 \subseteq 0..500
    OBVIOUS
  <2> QED
    BY <2>2, <2>3
<1> QED
  BY <1>1, <1>2

(* The first ban on c decides.                                             *)
LEMMA FirstDecides ==
    ASSUME NEW s \in Seq(Ban), NEW c, NEW p \in 1..Len(s), s[p] \in On(c),
           \A q \in 1..Len(s) : q < p => s[q] \notin On(c)
    PROVE  Selected(s, c) = p /\ LevelOn(s, c) = s[p].level
<1>1. Selected(s, c) \in 1..Len(s) /\ s[Selected(s, c)] \in On(c)
      /\ \A i \in 1..Len(s) : i < Selected(s, c) => s[i] \notin On(c)
  BY Selecting
<1>2. ~(p < Selected(s, c)) /\ ~(Selected(s, c) < p)
  BY <1>1
<1>3. Selected(s, c) = p /\ p # 0
  BY <1>1, <1>2
<1> QED
  BY <1>3 DEF LevelOn

(* The ban that decides goes, or decides what is left.                     *)
LEMMA WithoutEases ==
    ASSUME NEW s \in Seq(Ban), NEW gone, NEW c, NEW t, t = Without(s, gone)
    PROVE  /\ t \in Seq(Ban)
           /\ \A p \in 1..Len(t) : t[p] \notin gone /\ \E j \in 1..Len(s) : t[p] = s[j]
           /\ \/ Selected(t, c) = 0
              \/ Selected(t, c) # 0 /\ LevelOn(t, c) = LevelOn(s, c)
              \/ LevelOn(s, c) > 0 /\ s[Selected(s, c)] \in gone
<1> DEFINE a == Selected(s, c)
<1>1. Left(s, gone, On(c), Len(s), t)
  BY WithoutLeaves
<1>2. t \in Seq(Ban) /\ \A p \in 1..Len(t) : t[p] \notin gone /\ \E j \in 1..Len(s) : t[p] = s[j]
  BY <1>1 DEF Left
<1>3. CASE a = 0
  <2>1. \A i \in 1..Len(s) : s[i] \notin On(c)
    BY <1>3, Selecting
  <2>2. \A p \in 1..Len(t) : t[p] \notin On(c)
    BY <1>2, <2>1
  <2>3. Selected(t, c) = 0
    BY <1>2, <2>2, Selecting
  <2> QED
    BY <1>2, <2>3
<1>4. CASE a # 0
  <2>1. /\ a \in 1..Len(s) /\ s[a] \in On(c) /\ s[a] \in Ban
        /\ \A i \in 1..Len(s) : i < a => s[i] \notin On(c)
    BY <1>4, Selecting
  <2>2. LevelOn(s, c) = s[a].level /\ s[a].level > 0
    <3>1. LevelOn(s, c) = s[a].level
      BY <1>4 DEF LevelOn
    <3>2. s[a].level \in 1..500
      BY <2>1 DEF Ban
    <3> DEFINE l == s[a].level
    <3>3. l \in 1..500 => l > 0
      <4> HIDE DEF l
      <4> QED
        OBVIOUS
    <3> QED
      BY <3>1, <3>2, <3>3
  <2>3. CASE s[a] \in gone
    BY <1>2, <2>2, <2>3
  <2>4. CASE s[a] \notin gone
    <3>1. PICK p \in 1..Len(t) : t[p] = s[a] /\ \A q \in 1..Len(t) : q < p => t[q] \notin On(c)
      BY <1>1, <2>1, <2>4 DEF Left
    <3>2. Selected(t, c) = p /\ LevelOn(t, c) = t[p].level
      BY <1>2, <2>1, <3>1, FirstDecides
    <3>3. p # 0
      BY <1>2
    <3> QED
      BY <1>2, <2>2, <3>1, <3>2, <3>3
  <2> QED
    BY <2>3, <2>4
<1> QED
  BY <1>3, <1>4

(* A new ban at the end decides if no other does.                          *)
LEMMA AppendDecides ==
    ASSUME NEW s \in Seq(Ban), NEW b \in Ban, NEW c
    PROVE  /\ Append(s, b) \in Seq(Ban)
           /\ Selected(s, c) # 0 => LevelOn(Append(s, b), c) = LevelOn(s, c)
           /\ Selected(s, c) = 0 /\ LevelOn(Append(s, b), c) > 0 =>
                  c \in Matches[b.mask] /\ LevelOn(Append(s, b), c) = b.level
<1> DEFINE u == Append(s, b)
<1>1. /\ u \in Seq(Ban) /\ Len(u) = Len(s) + 1 /\ u[Len(s) + 1] = b /\ Len(s) \in Nat
      /\ \A p \in 1..Len(s) : u[p] = s[p]
  OBVIOUS
<1>2. /\ \A p \in 1..(Len(s) + 1) : p \in 1..Len(s) \/ p = Len(s) + 1
      /\ \A p \in 1..Len(s) : p \in 1..(Len(s) + 1) /\ ~(Len(s) + 1 < p)
      /\ Len(s) + 1 \in 1..(Len(s) + 1)
  BY <1>1
<1> HIDE DEF u
<1>3. CASE Selected(s, c) # 0
  <2> DEFINE a == Selected(s, c)
  <2>1. /\ a \in 1..Len(s) /\ s[a] \in On(c)
        /\ \A i \in 1..Len(s) : i < a => s[i] \notin On(c)
    BY <1>3, Selecting
  <2>2. LevelOn(s, c) = s[a].level
    BY <1>3 DEF LevelOn
  <2> HIDE DEF a
  <2>3. a \in 1..Len(u) /\ u[a] \in On(c) /\ \A i \in 1..Len(u) : i < a => u[i] \notin On(c)
    BY <1>1, <1>2, <2>1
  <2>4. LevelOn(u, c) = u[a].level
    BY <1>1, <2>3, FirstDecides
  <2> QED
    BY <1>1, <1>3, <2>1, <2>2, <2>4 DEF u
<1>4. CASE Selected(s, c) = 0
  <2>1. \A i \in 1..Len(s) : s[i] \notin On(c)
    BY <1>4, Selecting
  <2>2. CASE b \in On(c)
    <3>1. \A i \in 1..Len(u) : i < Len(s) + 1 => u[i] \notin On(c)
      BY <1>1, <1>2, <2>1
    <3>2. Len(s) + 1 \in 1..Len(u) /\ u[Len(s) + 1] \in On(c)
      BY <1>1, <1>2, <2>2
    <3> DEFINE k == Len(s) + 1
    <3>3. k \in 1..Len(u) /\ u[k] \in On(c) /\ \A i \in 1..Len(u) : i < k => u[i] \notin On(c)
      BY <3>1, <3>2
    <3>4. u[k] = b
      BY <1>1
    <3> HIDE DEF k
    <3>5. LevelOn(u, c) = b.level
      BY <1>1, <3>3, <3>4, FirstDecides
    <3> QED
      BY <1>1, <1>4, <2>2, <3>5 DEF u, On
  <2>3. CASE b \notin On(c)
    <3>1. \A i \in 1..Len(u) : u[i] \notin On(c)
      BY <1>1, <1>2, <2>1, <2>3
    <3>2. Selected(u, c) = 0
      BY <1>1, <3>1, Selecting
    <3>3. LevelOn(u, c) = 0
      BY <3>2 DEF LevelOn
    <3> QED
      BY <1>1, <1>4, <3>3 DEF u
  <2> QED
    BY <2>2, <2>3
<1> QED
  BY <1>3, <1>4

-----------------------------------------------------------------------------
(* What is inductive: bans are bans, operators are members.                *)
BInv == bans \in Seq(Ban) /\ op \subseteq member

(* What BansKept asks of a step.                                           *)
BansStay ==
    Guards /\ inChan' /\ bot # "away" /\ bot' = "op" =>
        \A c \in member' : Shut(c)' =>
            /\ c \in member
            /\ bot = "plain" => ~BanCheck
            /\ Shut(c) \/ Released(c) \/ PassedOver(c)

LEMMA ShutIs ==
    ASSUME NEW c
    PROVE  /\ Shut(c) <=> LevelOn(bans, c) >= 75
           /\ Shut(c)' <=> LevelOn(bans', c) >= 75
           /\ BanOn(c) = LevelOn(bans, c) /\ isBannedOnChan(c) = Selected(bans, c)
<1>1. isBannedOnChan(c) = Selected(bans, c)
  BY DEF isBannedOnChan, Selected, SelectInSeq
<1>2. isBannedOnChan(c)' = Selected(bans', c)
  BY DEF isBannedOnChan, Selected, SelectInSeq
<1>3. BanOn(c) = LevelOn(bans, c)
  BY <1>1 DEF BanOn, LevelOn
<1>4. BanOn(c)' = LevelOn(bans', c)
  BY <1>2 DEF BanOn, LevelOn
<1> QED
  BY <1>1, <1>3, <1>4 DEF Shut

LEMMA LeavesMembers ==
    ASSUME NEW M, NEW O, NEW called, Leaves(M, O, called)
    PROVE  member' \subseteq M /\ op' \subseteq member'
BY DEF Leaves, KeepsOp

(* The bans stay, and the bot a plain member or an operator.               *)
LEMMA SameBans ==
    ASSUME bans' = bans, bot' = "op" => bot = "op",
           \A c \in member' \ member : ~(Guards /\ bot' = "op" /\ Shut(c))
    PROVE  BansStay
BY ShutIs DEF BansStay

LEMMA Reopped ==
    ASSUME bans' = bans, member' \subseteq member, Guards => \A c \in member' : Stays(c)
    PROVE  BansStay
<1>1. ASSUME NEW c \in member', Guards, Shut(c) PROVE ~BanCheck
  BY <1>1 DEF Stays, checkBansOnJoin
<1> QED
  BY <1>1, ShutIs DEF BansStay

(* Some bans go.                                                           *)
LEMMA Unbanned ==
    ASSUME BInv, NEW gone, bans' = Without(bans, gone), member' = member, bot' = bot
    PROVE  BansStay /\ bans' \in Seq(Ban)
<1>1. ASSUME NEW c \in member', Shut(c)'
      PROVE  Shut(c) \/ Released(c)
  <2>1. bans \in Seq(Ban)
    BY DEF BInv
  <2>2. LevelOn(bans', c) >= 75
    BY <1>1, ShutIs
  <2>3. Selected(bans', c) # 0
    BY <2>2 DEF LevelOn
  <2>4. /\ \A p \in 1..Len(bans') : bans'[p] \notin gone
        /\ \/ LevelOn(bans', c) = LevelOn(bans, c)
           \/ LevelOn(bans, c) > 0 /\ bans[Selected(bans, c)] \in gone
    BY <2>1, <2>3, WithoutEases
  <2>5. CASE LevelOn(bans', c) = LevelOn(bans, c)
    BY <2>2, <2>5, ShutIs
  <2>6. CASE LevelOn(bans, c) > 0 /\ bans[Selected(bans, c)] \in gone
    <3>1. bans' \in Seq(Ban)
      BY <2>1, WithoutEases
    <3>2. bans[Selected(bans, c)] \notin Range(bans')
      BY <2>4, <2>6, <3>1 DEF Range
    <3> QED
      BY <2>6, <3>2, ShutIs DEF Released
  <2> QED
    BY <2>4, <2>5, <2>6
<1>2. bans' \in Seq(Ban)
  BY WithoutEases DEF BInv
<1> QED
  BY <1>1, <1>2 DEF BansStay

(* BAN: who matches a new ban that keeps out goes at once.                 *)
LEMMA BanKeeps ==
    ASSUME BInv, NEW c \in Client, NEW m \in Mask, NEW l \in BanLevel, BAN(c, m, l)
    PROVE  BansStay /\ BInv'
<1> DEFINE gone == {b \in Range(bans) : Covers(m, b.mask) /\ b.level <= Rank(c)}
<1> DEFINE new == [mask |-> m, level |-> l]
<1> DEFINE w == Without(bans, gone)
<1>1. /\ bans' = Append(w, new)
      /\ \A i \in DOMAIN bans : bans[i].mask # m
      /\ member' = IF l < 75 THEN member ELSE member \ Hit(m)
      /\ op' = op \ Hit(m) /\ bot = "op"
  BY DEF BAN, Present
<1>2. new \in Ban /\ new.mask = m /\ new.level = l
  BY ChannelGuardAssumption DEF Ban
<1> HIDE DEF gone, new
<1>3. bans \in Seq(Ban) /\ op \subseteq member
  BY DEF BInv
<1>4. w \in Seq(Ban) /\ \A p \in 1..Len(w) : w[p] \notin gone
  BY <1>3, WithoutEases
<1> HIDE DEF w
<1>5. bans' \in Seq(Ban)
  BY <1>1, <1>2, <1>4, AppendDecides
<1>6. BInv'
  BY <1>1, <1>3, <1>5 DEF BInv
<1>7. ASSUME NEW d \in member', Shut(d)'
      PROVE  d \in member /\ (Shut(d) \/ Released(d))
  <2>1. d \in member
    BY <1>1
  <2>2. LevelOn(bans', d) >= 75
    BY <1>7, ShutIs
  <2>3. CASE Selected(w, d) = 0
    <3>1. LevelOn(Append(w, new), d) > 0 => d \in Matches[m] /\ LevelOn(Append(w, new), d) = l
      BY <1>2, <1>4, <2>3, AppendDecides
    <3> DEFINE v == LevelOn(Append(w, new), d)
    <3>2. v = LevelOn(bans', d)
      BY <1>1
    <3>3. d \in Matches[m] /\ ~(l < 75)
      <4>1. v \in 0..500 /\ l \in 1..500
        <5>1. v \in 0..500
          BY <1>1, <1>5, LevelRange
        <5>2. l \in 1..500
          BY ChannelGuardAssumption
        <5> QED
          BY <5>1, <5>2
      <4>2. v >= 75 /\ (v > 0 => d \in Matches[m] /\ v = l)
        BY <2>2, <3>1, <3>2
      <4> HIDE DEF v
      <4> QED
        BY <4>1, <4>2
    <3> QED
      BY <1>1, <2>1, <3>3 DEF Hit
  <2>4. CASE Selected(w, d) # 0
    <3>1. LevelOn(bans', d) = LevelOn(w, d)
      BY <1>1, <1>2, <1>4, <2>4, AppendDecides
    <3>2. \/ LevelOn(w, d) = LevelOn(bans, d)
          \/ LevelOn(bans, d) > 0 /\ bans[Selected(bans, d)] \in gone
      BY <1>3, <2>4, WithoutEases DEF w
    <3>3. CASE LevelOn(w, d) = LevelOn(bans, d)
      BY <2>1, <2>2, <3>1, <3>3, ShutIs
    <3>4. CASE LevelOn(bans, d) > 0 /\ bans[Selected(bans, d)] \in gone
      <4> DEFINE e == bans[Selected(bans, d)]
      <4>1. Selected(bans, d) \in DOMAIN bans
        <5>1. Selected(bans, d) # 0
          BY <3>4 DEF LevelOn
        <5> QED
          BY <1>3, <5>1, Selecting
      <4>2. e # new
        BY <1>1, <1>2, <4>1
      <4>3. \A p \in 1..Len(bans') : bans'[p] = new \/ \E q \in 1..Len(w) : bans'[p] = w[q]
        BY <1>1, <1>2, <1>4
      <4>4. e \in gone
        BY <3>4
      <4> HIDE DEF e
      <4>5. e \notin Range(bans')
        BY <1>4, <1>5, <4>2, <4>3, <4>4 DEF Range
      <4> QED
        BY <2>1, <3>4, <4>5, ShutIs DEF Released, e
    <3> QED
      BY <3>2, <3>3, <3>4
  <2> QED
    BY <2>3, <2>4
<1> QED
  BY <1>1, <1>6, <1>7 DEF BansStay

(* The ban doInternalBanAndKick() sets, if any.                            *)
LEMMA PunishedBan ==
    ASSUME NEW src \in Client, NEW longer \in BOOLEAN, Punished(src, longer)
    PROVE  \/ bans' = bans
           \/ \E b \in Ban : b.mask = HostMask[src] /\ bans' = Append(bans, b)
<1> DEFINE known == account[src] # NoUser /\ level[account[src]] \in 1..499
                        /\ ~(account[src] \in suspended /\ longer)
<1> DEFINE l == IF known THEN level[account[src]] + 1 ELSE 25
<1> DEFINE new == [mask |-> HostMask[src], level |-> l]
<1>1. bans' = bans \/ bans' = Append(bans, new)
  BY DEF Punished
<1>2. l \in 1..500
  <2> DEFINE k == level[account[src]]
  <2>1. k \in 1..499 => k + 1 \in 1..500
    <3> HIDE DEF k
    <3> QED
      OBVIOUS
  <2>2. known => k \in 1..499
    BY Zenon
  <2> HIDE DEF known
  <2>3. (l = k + 1 /\ known) \/ l = 25
    BY Zenon
  <2>4. 25 \in 1..500
    OBVIOUS
  <2> HIDE DEF k, l
  <2> QED
    BY <2>1, <2>2, <2>3, <2>4, Zenon
<1>3. HostMask[src] \in Mask
  BY ChannelGuardAssumption
<1> HIDE DEF l
<1>4. new \in Ban /\ new.mask = HostMask[src]
  BY <1>2, <1>3 DEF Ban
<1> HIDE DEF new
<1> QED
  BY <1>1, <1>4

LEMMA ModeKeeps ==
    ASSUME BInv, NEW src \in Client \cup {None}, NEW S, NEW D, NEW d, Mode(src, S, D, d)
    PROVE  BansStay /\ BInv'
<1> DEFINE b == IF d /\ bot = "op" THEN "plain" ELSE bot
<1> DEFINE hits == Cardinality(D) + (IF d THEN 1 ELSE 0)
<1> DEFINE mass == src # None /\ Guards /\ setting.massDeopPro > 0 /\ hits >= setting.massDeopPro
<1> DEFINE out == {c \in member : mass /\ Acts(b) /\ HostMask[c] = HostMask[src]}
<1> DEFINE calls == mass \/ Deopped(S, src) # {}
<1>1. /\ bot' = b /\ src \in op \cup {None}
      /\ mass \/ bans' = bans
      /\ mass => \E longer \in BOOLEAN : Punished(src, longer)
      /\ Leaves(member \ out, Checked(op \ D, S, src, b), calls)
  BY DEF Mode
<1>2. b = "op" => bot = "op" /\ Acts(b)
  BY DEF Acts
<1>3. mass => src # None
  OBVIOUS
<1> HIDE DEF mass, calls, b
<1>4. member' \subseteq member \ out /\ op' \subseteq member'
  BY <1>1, LeavesMembers
<1>5. bans \in Seq(Ban) /\ op \subseteq member
  BY DEF BInv
<1>6. CASE bans' = bans
  <2>1. BInv'
    BY <1>4, <1>5, <1>6 DEF BInv
  <2>2. BansStay
    BY <1>1, <1>2, <1>4, <1>6, SameBans
  <2> QED
    BY <2>1, <2>2
<1>7. CASE bans' # bans
  <2>1. mass /\ src \in Client /\ src \in member
    BY <1>1, <1>3, <1>5, <1>7
  <2>2. PICK new \in Ban : new.mask = HostMask[src] /\ bans' = Append(bans, new)
    BY <1>1, <1>7, <2>1, PunishedBan
  <2>3. bans' \in Seq(Ban)
    BY <1>5, <2>2, AppendDecides
  <2>4. BInv'
    BY <1>4, <2>3 DEF BInv
  <2>5. ASSUME bot' = "op", NEW c \in member', Shut(c)'
        PROVE  c \in member /\ bot = "op" /\ (Shut(c) \/ PassedOver(c))
    <3>1. c \in member \ out /\ bot = "op" /\ Acts(b)
      BY <1>1, <1>2, <1>4, <2>5
    <3>2. LevelOn(bans', c) >= 75
      BY <2>5, ShutIs
    <3>3. CASE Selected(bans, c) # 0
      <4>1. LevelOn(bans', c) = LevelOn(bans, c)
        BY <1>5, <2>2, <3>3, AppendDecides
      <4> QED
        BY <3>1, <3>2, <4>1, ShutIs
    <3>4. CASE Selected(bans, c) = 0
      <4>1. LevelOn(bans', c) > 0
        <5> DEFINE v == LevelOn(bans', c)
        <5>1. v \in 0..500 /\ v >= 75
          BY <2>3, <3>2, LevelRange
        <5> HIDE DEF v
        <5>2. v > 0
          BY <5>1
        <5> QED
          BY <5>2 DEF v
      <4>2. c \in Matches[HostMask[src]]
        BY <1>5, <2>2, <3>4, <4>1, AppendDecides
      <4>3. src \in out /\ HostMask[c] # HostMask[src]
        BY <2>1, <3>1
      <4>4. src \in member \ member'
        BY <1>4, <2>1, <4>3
      <4> QED
        BY <3>1, <4>2, <4>3, <4>4 DEF PassedOver
    <3> QED
      BY <3>3, <3>4
  <2>6. BansStay
    BY <2>5 DEF BansStay
  <2> QED
    BY <2>4, <2>6
<1> QED
  BY <1>6, <1>7

(* A client that comes in is kicked if it is banned.                       *)
LEMMA ComingKeeps ==
    ASSUME BInv, NEW c, NEW O, NEW calls, bot' = bot, bans' = bans,
           Leaves(IF Guards /\ checkBansOnJoin(c) /\ Acts(bot) THEN member ELSE member \cup {c}, O, calls)
    PROVE  BansStay /\ BInv'
<1> DEFINE kick == Guards /\ checkBansOnJoin(c) /\ Acts(bot)
<1>1. member' \subseteq (IF kick THEN member ELSE member \cup {c}) /\ op' \subseteq member'
  BY LeavesMembers
<1>2. BInv'
  BY <1>1 DEF BInv
<1>3. bot = "op" => Acts(bot)
  BY DEF Acts
<1>4. \A d \in member' \ member : ~(Guards /\ bot' = "op" /\ Shut(d))
  BY <1>1, <1>3 DEF checkBansOnJoin
<1> QED
  BY <1>2, <1>4, SameBans

(* Members go and nobody is opped.                                         *)
LEMMA GoingKeeps ==
    ASSUME BInv, bans' = bans, member' \subseteq member, op' \subseteq member',
           bot' = "op" => bot = "op"
    PROVE  BansStay /\ BInv'
BY SameBans DEF BInv

LEMMA NetworkBans == ASSUME BInv, FromNetwork PROVE BansStay /\ BInv'
<1>1. ASSUME NEW c \in Client, NEW late \in BOOLEAN, Join(c, late) PROVE BansStay /\ BInv'
  BY <1>1, ComingKeeps DEF Join
<1>2. ASSUME NEW c \in Client, Burst(c) PROVE BansStay /\ BInv'
  BY <1>2, ComingKeeps DEF Burst
<1>3. ASSUME NEW c \in Client, NEW late \in BOOLEAN, Create(c, late) PROVE BansStay /\ BInv'
  <2>1. bans' = bans /\ bot' # "op" /\ op' \subseteq member'
    BY <1>3, LeavesMembers DEF Create
  <2> QED
    BY <2>1, SameBans DEF BInv
<1>4. ASSUME NEW c \in Client, Leave(c) PROVE BansStay /\ BInv'
  BY <1>4, GoingKeeps DEF Leave, BInv
<1>5. ASSUME NEW c \in Client, Quit(c) PROVE BansStay /\ BInv'
  BY <1>5, GoingKeeps DEF Quit, BInv
<1>6. ASSUME NEW S, NEW D, NEW src \in Client \cup {None}, NEW d, Mode(src, S, D, d)
      PROVE  BansStay /\ BInv'
  BY <1>6, ModeKeeps
<1>7. CASE OpBot
  <2>1. bans' = bans /\ member' \subseteq member /\ op' \subseteq member'
        /\ (Guards => \A c \in member' : Stays(c))
    BY <1>7 DEF OpBot, doTheRightThing, KeepsOp, BInv
  <2> QED
    BY <2>1, Reopped DEF BInv
<1>8. CASE KickBot
  BY <1>8, GoingKeeps DEF KickBot, BInv
<1>9. CASE ModeByUser
  BY <1>9, GoingKeeps DEF ModeByUser, BInv
<1>10. ASSUME NEW c \in Client, Login(c) PROVE BansStay /\ BInv'
  <2> DEFINE kick == Guards /\ c \in member /\ checkBansOnJoin(c) /\ Acts(bot)
  <2> DEFINE M == IF kick THEN member \ {c} ELSE member
  <2>1. bans' = bans /\ bot' = bot /\ \E O, calls : Leaves(M, O, calls)
    BY <1>10, Zenon DEF Login
  <2>2. M \subseteq member
    OBVIOUS
  <2> HIDE DEF M
  <2>3. member' \subseteq M /\ op' \subseteq member'
    BY <2>1, LeavesMembers
  <2> QED
    BY <2>1, <2>2, <2>3, GoingKeeps
<1>11. ASSUME NEW S, NEW rest, NEW src, OpBotAnd(src, S, rest) PROVE BansStay /\ BInv'
  <2>1. /\ bans' = bans /\ member' \subseteq member /\ S \subseteq member /\ op \subseteq member
        /\ bot = "plain" /\ UNCHANGED flags
    BY <1>11 DEF OpBotAnd, BInv
  <2>2. CASE UNCHANGED <<member, op, bot>>
    BY <2>1, <2>2, GoingKeeps DEF BInv
  <2>3. CASE /\ member' = member \ {c \in member : Guards /\ ~Stays(c)}
             /\ op' = {c \in op \cup S : Guards => KeepsOp(c)} \ Deopped(S, src)
    <3>1. op' \subseteq member' /\ (Guards => \A c \in member' : Stays(c))
      BY <2>1, <2>3 DEF KeepsOp
    <3> QED
      BY <2>1, <3>1, Reopped DEF BInv
  <2> QED
    BY <1>11, <2>2, <2>3 DEF OpBotAnd
<1> QED
  BY <1>1, <1>2, <1>3, <1>4, <1>5, <1>6, <1>7, <1>8, <1>9, <1>10, <1>11 DEF FromNetwork

LEMMA CommandBans == ASSUME BInv, Command PROVE BansStay /\ BInv'
<1>1. ASSUME NEW c, NEW S \in SUBSET Client, OP(c, S) PROVE BansStay /\ BInv'
  <2>1. bans' = bans /\ bot' = bot /\ member' = member /\ op' \subseteq op \cup S /\ S \subseteq member
    BY <1>1 DEF OP, Checked
  <2> QED
    BY <2>1, GoingKeeps DEF BInv
<1>2. ASSUME NEW c, NEW S, DEOP(c, S) PROVE BansStay /\ BInv'
  BY <1>2, GoingKeeps DEF DEOP, BInv
<1>3. ASSUME NEW c, NEW S, KICK(c, S) PROVE BansStay /\ BInv'
  <2>1. bans' = bans /\ bot' = bot /\ member' \subseteq member \ S /\ op' \subseteq member'
    BY <1>3, LeavesMembers DEF KICK
  <2> QED
    BY <2>1, GoingKeeps
<1>4. ASSUME NEW c \in Client, NEW m \in Mask, NEW l \in BanLevel, BAN(c, m, l)
      PROVE  BansStay /\ BInv'
  BY <1>4, BanKeeps
<1>5. ASSUME NEW c, NEW m, NEW nick, UNBAN(c, m, nick) PROVE BansStay /\ BInv'
  <2>1. (\E gone : bans' = Without(bans, gone)) /\ member' = member /\ bot' = bot /\ op' = op
    BY <1>5 DEF UNBAN
  <2> QED
    BY <2>1, Unbanned DEF BInv
<1>6. ASSUME NEW c, NEW on, SETNoop(c, on) \/ SETStrictop(c, on) \/ SETJoinlim(c, on) \/ SETJoinperiod(c, on)
      PROVE  BansStay /\ BInv'
  <2>1. bans' = bans /\ bot' = bot /\ member' = member /\ op' \subseteq op
    BY <1>6 DEF SETNoop, SETStrictop, SETJoinlim, SETJoinperiod
  <2> QED
    BY <2>1, GoingKeeps DEF BInv
<1>7. ASSUME NEW c, NEW older, JOIN(c, older) PROVE BansStay /\ BInv'
  <2>1. bans' = bans /\ ~Guards /\ op' \subseteq member'
    BY <1>7 DEF JOIN, Guards, KeepsOp, BInv
  <2> QED
    BY <2>1 DEF BansStay, BInv
<1>8. ASSUME NEW c, PART(c) PROVE BansStay /\ BInv'
  BY <1>8 DEF PART, BansStay, BInv
<1>9. ASSUME NEW reop, PURGE(reop) PROVE BansStay /\ BInv'
  <2>1. bans' = <<>> /\ ~inChan' /\ op' \subseteq member'
    BY <1>9 DEF PURGE, Checked, KeepsOp, BInv
  <2> QED
    BY <2>1 DEF BansStay, BInv
<1>10. ASSUME NEW u, NEW a, SUSPEND(u) \/ UNSUSPEND(u) \/ SetAccess(u, a) PROVE BansStay /\ BInv'
  <2>1. bans' = bans /\ bot' = bot /\ member' = member /\ op' \subseteq op
    BY <1>10 DEF SUSPEND, UNSUSPEND, SetAccess
  <2> QED
    BY <2>1, GoingKeeps DEF BInv
<1> QED
  BY <1>1, <1>2, <1>3, <1>4, <1>5, <1>6, <1>7, <1>8, <1>9, <1>10 DEF Command

LEMMA TimerBans == ASSUME BInv, Timer PROVE BansStay /\ BInv'
<1>1. ASSUME NEW id, OnTimer(id) PROVE BansStay /\ BInv'
  BY <1>1, GoingKeeps DEF OnTimer, BInv
<1>2. CASE performReops
  <2>1. bans' = bans /\ member' \subseteq member /\ op' \subseteq member'
        /\ (Guards => \A c \in member' : Stays(c))
    BY <1>2 DEF performReops, doTheRightThing, KeepsOp, BInv
  <2> QED
    BY <2>1, Reopped DEF BInv
<1>3. ASSUME NEW i, expireBans(i) PROVE BansStay /\ BInv'
  <2>1. (\E gone : bans' = Without(bans, gone)) /\ member' = member /\ bot' = bot /\ op' = op
    BY <1>3 DEF expireBans
  <2> QED
    BY <2>1, Unbanned DEF BInv
<1> QED
  BY <1>1, <1>2, <1>3 DEF Timer

LEMMA BansStep == ASSUME BInv, [Next]_vars PROVE BInv' /\ [BansStay]_vars
<1>1. CASE Next
  BY <1>1, NetworkBans, CommandBans, TimerBans DEF Next
<1>2. CASE UNCHANGED vars
  BY <1>2 DEF vars, BInv
<1> QED
  BY <1>1, <1>2

(* While the bot is an operator whom a ban keeps out does not come in, and *)
(* goes when the ban is set or the bot is opped again, in whatever order   *)
(* joins, logins, bans and reops come (OnChannelEvent, doAllBansOnChan of  *)
(* mod.cservice/cservice.cc, BAN), but for those doInternalBanAndKick()    *)
(* passes over.                                                            *)
THEOREM BansAreKept == Spec => BansKept
<1>1. Init => BInv
  BY DEF Init, BInv
<1>2. BInv /\ [Next]_vars => BInv' /\ [BansStay]_vars
  BY BansStep
<1> QED
  BY <1>1, <1>2, PTL DEF Spec, BansKept, BansStay
=============================================================================
