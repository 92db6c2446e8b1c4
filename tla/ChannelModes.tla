---------------------------- MODULE ChannelModes ----------------------------
(***************************************************************************)
(* The modes of one channel: what the table of this server (Channel) holds *)
(* and what the network holds, under the calls of the modules (xClient's   *)
(* Mode, Op, Voice, Ban, ClearMode, Topic, Join and mod.cservice's MODE)   *)
(* and the messages B, M and CM.                                           *)
(*                                                                         *)
(* The network is external: it applies what is written in the order it is  *)
(* written, if the source may change modes, and takes no more than         *)
(* MaxModes arguments of a message.  Messages do not cross here.  Somebody *)
(* always stays on the channel: module Channels is about the empty one.    *)
(***************************************************************************)
EXTENDS Integers, Sequences, FiniteSets, SequencesExt

CONSTANTS
    Client,     \* the clients of the network that come and go
    Service,    \* those of them with user mode +k
    Bot,        \* the client of a module
    Value,      \* keys, limits and passwords
    Mask,       \* ban masks
    Covers,     \* <<m, n>> : mask m matches mask n
    BanOf,      \* Channel::createBan() of a client
    MaxModes,   \* MAX_CHAN_MODES, 6 in the code
    None,
    Scenes      \* bound: which modes and clients there are in a behaviour

Plain == {"t"}                  \* any of the modes without an argument
Keyed == {"k", "l", "A", "U"}   \* modes with a value
Listed == {"o", "v", "b"}       \* modes that name a user or a mask
User == Client \cup {Bot}
Argument == Value \cup Mask \cup User \cup {None}
Change == [plus : BOOLEAN, mode : Plain \cup Keyed \cup Listed, arg : Argument]
MaxCopies == 2                  \* bound: copies of a mask in banList

ASSUME ModesAssumption ==
    /\ Service \subseteq Client /\ Bot \notin Client
    /\ Covers \subseteq Mask \X Mask /\ \A m \in Mask : <<m, m>> \in Covers
    /\ BanOf \in [Client -> Mask] /\ MaxModes \in Nat \ {0}
    /\ None \notin Value \cup Mask \cup User
    /\ IsFiniteSet(Client) /\ IsFiniteSet(Mask)
    /\ Scenes \subseteq [modes : SUBSET (Plain \cup Keyed \cup Listed), clients : SUBSET Client]

VARIABLES
    scene,
    members,    \* the users of the channel
    table,      \* the Channel of this server
    net,        \* the channel as the network has it
    spoiled     \* modes this server may have got wrong by a known defect

vars == <<scene, members, table, net, spoiled>>

Modes == [on : SUBSET (Plain \cup Keyed), arg : [Keyed -> Value \cup {None}],
          ops : SUBSET User, voices : SUBSET User, bans : [Mask -> 0 .. MaxCopies]]
NoModes == [on |-> {}, arg |-> [l \in Keyed |-> None], ops |-> {}, voices |-> {},
            bans |-> [m \in Mask |-> 0]]

TypeOK ==
    /\ scene \in Scenes
    /\ members \subseteq scene.clients \cup {Bot}
    /\ table \in Modes /\ net \in Modes
    /\ table.ops \cup table.voices \cup net.ops \cup net.voices \subseteq members
    /\ spoiled \subseteq Plain \cup Keyed \cup Listed

Init ==
    /\ scene \in Scenes
    /\ members = {Bot}
    /\ table = [NoModes EXCEPT !.ops = {Bot}] /\ net = table
    /\ spoiled = {}

-----------------------------------------------------------------------------
(* Operations of Channel.                                                  *)
Present(t, l, value) == [t EXCEPT !.on = @ \cup {l}, !.arg[l] = value]
Absent(t, l) == [t EXCEPT !.on = @ \ {l}, !.arg[l] = None]

OnMode(t, c) == [t EXCEPT !.on = IF c.plus THEN @ \cup {c.mode} ELSE @ \ {c.mode}]

OnModeL(t, c) == IF c.plus THEN Present(t, "l", c.arg) ELSE Absent(t, "l")
OnModeK(t, c) == IF c.plus THEN Present(t, "k", c.arg) ELSE Absent(t, "k")
OnModeU(t, c) == IF c.plus THEN Present(t, "U", c.arg) ELSE Absent(t, "U")

(* Without the password it is mode k that is removed.                      *)
OnModeA(t, c) ==
    IF c.plus THEN Present(t, "A", c.arg)
    ELSE [t EXCEPT !.on = @ \ {"k"}, !.arg["A"] = None]

OnModeO(t, c) == [t EXCEPT !.ops = IF c.plus THEN @ \cup {c.arg} ELSE @ \ {c.arg}]
OnModeV(t, c) == [t EXCEPT !.voices = IF c.plus THEN @ \cup {c.arg} ELSE @ \ {c.arg}]

SetBan(t, m) == [t EXCEPT !.bans[m] = IF @ < MaxCopies THEN @ + 1 ELSE @]
RemoveBan(t, m) == [t EXCEPT !.bans[m] = IF @ > 0 THEN @ - 1 ELSE @]

(* onModeB(): a new ban replaces those it covers.                          *)
OnModeB(t, c) ==
    IF c.plus
    THEN SetBan([t EXCEPT !.bans = [m \in Mask |->
                    IF <<c.arg, m>> \in Covers THEN 0 ELSE t.bans[m]]], c.arg)
    ELSE RemoveBan(t, c.arg)

(* The OnChannelMode..() of xServer, one change after the other: those of  *)
(* different modes do not depend on each other.                            *)
OnChange(t, c) ==
    CASE c.mode \in Plain -> OnMode(t, c)
      [] c.mode = "l" -> OnModeL(t, c)
      [] c.mode = "k" -> OnModeK(t, c)
      [] c.mode = "A" -> OnModeA(t, c)
      [] c.mode = "U" -> OnModeU(t, c)
      [] c.mode = "o" -> OnModeO(t, c)
      [] c.mode = "v" -> OnModeV(t, c)
      [] c.mode = "b" -> OnModeB(t, c)

OnChanges(t, changes) ==
    LET after[i \in 0 .. Len(changes)] ==
            IF i = 0 THEN t ELSE OnChange(after[i - 1], changes[i])
    IN  after[Len(changes)]

Opped(t, n) == [t EXCEPT !.ops = @ \cup {n}]
WithoutUser(t, n) == [t EXCEPT !.ops = @ \ {n}, !.voices = @ \ {n}]

-----------------------------------------------------------------------------
(* The network.  A key is set where there is none, and a change that       *)
(* needs an argument has one; all changes take effect as in the table.     *)
NeedsArgument(c) == c.mode \in Listed \cup Keyed /\ (c.mode = "l" => c.plus)

NetChange(n, c) ==
    IF \/ NeedsArgument(c) /\ c.arg = None
       \/ c.mode \in {"k", "A", "U"} /\ c.plus /\ c.mode \in n.on
    THEN n
    ELSE IF c.mode = "A" /\ ~c.plus THEN Absent(n, "A") ELSE OnChange(n, c)

NetChanges(n, changes) ==
    LET after[i \in 0 .. Len(changes)] ==
            IF i = 0 THEN n ELSE NetChange(after[i - 1], changes[i])
    IN  after[Len(changes)]

(* A change of one message, as long as there are arguments left.           *)
NetNext(acc, c) ==
    IF c.arg = None THEN [acc EXCEPT !.modes = NetChange(@, c)]
    ELSE IF acc.args = MaxModes THEN acc
    ELSE [modes |-> NetChange(acc.modes, c), args |-> acc.args + 1]

NetMessage(n, changes) ==
    LET after[i \in 0 .. Len(changes)] ==
            IF i = 0 THEN [modes |-> n, args |-> 0] ELSE NetNext(after[i - 1], changes[i])
    IN  after[Len(changes)].modes

(* What is written by a server or, as long as it is operator, by the bot.  *)
NetTakes(n, asServer, messages) ==
    LET after[i \in 0 .. Len(messages)] ==
            IF i = 0 THEN n
            ELSE IF asServer \/ Bot \in after[i - 1].ops THEN NetMessage(after[i - 1], messages[i])
            ELSE after[i - 1]
    IN  after[Len(messages)]

-----------------------------------------------------------------------------
(* Mutant: all changes are written in one message.                         *)
ChunksOne(changes) == <<changes>>

(* The changes in messages of at most MAX_CHAN_MODES.                      *)
Chunks(changes) ==
    [i \in 1 .. (Len(changes) + MaxModes - 1) \div MaxModes |->
        SubSeq(changes, (i - 1) * MaxModes + 1,
               IF i * MaxModes < Len(changes) THEN i * MaxModes ELSE Len(changes))]

Change1(plus, mode, arg) == [plus |-> plus, mode |-> mode, arg |-> arg]
ChangesOf(plus, mode, args) ==
    LET list == SetToSeq(args) IN
    [i \in DOMAIN list |-> Change1(plus, mode, list[i])]

OnChannel == Bot \in members

(* A bot that is not on the channel joins it for the call, as operator,    *)
(* and parts again.                                                        *)
Here(t) == IF OnChannel THEN t ELSE Opped(t, Bot)
Gone(t) == IF OnChannel THEN t ELSE WithoutUser(t, Bot)

(* One that is there has to be an operator.                                *)
MayAct == OnChannel => Bot \in table.ops

Perform(changes) ==
    /\ MayAct
    /\ net' = Gone(NetTakes(Here(net), FALSE, Chunks(changes)))
    /\ table' = Gone(OnChanges(Here(table), changes))
    /\ UNCHANGED <<scene, members, spoiled>>

(* Op(), DeOp(), Voice(), DeVoice() of a set of clients, or of one.        *)
Op(users) == Perform(ChangesOf(TRUE, "o", (users \cap members) \ table.ops))
DeOp(users) ==
    Perform(ChangesOf(FALSE, "o", (users \cap table.ops) \ Service))
Voice(users) == Perform(ChangesOf(TRUE, "v", (users \cap members) \ table.voices))
DeVoice(users) == Perform(ChangesOf(FALSE, "v", users \cap table.voices))

(* Ban() of clients by their masks, UnBan() of one mask that is set and    *)
(* UnBan() of any masks.                                                   *)
Ban(clients) ==
    Perform(ChangesOf(TRUE, "b", {BanOf[n] : n \in (clients \cap members) \ Service}))
UnBan(mask) == table.bans[mask] > 0 /\ Perform(<<Change1(FALSE, "b", mask)>>)
UnBans(masks) == Perform(ChangesOf(FALSE, "b", masks))

(* Topic(): on a channel with +t a bot that is not operator has itself     *)
(* opped by the server.                                                    *)
Topic ==
    /\ OnChannel /\ "t" \in table.on /\ Bot \notin table.ops
    /\ table' = Opped(table, Bot)
    /\ net' = NetTakes(net, TRUE, <<<<Change1(TRUE, "o", Bot)>>>>)
    /\ UNCHANGED <<scene, members, spoiled>>

-----------------------------------------------------------------------------
(* xServer::Mode().  Modes with a value take effect in the table at once,  *)
(* the others when all have been read and written; raw is what will be     *)
(* written, late what is still to take effect; users are who is there.     *)
Parsing(t, users) ==
    [table |-> t, users |-> users, raw |-> <<>>, late |-> <<>>, failed |-> FALSE]

(* k, A and U: one that is set has to be unset first.                      *)
ParseKeyed(p, c) ==
    IF c.mode \in p.table.on
    THEN IF c.plus THEN [p EXCEPT !.failed = TRUE]
                   ELSE [p EXCEPT !.table = OnChange(@, c), !.raw = Append(@, c)]
    ELSE IF c.plus THEN [p EXCEPT !.table = OnChange(@, c), !.raw = Append(@, c)]
                   ELSE p

ParseLimit(p, c) ==
    [p EXCEPT !.table = OnModeL(@, c), !.raw = Append(@, c)]

(* o and v: of a user who is on the channel and has not got the mode yet.  *)
ParseUser(p, c) ==
    IF c.arg \notin p.users THEN [p EXCEPT !.failed = TRUE]
    ELSE IF c.plus = (c.arg \in (IF c.mode = "o" THEN p.table.ops ELSE p.table.voices))
    THEN p
    ELSE [p EXCEPT !.late = Append(@, c), !.raw = Append(@, c)]

ParseOther(p, c) == [p EXCEPT !.late = Append(@, c), !.raw = Append(@, c)]

Parse(p, c) ==
    IF p.failed THEN p
    ELSE IF NeedsArgument(c) /\ c.arg = None THEN [p EXCEPT !.failed = TRUE]
    ELSE CASE c.mode \in {"k", "A", "U"} -> ParseKeyed(p, c)
           [] c.mode = "l" -> ParseLimit(p, c)
           [] c.mode \in {"o", "v"} -> ParseUser(p, c)
           [] OTHER -> ParseOther(p, c)

Parsed(t, users, changes) ==
    LET after[i \in 0 .. Len(changes)] ==
            IF i = 0 THEN Parsing(t, users) ELSE Parse(after[i - 1], changes[i])
    IN  after[Len(changes)]

-----------------------------------------------------------------------------
(* Do two tables hold the same of a mode, and where do they differ?        *)
Same(t1, t2, l) ==
    CASE l = "o" -> t1.ops = t2.ops
      [] l = "v" -> t1.voices = t2.voices
      [] l = "b" -> t1.bans = t2.bans
      [] OTHER -> /\ (l \in t1.on) = (l \in t2.on)
                  /\ l \in Keyed \cap t1.on => t1.arg[l] = t2.arg[l]
AnyMode == Plain \cup Keyed \cup Listed
Differ(t1, t2) == {l \in AnyMode : ~Same(t1, t2, l)}

(* -A in a table that has +A leaves it there and removes k.                *)
SpoiledByA(changes) ==
    IF \E i \in DOMAIN changes : changes[i].mode = "A" /\ ~changes[i].plus
    THEN {"A", "k"} ELSE {}

(* A bot that takes its own op may not write the messages that follow.     *)
Refused(messages) ==
    {l \in AnyMode : \E i, j \in DOMAIN messages :
        /\ i < j /\ \E k \in DOMAIN messages[j] : messages[j][k].mode = l
        /\ \E k \in DOMAIN messages[i] : messages[i][k] = Change1(FALSE, "o", Bot)}

(* What a call with these changes does to table t, asked by the bot or by  *)
(* the server: the new table, what is written, and what took effect        *)
(* although it was not written.                                            *)
ServerMode(t, changes, asServer) ==
    LET users == IF asServer THEN members ELSE members \cup {Bot}
        p == Parsed(t, users, changes) IN
    IF ~asServer /\ Bot \notin t.ops
    THEN [table |-> t, written |-> <<>>, spoils |-> {}, ok |-> FALSE]
    ELSE IF p.failed
    THEN [table |-> p.table, written |-> <<>>, spoils |-> Differ(t, p.table), ok |-> FALSE]
    ELSE [table |-> OnChanges(p.table, p.late), written |-> Chunks(p.raw),
          spoils |-> SpoiledByA(p.raw) \cup (IF asServer THEN {} ELSE Refused(Chunks(p.raw))),
          ok |-> TRUE]

Mode(changes, asServer) ==
    LET t == IF asServer THEN table ELSE Here(table)
        n == IF asServer THEN net ELSE Here(net)
        r == ServerMode(t, changes, asServer) IN
    /\ table' = IF asServer THEN r.table ELSE Gone(r.table)
    /\ net' = IF asServer THEN NetTakes(n, TRUE, r.written)
                          ELSE Gone(NetTakes(n, FALSE, r.written))
    /\ spoiled' = spoiled \cup r.spoils
    /\ UNCHANGED <<scene, members>>

(* Mode() with +l and a limit of 0, or one that is no number, and the rest *)
(* before or after it.  The table has +l with no limit; what is written is *)
(* +l without an argument, which takes that of the change that follows it  *)
(* in the message.                                                         *)
ModeNoLimit(rest, before, asServer) ==
    LET t == IF asServer THEN table ELSE Here(table)
        n == IF asServer THEN net ELSE Here(net)
        r == ServerMode(t, rest, asServer)
        lost == ~before /\ \E i \in DOMAIN rest : rest[i].arg # None
        m == IF lost THEN n ELSE NetTakes(n, asServer, r.written)
        u == Present(r.table, "l", None) IN
    /\ asServer \/ Bot \in t.ops
    /\ before => r.ok
    /\ \A i \in DOMAIN rest :
          rest[i].mode # "l" /\ (rest[i].mode = "o" => before \/ rest[i].arg # Bot)
    /\ table' = IF asServer THEN u ELSE Gone(u)
    /\ net' = IF asServer THEN m ELSE Gone(m)
    /\ spoiled' = spoiled \cup r.spoils \cup {"l"}
                  \cup IF lost THEN {rest[i].mode : i \in DOMAIN rest} ELSE {}
    /\ UNCHANGED <<scene, members>>

-----------------------------------------------------------------------------
(* mod.cservice's MODE.  It edits the table while it reads the changes and *)
(* has Mode() make them afterwards, +l as the last one, if the last sign   *)
(* was a plus; the key it puts into the table at the end.  A letter it     *)
(* does not know, and b before what is no mask, take no argument, which    *)
(* the next letter gets: they are as if they were not there.               *)
Reading(t) == [table |-> t, list |-> <<>>, limit |-> None, key |-> None, unkey |-> FALSE,
               plus |-> TRUE, failed |-> FALSE]

ReadBan(q, c) ==
    [q EXCEPT !.table = IF c.plus THEN SetBan(@, c.arg) ELSE RemoveBan(@, c.arg),
              !.list = Append(@, c)]

ReadKey(q, c) ==
    IF c.plus = ("k" \in q.table.on) THEN q
    ELSE IF c.plus THEN [q EXCEPT !.key = c.arg, !.list = Append(@, c)]
    ELSE IF c.arg # q.table.arg["k"] THEN [q EXCEPT !.failed = TRUE]
    ELSE [q EXCEPT !.unkey = TRUE, !.list = Append(@, c)]

ReadLimit(q, c) ==
    IF c.plus THEN [q EXCEPT !.table = Present(@, "l", c.arg), !.limit = c.arg]
    ELSE [q EXCEPT !.table.on = @ \ {"l"}, !.list = Append(@, c)]

ReadPlain(q, c) == [q EXCEPT !.table = OnMode(@, c), !.list = Append(@, c)]

Read(q, c) ==
    IF q.failed \/ c.mode \in {"o", "v", "A", "U"} THEN [q EXCEPT !.plus = c.plus]
    ELSE IF NeedsArgument(c) /\ c.arg = None THEN [q EXCEPT !.failed = TRUE]
    ELSE CASE c.mode = "b" -> ReadBan([q EXCEPT !.plus = c.plus], c)
           [] c.mode = "k" -> ReadKey([q EXCEPT !.plus = c.plus], c)
           [] c.mode = "l" -> ReadLimit([q EXCEPT !.plus = c.plus], c)
           [] OTHER -> ReadPlain([q EXCEPT !.plus = c.plus], c)

AllRead(t, changes) ==
    LET after[i \in 0 .. Len(changes)] ==
            IF i = 0 THEN Reading(t) ELSE Read(after[i - 1], changes[i])
    IN  after[Len(changes)]

KeyKept(q, t) ==
    IF q.key # None THEN Present(t, "k", q.key)
    ELSE IF q.unkey THEN Absent(t, "k") ELSE t

(* The changes are made if there is more than one character of mode: a     *)
(* letter that was taken, or a sign, and signed says that one is written.  *)
Wanted(q, signed) == q.limit # None \/ Len(q.list) > (IF signed THEN 0 ELSE 1)

(* zero: +l 0 comes first.  It is a limit for MODE, and for Mode().        *)
MODECommand(changes, signed, zero) ==
    LET q == AllRead(table, changes)
        made == ~q.failed /\ (zero \/ Wanted(q, signed))
        last == IF q.plus /\ q.limit # None THEN <<Change1(TRUE, "l", q.limit)>> ELSE <<>>
        r == ServerMode(q.table, q.list \o last, FALSE)
        t == IF made THEN KeyKept(q, r.table) ELSE q.table IN
    /\ OnChannel
    /\ signed \/ \A i \in DOMAIN changes : changes[i].plus
    /\ zero => \A i \in DOMAIN changes : changes[i].mode # "l"
    /\ table' = IF zero THEN Present(t, "l", None) ELSE t
    /\ net' = IF made THEN NetTakes(net, FALSE, r.written) ELSE net
    /\ spoiled' = spoiled \cup (IF ~made \/ ~r.ok THEN Differ(table, t)
                                ELSE IF q.limit # None /\ last = <<>> THEN Differ(table, t) \cap {"l"}
                                ELSE {})
                          \cup (IF zero THEN {"l"} ELSE {})
    /\ UNCHANGED <<scene, members>>

-----------------------------------------------------------------------------
(* ClearMode() in the table, and the message CM.                           *)
Cleared(t, letters) ==
    [t EXCEPT !.on = @ \ letters,
              !.arg = [l \in Keyed |-> IF l \in letters THEN None ELSE @[l]],
              !.ops = IF "o" \in letters THEN {} ELSE @,
              !.voices = IF "v" \in letters THEN {} ELSE @,
              !.bans = IF "b" \in letters THEN NoModes.bans ELSE @]

(* ClearMode() by the server, or by a bot that is an IRC operator.         *)
ClearMode(letters) ==
    /\ table' = Cleared(table, letters)
    /\ net' = Cleared(net, letters)
    /\ spoiled' = spoiled \ letters
    /\ UNCHANGED <<scene, members>>

(* ClearMode() by another bot, which writes M, whether it may or not.      *)
ClearModeByM(letters) ==
    LET list == SetToSeq(letters)
        minus == [i \in DOMAIN list |->
                    Change1(FALSE, list[i],
                            IF list[i] = "k" /\ "k" \in table.on THEN table.arg["k"]
                            ELSE None)] IN
    /\ OnChannel
    /\ table' = Cleared(table, letters)
    /\ net' = NetTakes(net, FALSE, <<minus>>)
    /\ spoiled' = spoiled \cup (IF Bot \in table.ops THEN {}
                                ELSE Differ(table, table'))
    /\ UNCHANGED <<scene, members>>

(* JoinChannel() of a channel that is there, as operator and with modes.   *)
JoinKey(changes) ==
    LET keys == {changes[i].arg : i \in {j \in DOMAIN changes : changes[j].mode = "k"}} IN
    IF "k" \in table.on /\ \E key \in keys : key # table.arg["k"]
    THEN LET key == CHOOSE k \in keys : TRUE IN
         <<<<Change1(FALSE, "k", table.arg["k"])>>, <<Change1(TRUE, "k", key)>>>>
    ELSE <<>>

JoinChannel(changes) ==
    /\ ~OnChannel
    /\ members' = members \cup {Bot}
    /\ table' = Opped(OnChanges(table, changes), Bot)
    /\ net' = NetTakes(Opped(net, Bot), FALSE, <<changes>> \o JoinKey(changes))
    /\ UNCHANGED <<scene, spoiled>>

Leave(n) ==
    /\ n \in members
    /\ members' = members \ {n}
    /\ table' = WithoutUser(table, n) /\ net' = WithoutUser(net, n)
    /\ UNCHANGED <<scene, spoiled>>

-----------------------------------------------------------------------------
(* Messages.  What comes has been done by the network.                     *)

(* msg_M: k and l take effect while the message is being read, the others  *)
(* when it has been; those of different modes do not depend on each other. *)
msg_M(t, changes) == OnChanges(t, changes)

Heals(changes) == {changes[i].mode : i \in DOMAIN changes} \cap (Plain \cup {"k", "l"})

(* An operator or a server changes modes, each change having an effect.    *)
Effective(n, c) ==
    /\ c.mode \notin {"A", "U"} /\ NetChange(n, c) # n
    /\ c.mode = "k" /\ ~c.plus => c.arg = n.arg["k"]
    /\ c.mode \in {"o", "v"} => c.arg \in members

NetMode(changes) ==
    /\ \A i \in DOMAIN changes :
          Effective(NetChanges(net, SubSeq(changes, 1, i - 1)), changes[i])
    /\ net' = NetChanges(net, changes)
    /\ table' = msg_M(table, changes)
    /\ spoiled' = spoiled \ Heals(changes)
    /\ UNCHANGED <<scene, members>>

msg_CM(letters) ==
    /\ net' = Cleared(net, letters)
    /\ table' = Cleared(table, letters)
    /\ spoiled' = spoiled \ letters
    /\ UNCHANGED <<scene, members>>

(* Channel::removeAllModes() and removeAllBans().                          *)
RemoveAllModes(t) == [NoModes EXCEPT !.bans = t.bans]
RemoveAllBans(t) == [t EXCEPT !.bans = NoModes.bans]

(* msg_B: a server links with the channel, with the same creation time or  *)
(* an older one.  With an older one all modes of ours go.                  *)
msg_B(older, changes, n, op) ==
    LET t == IF older THEN RemoveAllBans(RemoveAllModes(table)) ELSE table
        m == IF older THEN NoModes ELSE net
        users == IF op THEN <<Change1(TRUE, "o", n)>> ELSE <<>> IN
    /\ n \notin members /\ n # Bot
    /\ \A i \in DOMAIN changes :
          LET soFar == NetChanges(m, SubSeq(changes, 1, i - 1)) IN
          /\ changes[i].plus /\ changes[i].mode \notin {"o", "v"}
          /\ NetChange(soFar, changes[i]) # soFar
    /\ members' = members \cup {n}
    /\ table' = OnChanges(OnChanges(t, changes), users)
    /\ net' = NetChanges(m, changes \o users)
    /\ spoiled' = IF older THEN {} ELSE spoiled
    /\ UNCHANGED scene

NetJoin(n) ==
    /\ n \in Client \ members
    /\ members' = members \cup {n}
    /\ UNCHANGED <<scene, table, net, spoiled>>

-----------------------------------------------------------------------------
Arguments(l) ==
    CASE l \in Plain -> {None}
      [] l \in Keyed -> Value \cup {None}
      [] l \in {"o", "v"} -> scene.clients \cup {Bot, None}
      [] l = "b" -> Mask \cup {None}

AnyChange ==
    {c \in UNION {[plus : BOOLEAN, mode : {l}, arg : Arguments(l)] : l \in scene.modes} :
        c.mode = "l" /\ ~c.plus => c.arg = None}
Some == {<<c>> : c \in AnyChange} \cup {<<c, d>> : c \in AnyChange, d \in AnyChange}
AtMostOne == {<<>>} \cup {<<c>> : c \in AnyChange}
Additions == {<<>>} \cup {<<c>> : c \in {x \in AnyChange : x.plus}}
Clearable == scene.modes \ {"A", "U"}

Call ==
    \/ \E users \in SUBSET scene.clients \ {{}} :
            Op(users) \/ DeOp(users) \/ Voice(users) \/ DeVoice(users) \/ Ban(users)
    \/ \E m \in Mask : UnBan(m)
    \/ \E masks \in SUBSET Mask \ {{}} : UnBans(masks)
    \/ Topic
    \/ \E changes \in Some, asServer \in BOOLEAN : Mode(changes, asServer)
    \/ /\ "l" \in scene.modes
       /\ \E rest \in AtMostOne, before, asServer \in BOOLEAN : ModeNoLimit(rest, before, asServer)
    \/ \E changes \in Some \cup {<<>>}, signed \in BOOLEAN, zero \in {z \in BOOLEAN : z => "l" \in scene.modes} :
            MODECommand(changes, signed, zero)
    \/ \E letters \in SUBSET Clearable \ {{}} : ClearMode(letters)
    \/ \E letters \in SUBSET (Clearable \cap (Plain \cup Keyed)) \ {{}} : ClearModeByM(letters)
    \/ \E changes \in Additions :
            /\ \A i \in DOMAIN changes : changes[i].mode \in Plain \cup {"k", "l"}
            /\ \A i \in DOMAIN changes : NeedsArgument(changes[i]) => changes[i].arg # None
            /\ JoinChannel(changes)
    \/ Leave(Bot)

Message ==
    \/ \E changes \in Some : NetMode(changes)
    \/ \E letters \in SUBSET Clearable \ {{}} : msg_CM(letters)
    \/ \E older, op \in BOOLEAN, changes \in Additions, n \in scene.clients :
            msg_B(older, changes, n, op)
    \/ \E n \in scene.clients : NetJoin(n) \/ Leave(n)

Next == Call \/ Message
Spec == Init /\ [][Next]_vars

-----------------------------------------------------------------------------
(* The table holds what the network holds: every flag, key, limit,         *)
(* operator, voice and ban, after any calls and messages, those that fail  *)
(* included; but for the modes a known defect has touched, until somebody  *)
(* sets or clears them, or an older channel replaces them.                 *)
Synced == \A l \in AnyMode \ spoiled : Same(table, net, l)

(* That no defect touches a mode is false.                                 *)
AlwaysSynced == \A l \in AnyMode : Same(table, net, l)
=============================================================================
