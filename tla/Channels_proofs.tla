--------------------------- MODULE Channels_proofs ---------------------------
(* Proofs about xServer: both halves of every membership agree whatever    *)
(* the modules do in the middle of a handler, for every number of          *)
(* channels, clients and unfinished tasks; and who is told of an event,    *)
(* for any number of modules, events and channels and any depth of posts   *)
(* within posts.                                                           *)
EXTENDS MCServer, SequenceTheorems, WellFoundedInduction, TLAPS

(* The tables fit together: a member is known, lists the channel, and the  *)
(* channel is there.                                                       *)
Known(t) ==
    \A c \in Chan : \A n \in t.userList[c] :
        c \in t.channelMap /\ n \in t.clients /\ c \in t.channelList[n]

Tabled(t) ==
    /\ t \in Tables
    /\ \A c \in Chan : t.ops[c] \subseteq t.userList[c]
    /\ Known(t)

(* Every client lists channels it is on, but for those in P.               *)
Listed(t, P) ==
    \A n \in Client \ P : \A c \in t.channelList[n] : n \in t.userList[c]

-----------------------------------------------------------------------------
(* The operations on the tables.                                           *)
LEMMA Channelled ==
    ASSUME NEW t, Tabled(t), NEW c \in Chan, NEW ts \in Time, NEW P, Listed(t, P)
    PROVE  LET u == WithChannel(t, c, ts) IN
           /\ Tabled(u) /\ Listed(u, P) /\ c \in u.channelMap
           /\ u.userList = t.userList /\ u.clients = t.clients
           /\ u.channelMap = t.channelMap \cup {c}
           /\ u.ops = t.ops /\ u.channelList = t.channelList
           /\ u.creationTime[c] = ts
  BY DEF WithChannel, Tabled, Tables, Known, Listed

LEMMA Joining ==
    ASSUME NEW t, Tabled(t), NEW n \in t.clients, NEW c \in t.channelMap,
           NEW op \in BOOLEAN, NEW P, Listed(t, P)
    PROVE  LET u == WithUser(t, n, c, op) IN
           /\ Tabled(u) /\ Listed(u, P)
           /\ u.clients = t.clients /\ u.channelMap = t.channelMap
           /\ u.creationTime = t.creationTime
           /\ u.userList = [t.userList EXCEPT ![c] = @ \cup {n}]
           /\ \A m \in Client : u.channelList[m] \subseteq t.channelList[m] \cup {c}
<1> DEFINE u == WithUser(t, n, c, op)
<1>0. t \in Tables /\ n \in Client /\ c \in Chan
  BY DEF Tabled, Tables
<1>1. /\ u \in Tables
      /\ u.clients = t.clients /\ u.channelMap = t.channelMap
      /\ u.creationTime = t.creationTime
      /\ u.userList = [t.userList EXCEPT ![c] = @ \cup {n}]
      /\ u.channelList = [t.channelList EXCEPT ![n] = @ \cup {c}]
      /\ u.ops = [t.ops EXCEPT ![c] = IF op THEN @ \cup {n} ELSE @]
  BY <1>0 DEF WithUser, Tables
<1> HIDE DEF u
<1>2. \A d \in Chan : u.ops[d] \subseteq u.userList[d]
  BY <1>0, <1>1 DEF Tabled, Tables
<1>3. Known(u)
  BY <1>0, <1>1 DEF Tabled, Tables, Known
<1>4. Listed(u, P)
  BY <1>0, <1>1 DEF Tables, Listed
<1>5. \A m \in Client : u.channelList[m] \subseteq t.channelList[m] \cup {c}
  BY <1>0, <1>1 DEF Tables
<1> QED
  BY <1>1, <1>2, <1>3, <1>4, <1>5 DEF u, Tabled

LEMMA JoinFits ==
    ASSUME NEW t, Tabled(t), NEW n, n \in t.clients, NEW c, c \in t.channelMap,
           NEW op \in BOOLEAN, NEW P, Listed(t, P)
    PROVE  /\ Tabled(WithUser(t, n, c, op)) /\ Listed(WithUser(t, n, c, op), P)
           /\ WithUser(t, n, c, op).clients = t.clients
           /\ WithUser(t, n, c, op).channelMap = t.channelMap
<1> DEFINE u == WithUser(t, n, c, op)
<1>1. /\ Tabled(u) /\ Listed(u, P)
      /\ u.clients = t.clients /\ u.channelMap = t.channelMap
      /\ u.creationTime = t.creationTime
      /\ u.userList = [t.userList EXCEPT ![c] = @ \cup {n}]
      /\ \A m \in Client : u.channelList[m] \subseteq t.channelList[m] \cup {c}
  BY Joining
<1> QED
  BY <1>1

LEMMA Resetting ==
    ASSUME NEW t, Tabled(t), NEW c \in Chan, NEW ts \in Time, NEW P, Listed(t, P)
    PROVE  LET u == Older(t, c, ts) IN
           /\ Tabled(u) /\ Listed(u, P)
           /\ u.clients = t.clients /\ u.channelMap = t.channelMap
           /\ u.userList = t.userList /\ u.channelList = t.channelList
           /\ u.ops[c] = {} /\ u.creationTime[c] = ts
  BY DEF Older, Tabled, Tables, Known, Listed

LEMMA Leaving ==
    ASSUME NEW t, Tabled(t), NEW n \in Client, NEW c \in Chan, NEW P, Listed(t, P)
    PROVE  LET u == WithoutUser(t, n, c) IN
           /\ Tabled(u) /\ Listed(u, P)
           /\ u.clients = t.clients /\ u.channelMap = t.channelMap
           /\ u.creationTime = t.creationTime
           /\ u.userList = [t.userList EXCEPT ![c] = @ \ {n}]
<1> DEFINE u == WithoutUser(t, n, c)
<1>0. t \in Tables /\ n \in Client /\ c \in Chan
  BY DEF Tabled
<1>1. /\ u \in Tables
      /\ u.clients = t.clients /\ u.channelMap = t.channelMap
      /\ u.creationTime = t.creationTime
      /\ u.userList = [t.userList EXCEPT ![c] = @ \ {n}]
      /\ u.channelList = [t.channelList EXCEPT ![n] = @ \ {c}]
      /\ u.ops = [t.ops EXCEPT ![c] = @ \ {n}]
  BY <1>0 DEF WithoutUser, WithoutMember, Tables
<1> HIDE DEF u
<1>2. \A d \in Chan : u.ops[d] \subseteq u.userList[d]
  BY <1>0, <1>1 DEF Tabled, Tables
<1>3. Known(u)
  BY <1>0, <1>1 DEF Tabled, Tables, Known
<1>4. Listed(u, P)
  BY <1>0, <1>1 DEF Tables, Listed
<1> QED
  BY <1>1, <1>2, <1>3, <1>4 DEF u, Tabled

LEMMA Dropping ==
    ASSUME NEW t, Tabled(t), NEW n \in Client, NEW c \in Chan, NEW P, Listed(t, P), n \in P
    PROVE  LET u == WithoutMember(t, n, c) IN
           /\ Tabled(u) /\ Listed(u, P)
           /\ u.clients = t.clients /\ u.channelMap = t.channelMap
           /\ u.creationTime = t.creationTime
           /\ u.userList = [t.userList EXCEPT ![c] = @ \ {n}]
           /\ u.channelList = t.channelList
  BY DEF WithoutMember, Tabled, Tables, Known, Listed

LEMMA Reaping ==
    ASSUME NEW t, Tabled(t), NEW c \in Chan, NEW P, Listed(t, P)
    PROVE  LET u == Reaped(t, c) IN
           /\ Tabled(u) /\ Listed(u, P)
           /\ u.clients = t.clients /\ u.channelMap \subseteq t.channelMap
           /\ t.channelMap \ u.channelMap \subseteq {c}
           /\ t.userList[c] # {} => u = t
           /\ t.userList[c] = {} => c \notin u.channelMap
           /\ u.userList = t.userList /\ u.channelList = t.channelList
           /\ \A d \in u.channelMap : u.creationTime[d] = t.creationTime[d]
<1>1. 0 \in Time
  BY ChannelsAssumption DEF Time
<1> QED
  BY <1>1 DEF Reaped, Tabled, Tables, Known, Listed

LEMMA Removing ==
    ASSUME NEW t, Tabled(t), NEW n \in Client, NEW P, Listed(t, P)
    PROVE  LET u == WithoutClient(t, n) IN
           /\ Tabled(u) /\ Listed(u, P)
           /\ u.clients = t.clients \ {n} /\ u.channelMap \subseteq t.channelMap
           /\ \A c \in t.channelMap \ u.channelMap :
                 c \in t.channelList[n] /\ t.userList[c] \subseteq {n}
           /\ \A c \in u.channelMap : u.creationTime[c] = t.creationTime[c]
           /\ \A c \in u.channelMap : t.userList[c] # {} => u.userList[c] # {}
           /\ \A c \in Chan : u.userList[c] = t.userList[c] \ {n}
           /\ u.channelList[n] = {}
<1> DEFINE gone == {c \in t.channelList[n] : t.userList[c] \subseteq {n}}
<1> DEFINE u == WithoutClient(t, n)
<1>1. 0 \in Time
  BY ChannelsAssumption DEF Time
<1>0. t \in Tables
  BY DEF Tabled
<1>2. /\ u.clients = t.clients \ {n} /\ u.channelMap = t.channelMap \ gone
      /\ u.creationTime = [c \in Chan |-> IF c \in gone THEN 0 ELSE t.creationTime[c]]
      /\ u.userList = [c \in Chan |-> t.userList[c] \ {n}]
      /\ u.ops = [c \in Chan |-> t.ops[c] \ {n}]
      /\ u.channelList = [t.channelList EXCEPT ![n] = {}]
  BY <1>0 DEF WithoutClient, Tables
<1>3. u \in Tables
  <2>1. gone \subseteq Chan
    BY <1>0 DEF Tables
  <2> HIDE DEF gone
  <2>2. /\ t.clients \ {n} \in SUBSET Client /\ t.channelMap \ gone \in SUBSET Chan
        /\ [c \in Chan |-> IF c \in gone THEN 0 ELSE t.creationTime[c]] \in [Chan -> Time]
        /\ [c \in Chan |-> t.userList[c] \ {n}] \in [Chan -> SUBSET Client]
        /\ [c \in Chan |-> t.ops[c] \ {n}] \in [Chan -> SUBSET Client]
        /\ [t.channelList EXCEPT ![n] = {}] \in [Client -> SUBSET Chan]
    BY <1>0, <1>1 DEF Tables
  <2>3. u = [t EXCEPT !.clients = t.clients \ {n}, !.channelMap = t.channelMap \ gone,
                      !.creationTime = [c \in Chan |-> IF c \in gone THEN 0 ELSE t.creationTime[c]],
                      !.userList = [c \in Chan |-> t.userList[c] \ {n}],
                      !.ops = [c \in Chan |-> t.ops[c] \ {n}],
                      !.channelList = [t.channelList EXCEPT ![n] = {}]]
    BY <1>0 DEF WithoutClient, Tables, gone
  <2> HIDE DEF u
  <2> QED
    BY <1>0, <2>2, <2>3 DEF Tables
<1> HIDE DEF u
<1>4. \A c \in Chan : u.ops[c] \subseteq u.userList[c]
  <2> HIDE DEF gone
  <2>1. \A c \in Chan : t.ops[c] \subseteq t.userList[c]
    BY DEF Tabled
  <2>2. \A c \in Chan : u.ops[c] = t.ops[c] \ {n} /\ u.userList[c] = t.userList[c] \ {n}
    BY <1>2
  <2> QED
    BY <2>1, <2>2
<1>5. Known(u)
  <2> SUFFICES ASSUME NEW c \in Chan, NEW m \in u.userList[c]
               PROVE  c \in u.channelMap /\ m \in u.clients /\ c \in u.channelList[m]
    BY DEF Known
  <2>1. m \in t.userList[c] /\ m # n
    BY <1>2
  <2>2. c \in t.channelMap /\ m \in t.clients /\ c \in t.channelList[m]
    BY <2>1 DEF Tabled, Known
  <2>3. c \notin gone
    BY <2>1
  <2>4. m \in Client /\ t.channelList \in [Client -> SUBSET Chan]
    BY <2>2 DEF Tabled, Tables
  <2> HIDE DEF gone
  <2> QED
    BY <1>2, <2>1, <2>2, <2>3, <2>4
<1>6. Listed(u, P)
  <2> HIDE DEF gone
  <2>1. \A m \in Client : u.channelList[m] = IF m = n THEN {} ELSE t.channelList[m]
    BY <1>0, <1>2 DEF Tables
  <2>2. \A m \in Client, c \in Chan : m # n /\ m \in t.userList[c] => m \in u.userList[c]
    BY <1>2
  <2>3. \A m \in Client : t.channelList[m] \subseteq Chan
    BY <1>0 DEF Tables
  <2> QED
    BY <2>1, <2>2, <2>3 DEF Listed
<1>7. \A c \in u.channelMap : t.userList[c] # {} => u.userList[c] # {}
  <2> SUFFICES ASSUME NEW c \in u.channelMap, t.userList[c] # {}, u.userList[c] = {}
               PROVE  FALSE
    OBVIOUS
  <2>1. c \in t.channelMap /\ c \notin gone /\ c \in Chan
    BY <1>2 DEF Tabled, Tables
  <2>2. t.userList[c] \subseteq {n}
    BY <1>2, <2>1
  <2>3. c \in t.channelList[n]
    BY <2>1, <2>2 DEF Tabled, Known
  <2> QED
    BY <2>1, <2>2, <2>3
<1>8. u.channelList[n] = {}
  BY <1>2 DEF Tabled, Tables
<1>9. Tabled(u)
  BY <1>3, <1>4, <1>5 DEF Tabled
<1>10. \A c \in t.channelMap \ u.channelMap : c \in t.channelList[n] /\ t.userList[c] \subseteq {n}
  BY <1>2
<1>11. \A c \in u.channelMap : u.creationTime[c] = t.creationTime[c]
  BY <1>0, <1>2 DEF Tables
<1>12. \A c \in Chan : u.userList[c] = t.userList[c] \ {n}
  BY <1>2
<1> QED
  BY <1>2, <1>6, <1>7, <1>8, <1>9, <1>10, <1>11, <1>12 DEF u

-----------------------------------------------------------------------------
(* The tasks.  A handler is the first task there is, so it is at the       *)
(* bottom of the stack; the others are about a channel.                    *)
Handlers == {"J", "C", "L", "PartAll", "B", "M"}

Shaped(f) ==
    /\ f.do \notin {"J", "C", "L", "PartAll"} => f.chan \in Chan
    /\ f.do \in {"J", "C", "L"} => f.chan = NoChan
    /\ f.do \in {"J", "C", "L", "PartAll"} => f.client \in Client \ (Xclient \cup Fake)
    /\ f.do = "KickOn" => f.client \in Client \ Xclient /\ f.by \in Xclient \cup {NoClient}
    /\ f.do = "PartTask" => f.client \in Xclient
    /\ f.do = "PartAll" => f.chan \notin f.chans

(* What a handler will add to the tables is still there, or its pointer is *)
(* dead; one that parts all channels knows all those that are left.        *)
Live(f, t) ==
    /\ f.do \in {"J", "C"} => "client" \in f.dead \/ f.client \in t.clients
    /\ f.do = "B" => "chan" \in f.dead \/ f.chan \in t.channelMap
    /\ f.do = "PartAll" => \A c \in Chan : f.client \in t.userList[c] => c \in f.chans

Stacked(st, t) ==
    \A i \in 1 .. Len(st) :
        /\ Shaped(st[i]) /\ Live(st[i], t)
        /\ st[i].do \in Handlers => i = Len(st)

(* The clients whose J 0 is being handled.                                 *)
Parting(st) ==
    {n \in Client : \E i \in 1 .. Len(st) : st[i].do = "PartAll" /\ st[i].client = n}

(* The invariant of the tables and the stack.                              *)
Fit(t, st) ==
    /\ st \in Seq(Task) /\ Tabled(t)
    /\ Listed(t, Parting(st)) /\ Stacked(st, t)

Handling == TypeOK /\ Fit(net, stack)

(* Tasks that are not handlers.                                            *)
Short(f) == f \in Task /\ Shaped(f) /\ f.do \notin Handlers

Added(tasks) ==
    tasks \in Seq(Task) /\ \A i \in 1 .. Len(tasks) : Short(tasks[i])

Aged(f, t) == [f EXCEPT !.dead = @ \cup Lost(f, t)]

LEMMA Aging ==
    ASSUME NEW f \in Task, NEW t
    PROVE  LET g == Aged(f, t) IN
           /\ g \in Task
           /\ g.do = f.do /\ g.chan = f.chan /\ g.client = f.client /\ g.by = f.by
           /\ g.event = f.event
           /\ g.chans = f.chans /\ g.users = f.users /\ g.ops = f.ops /\ g.marked = f.marked
           /\ g.dead = f.dead \cup Lost(f, t)
           /\ Shaped(g) <=> Shaped(f)
  BY DEF Aged, Lost, Task, Shaped

LEMMA NewTasks ==
    ASSUME NEW do \in Work, NEW c \in Chan \cup {NoChan}, NEW n \in Client \cup {NoClient}
    PROVE  LET f == NewTask(do, c, n) IN
           /\ f \in Task
           /\ f.do = do /\ f.chan = c /\ f.client = n /\ f.by = NoClient /\ f.dead = {}
           /\ f.chans = {} /\ f.users = {} /\ f.ops = {} /\ f.marked = {}
<1>1. 0 \in Time
  BY ChannelsAssumption DEF Time
<1> QED
  BY <1>1 DEF NewTask, Task

LEMMA ShortTasks ==
    ASSUME NEW c \in Chan
    PROVE  /\ Short(Reap(c))
           /\ Reap(c).do = "Reap" /\ Reap(c).chan = c /\ Reap(c).client = NoClient
           /\ Reap(c).dead = {} /\ Reap(c).by = NoClient
           /\ \A event \in Events, n \in Client \cup {NoClient} :
                LET f == Post(event, c, n) IN
                /\ Short(f) /\ f.do = "PostAll" /\ f.chan = c /\ f.client = n
                /\ f.dead = {} /\ f.by = NoClient
           /\ \A x \in Xclient : Short(PartTask(x, c))
<1>1. Xclient \subseteq Client
  BY ChannelsAssumption
<1>2. {"Reap", "PostAll", "PartTask"} \subseteq Work
  BY DEF Work
<1>3. ASSUME NEW event \in Events, NEW n \in Client \cup {NoClient}
      PROVE  LET f == Post(event, c, n) IN
             /\ Short(f) /\ f.do = "PostAll" /\ f.chan = c /\ f.client = n
             /\ f.dead = {} /\ f.by = NoClient
  <2> DEFINE g == NewTask("PostAll", c, n)
  <2>1. /\ g \in Task /\ g.do = "PostAll" /\ g.chan = c /\ g.client = n /\ g.by = NoClient
        /\ g.dead = {}
    BY <1>2, NewTasks
  <2> HIDE DEF g
  <2>2. Post(event, c, n) = [g EXCEPT !.event = event]
    BY DEF Post, g
  <2> QED
    BY <2>1, <2>2 DEF Task, Short, Shaped, Handlers
<1>4. Short(Reap(c)) /\ Reap(c).do = "Reap" /\ Reap(c).chan = c /\ Reap(c).client = NoClient
      /\ Reap(c).dead = {} /\ Reap(c).by = NoClient
  <2> DEFINE g == NewTask("Reap", c, NoClient)
  <2>1. /\ g \in Task /\ g.do = "Reap" /\ g.chan = c /\ g.client = NoClient /\ g.dead = {}
        /\ g.by = NoClient
    BY <1>2, NewTasks
  <2> HIDE DEF g
  <2>2. Reap(c) = g
    BY DEF Reap, g
  <2> QED
    BY <2>1, <2>2 DEF Short, Shaped, Handlers
<1>5. ASSUME NEW x \in Xclient PROVE Short(PartTask(x, c))
  <2> DEFINE g == NewTask("PartTask", c, x)
  <2>1. g \in Task /\ g.do = "PartTask" /\ g.chan = c /\ g.client = x
    BY <1>1, <1>2, NewTasks
  <2> HIDE DEF g
  <2>2. PartTask(x, c) = g
    BY DEF PartTask, g
  <2> QED
    BY <2>1, <2>2 DEF Short, Shaped, Handlers
<1> QED
  BY <1>3, <1>4, <1>5

LEMMA Adding ==
    /\ Added(<<>>)
    /\ \A a : Short(a) => Added(<<a>>)
    /\ \A a, b : Short(a) /\ Short(b) => Added(<<a, b>>)
    /\ \A p, q : Added(p) /\ Added(q) => Added(p \o q)
<1>1. Added(<<>>)
  BY DEF Added
<1>2. ASSUME NEW a, NEW b, Short(a), Short(b)
      PROVE  Added(<<a>>) /\ Added(<<a, b>>)
  <2>1. a \in Task /\ b \in Task
    BY <1>2 DEF Short
  <2> HIDE DEF Task
  <2> QED
    BY <1>2, <2>1 DEF Added
<1>3. ASSUME NEW p, NEW q, Added(p), Added(q) PROVE Added(p \o q)
  <2>1. p \in Seq(Task) /\ q \in Seq(Task)
    BY <1>3 DEF Added
  <2> HIDE DEF Task
  <2>2. p \o q \in Seq(Task) /\ Len(p \o q) = Len(p) + Len(q)
    BY <2>1
  <2>3. \A i \in 1 .. Len(p \o q) :
            \/ i \in 1 .. Len(p) /\ (p \o q)[i] = p[i]
            \/ i - Len(p) \in 1 .. Len(q) /\ (p \o q)[i] = q[i - Len(p)]
    BY <2>1
  <2> QED
    BY <1>3, <2>2, <2>3 DEF Added
<1>4. \A a : Short(a) => Added(<<a>>)
  BY <1>2
<1>5. \A a, b : Short(a) /\ Short(b) => Added(<<a, b>>)
  BY <1>2
<1>6. \A p, q : Added(p) /\ Added(q) => Added(p \o q)
  BY <1>3
<1> QED
  BY <1>1, <1>4, <1>5, <1>6

-----------------------------------------------------------------------------
(* What Run() makes of the stack.                                          *)
LEMMA Pushing ==
    ASSUME NEW T, NEW s \in Seq(T), NEW q \in Seq(T)
    PROVE  /\ s \o q \in Seq(T) /\ Len(s \o q) = Len(s) + Len(q)
           /\ \A i \in 1 .. Len(s) : (s \o q)[i] = s[i]
           /\ \A i \in 1 .. Len(q) : (s \o q)[Len(s) + i] = q[i]
           /\ \A i \in 1 .. Len(s \o q) :
                \/ i \in 1 .. Len(s) /\ (s \o q)[i] = s[i]
                \/ i - Len(s) \in 1 .. Len(q) /\ (s \o q)[i] = q[i - Len(s)]
<1>1. s \o q \in Seq(T) /\ Len(s \o q) = Len(s) + Len(q)
  OBVIOUS
<1>2. \A i \in 1 .. Len(s) : (s \o q)[i] = s[i]
  OBVIOUS
<1>3. \A i \in 1 .. Len(q) : (s \o q)[Len(s) + i] = q[i]
  OBVIOUS
<1> QED
  BY <1>1, <1>2, <1>3

Rest(kept) == kept \o Below

(* st is these tasks on top of the rest, as the change to t left it.       *)
Piled(st, t, tasks, rest) ==
    /\ st \in Seq(Task) /\ Len(st) = Len(tasks) + Len(rest)
    /\ \A i \in 1 .. Len(tasks) : st[i] = tasks[i]
    /\ \A i \in 1 .. Len(rest) : st[Len(tasks) + i] = Aged(rest[i], t)
    /\ \A i \in 1 .. Len(st) :
         \/ i \in 1 .. Len(tasks) /\ st[i] = tasks[i]
         \/ i - Len(tasks) \in 1 .. Len(rest) /\ st[i] = Aged(rest[i - Len(tasks)], t)

LEMMA Pushed ==
    ASSUME NEW t, NEW tasks \in Seq(Task), NEW kept, Rest(kept) \in Seq(Task),
           Run(t, tasks, kept)
    PROVE  /\ net' = t /\ scene' = scene /\ freed' = freed
           /\ Piled(stack', t, tasks, Rest(kept))
<1> DEFINE rest == Rest(kept)
<1>1. /\ net' = t /\ scene' = scene /\ freed' = freed
      /\ stack' = tasks \o [i \in 1 .. Len(rest) |-> Aged(rest[i], t)]
  BY DEF Run, Rest, Aged
<1>2. \A f \in Task : Aged(f, t) \in Task
  BY Aging
<1> DEFINE q == [i \in 1 .. Len(rest) |-> Aged(rest[i], t)]
<1>3. stack' = tasks \o q
  BY <1>1
<1> HIDE DEF rest
<1>4. rest \in Seq(Task)
  BY DEF rest
<1>5. q \in Seq(Task) /\ Len(q) = Len(rest) /\ \A i \in 1 .. Len(rest) : q[i] = Aged(rest[i], t)
  <2>1. \A i \in 1 .. Len(rest) : Aged(rest[i], t) \in Task
    BY <1>2, <1>4
  <2> HIDE DEF Task, Aged
  <2> QED
    BY <1>4, <2>1
<1> HIDE DEF q, Task, Aged
<1>6. /\ stack' \in Seq(Task) /\ Len(stack') = Len(tasks) + Len(q)
      /\ \A i \in 1 .. Len(tasks) : stack'[i] = tasks[i]
      /\ \A i \in 1 .. Len(q) : stack'[Len(tasks) + i] = q[i]
      /\ \A i \in 1 .. Len(stack') :
                \/ i \in 1 .. Len(tasks) /\ stack'[i] = tasks[i]
                \/ i - Len(tasks) \in 1 .. Len(q) /\ stack'[i] = q[i - Len(tasks)]
  <2>1. q \in Seq(Task)
    BY <1>5
  <2> DEFINE u == tasks \o q
  <2>2. /\ u \in Seq(Task) /\ Len(u) = Len(tasks) + Len(q)
        /\ \A i \in 1 .. Len(tasks) : u[i] = tasks[i]
        /\ \A i \in 1 .. Len(q) : u[Len(tasks) + i] = q[i]
        /\ \A i \in 1 .. Len(u) :
                \/ i \in 1 .. Len(tasks) /\ u[i] = tasks[i]
                \/ i - Len(tasks) \in 1 .. Len(q) /\ u[i] = q[i - Len(tasks)]
    BY <2>1, Pushing
  <2>3. stack' = u
    BY <1>3
  <2> HIDE DEF u
  <2> QED
    BY <2>2, <2>3
<1>7. \A i \in 1 .. Len(rest) : stack'[Len(tasks) + i] = Aged(rest[i], t)
  BY <1>5, <1>6
<1>8. \A i \in 1 .. Len(stack') :
        \/ i \in 1 .. Len(tasks) /\ stack'[i] = tasks[i]
        \/ i - Len(tasks) \in 1 .. Len(rest) /\ stack'[i] = Aged(rest[i - Len(tasks)], t)
  BY <1>5, <1>6
<1> QED
  BY <1>1, <1>5, <1>6, <1>7, <1>8 DEF rest, Piled

LEMMA Resting ==
    ASSUME stack \in Seq(Task)
    PROVE  /\ stack = <<>> => Rest(<<>>) = <<>>
           /\ stack # <<>> =>
                /\ Len(stack) >= 1 /\ Head(stack) = stack[1] /\ Head(stack) \in Task
                /\ Rest(<<>>) \in Seq(Task) /\ Len(Rest(<<>>)) = Len(stack) - 1
                /\ \A i \in 1 .. Len(Rest(<<>>)) : Rest(<<>>)[i] = stack[i + 1]
           /\ stack # <<>> => \A k \in Task :
                /\ Rest(<<k>>) \in Seq(Task) /\ Len(Rest(<<k>>)) = Len(stack)
                /\ Rest(<<k>>)[1] = k
                /\ \A i \in 2 .. Len(stack) : Rest(<<k>>)[i] = stack[i]
<1> HIDE DEF Task
<1>1. stack = <<>> => Rest(<<>>) = <<>>
  BY DEF Rest, Below
<1>2. ASSUME stack # <<>>
      PROVE  /\ Len(stack) >= 1 /\ Head(stack) = stack[1] /\ Head(stack) \in Task
             /\ Rest(<<>>) \in Seq(Task) /\ Len(Rest(<<>>)) = Len(stack) - 1
             /\ \A i \in 1 .. Len(Rest(<<>>)) : Rest(<<>>)[i] = stack[i + 1]
  BY <1>2 DEF Rest, Below
<1>3. ASSUME stack # <<>>, NEW k \in Task
      PROVE  /\ Rest(<<k>>) \in Seq(Task) /\ Len(Rest(<<k>>)) = Len(stack)
             /\ Rest(<<k>>)[1] = k
             /\ \A i \in 2 .. Len(stack) : Rest(<<k>>)[i] = stack[i]
  <2> DEFINE b == Tail(stack)
  <2>1. b \in Seq(Task) /\ Len(b) = Len(stack) - 1 /\ Len(stack) >= 1
        /\ \A i \in 2 .. Len(stack) : b[i - 1] = stack[i]
    BY <1>3
  <2>2. Rest(<<k>>) = <<k>> \o b
    BY <1>3 DEF Rest, Below
  <2> DEFINE s == <<k>>
  <2>3. s \in Seq(Task) /\ Len(s) = 1 /\ s[1] = k
    BY <1>3
  <2>4. Rest(<<k>>) = s \o b
    BY <2>2
  <2> HIDE DEF b, s
  <2> DEFINE u == s \o b
  <2>5. s \in Seq(Task) /\ b \in Seq(Task)
    BY <2>1, <2>3
  <2>6. /\ u \in Seq(Task) /\ Len(u) = Len(s) + Len(b)
        /\ \A i \in 1 .. Len(s) : u[i] = s[i]
        /\ \A i \in 1 .. Len(b) : u[Len(s) + i] = b[i]
    BY <2>5, Pushing
  <2>7. Rest(<<k>>) = u
    BY <2>4
  <2> HIDE DEF u
  <2>8. u[1] = k /\ Len(u) = Len(stack)
    BY <2>1, <2>3, <2>6
  <2>9. ASSUME NEW i \in 2 .. Len(stack) PROVE u[i] = stack[i]
    <3>1. i - 1 \in 1 .. Len(b) /\ Len(s) + (i - 1) = i
      BY <2>1, <2>3
    <3>2. u[i] = b[i - 1]
      BY <2>6, <3>1
    <3> QED
      BY <2>1, <3>2
  <2> QED
    BY <2>6, <2>7, <2>8, <2>9
<1> QED
  BY <1>1, <1>2, <1>3

LEMMA ListedMore ==
    ASSUME NEW t, NEW P, NEW Q, P \subseteq Q, Listed(t, P)
    PROVE  Listed(t, Q)
  BY DEF Listed

(* A run keeps the invariant if the tables, the tasks it adds and those    *)
(* that are left do.                                                       *)
LEMMA Running ==
    ASSUME NEW t, Tabled(t), NEW tasks \in Seq(Task),
           NEW kept, Rest(kept) \in Seq(Task), Run(t, tasks, kept),
           \A i \in 1 .. Len(tasks) :
               /\ Shaped(tasks[i]) /\ Live(tasks[i], t)
               /\ tasks[i].do \in Handlers => i = Len(tasks) /\ Rest(kept) = <<>>,
           \A i \in 1 .. Len(Rest(kept)) :
               /\ Shaped(Rest(kept)[i]) /\ Live(Aged(Rest(kept)[i], t), t)
               /\ Rest(kept)[i].do \in Handlers => i = Len(Rest(kept)),
           Listed(t, Parting(tasks) \cup Parting(Rest(kept)))
    PROVE  Fit(net', stack')
<1> DEFINE rest == Rest(kept)
<1>1. /\ net' = t
      /\ stack' \in Seq(Task) /\ Len(stack') = Len(tasks) + Len(rest)
      /\ \A i \in 1 .. Len(tasks) : stack'[i] = tasks[i]
      /\ \A i \in 1 .. Len(rest) : stack'[Len(tasks) + i] = Aged(rest[i], t)
      /\ \A i \in 1 .. Len(stack') :
           \/ i \in 1 .. Len(tasks) /\ stack'[i] = tasks[i]
           \/ i - Len(tasks) \in 1 .. Len(rest) /\ stack'[i] = Aged(rest[i - Len(tasks)], t)
  <2>1. net' = t /\ Piled(stack', t, tasks, rest)
    BY Pushed
  <2> HIDE DEF rest
  <2> QED
    BY <2>1 DEF Piled
<1>2. \A i \in 1 .. Len(rest) :
        /\ Shaped(rest[i]) /\ Live(Aged(rest[i], t), t)
        /\ rest[i].do \in Handlers => i = Len(rest)
  OBVIOUS
<1>3. rest \in Seq(Task) /\ Listed(t, Parting(tasks) \cup Parting(rest))
  OBVIOUS
<1>4. \A i \in 1 .. Len(tasks) : tasks[i].do \in Handlers => i = Len(tasks) /\ rest = <<>>
  OBVIOUS
<1> HIDE DEF rest
<1>5. \A i \in 1 .. Len(rest) : LET g == Aged(rest[i], t) IN
        g.do = rest[i].do /\ g.client = rest[i].client /\ (Shaped(g) <=> Shaped(rest[i]))
  BY <1>3, Aging
<1>6. Stacked(stack', net')
  <2> SUFFICES ASSUME NEW i \in 1 .. Len(stack')
               PROVE  /\ Shaped(stack'[i]) /\ Live(stack'[i], t)
                      /\ stack'[i].do \in Handlers => i = Len(stack')
    BY <1>1 DEF Stacked
  <2>1. Len(tasks) \in Nat /\ Len(rest) \in Nat /\ (rest = <<>> => Len(rest) = 0)
    BY <1>3
  <2>2. CASE i \in 1 .. Len(tasks) /\ stack'[i] = tasks[i]
    BY <1>1, <1>4, <2>1, <2>2
  <2>3. CASE i - Len(tasks) \in 1 .. Len(rest) /\ stack'[i] = Aged(rest[i - Len(tasks)], t)
    <3> DEFINE j == i - Len(tasks)
    <3>1. j \in 1 .. Len(rest) /\ stack'[i] = Aged(rest[j], t) /\ (j = Len(rest) => i = Len(stack'))
      BY <1>1, <2>1, <2>3
    <3> HIDE DEF j
    <3> QED
      BY <1>2, <1>5, <3>1
  <2> QED
    BY <1>1, <2>2, <2>3
<1>7. Parting(tasks) \cup Parting(rest) \subseteq Parting(stack')
  <2>1. Len(tasks) \in Nat /\ Len(rest) \in Nat
    BY <1>3
  <2>2. \A i \in 1 .. Len(tasks) : i \in 1 .. Len(stack')
    BY <1>1, <2>1
  <2>3. \A i \in 1 .. Len(rest) : Len(tasks) + i \in 1 .. Len(stack')
    BY <1>1, <2>1
  <2>4. Parting(tasks) \subseteq Parting(stack')
    BY <1>1, <2>2 DEF Parting
  <2>5. Parting(rest) \subseteq Parting(stack')
    <3> SUFFICES ASSUME NEW n \in Parting(rest) PROVE n \in Parting(stack')
      OBVIOUS
    <3>1. PICK i \in 1 .. Len(rest) : rest[i].do = "PartAll" /\ rest[i].client = n
      BY DEF Parting
    <3>2. stack'[Len(tasks) + i].do = "PartAll" /\ stack'[Len(tasks) + i].client = n
      BY <1>1, <1>5, <3>1
    <3> QED
      BY <2>3, <3>1, <3>2 DEF Parting
  <2> QED
    BY <2>4, <2>5
<1>8. Listed(net', Parting(stack'))
  BY <1>1, <1>3, <1>7, ListedMore
<1> QED
  BY <1>1, <1>6, <1>8 DEF Fit

(* A message, when nothing is under way.                                   *)
LEMMA IdleRun ==
    ASSUME Fit(net, stack), stack = <<>>, NEW t, Tabled(t), Listed(t, {}),
           NEW tasks \in Seq(Task), Stacked(tasks, t), Run(t, tasks, <<>>)
    PROVE  Fit(net', stack')
<1>1. Rest(<<>>) = <<>>
  BY Resting DEF Fit
<1> DEFINE kept == <<>>
<1>2. Rest(kept) = <<>> /\ Run(t, tasks, kept) /\ Rest(kept) \in Seq(Task)
  <2>1. <<>> \in Seq(Task)
    BY EmptySeq
  <2>2. Run(t, tasks, kept)
    OBVIOUS
  <2> HIDE DEF kept
  <2>3. Rest(kept) = <<>>
    BY <1>1 DEF kept
  <2> QED
    BY <2>1, <2>2, <2>3
<1>3. \A i \in 1 .. Len(tasks) :
        /\ Shaped(tasks[i]) /\ Live(tasks[i], t)
        /\ tasks[i].do \in Handlers => i = Len(tasks) /\ Rest(kept) = <<>>
  BY <1>2 DEF Stacked
<1>4. Listed(t, Parting(tasks) \cup Parting(Rest(kept)))
  BY ListedMore
<1>5. Len(Rest(kept)) = 0
  BY <1>2
<1> HIDE DEF kept
<1>6. \A i \in 1 .. Len(Rest(kept)) :
        /\ Shaped(Rest(kept)[i]) /\ Live(Aged(Rest(kept)[i], t), t)
        /\ Rest(kept)[i].do \in Handlers => i = Len(Rest(kept))
  BY <1>5
<1> QED
  BY <1>2, <1>3, <1>4, <1>6, Running

LEMMA AddedStacked ==
    ASSUME NEW tasks, Added(tasks), NEW t
    PROVE  /\ tasks \in Seq(Task)
           /\ \A i \in 1 .. Len(tasks) :
                Shaped(tasks[i]) /\ Live(tasks[i], t) /\ tasks[i].do \notin Handlers
           /\ Stacked(tasks, t)
  BY DEF Added, Short, Live, Handlers, Stacked

LEMMA BottomHandler ==
    ASSUME Fit(net, stack), stack # <<>>, Head(stack).do \in Handlers
    PROVE  /\ Len(stack) = 1 /\ Rest(<<>>) = <<>>
           /\ \A k \in Task : Rest(<<k>>) \in Seq(Task) /\ Len(Rest(<<k>>)) = 1 /\ Rest(<<k>>)[1] = k
<1>1. Len(stack) = 1
  BY Resting DEF Fit, Stacked
<1>2. Rest(<<>>) = <<>>
  <2>1. Rest(<<>>) \in Seq(Task) /\ Len(Rest(<<>>)) = 0
    BY <1>1, Resting DEF Fit
  <2> DEFINE r == Rest(<<>>)
  <2>2. r \in Seq(Task) /\ Len(r) = 0
    BY <2>1
  <2> HIDE DEF r
  <2>3. r = <<>>
    BY <2>2
  <2> QED
    BY <2>3 DEF r
<1> QED
  BY <1>1, <1>2, Resting DEF Fit

(* The handler at the bottom ends ...                                      *)
LEMMA LastRun ==
    ASSUME Fit(net, stack), stack # <<>>, Head(stack).do \in Handlers,
           NEW t, Tabled(t), Listed(t, {}),
           NEW tasks, Added(tasks), Run(t, tasks, <<>>)
    PROVE  Fit(net', stack')
<1> DEFINE kept == <<>>
<1>1. Rest(kept) = <<>> /\ Run(t, tasks, kept) /\ Rest(kept) \in Seq(Task) /\ Len(Rest(kept)) = 0
  <2>1. <<>> \in Seq(Task) /\ Len(<<>>) = 0
    BY EmptySeq
  <2>2. Run(t, tasks, kept)
    OBVIOUS
  <2>3. Rest(kept) = <<>>
    BY BottomHandler
  <2> QED
    BY <2>1, <2>2, <2>3
<1>2. tasks \in Seq(Task) /\ \A i \in 1 .. Len(tasks) :
        /\ Shaped(tasks[i]) /\ Live(tasks[i], t)
        /\ tasks[i].do \in Handlers => i = Len(tasks) /\ Rest(kept) = <<>>
  BY AddedStacked
<1>3. Listed(t, Parting(tasks) \cup Parting(Rest(kept)))
  BY ListedMore
<1> HIDE DEF kept
<1>4. \A i \in 1 .. Len(Rest(kept)) :
        /\ Shaped(Rest(kept)[i]) /\ Live(Aged(Rest(kept)[i], t), t)
        /\ Rest(kept)[i].do \in Handlers => i = Len(Rest(kept))
  BY <1>1
<1> QED
  BY <1>1, <1>2, <1>3, <1>4, Running

(* ... or goes on as k.                                                    *)
LEMMA NextRun ==
    ASSUME Fit(net, stack), stack # <<>>, Head(stack).do \in Handlers,
           NEW t, Tabled(t), NEW k \in Task, Shaped(k), Live(Aged(k, t), t),
           Listed(t, {n \in {k.client} : k.do = "PartAll"}), k.client \in Client \cup {NoClient},
           NEW tasks, Added(tasks), Run(t, tasks, <<k>>)
    PROVE  Fit(net', stack')
<1> DEFINE kept == <<k>>
<1>1. Rest(kept) \in Seq(Task) /\ Len(Rest(kept)) = 1 /\ Rest(kept)[1] = k /\ Run(t, tasks, kept)
  BY BottomHandler
<1>2. tasks \in Seq(Task) /\ \A i \in 1 .. Len(tasks) :
        /\ Shaped(tasks[i]) /\ Live(tasks[i], t)
        /\ tasks[i].do \in Handlers => i = Len(tasks) /\ Rest(kept) = <<>>
  BY AddedStacked
<1> HIDE DEF kept
<1>3. \A i \in 1 .. Len(Rest(kept)) :
        /\ Shaped(Rest(kept)[i]) /\ Live(Aged(Rest(kept)[i], t), t)
        /\ Rest(kept)[i].do \in Handlers => i = Len(Rest(kept))
  BY <1>1
<1>4. {n \in {k.client} : k.do = "PartAll"} \subseteq Parting(Rest(kept))
  <2> SUFFICES ASSUME k.do = "PartAll" PROVE k.client \in Parting(Rest(kept))
    OBVIOUS
  <2>1. k.client \in Client
    BY DEF Shaped
  <2> QED
    BY <1>1, <2>1 DEF Parting
<1>5. Listed(t, Parting(tasks) \cup Parting(Rest(kept)))
  BY <1>4, ListedMore
<1> QED
  BY <1>1, <1>2, <1>3, <1>5, Running

(* A call of a module: when idle, or on an event, of which kept is left.   *)
Called(kept) ==
    \/ stack = <<>> /\ kept = <<>>
    \/ /\ stack # <<>> /\ Head(stack).do \notin Handlers
       /\ kept = <<>> \/ \E k : Short(k) /\ kept = <<k>>

LEMMA LiveAged ==
    ASSUME NEW f \in Task, Shaped(f), Live(f, net), NEW t,
           \A c \in Chan : t.userList[c] \subseteq net.userList[c] \cup Xclient
    PROVE  Live(Aged(f, t), t)
<1> DEFINE g == Aged(f, t)
<1>1. /\ g.do = f.do /\ g.chan = f.chan /\ g.client = f.client /\ g.chans = f.chans
      /\ g.dead = f.dead \cup Lost(f, t)
  BY Aging
<1> HIDE DEF g
<1>2. /\ f.chan \in net.channelMap \ t.channelMap => "chan" \in Lost(f, t)
      /\ f.client \in net.clients \ t.clients => "client" \in Lost(f, t)
  BY DEF Lost, Pointers
<1>3. g.do = "PartAll" => \A c \in Chan : g.client \in t.userList[c] => c \in g.chans
  BY <1>1 DEF Live, Shaped
<1>4. /\ g.do \in {"J", "C"} => "client" \in g.dead \/ g.client \in t.clients
      /\ g.do = "B" => "chan" \in g.dead \/ g.chan \in t.channelMap
  BY <1>1, <1>2 DEF Live
<1> QED
  BY <1>3, <1>4 DEF Live, g

LEMMA CalledRest ==
    ASSUME Fit(net, stack), NEW kept, Called(kept)
    PROVE  /\ Rest(kept) \in Seq(Task) /\ Stacked(Rest(kept), net)
           /\ Parting(stack) \subseteq Parting(Rest(kept))
<1> DEFINE rest == Rest(kept)
<1>1. stack \in Seq(Task) /\ Stacked(stack, net)
  BY DEF Fit
<1>2. CASE stack = <<>> /\ kept = <<>>
  <2>1. rest = stack
    BY <1>1, <1>2, Resting
  <2> QED
    BY <1>1, <2>1
<1>3. CASE stack # <<>> /\ Head(stack).do \notin Handlers /\ kept = <<>>
  <2>1. /\ rest \in Seq(Task) /\ Len(rest) = Len(stack) - 1 /\ Len(stack) >= 1
        /\ \A i \in 1 .. Len(rest) : rest[i] = stack[i + 1]
        /\ stack[1].do \notin Handlers
    BY <1>1, <1>3, Resting
  <2> HIDE DEF rest
  <2>2. \A i \in 1 .. Len(rest) : i + 1 \in 1 .. Len(stack) /\ (i + 1 = Len(stack) => i = Len(rest))
    BY <1>1, <2>1
  <2>3. Stacked(rest, net)
    BY <1>1, <2>1, <2>2 DEF Stacked
  <2>4. Parting(stack) \subseteq Parting(rest)
    <3> SUFFICES ASSUME NEW n \in Parting(stack) PROVE n \in Parting(rest)
      OBVIOUS
    <3>1. PICK i \in 1 .. Len(stack) : stack[i].do = "PartAll" /\ stack[i].client = n
      BY DEF Parting
    <3>2. i # 1
      BY <2>1, <3>1 DEF Handlers
    <3>3. i - 1 \in 1 .. Len(rest) /\ (i - 1) + 1 = i
      BY <1>1, <2>1, <3>2
    <3>4. rest[i - 1] = stack[i]
      BY <2>1, <3>3
    <3> QED
      BY <3>1, <3>3, <3>4 DEF Parting
  <2> QED
    BY <2>1, <2>3, <2>4 DEF rest
<1>4. CASE stack # <<>> /\ Head(stack).do \notin Handlers /\ \E k : Short(k) /\ kept = <<k>>
  <2>1. PICK k : Short(k) /\ kept = <<k>>
    BY <1>4
  <2>2. k \in Task /\ Shaped(k) /\ Live(k, net) /\ k.do \notin Handlers
    BY <2>1 DEF Short, Live, Handlers
  <2>3. /\ rest \in Seq(Task) /\ Len(rest) = Len(stack) /\ rest[1] = k
        /\ \A i \in 2 .. Len(stack) : rest[i] = stack[i]
        /\ stack[1].do \notin Handlers
    BY <1>1, <1>4, <2>1, <2>2, Resting
  <2> HIDE DEF rest
  <2>4. \A i \in 1 .. Len(rest) : i = 1 \/ i \in 2 .. Len(stack)
    BY <1>1, <2>3
  <2>5. \A i \in 2 .. Len(stack) : i \in 1 .. Len(stack)
    BY <1>1
  <2>6. Stacked(rest, net)
    BY <1>1, <2>2, <2>3, <2>4, <2>5 DEF Stacked
  <2>7. Parting(stack) \subseteq Parting(rest)
    <3> SUFFICES ASSUME NEW n \in Parting(stack) PROVE n \in Parting(rest)
      OBVIOUS
    <3>1. PICK i \in 1 .. Len(stack) : stack[i].do = "PartAll" /\ stack[i].client = n
      BY DEF Parting
    <3>2. i # 1
      BY <2>3, <3>1 DEF Handlers
    <3>3. i \in 2 .. Len(stack) /\ i \in 1 .. Len(rest)
      BY <1>1, <2>3, <3>2
    <3> QED
      BY <2>3, <3>1, <3>3 DEF Parting
  <2> QED
    BY <2>3, <2>6, <2>7 DEF rest
<1> QED
  BY <1>2, <1>3, <1>4 DEF Called

LEMMA CallRun ==
    ASSUME Fit(net, stack), NEW kept, Called(kept),
           NEW t, Tabled(t), Listed(t, Parting(stack)),
           \A c \in Chan : t.userList[c] \subseteq net.userList[c] \cup Xclient,
           NEW tasks, Added(tasks), Run(t, tasks, kept)
    PROVE  Fit(net', stack')
<1>1. tasks \in Seq(Task) /\ \A i \in 1 .. Len(tasks) :
        /\ Shaped(tasks[i]) /\ Live(tasks[i], t)
        /\ tasks[i].do \in Handlers => i = Len(tasks) /\ Rest(kept) = <<>>
  BY AddedStacked
<1>2. /\ Rest(kept) \in Seq(Task) /\ Stacked(Rest(kept), net)
      /\ Parting(stack) \subseteq Parting(Rest(kept))
  BY CalledRest
<1>3. \A i \in 1 .. Len(Rest(kept)) :
        /\ Shaped(Rest(kept)[i]) /\ Live(Aged(Rest(kept)[i], t), t)
        /\ Rest(kept)[i].do \in Handlers => i = Len(Rest(kept))
  <2> DEFINE rest == Rest(kept)
  <2>1. rest \in Seq(Task) /\ Stacked(rest, net)
    BY <1>2
  <2> HIDE DEF rest
  <2>2. \A i \in 1 .. Len(rest) : rest[i] \in Task
    BY <2>1
  <2>3. \A i \in 1 .. Len(rest) : Live(Aged(rest[i], t), t)
    BY <2>1, <2>2, LiveAged DEF Stacked
  <2> QED
    BY <2>1, <2>3 DEF rest, Stacked
<1>4. Listed(t, Parting(tasks) \cup Parting(Rest(kept)))
  BY <1>2, ListedMore
<1> QED
  BY <1>1, <1>2, <1>3, <1>4, Running

-----------------------------------------------------------------------------
(* The steps.                                                              *)
LEMMA Constants ==
    /\ Xclient \subseteq Client /\ Fake \subseteq Client /\ Xclient \cap Fake = {}
    /\ NoChan \notin Chan /\ NoClient \notin Client /\ 0 \in Time /\ 1 \in Time
    /\ Time \subseteq Nat
    /\ TypeOK => /\ scene.clients \subseteq Client /\ scene.chans \subseteq Chan
                 /\ scene.bursting \in BOOLEAN
  BY ChannelsAssumption DEF Time, TypeOK

SentTypes == [cmd : {"C", "B", "J"}, chan : Chan, ts : Time, late : BOOLEAN]

LEMMA Typed ==
    ASSUME TypeOK, Fit(net', stack'), UNCHANGED <<scene, freed>>,
           now' \in Time, sent' \subseteq SentTypes
    PROVE  Handling'
  BY DEF TypeOK, Fit, Handling, SentTypes, Tabled

LEMMA QuietTyped ==
    ASSUME TypeOK, Fit(net', stack'), NEW t, NEW tasks, NEW kept, Continue(t, tasks, kept)
    PROVE  Handling'
<1>1. UNCHANGED <<scene, freed, now>> /\ sent' = {}
  BY DEF Continue, Quiet, Run
<1>2. now' \in Time /\ sent' \subseteq SentTypes
  BY <1>1 DEF TypeOK
<1> QED
  BY <1>1, <1>2, Typed

LEMMA IdleListed ==
    ASSUME Fit(net, stack), stack = <<>>
    PROVE  Listed(net, {})
<1>1. Parting(stack) = {}
  BY DEF Parting
<1> QED
  BY <1>1 DEF Fit

LEMMA HandlerListed ==
    ASSUME Fit(net, stack), stack # <<>>, Head(stack).do \in Handlers
    PROVE  Listed(net, {n \in {Head(stack).client} : Head(stack).do = "PartAll"})
<1>1. Len(stack) = 1 /\ Head(stack) = stack[1]
  BY BottomHandler, Resting DEF Fit
<1>2. Parting(stack) \subseteq {n \in {Head(stack).client} : Head(stack).do = "PartAll"}
  BY <1>1 DEF Parting
<1> QED
  BY <1>2, ListedMore DEF Fit

(* A message that leaves tasks.                                            *)
LEMMA IdleAdded ==
    ASSUME Handling, stack = <<>>, NEW t, Tabled(t), Listed(t, {}),
           NEW tasks, Added(tasks), Run(t, tasks, <<>>)
    PROVE  Fit(net', stack')
<1>1. Stacked(tasks, t) /\ tasks \in Seq(Task)
  BY AddedStacked
<1> QED
  BY <1>1, IdleRun DEF Handling

(* A message that starts a handler.                                        *)
LEMMA IdleOne ==
    ASSUME Handling, stack = <<>>, NEW t, Tabled(t), Listed(t, {}),
           NEW h \in Task, Shaped(h), Live(h, t), Continue(t, <<h>>, <<>>)
    PROVE  Handling'
<1> DEFINE tasks == <<h>>
<1>1. tasks \in Seq(Task) /\ Len(tasks) = 1 /\ tasks[1] = h
  OBVIOUS
<1>2. Run(t, tasks, <<>>)
  BY DEF Continue
<1> HIDE DEF tasks
<1>3. Stacked(tasks, t)
  BY <1>1 DEF Stacked
<1>4. Fit(net', stack')
  BY <1>1, <1>2, <1>3, IdleRun DEF Handling
<1> QED
  BY <1>4, QuietTyped DEF Handling

LEMMA ListStep ==
    ASSUME Handling, NEW cmd \in {"J", "C", "L"}, NEW n \in Client,
           NEW chans \in SUBSET Chan, NEW ts \in Time, List(cmd, n, chans, ts)
    PROVE  Handling'
<1> DEFINE g == NewTask(cmd, NoChan, n)
<1> DEFINE h == [g EXCEPT !.chans = chans, !.ts = ts]
<1>1. cmd \in Work
  BY DEF Work
<1>2. g \in Task /\ g.do = cmd /\ g.chan = NoChan /\ g.client = n /\ g.dead = {}
  BY <1>1, NewTasks
<1>3. Continue(net, <<h>>, <<>>) /\ stack = <<>> /\ n \in net.clients \ (Xclient \cup Fake)
  BY DEF List, Idle
<1> HIDE DEF g
<1>4. h \in Task /\ h.do = cmd /\ h.chan = NoChan /\ h.client = n
  BY <1>2 DEF Task
<1> HIDE DEF h
<1>5. Shaped(h) /\ Live(h, net)
  BY <1>3, <1>4 DEF Shaped, Live
<1>6. Tabled(net) /\ Listed(net, {})
  BY <1>3, IdleListed DEF Handling, Fit
<1> QED
  BY <1>3, <1>4, <1>5, <1>6, IdleOne

LEMMA J0Step ==
    ASSUME Handling, NEW n \in Client, msg_J_0(n)
    PROVE  Handling'
<1> DEFINE g == NewTask("PartAll", NoChan, n)
<1> DEFINE h == [g EXCEPT !.chans = net.channelList[n]]
<1>1. "PartAll" \in Work
  BY DEF Work
<1>2. g \in Task /\ g.do = "PartAll" /\ g.chan = NoChan /\ g.client = n /\ g.dead = {}
  BY <1>1, NewTasks
<1>3. Continue(net, <<h>>, <<>>) /\ stack = <<>> /\ n \in net.clients \ (Xclient \cup Fake)
  BY DEF msg_J_0, Idle
<1>4. Tabled(net) /\ Listed(net, {})
  BY <1>3, IdleListed DEF Handling, Fit
<1> HIDE DEF g
<1>5. h \in Task /\ h.do = "PartAll" /\ h.chan = NoChan /\ h.client = n
      /\ h.chans = net.channelList[n]
  BY <1>2, <1>4 DEF Task, Tabled, Tables
<1> HIDE DEF h
<1>6. h.chans \subseteq Chan /\ NoChan \notin Chan
  BY <1>4, <1>5, Constants DEF Tabled, Tables
<1>7. Shaped(h)
  BY <1>3, <1>5, <1>6 DEF Shaped
<1>8. Live(h, net)
  BY <1>4, <1>5 DEF Live, Tabled, Known
<1> QED
  BY <1>3, <1>4, <1>5, <1>7, <1>8, IdleOne

LEMMA BurstStep ==
    ASSUME Handling, NEW c \in Chan, NEW ts \in Time, NEW users \in SUBSET Client,
           NEW marked \in SUBSET users, msg_B(c, ts, users, marked)
    PROVE  Handling'
<1> DEFINE g == NewTask("B", c, NoClient)
<1> DEFINE h == [g EXCEPT !.users = users, !.marked = marked]
<1> DEFINE t == IF c \notin net.channelMap THEN WithChannel(net, c, ts)
                ELSE IF ts < net.creationTime[c] THEN Older(net, c, ts)
                ELSE net
<1>1. "B" \in Work
  BY DEF Work
<1>2. g \in Task /\ g.do = "B" /\ g.chan = c /\ g.client = NoClient /\ g.dead = {}
  BY <1>1, NewTasks
<1>3. Continue(t, <<h>>, <<>>) /\ stack = <<>>
  BY DEF msg_B, Idle
<1>4. Tabled(net) /\ Listed(net, {})
  BY <1>3, IdleListed DEF Handling, Fit
<1>5. Tabled(t) /\ Listed(t, {}) /\ c \in t.channelMap
  BY <1>4, Channelled, Resetting
<1> HIDE DEF g, t
<1>6. h \in Task /\ h.do = "B" /\ h.chan = c
  BY <1>2 DEF Task
<1> HIDE DEF h
<1>7. Shaped(h) /\ Live(h, t)
  BY <1>5, <1>6 DEF Shaped, Live
<1> QED
  BY <1>3, <1>5, <1>6, <1>7, IdleOne

LEMMA ModeStep ==
    ASSUME Handling, NEW server \in BOOLEAN, NEW c \in Chan, NEW n \in Client,
           NEW plus \in BOOLEAN, NEW ts \in Time, msg_M(server, c, n, plus, ts)
    PROVE  Handling'
<1> DEFINE g == NewTask("M", c, NoClient)
<1> DEFINE h == [g EXCEPT !.users = {n}, !.ts = ts, !.marked = IF plus THEN {n} ELSE {}]
<1> DEFINE e == Post("SERVERMODE", c, NoClient)
<1>1. "M" \in Work /\ "SERVERMODE" \in Events
  BY DEF Work, Events
<1>2. g \in Task /\ g.do = "M" /\ g.chan = c
  BY <1>1, NewTasks
<1>3. Continue(net, (IF server THEN <<e>> ELSE <<>>) \o <<h>>, <<>>) /\ stack = <<>>
  BY DEF msg_M, Idle
<1>4. Tabled(net) /\ Listed(net, {})
  BY <1>3, IdleListed DEF Handling, Fit
<1>5. Short(e)
  BY <1>1, ShortTasks
<1> HIDE DEF g, e
<1>6. h \in Task /\ h.do = "M" /\ h.chan = c
  BY <1>2 DEF Task
<1> HIDE DEF h
<1>7. Shaped(h) /\ Live(h, net)
  BY <1>6 DEF Shaped, Live
<1>8. CASE ~server
  <2>1. Continue(net, <<h>>, <<>>)
    <3>1. <<>> \o <<h>> = <<h>>
      BY <1>6
    <3> QED
      BY <1>3, <1>8, <3>1
  <2> QED
    BY <1>3, <1>4, <1>6, <1>7, <2>1, IdleOne
<1>9. CASE server
  <2> DEFINE p == <<e>>
  <2> DEFINE q == <<h>>
  <2> DEFINE tasks == p \o q
  <2>1. p \in Seq(Task) /\ Len(p) = 1 /\ p[1] = e /\ q \in Seq(Task) /\ Len(q) = 1 /\ q[1] = h
    BY <1>5, <1>6 DEF Short
  <2>2. Continue(net, tasks, <<>>)
    BY <1>3, <1>9
  <2> HIDE DEF p, q
  <2>3. tasks \in Seq(Task) /\ Len(tasks) = 2 /\ tasks[1] = e /\ tasks[2] = h
    <3>0. p \in Seq(Task) /\ q \in Seq(Task)
      BY <2>1
    <3>1. /\ tasks \in Seq(Task) /\ Len(tasks) = Len(p) + Len(q)
          /\ \A i \in 1 .. Len(p) : tasks[i] = p[i]
          /\ \A i \in 1 .. Len(q) : tasks[Len(p) + i] = q[i]
      BY <3>0, Pushing
    <3> HIDE DEF tasks
    <3>2. 1 \in 1 .. Len(p) /\ 1 \in 1 .. Len(q) /\ Len(p) + 1 = 2 /\ Len(p) + Len(q) = 2
      BY <2>1
    <3>3. tasks[1] = e /\ tasks[Len(p) + 1] = h
      BY <2>1, <3>1, <3>2
    <3> QED
      BY <3>1, <3>2, <3>3
  <2> HIDE DEF tasks
  <2>4. Shaped(e) /\ Live(e, net) /\ e.do \notin Handlers
    BY <1>5 DEF Short, Live, Handlers
  <2>5. Stacked(tasks, net)
    BY <1>7, <2>3, <2>4 DEF Stacked
  <2>6. Fit(net', stack')
    BY <1>3, <1>4, <2>2, <2>3, <2>5, IdleRun DEF Handling, Continue
  <2> QED
    BY <2>2, <2>6, QuietTyped DEF Handling
<1> QED
  BY <1>8, <1>9

LEMMA SignOnStep ==
    ASSUME Handling, NEW n \in Client, SignOn(n)
    PROVE  Handling'
<1> DEFINE t == [net EXCEPT !.clients = @ \cup {n}]
<1>1. Continue(t, <<>>, <<>>) /\ stack = <<>>
  BY DEF SignOn, Idle
<1>2. Tabled(net) /\ Listed(net, {})
  BY <1>1, IdleListed DEF Handling, Fit
<1>3. Tabled(t) /\ Listed(t, {})
  BY <1>2 DEF Tabled, Tables, Known, Listed
<1> HIDE DEF t
<1>4. Fit(net', stack')
  BY <1>1, <1>3, Adding, IdleAdded DEF Continue
<1> QED
  BY <1>1, <1>4, QuietTyped DEF Handling

LEMMA QuitStep ==
    ASSUME Handling, NEW n \in Client, Quit(n)
    PROVE  Handling'
<1> DEFINE t == WithoutClient(net, n)
<1>1. Continue(t, <<>>, <<>>) /\ stack = <<>>
  BY DEF Quit, Idle
<1>2. Tabled(net) /\ Listed(net, {})
  BY <1>1, IdleListed DEF Handling, Fit
<1>3. Tabled(t) /\ Listed(t, {})
  BY <1>2, Removing
<1> HIDE DEF t
<1>4. Fit(net', stack')
  BY <1>1, <1>3, Adding, IdleAdded DEF Continue
<1> QED
  BY <1>1, <1>4, QuietTyped DEF Handling

LEMMA KickMessageStep ==
    ASSUME Handling, NEW c \in Chan, NEW n \in Client, NEW local \in BOOLEAN,
           msg_K(c, n, local)
    PROVE  Handling'
<1> DEFINE t == WithoutUser(net, n, c)
<1> DEFINE tasks == <<Post(IF local THEN "LOCALKICK" ELSE "KICK", c, n), Reap(c)>>
<1>1. Continue(t, tasks, <<>>) /\ stack = <<>>
  BY DEF msg_K, Idle
<1>2. Tabled(net) /\ Listed(net, {})
  BY <1>1, IdleListed DEF Handling, Fit
<1>3. Tabled(t) /\ Listed(t, {})
  BY <1>2, Leaving
<1>4. (IF local THEN "LOCALKICK" ELSE "KICK") \in Events
  BY DEF Events
<1>5. Added(tasks)
  BY <1>4, ShortTasks, Adding
<1> HIDE DEF t, tasks
<1>6. Fit(net', stack')
  BY <1>1, <1>3, <1>5, IdleAdded DEF Continue
<1> QED
  BY <1>1, <1>6, QuietTyped DEF Handling

LEMMA FakeStep ==
    ASSUME Handling, NEW n \in Fake, NEW c \in Chan, JoinFake(n, c) \/ PartFake(n, c)
    PROVE  Handling'
<1>1. stack = <<>> /\ n \in net.clients /\ c \in net.channelMap /\ n \in Client
  BY Constants DEF JoinFake, PartFake, Idle
<1>2. Tabled(net) /\ Listed(net, {})
  BY <1>1, IdleListed DEF Handling, Fit
<1>3. "JOIN" \in Events /\ "PART" \in Events
  BY DEF Events
<1>4. CASE JoinFake(n, c)
  <2> DEFINE t == WithUser(net, n, c, FALSE)
  <2> DEFINE tasks == <<Post("JOIN", c, n)>>
  <2>1. Continue(t, tasks, <<>>)
    BY <1>4 DEF JoinFake
  <2>2. Tabled(t) /\ Listed(t, {})
    BY <1>1, <1>2, Joining
  <2>3. Added(tasks)
    BY <1>1, <1>3, ShortTasks, Adding
  <2> HIDE DEF t, tasks
  <2>4. Fit(net', stack')
    BY <1>1, <2>1, <2>2, <2>3, IdleAdded DEF Continue
  <2> QED
    BY <2>1, <2>4, QuietTyped DEF Handling
<1>5. CASE PartFake(n, c)
  <2> DEFINE t == WithoutUser(net, n, c)
  <2> DEFINE tasks == <<Post("PART", c, n)>>
  <2>1. Continue(t, tasks, <<>>)
    BY <1>5 DEF PartFake
  <2>2. Tabled(t) /\ Listed(t, {})
    BY <1>1, <1>2, Leaving
  <2>3. Added(tasks)
    BY <1>1, <1>3, ShortTasks, Adding
  <2> HIDE DEF t, tasks
  <2>4. Fit(net', stack')
    BY <1>1, <2>1, <2>2, <2>3, IdleAdded DEF Continue
  <2> QED
    BY <2>1, <2>4, QuietTyped DEF Handling
<1> QED
  BY <1>4, <1>5

LEMMA BurstChannelStep ==
    ASSUME Handling, NEW c \in Chan, NEW ts \in Time, BurstChannel(c, ts)
    PROVE  Handling'
<1> DEFINE t == Older(net, c, ts)
<1>1. Run(t, <<>>, <<>>) /\ stack = <<>> /\ now' = now
      /\ sent' = {[cmd |-> "B", chan |-> c, ts |-> ts, late |-> FALSE]}
  BY DEF BurstChannel, Idle
<1>2. Tabled(net) /\ Listed(net, {})
  BY <1>1, IdleListed DEF Handling, Fit
<1>3. Tabled(t) /\ Listed(t, {})
  BY <1>2, Resetting
<1> HIDE DEF t
<1>4. Fit(net', stack')
  BY <1>1, <1>3, Adding, IdleAdded
<1>5. UNCHANGED <<scene, freed>> /\ now' \in Time /\ sent' \subseteq SentTypes
  BY <1>1 DEF Run, Handling, TypeOK, SentTypes
<1> QED
  BY <1>4, <1>5, Typed DEF Handling

LEMMA RejoinStep ==
    ASSUME Handling, NEW x, NEW c \in Chan, NEW ts \in Time, Rejoin(x, c, ts)
    PROVE  Handling'
<1> DEFINE t == Older(net, c, ts)
<1>1. Continue(t, <<>>, <<>>) /\ stack = <<>>
  BY DEF Rejoin, Idle
<1>2. Tabled(net) /\ Listed(net, {})
  BY <1>1, IdleListed DEF Handling, Fit
<1>3. Tabled(t) /\ Listed(t, {})
  BY <1>2, Resetting
<1> HIDE DEF t
<1>4. Fit(net', stack')
  BY <1>1, <1>3, Adding, IdleAdded DEF Continue
<1> QED
  BY <1>1, <1>4, QuietTyped DEF Handling

-----------------------------------------------------------------------------
(* The calls of the modules.                                               *)
LEMMA Joined_x ==
    ASSUME NEW t, Tabled(t), NEW P, Listed(t, P), NEW x \in Xclient, x \in t.clients,
           NEW c \in t.channelMap, NEW op \in BOOLEAN,
           \A d \in Chan : t.userList[d] \subseteq net.userList[d] \cup Xclient
    PROVE  LET u == WithUser(t, x, c, op) IN
           /\ Tabled(u) /\ Listed(u, P)
           /\ \A d \in Chan : u.userList[d] \subseteq net.userList[d] \cup Xclient
<1> DEFINE u == WithUser(t, x, c, op)
<1>1. Tabled(u) /\ Listed(u, P) /\ u.userList = [t.userList EXCEPT ![c] = @ \cup {x}]
  BY Joining
<1> HIDE DEF u
<1>2. t.userList \in [Chan -> SUBSET Client] /\ c \in Chan
  BY DEF Tabled, Tables
<1>3. \A d \in Chan : u.userList[d] \subseteq t.userList[d] \cup {x}
  <2>1. u.userList = [t.userList EXCEPT ![c] = @ \cup {x}]
    BY <1>1
  <2> QED
    BY <1>2, <2>1
<1> QED
  BY <1>1, <1>3 DEF u

LEMMA CreateStep ==
    ASSUME Handling, NEW x \in Xclient, x \in net.clients, NEW c \in Chan, NEW joinTime \in Time,
           NEW getOps \in BOOLEAN, NEW kept, Called(kept),
           CreateChannel(x, c, joinTime, getOps, kept)
    PROVE  Handling'
<1>1. PICK later \in {now, now + 1} \cap Time :
        LET post == IF joinTime = 0 THEN now ELSE joinTime
            ts == CreationTime(joinTime, post, later) IN
        /\ now' = later
        /\ sent' = {[cmd |-> IF Bursting THEN "B" ELSE "C", chan |-> c, ts |-> post,
                   late |-> joinTime = 0 /\ later # now]}
        /\ Run(WithUser(WithChannel(net, c, ts), x, c, getOps \/ ~Bursting),
               <<Post(IF Bursting THEN "BURST" ELSE "CREATE", c, x)>>, kept)
  BY DEF CreateChannel
<1> DEFINE post == IF joinTime = 0 THEN now ELSE joinTime
<1> DEFINE ts == CreationTime(joinTime, post, later)
<1> DEFINE op == getOps \/ ~Bursting
<1> DEFINE t == WithChannel(net, c, ts)
<1> DEFINE u == WithUser(t, x, c, op)
<1> DEFINE event == IF Bursting THEN "BURST" ELSE "CREATE"
<1> DEFINE tasks == <<Post(event, c, x)>>
<1>2. now' = later /\ Run(u, tasks, kept)
      /\ sent' = {[cmd |-> IF Bursting THEN "B" ELSE "C", chan |-> c, ts |-> post,
                   late |-> joinTime = 0 /\ later # now]}
  BY <1>1
<1>3. now \in Time /\ later \in Time /\ post \in Time
  BY <1>1 DEF Handling, TypeOK
<1>4. ts \in Time /\ op \in BOOLEAN /\ event \in Events
  BY <1>3 DEF CreationTime, Events
<1>5. Tabled(net) /\ Listed(net, Parting(stack))
  BY DEF Handling, Fit
<1> HIDE DEF post, op, event
<1>6. Tabled(t) /\ Listed(t, Parting(stack)) /\ c \in t.channelMap
      /\ t.userList = net.userList /\ t.clients = net.clients
  BY <1>4, <1>5, Channelled
<1> HIDE DEF t
<1>7. Tabled(u) /\ Listed(u, Parting(stack))
      /\ \A d \in Chan : u.userList[d] \subseteq net.userList[d] \cup Xclient
  BY <1>4, <1>6, Joined_x
<1>8. Added(tasks)
  BY <1>4, Constants, ShortTasks, Adding
<1> HIDE DEF tasks, u
<1>9. Fit(net', stack')
  BY <1>2, <1>7, <1>8, CallRun DEF Handling
<1>10. UNCHANGED <<scene, freed>> /\ now' \in Time /\ sent' \subseteq SentTypes
  BY <1>2, <1>3 DEF Run, SentTypes
<1> QED
  BY <1>9, <1>10, Typed DEF Handling

LEMMA JoinStep ==
    ASSUME Handling, NEW x \in Xclient, NEW c \in Chan, NEW joinTime \in Time,
           NEW getOps \in BOOLEAN, NEW direct \in BOOLEAN, NEW kept, Called(kept),
           JoinChannel(x, c, joinTime, getOps, direct, kept)
    PROVE  Handling'
<1>1. x \in net.clients
  BY DEF JoinChannel
<1>2. CASE CreateChannel(x, c, joinTime, getOps, kept)
  BY <1>1, <1>2, CreateStep
<1>3. CASE c \in net.channelMap
  <2> DEFINE post == JoinTime(c, joinTime)
  <2> DEFINE t == IF post >= net.creationTime[c] THEN net
                  ELSE IF direct /\ ~Bursting
                  THEN [net EXCEPT !.creationTime[c] = joinTime]
                  ELSE Older(net, c, joinTime)
  <2> DEFINE u == WithUser(t, x, c, getOps)
  <2> DEFINE event == IF Bursting THEN "BURST" ELSE "JOIN"
  <2> DEFINE tasks == <<Post(event, c, x)>>
  <2>1. \/ CreateChannel(x, c, joinTime, getOps, kept)
        \/ /\ now' = now /\ Run(u, tasks, kept)
           /\ sent' = {[cmd |-> IF Bursting THEN "B" ELSE "J", chan |-> c, ts |-> post, late |-> FALSE]}
    BY <1>3 DEF JoinChannel
  <2>2. Tabled(net) /\ Listed(net, Parting(stack)) /\ net.creationTime[c] \in Time
    BY DEF Handling, Fit, Tabled, Tables
  <2>3. post \in Time /\ event \in Events
    BY <2>2 DEF JoinTime, Events
  <2> HIDE DEF post, event
  <2> DEFINE v == [net EXCEPT !.creationTime[c] = joinTime]
  <2> DEFINE w == Older(net, c, joinTime)
  <2>4. Tabled(v) /\ v.userList = net.userList /\ v.channelList = net.channelList
        /\ v.channelMap = net.channelMap /\ v.clients = net.clients
    BY <2>2 DEF Tabled, Tables, Known
  <2>5. Tabled(w) /\ Listed(w, Parting(stack)) /\ w.userList = net.userList
        /\ w.channelMap = net.channelMap /\ w.clients = net.clients
    BY <2>2, Resetting
  <2> HIDE DEF v, w
  <2>6. Tabled(t) /\ Listed(t, Parting(stack)) /\ c \in t.channelMap /\ x \in t.clients
        /\ t.userList = net.userList
    BY <1>1, <1>3, <2>2, <2>4, <2>5 DEF Listed, v, w
  <2> HIDE DEF t
  <2>7. Tabled(u) /\ Listed(u, Parting(stack))
        /\ \A d \in Chan : u.userList[d] \subseteq net.userList[d] \cup Xclient
    BY <2>6, Joined_x
  <2>8. Added(tasks)
    BY <2>3, Constants, ShortTasks, Adding
  <2> HIDE DEF tasks, u
  <2>9. CASE CreateChannel(x, c, joinTime, getOps, kept)
    BY <1>1, <2>9, CreateStep
  <2>10. CASE /\ now' = now /\ Run(u, tasks, kept)
              /\ sent' = {[cmd |-> IF Bursting THEN "B" ELSE "J", chan |-> c, ts |-> post, late |-> FALSE]}
    <3>1. Fit(net', stack')
      BY <2>7, <2>8, <2>10, CallRun DEF Handling
    <3>2. UNCHANGED <<scene, freed>> /\ now' \in Time /\ sent' \subseteq SentTypes
      BY <2>3, <2>10 DEF Run, SentTypes, Handling, TypeOK
    <3> QED
      BY <3>1, <3>2, Typed DEF Handling
  <2> QED
    BY <2>1, <2>9, <2>10
<1> QED
  BY <1>2, <1>3 DEF JoinChannel

LEMMA PartStep ==
    ASSUME Handling, NEW x \in Client, NEW c \in Chan, NEW kept, Called(kept),
           PartChannel(x, c, kept)
    PROVE  Handling'
<1> DEFINE t == WithoutUser(net, x, c)
<1> DEFINE tasks == <<Post("PART", c, x), Reap(c)>>
<1>1. Continue(t, tasks, kept) /\ "PART" \in Events
  BY DEF PartChannel, Events
<1>2. Tabled(net) /\ Listed(net, Parting(stack))
  BY DEF Handling, Fit
<1>3. Tabled(t) /\ Listed(t, Parting(stack)) /\ t.userList = [net.userList EXCEPT ![c] = @ \ {x}]
  BY <1>2, Leaving
<1>4. \A d \in Chan : t.userList[d] \subseteq net.userList[d] \cup Xclient
  BY <1>2, <1>3 DEF Tabled, Tables
<1>5. Added(tasks)
  BY <1>1, ShortTasks, Adding
<1> HIDE DEF t, tasks
<1>6. Fit(net', stack')
  BY <1>1, <1>3, <1>4, <1>5, CallRun DEF Handling, Continue
<1> QED
  BY <1>1, <1>6, QuietTyped DEF Handling

LEMMA KillStep ==
    ASSUME Handling, NEW n \in Client, NEW kept, Called(kept), Kill(n, kept)
    PROVE  Handling'
<1> DEFINE t == WithoutClient(net, n)
<1>1. Continue(t, <<>>, kept)
  BY DEF Kill
<1>2. Tabled(net) /\ Listed(net, Parting(stack))
  BY DEF Handling, Fit
<1> DEFINE P == Parting(stack)
<1>3. Listed(net, P)
  BY <1>2
<1> HIDE DEF P
<1>4. Tabled(t) /\ Listed(t, P) /\ \A d \in Chan : t.userList[d] = net.userList[d] \ {n}
  BY <1>2, <1>3, Removing
<1> HIDE DEF t
<1>5. Fit(net', stack')
  <2>1. \A d \in Chan : t.userList[d] \subseteq net.userList[d] \cup Xclient
    BY <1>4
  <2> QED
    BY <1>1, <1>4, <2>1, Adding, CallRun DEF Handling, Continue, P
<1> QED
  BY <1>1, <1>5, QuietTyped DEF Handling

LEMMA KickTask ==
    ASSUME NEW c \in Chan, NEW n \in Client \ Xclient
    PROVE  LET kick == NewTask("KickOn", c, n) IN
           /\ Short(kick) /\ kick.do = "KickOn" /\ kick.chan = c /\ kick.client = n
           /\ kick.by = NoClient /\ kick.dead = {}
           /\ \A x \in Xclient : Short([kick EXCEPT !.by = x])
<1> DEFINE kick == NewTask("KickOn", c, n)
<1>1. "KickOn" \in Work
  BY DEF Work
<1>2. /\ kick \in Task /\ kick.do = "KickOn" /\ kick.chan = c /\ kick.client = n
      /\ kick.by = NoClient /\ kick.dead = {}
  BY <1>1, NewTasks
<1> HIDE DEF kick
<1>3. Short(kick)
  BY <1>2 DEF Short, Shaped, Handlers
<1>4. ASSUME NEW x \in Xclient PROVE Short([kick EXCEPT !.by = x])
  <2>1. x \in Client
    BY Constants
  <2> QED
    BY <1>2, <2>1 DEF Task, Short, Shaped, Handlers
<1> QED
  BY <1>2, <1>3, <1>4 DEF kick

LEMMA KickStep ==
    ASSUME Handling, NEW x \in Xclient, NEW c \in Chan, NEW n \in Client,
           NEW asServer \in BOOLEAN, NEW kept, Called(kept), Kick(x, c, n, asServer, kept)
    PROVE  Handling'
<1> DEFINE kick == NewTask("KickOn", c, n)
<1> DEFINE byX == [kick EXCEPT !.by = x]
<1> DEFINE t == WithUser(net, x, c, TRUE)
<1> DEFINE event == IF Bursting THEN "BURST" ELSE "JOIN"
<1> DEFINE two == <<Post(event, c, x), byX>>
<1> DEFINE one == <<kick>>
<1>1. x \in net.clients /\ n \in net.userList[c] \ Xclient
  BY DEF Kick
<1>2. Continue(net, one, kept) \/ Continue(t, two, kept)
  BY DEF Kick
<1>3. Tabled(net) /\ Listed(net, Parting(stack))
  BY DEF Handling, Fit
<1>4. c \in net.channelMap
  BY <1>1, <1>3 DEF Tabled, Known
<1>5. Tabled(t) /\ Listed(t, Parting(stack))
      /\ \A d \in Chan : t.userList[d] \subseteq net.userList[d] \cup Xclient
  BY <1>1, <1>3, <1>4, Joined_x
<1>6. Short(kick) /\ Short(byX) /\ event \in Events
  BY <1>1, KickTask DEF Events
<1> HIDE DEF kick, byX, event, t
<1>7. Added(one) /\ Added(two)
  BY <1>6, Constants, ShortTasks, Adding
<1> HIDE DEF one, two
<1>8. Fit(net', stack')
  <2>1. \A d \in Chan : net.userList[d] \subseteq net.userList[d] \cup Xclient
    OBVIOUS
  <2>2. CASE Continue(net, one, kept)
    BY <1>3, <1>7, <2>1, <2>2, CallRun DEF Handling, Continue
  <2>3. CASE Continue(t, two, kept)
    BY <1>5, <1>7, <2>3, CallRun DEF Handling, Continue
  <2> QED
    BY <1>2, <2>2, <2>3
<1> QED
  BY <1>2, <1>8, QuietTyped DEF Handling

-----------------------------------------------------------------------------
(* What is under way.                                                      *)
LEMMA TopTask ==
    ASSUME Handling, stack # <<>>
    PROVE  /\ Head(stack) \in Task /\ Head(stack) = stack[1]
           /\ Shaped(Head(stack)) /\ Live(Head(stack), net)
<1>1. stack \in Seq(Task) /\ Stacked(stack, net)
  BY DEF Handling, Fit
<1>2. Len(stack) >= 1 /\ Head(stack) = stack[1] /\ Head(stack) \in Task
  BY <1>1, Resting
<1>3. 1 \in 1 .. Len(stack)
  BY <1>1, <1>2
<1> QED
  BY <1>1, <1>2, <1>3 DEF Stacked

LEMMA TopCalled ==
    ASSUME stack # <<>>, Head(stack).do \notin Handlers
    PROVE  Called(<<>>)
  BY DEF Called

LEMMA KickOnStep ==
    ASSUME Handling, KickOn
    PROVE  Handling'
<1> DEFINE f == Head(stack)
<1> DEFINE part == IF f.by = NoClient THEN <<>> ELSE <<PartTask(f.by, f.chan)>>
<1> DEFINE here == f.client \in net.userList[f.chan]
<1> DEFINE t == IF here THEN WithoutUser(net, f.client, f.chan) ELSE net
<1> DEFINE first == IF here THEN <<Post("KICK", f.chan, f.client)>> ELSE <<>>
<1> DEFINE tasks == first \o part \o <<Reap(f.chan)>>
<1>1. Continue(t, tasks, <<>>) /\ stack # <<>> /\ f.do = "KickOn"
  BY DEF KickOn, Current
<1>2. f.chan \in Chan /\ f.client \in Client /\ f.by \in Xclient \cup {NoClient}
  BY <1>1, TopTask DEF Shaped
<1>3. Called(<<>>)
  BY <1>1, TopCalled DEF Handlers
<1> HIDE DEF f
<1>4. "KICK" \in Events
  BY DEF Events
<1>5. Added(first)
  BY <1>2, <1>4, ShortTasks, Adding
<1>6. Added(part)
  BY <1>2, ShortTasks, Adding
<1>7. Added(<<Reap(f.chan)>>)
  BY <1>2, ShortTasks, Adding
<1> HIDE DEF first, part
<1>8. Added(tasks)
  BY <1>5, <1>6, <1>7, Adding
<1>9. Tabled(net) /\ Listed(net, Parting(stack))
  BY DEF Handling, Fit
<1>10. Tabled(t) /\ Listed(t, Parting(stack))
  BY <1>2, <1>9, Leaving
<1>11. \A d \in Chan : t.userList[d] \subseteq net.userList[d] \cup Xclient
  <2>1. CASE here
    <3>1. t.userList = [net.userList EXCEPT ![f.chan] = @ \ {f.client}]
      BY <1>2, <1>9, <2>1, Leaving
    <3> HIDE DEF t
    <3> QED
      BY <1>9, <3>1 DEF Tabled, Tables
  <2>2. CASE ~here
    BY <2>2
  <2> QED
    BY <2>1, <2>2
<1> HIDE DEF t, tasks
<1>12. Fit(net', stack')
  BY <1>1, <1>3, <1>8, <1>10, <1>11, CallRun DEF Handling, Continue
<1> QED
  BY <1>1, <1>12, QuietTyped DEF Handling

LEMMA PartNowStep ==
    ASSUME Handling, PartNow
    PROVE  Handling'
<1>1. stack # <<>> /\ Head(stack).do = "PartTask"
      /\ PartChannel(Head(stack).client, Head(stack).chan, <<>>)
  BY DEF PartNow, Current
<1>2. Head(stack).chan \in Chan /\ Head(stack).client \in Client
  BY <1>1, TopTask, Constants DEF Shaped
<1>3. Called(<<>>)
  BY <1>1, TopCalled DEF Handlers
<1> QED
  BY <1>1, <1>2, <1>3, PartStep

LEMMA ReapNowStep ==
    ASSUME Handling, ReapNow
    PROVE  Handling'
<1> DEFINE c == Head(stack).chan
<1> DEFINE t == Reaped(net, c)
<1>1. stack # <<>> /\ Head(stack).do = "Reap" /\ Continue(t, <<>>, <<>>)
  BY DEF ReapNow, Current
<1>2. c \in Chan
  BY <1>1, TopTask DEF Shaped
<1>3. Called(<<>>)
  BY <1>1, TopCalled DEF Handlers
<1> HIDE DEF c
<1>4. Tabled(net) /\ Listed(net, Parting(stack))
  BY DEF Handling, Fit
<1>5. Tabled(t) /\ Listed(t, Parting(stack)) /\ t.userList = net.userList
  BY <1>2, <1>4, Reaping
<1> HIDE DEF t
<1>6. \A d \in Chan : t.userList[d] \subseteq net.userList[d] \cup Xclient
  BY <1>5
<1>7. Fit(net', stack')
  BY <1>1, <1>3, <1>5, <1>6, Adding, CallRun DEF Handling, Continue
<1> QED
  BY <1>1, <1>7, QuietTyped DEF Handling

LEMMA CrashStep ==
    ASSUME Handling, freed' \in BOOLEAN, UNCHANGED <<scene, net, now, stack, sent>>
    PROVE  Handling'
  BY DEF Handling, TypeOK, Fit

LEMMA ReactStep ==
    ASSUME Handling, NEW f, f.chan \in Chan, NEW kept, Called(kept), React(f, kept)
    PROVE  Handling'
<1>1. f.client \in Client \ Xclient /\ TRUE \in BOOLEAN /\ FALSE \in BOOLEAN /\ 0 \in Time
  BY Constants DEF React
<1>2. \/ \E x \in Xclient, n \in Client, asServer \in BOOLEAN :
              Kick(x, f.chan, n, asServer, kept)
      \/ \E x \in Xclient : JoinChannel(x, f.chan, 0, TRUE, FALSE, kept)
      \/ \E x \in Xclient : PartChannel(x, f.chan, kept)
      \/ Kill(f.client, kept) \/ KillCrash(f.client)
  BY <1>1 DEF React
<1>3. CASE \E x \in Xclient, n \in Client, asServer \in BOOLEAN :
              Kick(x, f.chan, n, asServer, kept)
  BY <1>3, KickStep
<1>4. CASE \E x \in Xclient : JoinChannel(x, f.chan, 0, TRUE, FALSE, kept)
  BY <1>1, <1>4, JoinStep
<1>5. CASE \E x \in Xclient : PartChannel(x, f.chan, kept)
  BY <1>5, PartStep, Constants
<1>6. CASE Kill(f.client, kept)
  BY <1>1, <1>6, KillStep
<1>7. CASE KillCrash(f.client)
  BY <1>7, CrashStep DEF KillCrash
<1> QED
  BY <1>2, <1>3, <1>4, <1>5, <1>6, <1>7

(* A task that ends, or goes on as k, without a change to the tables.      *)
LEMMA StayStep ==
    ASSUME Handling, NEW kept, Called(kept), NEW tasks, Added(tasks), Continue(net, tasks, kept)
    PROVE  Handling'
<1>1. Tabled(net) /\ Listed(net, Parting(stack))
  BY DEF Handling, Fit
<1>2. \A d \in Chan : net.userList[d] \subseteq net.userList[d] \cup Xclient
  OBVIOUS
<1>3. Fit(net', stack')
  BY <1>1, <1>2, CallRun DEF Handling, Continue
<1> QED
  BY <1>3, QuietTyped DEF Handling

LEMMA PostStep ==
    ASSUME Handling, PostAll \/ PostChan
    PROVE  Handling'
<1> DEFINE f == Head(stack)
<1>1. stack # <<>> /\ f.do \in {"PostAll", "PostChan"}
  BY DEF PostAll, PostChan, Current
<1>2. f \in Task /\ Shaped(f) /\ f.chan \in Chan
  BY <1>1, TopTask DEF Shaped
<1>3. f.do \notin Handlers
  BY <1>1 DEF Handlers
<1> DEFINE next == [f EXCEPT !.do = "PostChan"]
<1>4. Short(next)
  BY <1>2 DEF Short, Shaped, Handlers, Task, Work
<1>5. \/ Continue(net, <<>>, <<next>>) \/ React(f, <<next>>)
      \/ Continue(net, <<>>, <<>>) \/ React(f, <<>>)
  BY DEF PostAll, PostChan
<1>6. Called(<<>>) /\ Called(<<next>>)
  BY <1>1, <1>3, <1>4 DEF Called
<1> HIDE DEF f, next
<1> QED
  BY <1>2, <1>5, <1>6, ReactStep, StayStep, Adding

LEMMA TickStep ==
    ASSUME Handling, Tick
    PROVE  Handling'
<1>1. now' \in Time /\ sent' = {} /\ UNCHANGED <<scene, net, stack, freed>>
  BY ChannelsAssumption DEF Tick, Handling, TypeOK, Time
<1>2. Fit(net', stack')
  BY <1>1 DEF Handling
<1> QED
  BY <1>1, <1>2, Typed DEF Handling

(* A handler that ends, or goes on as k.                                   *)
LEMMA HandlerStep ==
    ASSUME Handling, stack # <<>>, Head(stack).do \in Handlers \ {"PartAll"},
           NEW t, Tabled(t), Listed(t, {}), NEW tasks, Added(tasks)
    PROVE  /\ Continue(t, tasks, <<>>) => Handling'
           /\ \A k \in Task :
                k.do # "PartAll" /\ Shaped(k) /\ Live(Aged(k, t), t)
                /\ Continue(t, tasks, <<k>>) => Handling'
<1>1. Fit(net, stack) /\ Head(stack).do \in Handlers
  BY DEF Handling
<1>2. ASSUME Continue(t, tasks, <<>>) PROVE Handling'
  <2>1. Fit(net', stack')
    BY <1>1, <1>2, LastRun DEF Continue
  <2> QED
    BY <1>2, <2>1, QuietTyped DEF Handling
<1>3. ASSUME NEW k \in Task, k.do # "PartAll", Shaped(k), Live(Aged(k, t), t),
             Continue(t, tasks, <<k>>)
      PROVE  Handling'
  <2>1. k.client \in Client \cup {NoClient}
    BY DEF Task
  <2>2. {n \in {k.client} : k.do = "PartAll"} = {}
    BY <1>3
  <2>3. Fit(net', stack')
    BY <1>1, <1>3, <2>1, <2>2, NextRun DEF Continue
  <2> QED
    BY <1>3, <2>3, QuietTyped DEF Handling
<1> QED
  BY <1>2, <1>3

LEMMA TopListed ==
    ASSUME Handling, stack # <<>>, Head(stack).do \in Handlers \ {"PartAll"}
    PROVE  Tabled(net) /\ Listed(net, {})
<1>1. Listed(net, {n \in {Head(stack).client} : Head(stack).do = "PartAll"})
  BY HandlerListed DEF Handling
<1>2. {n \in {Head(stack).client} : Head(stack).do = "PartAll"} = {}
  OBVIOUS
<1> QED
  BY <1>1, <1>2 DEF Handling, Fit

LEMMA ListNext ==
    ASSUME NEW f \in Task, Shaped(f), f.do \in {"J", "C", "L"}, NEW c, NEW t,
           f.do = "L" \/ f.client \in t.clients
    PROVE  LET next == [f EXCEPT !.chans = @ \ {c}] IN
           /\ next \in Task /\ next.do = f.do /\ next.do # "PartAll" /\ Shaped(next)
           /\ Live(Aged(next, t), t)
<1> DEFINE next == [f EXCEPT !.chans = @ \ {c}]
<1>1. /\ next \in Task /\ next.do = f.do /\ next.client = f.client /\ next.chan = f.chan
      /\ next.by = f.by
  BY DEF Task
<1> HIDE DEF next
<1>2. Shaped(next)
  BY <1>1 DEF Shaped
<1> DEFINE g == Aged(next, t)
<1>3. g.do = f.do /\ g.client = f.client
  BY <1>1, Aging
<1> HIDE DEF g
<1>4. Live(g, t)
  BY <1>3 DEF Live
<1> QED
  BY <1>1, <1>2, <1>4 DEF next, g

(* The client of a list that is not done is still there.                   *)
LEMMA ListClient ==
    ASSUME Handling, NEW do \in {"J", "C", "L"}, Current(do)
    PROVE  LET f == Head(stack) IN
           /\ stack # <<>> /\ f \in Task /\ Shaped(f) /\ f.do = do
           /\ f.client \in Client \ (Xclient \cup Fake) /\ f.chans \subseteq Chan
           /\ f.ts \in Time
           /\ f.chans # {} /\ do # "L" => f.client \in net.clients
<1> DEFINE f == Head(stack)
<1>1. stack # <<>> /\ f.do = do /\ Sound(f)
  BY DEF Current
<1>2. f \in Task /\ Shaped(f) /\ Live(f, net)
  BY <1>1, TopTask
<1> HIDE DEF f
<1>3. f.client \in Client \ (Xclient \cup Fake) /\ f.chans \subseteq Chan /\ f.ts \in Time
  BY <1>1, <1>2 DEF Shaped, Task
<1>4. f.chans # {} => "client" \in Uses(f)
  BY <1>1 DEF Uses, Pointers
<1>5. f.chans # {} => "client" \notin f.dead
  BY <1>1, <1>4 DEF Sound
<1> QED
  BY <1>1, <1>2, <1>3, <1>5 DEF f, Live

LEMMA JStep ==
    ASSUME Handling, J
    PROVE  Handling'
<1> DEFINE f == Head(stack)
<1> DEFINE n == f.client
<1>1. Current("J")
  BY DEF J
<1>2. /\ stack # <<>> /\ f \in Task /\ Shaped(f) /\ f.do = "J"
      /\ n \in Client /\ f.chans \subseteq Chan /\ f.ts \in Time
      /\ f.chans # {} => n \in net.clients
  BY <1>1, ListClient
<1>3. f.do \in Handlers \ {"PartAll"}
  BY <1>2 DEF Handlers
<1>4. Tabled(net) /\ Listed(net, {})
  BY <1>2, <1>3, TopListed
<1>5. "CREATE" \in Events /\ "JOIN" \in Events /\ now \in Time
  BY DEF Events, Handling, TypeOK
<1>6. CASE f.chans = {} /\ Continue(net, <<>>, <<>>)
  BY <1>2, <1>3, <1>4, <1>6, Adding, HandlerStep
<1>7. ASSUME NEW c \in f.chans, c \notin net.channelMap,
             Continue(WithUser(WithChannel(net, c, now), n, c, TRUE),
                      <<Post("CREATE", c, n)>>, <<[f EXCEPT !.chans = @ \ {c}]>>)
      PROVE  Handling'
  <2> DEFINE next == [f EXCEPT !.chans = @ \ {c}]
  <2> DEFINE t == WithChannel(net, c, now)
  <2> DEFINE u == WithUser(t, n, c, TRUE)
  <2> DEFINE tasks == <<Post("CREATE", c, n)>>
  <2>1. Continue(u, tasks, <<next>>) /\ c \in Chan /\ n \in net.clients
    BY <1>2, <1>7
  <2>2. Tabled(t) /\ Listed(t, {}) /\ c \in t.channelMap /\ t.clients = net.clients
    BY <1>4, <1>5, <2>1, Channelled
  <2> HIDE DEF t
  <2>3. Tabled(u) /\ Listed(u, {}) /\ u.clients = net.clients
    <3>1. n \in t.clients /\ Tabled(t) /\ Listed(t, {}) /\ c \in t.channelMap
      BY <2>1, <2>2
    <3> HIDE DEF n
    <3>2. Tabled(u) /\ Listed(u, {}) /\ u.clients = t.clients
      BY <3>1, JoinFits
    <3> HIDE DEF u
    <3> QED
      BY <2>2, <3>2
  <2>4. Added(tasks)
    BY <1>2, <1>5, <2>1, ShortTasks, Adding
  <2> HIDE DEF f, u, tasks
  <2>5. next \in Task /\ next.do # "PartAll" /\ Shaped(next) /\ Live(Aged(next, u), u)
    BY <1>2, <2>1, <2>3, ListNext
  <2> HIDE DEF next
  <2> QED
    BY <1>2, <1>3, <2>1, <2>3, <2>4, <2>5, HandlerStep DEF f
<1>8. ASSUME NEW c \in f.chans, c \in net.channelMap,
             Continue(Joined(c, n, f.ts),
                      IF n \in net.userList[c] THEN <<>> ELSE <<Post("JOIN", c, n)>>,
                      <<[f EXCEPT !.chans = @ \ {c}]>>)
      PROVE  Handling'
  <2> DEFINE next == [f EXCEPT !.chans = @ \ {c}]
  <2> DEFINE t == IF f.ts < net.creationTime[c] THEN Older(net, c, f.ts) ELSE net
  <2> DEFINE u == IF n \in net.userList[c] \/ c \in net.channelList[n] THEN t
                  ELSE WithUser(t, n, c, FALSE)
  <2> DEFINE tasks == IF n \in net.userList[c] THEN <<>> ELSE <<Post("JOIN", c, n)>>
  <2>1. Continue(u, tasks, <<next>>) /\ c \in Chan /\ n \in net.clients
    BY <1>2, <1>8 DEF Joined
  <2>2. Tabled(t) /\ Listed(t, {}) /\ c \in t.channelMap /\ t.clients = net.clients
    BY <1>2, <1>4, <1>8, <2>1, Resetting
  <2> HIDE DEF t
  <2>3. Tabled(u) /\ Listed(u, {}) /\ u.clients = net.clients
    <3>1. n \in t.clients /\ Tabled(t) /\ Listed(t, {}) /\ c \in t.channelMap
      BY <2>1, <2>2
    <3> HIDE DEF n
    <3>2. Tabled(u) /\ Listed(u, {}) /\ u.clients = t.clients
      BY <3>1, JoinFits
    <3> HIDE DEF u
    <3> QED
      BY <2>2, <3>2
  <2>4. Added(tasks)
    BY <1>2, <1>5, <2>1, ShortTasks, Adding
  <2> HIDE DEF f, u, tasks
  <2>5. next \in Task /\ next.do # "PartAll" /\ Shaped(next) /\ Live(Aged(next, u), u)
    BY <1>2, <2>1, <2>3, ListNext
  <2> HIDE DEF next
  <2> QED
    BY <1>2, <1>3, <2>1, <2>3, <2>4, <2>5, HandlerStep DEF f
<1> QED
  BY <1>6, <1>7, <1>8 DEF J

LEMMA CStep ==
    ASSUME Handling, C
    PROVE  Handling'
<1> DEFINE f == Head(stack)
<1> DEFINE n == f.client
<1>1. Current("C")
  BY DEF C
<1>2. /\ stack # <<>> /\ f \in Task /\ Shaped(f) /\ f.do = "C"
      /\ n \in Client /\ f.chans \subseteq Chan /\ f.ts \in Time
      /\ f.chans # {} => n \in net.clients
  BY <1>1, ListClient
<1>3. f.do \in Handlers \ {"PartAll"}
  BY <1>2 DEF Handlers
<1>4. Tabled(net) /\ Listed(net, {})
  BY <1>2, <1>3, TopListed
<1>5. "CREATE" \in Events
  BY DEF Events
<1>6. CASE f.chans = {} /\ Continue(net, <<>>, <<>>)
  BY <1>2, <1>3, <1>4, <1>6, Adding, HandlerStep
<1>7. ASSUME NEW c \in f.chans,
             Continue(Created(c, n, f.ts), <<Post("CREATE", c, n)>>,
                      <<[f EXCEPT !.chans = @ \ {c}]>>)
      PROVE  Handling'
  <2> DEFINE next == [f EXCEPT !.chans = @ \ {c}]
  <2> DEFINE t == IF c \notin net.channelMap THEN WithChannel(net, c, f.ts)
                  ELSE IF f.ts < net.creationTime[c] THEN Older(net, c, f.ts)
                  ELSE net
  <2> DEFINE op == n \in t.ops[c] \/ f.ts = t.creationTime[c]
  <2> DEFINE u == WithUser(t, n, c, op)
  <2> DEFINE tasks == <<Post("CREATE", c, n)>>
  <2>1. Continue(u, tasks, <<next>>) /\ c \in Chan /\ n \in net.clients
    BY <1>2, <1>7 DEF Created
  <2>2. Tabled(t) /\ Listed(t, {}) /\ c \in t.channelMap /\ t.clients = net.clients
    <3>1. CASE c \notin net.channelMap
      BY <1>2, <1>4, <2>1, <3>1, Channelled
    <3>2. CASE c \in net.channelMap
      BY <1>2, <1>4, <2>1, <3>2, Resetting
    <3> QED
      BY <3>1, <3>2
  <2>3. op \in BOOLEAN
    OBVIOUS
  <2> HIDE DEF t, op
  <2>4. Tabled(u) /\ Listed(u, {}) /\ u.clients = net.clients
    <3>1. n \in t.clients /\ Tabled(t) /\ Listed(t, {}) /\ c \in t.channelMap
      BY <2>1, <2>2
    <3> HIDE DEF n
    <3>2. Tabled(u) /\ Listed(u, {}) /\ u.clients = t.clients
      BY <3>1, JoinFits, <2>3
    <3> HIDE DEF u
    <3> QED
      BY <2>2, <3>2
  <2>5. Added(tasks)
    BY <1>2, <1>5, <2>1, ShortTasks, Adding
  <2> HIDE DEF f, u, tasks
  <2>6. next \in Task /\ next.do # "PartAll" /\ Shaped(next) /\ Live(Aged(next, u), u)
    BY <1>2, <2>1, <2>4, ListNext
  <2> HIDE DEF next
  <2> QED
    BY <1>2, <1>3, <2>1, <2>4, <2>5, <2>6, HandlerStep DEF f
<1> QED
  BY <1>6, <1>7 DEF C

LEMMA LStep ==
    ASSUME Handling, L
    PROVE  Handling'
<1> DEFINE f == Head(stack)
<1> DEFINE n == f.client
<1>1. Current("L")
  BY DEF L
<1>2. /\ stack # <<>> /\ f \in Task /\ Shaped(f) /\ f.do = "L"
      /\ n \in Client /\ f.chans \subseteq Chan
  BY <1>1, ListClient
<1>3. f.do \in Handlers \ {"PartAll"}
  BY <1>2 DEF Handlers
<1>4. Tabled(net) /\ Listed(net, {})
  BY <1>2, <1>3, TopListed
<1>5. "PART" \in Events
  BY DEF Events
<1>6. CASE f.chans = {} /\ Continue(net, <<>>, <<>>)
  BY <1>2, <1>3, <1>4, <1>6, Adding, HandlerStep
<1>7. ASSUME NEW c \in f.chans
      PROVE  /\ Continue(WithoutUser(net, n, c), <<Post("PART", c, n), Reap(c)>>,
                         <<[f EXCEPT !.chans = @ \ {c}]>>) => Handling'
             /\ Continue(net, <<>>, <<[f EXCEPT !.chans = @ \ {c}]>>) => Handling'
  <2> DEFINE next == [f EXCEPT !.chans = @ \ {c}]
  <2> DEFINE u == WithoutUser(net, n, c)
  <2> DEFINE tasks == <<Post("PART", c, n), Reap(c)>>
  <2>1. c \in Chan
    BY <1>2, <1>7
  <2>2. Tabled(u) /\ Listed(u, {})
    BY <1>2, <1>4, <2>1, Leaving
  <2>3. Added(tasks)
    BY <1>2, <1>5, <2>1, ShortTasks, Adding
  <2> HIDE DEF f, u, tasks
  <2>4. \A t : next \in Task /\ next.do # "PartAll" /\ Shaped(next) /\ Live(Aged(next, t), t)
    BY <1>2, ListNext
  <2> HIDE DEF next
  <2>5. Continue(u, tasks, <<next>>) => Handling'
    BY <1>2, <1>3, <2>2, <2>3, <2>4, HandlerStep DEF f
  <2>6. Continue(net, <<>>, <<next>>) => Handling'
    BY <1>2, <1>3, <1>4, <2>4, Adding, HandlerStep DEF f
  <2> QED
    BY <2>5, <2>6 DEF f, next, u, tasks
<1> QED
  BY <1>6, <1>7 DEF L

LEMMA BStep ==
    ASSUME Handling, B
    PROVE  Handling'
<1> DEFINE f == Head(stack)
<1> DEFINE c == f.chan
<1> DEFINE opped == Opped(f)
<1>1. stack # <<>> /\ f.do = "B" /\ Sound(f)
  BY DEF B, Current
<1>2. f \in Task /\ Shaped(f) /\ Live(f, net) /\ c \in Chan
  BY <1>1, TopTask DEF Shaped
<1>3. f.do \in Handlers \ {"PartAll"}
  BY <1>1 DEF Handlers
<1>4. Tabled(net) /\ Listed(net, {})
  BY <1>1, <1>3, TopListed
<1>5. opped \subseteq Client
  BY <1>2 DEF Opped, Task
<1>6. "BURST" \in Events
  BY DEF Events
<1>7. CASE f.users = {} /\ Continue(IF opped = {} THEN net
                                    ELSE [net EXCEPT !.ops[c] = @ \cup opped], <<>>, <<>>)
  <2> DEFINE u == IF opped = {} THEN net ELSE [net EXCEPT !.ops[c] = @ \cup opped]
  <2>1. opped \subseteq net.userList[c]
    BY <1>1, <1>7 DEF Sound
  <2>2. Continue(u, <<>>, <<>>)
    BY <1>7
  <2> HIDE DEF c, opped
  <2>3. Tabled(u) /\ Listed(u, {})
    BY <1>2, <1>4, <1>5, <2>1 DEF Tabled, Tables, Known, Listed
  <2> HIDE DEF u
  <2> QED
    BY <1>1, <1>3, <2>2, <2>3, Adding, HandlerStep
<1>8. ASSUME NEW n \in f.users
      PROVE  LET next == [f EXCEPT !.users = @ \ {n}, !.client = n,
                                   !.ops = opped, !.dead = @ \ {"client"}] IN
             (IF n \in net.clients /\ c \notin net.channelList[n]
              THEN Continue(WithUser(net, n, c, FALSE), <<Post("BURST", c, n)>>, <<next>>)
              ELSE Continue(net, <<>>, <<[next EXCEPT !.client = NoClient]>>))
             => Handling'
  <2> DEFINE next == [f EXCEPT !.users = @ \ {n}, !.client = n,
                               !.ops = opped, !.dead = @ \ {"client"}]
  <2> DEFINE none == [next EXCEPT !.client = NoClient]
  <2> DEFINE u == WithUser(net, n, c, FALSE)
  <2> DEFINE tasks == <<Post("BURST", c, n)>>
  <2>1. n \in Client
    BY <1>2 DEF Task
  <2>2. c \in net.channelMap
    <3>1. "chan" \in Uses(f)
      BY <1>1 DEF Uses, Pointers
    <3> QED
      BY <1>1, <1>2, <3>1 DEF Sound, Live
  <2>3. /\ next \in Task /\ next.do = "B" /\ next.chan = c
        /\ none \in Task /\ none.do = "B" /\ none.chan = c
    <3> HIDE DEF opped
    <3> QED
      BY <1>1, <1>2, <1>5, <2>1 DEF Task
  <2>4. Added(tasks)
    BY <1>2, <1>6, <2>1, ShortTasks, Adding
  <2> HIDE DEF next, none, c, tasks
  <2>5. Shaped(next) /\ Shaped(none)
    BY <1>2, <2>3 DEF Shaped
  <2>6. ASSUME NEW k \in {next, none}, NEW t, c \in t.channelMap
        PROVE  k \in Task /\ k.do # "PartAll" /\ Shaped(k) /\ Live(Aged(k, t), t)
    <3>1. Aged(k, t).do = "B" /\ Aged(k, t).chan = c
      BY <2>3, <2>6, Aging
    <3>2. Live(Aged(k, t), t)
      BY <2>6, <3>1 DEF Live
    <3> QED
      BY <2>3, <2>5, <3>2
  <2>7. CASE n \in net.clients /\ c \notin net.channelList[n]
    <3>1. Tabled(u) /\ Listed(u, {}) /\ u.channelMap = net.channelMap
      BY <1>4, <2>2, <2>7, JoinFits
    <3> HIDE DEF u
    <3>2. Continue(u, tasks, <<next>>) => Handling'
      BY <1>1, <1>3, <2>2, <2>4, <2>6, <3>1, HandlerStep
    <3> QED
      BY <2>7, <3>2 DEF u, tasks, next
  <2>8. CASE ~(n \in net.clients /\ c \notin net.channelList[n])
    <3>1. Continue(net, <<>>, <<none>>) => Handling'
      BY <1>1, <1>3, <1>4, <2>2, <2>6, Adding, HandlerStep
    <3> QED
      BY <2>8, <3>1 DEF none, next
  <2> QED
    BY <2>7, <2>8 DEF tasks, next, none
<1> QED
  BY <1>7, <1>8 DEF B

LEMMA MStep ==
    ASSUME Handling, M
    PROVE  Handling'
<1> DEFINE f == Head(stack)
<1> DEFINE c == f.chan
<1> DEFINE targets == Targets(f)
<1> DEFINE u == [net EXCEPT
                    !.creationTime[c] = IF f.ts < @ THEN f.ts ELSE @,
                    !.ops[c] = (@ \ targets) \cup (targets \cap f.marked)]
<1>1. stack # <<>> /\ f.do = "M" /\ Continue(u, <<>>, <<>>)
  BY DEF M, Current
<1>2. f \in Task /\ Shaped(f) /\ c \in Chan
  BY <1>1, TopTask DEF Shaped
<1>3. f.do \in Handlers \ {"PartAll"}
  BY <1>1 DEF Handlers
<1>4. Tabled(net) /\ Listed(net, {})
  BY <1>1, <1>3, TopListed
<1>5. targets \subseteq net.userList[c] /\ f.ts \in Time
  BY <1>2 DEF Targets, Task
<1> HIDE DEF c, targets
<1>6. Tabled(u) /\ Listed(u, {})
  <2>1. /\ u \in Tables /\ u.userList = net.userList /\ u.channelList = net.channelList
        /\ u.clients = net.clients /\ u.channelMap = net.channelMap
        /\ u.ops = [net.ops EXCEPT ![c] = (@ \ targets) \cup (targets \cap f.marked)]
    BY <1>2, <1>4, <1>5 DEF Tabled, Tables
  <2> HIDE DEF u
  <2> QED
    BY <1>2, <1>4, <1>5, <2>1 DEF Tabled, Tables, Known, Listed
<1> HIDE DEF u
<1> QED
  BY <1>1, <1>3, <1>6, Adding, HandlerStep

LEMMA PartAllStep ==
    ASSUME Handling, PartAll
    PROVE  Handling'
<1> DEFINE f == Head(stack)
<1> DEFINE n == f.client
<1> DEFINE t == IF f.chan = NoChan THEN net ELSE Reaped(net, f.chan)
<1> DEFINE left == f.chans \cap net.channelList[n]
<1>1. stack # <<>> /\ f.do = "PartAll" /\ Fit(net, stack)
  BY DEF PartAll, Current, Handling
<1>2. f \in Task /\ Shaped(f) /\ Live(f, net) /\ n \in Client
  BY <1>1, TopTask DEF Shaped
<1>3. f.do \in Handlers
  BY <1>1 DEF Handlers
<1>4. Tabled(net) /\ Listed(net, {n})
  <2>1. {m \in {f.client} : f.do = "PartAll"} = {n}
    BY <1>1
  <2> QED
    BY <1>1, <1>3, <2>1, HandlerListed DEF Fit
<1>5. f.chan \in Chan \cup {NoChan} /\ f.chans \subseteq Chan
  BY <1>2 DEF Task
<1>6. /\ \/ left = {} /\ Continue([t EXCEPT !.channelList[n] = {}], <<>>, <<>>)
         \/ \E c \in left :
              Continue(WithoutMember(t, n, c), <<Post("PART", c, n)>>,
                       <<[f EXCEPT !.chan = c, !.chans = @ \ {c}, !.dead = {}]>>)
  BY DEF PartAll
<1> HIDE DEF f
<1>7. /\ Tabled(t) /\ Listed(t, {n})
      /\ t.userList = net.userList /\ t.channelList = net.channelList
  BY <1>4, <1>5, Reaping
<1> HIDE DEF t
<1>8. CASE left = {} /\ Continue([t EXCEPT !.channelList[n] = {}], <<>>, <<>>)
  <2> DEFINE u == [t EXCEPT !.channelList[n] = {}]
  <2>1. \A c \in Chan : n \notin t.userList[c]
    BY <1>1, <1>2, <1>7, <1>8 DEF Live, Tabled, Known
  <2>2. Tabled(u) /\ Listed(u, {})
    <3>1. /\ u \in Tables /\ u.userList = t.userList /\ u.ops = t.ops
          /\ u.clients = t.clients /\ u.channelMap = t.channelMap
          /\ u.channelList = [t.channelList EXCEPT ![n] = {}]
      BY <1>2, <1>7 DEF Tabled, Tables
    <3> HIDE DEF u
    <3>2. Known(u)
      <4>1. t \in Tables /\ Known(t)
        BY <1>7 DEF Tabled
      <4>2. \A m \in Client : m # n => u.channelList[m] = t.channelList[m]
        BY <3>1, <4>1 DEF Tables
      <4> SUFFICES ASSUME NEW c \in Chan, NEW m \in u.userList[c]
                   PROVE  c \in u.channelMap /\ m \in u.clients /\ c \in u.channelList[m]
        BY DEF Known
      <4>3. m \in t.userList[c] /\ m # n /\ m \in Client
        BY <2>1, <3>1, <4>1 DEF Tables
      <4>4. c \in t.channelMap /\ m \in t.clients /\ c \in t.channelList[m]
        BY <4>1, <4>3 DEF Known
      <4>5. u.clients = t.clients /\ u.channelMap = t.channelMap
        BY <3>1
      <4>6. c \in u.channelList[m]
        BY <4>2, <4>3, <4>4
      <4> QED
        BY <4>4, <4>5, <4>6
    <3>3. Listed(u, {})
      <4>1. t \in Tables
        BY <1>7 DEF Tabled
      <4>2. \A m \in Client : u.channelList[m] = IF m = n THEN {} ELSE t.channelList[m]
        BY <3>1, <4>1 DEF Tables
      <4>3. \A m \in Client \ {n} : \A c \in t.channelList[m] : m \in t.userList[c]
        BY <1>7 DEF Listed
      <4> HIDE DEF n
      <4> QED
        BY <3>1, <4>2, <4>3 DEF Listed
    <3> QED
      BY <1>7, <3>1, <3>2, <3>3 DEF Tabled
  <2> HIDE DEF u
  <2>3. Fit(net', stack')
    BY <1>1, <1>3, <1>8, <2>2, Adding, LastRun DEF Continue, u, f
  <2> QED
    BY <1>8, <2>3, QuietTyped DEF Handling
<1>9. ASSUME NEW c \in left,
             Continue(WithoutMember(t, n, c), <<Post("PART", c, n)>>,
                      <<[f EXCEPT !.chan = c, !.chans = @ \ {c}, !.dead = {}]>>)
      PROVE  Handling'
  <2> DEFINE u == WithoutMember(t, n, c)
  <2> DEFINE tasks == <<Post("PART", c, n)>>
  <2> DEFINE next == [f EXCEPT !.chan = c, !.chans = @ \ {c}, !.dead = {}]
  <2>1. c \in Chan /\ Continue(u, tasks, <<next>>) /\ "PART" \in Events
    BY <1>5, <1>9 DEF Events
  <2>2. /\ Tabled(u) /\ Listed(u, {n})
        /\ u.userList = [t.userList EXCEPT ![c] = @ \ {n}]
    BY <1>2, <1>7, <2>1, Dropping
  <2>3. Added(tasks)
    BY <1>2, <2>1, ShortTasks, Adding
  <2>4. /\ next \in Task /\ next.do = "PartAll" /\ next.client = n /\ next.chan = c
        /\ next.chans = f.chans \ {c}
    BY <1>1, <1>2, <2>1 DEF Task
  <2> HIDE DEF u, tasks, next
  <2>5. Shaped(next)
    BY <1>1, <1>2, <2>4 DEF Shaped
  <2> DEFINE g == Aged(next, u)
  <2>6. g.do = "PartAll" /\ g.client = n /\ g.chans = f.chans \ {c}
    BY <2>4, Aging
  <2> HIDE DEF g
  <2>7. \A d \in Chan : n \in u.userList[d] => d \in f.chans \ {c}
    BY <1>1, <1>2, <1>7, <2>1, <2>2 DEF Live, Tabled, Tables
  <2>8. Live(g, u)
    BY <2>6, <2>7 DEF Live
  <2>9. {m \in {next.client} : next.do = "PartAll"} = {n}
    BY <2>4
  <2>10. Fit(net', stack')
    BY <1>1, <1>2, <1>3, <2>1, <2>2, <2>3, <2>4, <2>5, <2>8, <2>9, NextRun DEF Continue, g, f
  <2> QED
    BY <2>1, <2>10, QuietTyped DEF Handling
<1> QED
  BY <1>6, <1>8, <1>9

-----------------------------------------------------------------------------
(* Every step keeps the tables and the stack together.                     *)
LEMMA MessageStep ==
    ASSUME Handling, Message
    PROVE  Handling'
<1>1. scene.chans \subseteq Chan /\ 1 .. MaxTime \subseteq Time /\ 0 \in Time
  BY Constants, ChannelsAssumption DEF Handling, Time
<1>2. CASE \E n \in Client, chans \in SUBSET scene.chans \ {{}}, ts \in 1 .. MaxTime :
             List("J", n, chans, ts) \/ List("C", n, chans, ts)
  BY <1>1, <1>2, ListStep
<1>3. CASE \E n \in Client, chans \in SUBSET scene.chans \ {{}} : List("L", n, chans, 0)
  BY <1>1, <1>3, ListStep
<1>4. CASE \E n \in Client : msg_J_0(n) \/ SignOn(n) \/ Quit(n)
  BY <1>4, J0Step, SignOnStep, QuitStep
<1>5. CASE \E c \in scene.chans, ts \in 1 .. MaxTime,
              users \in SUBSET (Client \ (Xclient \cup Fake)) :
             \E marked \in SUBSET users : msg_B(c, ts, users, marked)
  BY <1>1, <1>5, BurstStep
<1>6. CASE \E c \in scene.chans, n \in Client, local \in BOOLEAN : msg_K(c, n, local)
  BY <1>1, <1>6, KickMessageStep
<1>7. CASE \E server \in BOOLEAN, c \in scene.chans, n \in Client, plus \in BOOLEAN,
              ts \in 1 .. MaxTime : msg_M(server, c, n, plus, ts)
  BY <1>1, <1>7, ModeStep
<1> QED
  BY <1>2, <1>3, <1>4, <1>5, <1>6, <1>7 DEF Message

LEMMA CallStep ==
    ASSUME Handling, Call
    PROVE  Handling'
<1>1. scene.chans \subseteq Chan /\ 1 .. MaxTime \subseteq Time /\ 0 .. now \subseteq Time
  BY Constants, ChannelsAssumption DEF Handling, TypeOK, Time
<1>2. Idle => Called(<<>>)
  BY DEF Idle, Called
<1>3. CASE \E x \in Xclient, c \in scene.chans, joinTime \in 0 .. now,
              getOps \in BOOLEAN, direct \in BOOLEAN :
              Idle /\ JoinChannel(x, c, joinTime, getOps, direct, <<>>)
  BY <1>1, <1>2, <1>3, JoinStep
<1>4. CASE \E x \in Xclient, c \in scene.chans : Idle /\ PartChannel(x, c, <<>>)
  BY <1>1, <1>2, <1>4, Constants, PartStep
<1>5. CASE \E x \in Xclient, c \in scene.chans, n \in Client, asServer \in BOOLEAN :
              Idle /\ Kick(x, c, n, asServer, <<>>)
  BY <1>1, <1>2, <1>5, KickStep
<1>6. CASE \E n \in Client : Idle /\ Kill(n, <<>>)
  BY <1>2, <1>6, KillStep
<1>7. CASE \E n \in Fake, c \in scene.chans : JoinFake(n, c) \/ PartFake(n, c)
  BY <1>1, <1>7, FakeStep
<1>8. CASE \E c \in scene.chans, ts \in 1 .. MaxTime : BurstChannel(c, ts)
  BY <1>1, <1>8, BurstChannelStep
<1>9. CASE \E x \in Xclient, c \in scene.chans, joinTime \in 0 .. now : Rejoin(x, c, joinTime)
  BY <1>1, <1>9, RejoinStep
<1> QED
  BY <1>3, <1>4, <1>5, <1>6, <1>7, <1>8, <1>9 DEF Call

LEMMA HandlingStep ==
    ASSUME Handling, [Next]_vars
    PROVE  Handling'
<1>1. CASE Message
  BY <1>1, MessageStep
<1>2. CASE Call
  BY <1>2, CallStep
<1>3. CASE Resume
  <2>1. Crash => Handling'
    BY CrashStep DEF Crash
  <2> QED
    BY <1>3, <2>1, JStep, CStep, LStep, PartAllStep, BStep, MStep, KickOnStep, PartNowStep,
       ReapNowStep, PostStep DEF Resume
<1>4. CASE Tick
  BY <1>4, TickStep
<1>5. CASE UNCHANGED vars
  <2>1. UNCHANGED <<scene, net, now, stack, sent, freed>>
    BY <1>5 DEF vars
  <2> QED
    BY <2>1 DEF Handling, TypeOK, Fit
<1> QED
  BY <1>1, <1>2, <1>3, <1>4, <1>5 DEF Next

LEMMA HandlingInit == Init => Handling
<1> SUFFICES ASSUME Init PROVE Handling
  OBVIOUS
<1>1. stack = <<>> /\ stack \in Seq(Task) /\ sent = {} /\ freed = FALSE /\ scene \in Scenes
  BY EmptySeq DEF Init
<1>2. 0 \in Time /\ now \in Time
  BY Constants DEF Init
<1>3. (Xclient \cup Fake) \cap scene.clients \subseteq Client
  BY Constants
<1>4. /\ net.channelMap = {} /\ net \in Tables
      /\ \A c \in Chan : net.userList[c] = {} /\ net.ops[c] = {}
      /\ \A n \in Client : net.channelList[n] = {}
  BY <1>2, <1>3 DEF Init, Tables
<1>5. Tabled(net) /\ \A P : Listed(net, P)
  BY <1>4 DEF Tabled, Known, Listed
<1>6. Stacked(stack, net)
  BY <1>1 DEF Stacked
<1>7. TypeOK
  BY <1>1, <1>2, <1>4 DEF TypeOK
<1> QED
  BY <1>1, <1>5, <1>6, <1>7 DEF Handling, Fit

THEOREM Handled == Spec => []Handling
<1>1. Handling /\ [Next]_vars => Handling'
  BY HandlingStep
<1> QED
  BY <1>1, HandlingInit, PTL DEF Spec

-----------------------------------------------------------------------------
(* Channels without users.  One that is left has a task that will remove   *)
(* it, or is the one of a burst that has not begun.                        *)
Emptied(t) == {c \in t.channelMap : t.userList[c] = {}}

Waiting(c, t, st) ==
    \E i \in 1 .. Len(st) :
        /\ st[i].chan = c
        /\ \/ st[i].do \in {"Reap", "PartAll"}
           \/ /\ i = 1 /\ st[i].do = "B"
              /\ st[i].users # {} /\ st[i].users \subseteq t.clients

Awaiting(t, st) == \A c \in Emptied(t) : Waiting(c, t, st)

Occupying == Messages \cap {"Fake", "B3", "BGone"} = {}

LEMMA Empties ==
    ASSUME NEW t, Tabled(t), NEW P, Listed(t, P), NEW c \in Chan, NEW n \in Client,
           NEW ts \in Time, NEW op \in BOOLEAN
    PROVE  /\ Emptied(WithChannel(t, c, ts)) \subseteq Emptied(t) \cup {c}
           /\ n \in t.clients /\ c \in t.channelMap
              => Emptied(WithUser(t, n, c, op)) \subseteq Emptied(t) \ {c}
           /\ Emptied(Older(t, c, ts)) = Emptied(t)
           /\ Emptied(WithoutUser(t, n, c)) \subseteq Emptied(t) \cup {c}
           /\ n \in P => Emptied(WithoutMember(t, n, c)) \subseteq Emptied(t) \cup {c}
           /\ Emptied(Reaped(t, c)) \subseteq Emptied(t) \ {c}
           /\ Emptied(WithoutClient(t, n)) \subseteq Emptied(t)
<1>1. t.channelMap \subseteq Chan /\ t.userList \in [Chan -> SUBSET Client]
  BY DEF Tabled, Tables
<1>2. Emptied(WithChannel(t, c, ts)) \subseteq Emptied(t) \cup {c}
  <2> DEFINE u == WithChannel(t, c, ts)
  <2>1. u.userList = t.userList /\ u.channelMap = t.channelMap \cup {c}
    BY Channelled
  <2> HIDE DEF u
  <2> QED
    BY <2>1 DEF u, Emptied
<1>3. ASSUME n \in t.clients, c \in t.channelMap
      PROVE  Emptied(WithUser(t, n, c, op)) \subseteq Emptied(t) \ {c}
  <2> DEFINE u == WithUser(t, n, c, op)
  <2>1. u.userList = [t.userList EXCEPT ![c] = @ \cup {n}] /\ u.channelMap = t.channelMap
    BY <1>3, Joining
  <2> HIDE DEF u
  <2> QED
    BY <1>1, <2>1 DEF u, Emptied
<1>4. Emptied(Older(t, c, ts)) = Emptied(t)
  <2> DEFINE u == Older(t, c, ts)
  <2>1. u.userList = t.userList /\ u.channelMap = t.channelMap
    BY Resetting
  <2> HIDE DEF u
  <2> QED
    BY <2>1 DEF u, Emptied
<1>5. Emptied(WithoutUser(t, n, c)) \subseteq Emptied(t) \cup {c}
  <2> DEFINE u == WithoutUser(t, n, c)
  <2>1. u.userList = [t.userList EXCEPT ![c] = @ \ {n}] /\ u.channelMap = t.channelMap
    BY Leaving
  <2> HIDE DEF u
  <2> QED
    BY <1>1, <2>1 DEF u, Emptied
<1>6. ASSUME n \in P PROVE Emptied(WithoutMember(t, n, c)) \subseteq Emptied(t) \cup {c}
  <2> DEFINE u == WithoutMember(t, n, c)
  <2>1. u.userList = [t.userList EXCEPT ![c] = @ \ {n}] /\ u.channelMap = t.channelMap
    BY <1>6, Dropping
  <2> HIDE DEF u
  <2> QED
    BY <1>1, <2>1 DEF u, Emptied
<1>7. Emptied(Reaped(t, c)) \subseteq Emptied(t) \ {c}
  <2> DEFINE u == Reaped(t, c)
  <2>1. /\ u.channelMap \subseteq t.channelMap /\ u.userList = t.userList
        /\ t.userList[c] = {} => c \notin u.channelMap
    BY Reaping
  <2> HIDE DEF u
  <2> QED
    BY <2>1 DEF u, Emptied
<1>8. Emptied(WithoutClient(t, n)) \subseteq Emptied(t)
  <2> DEFINE u == WithoutClient(t, n)
  <2>1. /\ u.channelMap \subseteq t.channelMap
        /\ \A d \in u.channelMap : t.userList[d] # {} => u.userList[d] # {}
    BY Removing
  <2> HIDE DEF u
  <2> QED
    BY <2>1 DEF u, Emptied
<1> QED
  BY <1>2, <1>3, <1>4, <1>5, <1>6, <1>7, <1>8

LEMMA MadeEmpties ==
    ASSUME NEW t, Tabled(t), Listed(t, {}), NEW c \in Chan, NEW ts \in Time
    PROVE  /\ Tabled(WithChannel(t, c, ts)) /\ Listed(WithChannel(t, c, ts), {})
           /\ c \in WithChannel(t, c, ts).channelMap
           /\ WithChannel(t, c, ts).clients = t.clients
           /\ Emptied(WithChannel(t, c, ts)) \subseteq Emptied(t) \cup {c}
           /\ Tabled(Older(t, c, ts)) /\ Listed(Older(t, c, ts), {})
           /\ Older(t, c, ts).channelMap = t.channelMap
           /\ Older(t, c, ts).clients = t.clients
           /\ Emptied(Older(t, c, ts)) = Emptied(t)
<1>1. /\ Tabled(WithChannel(t, c, ts)) /\ Listed(WithChannel(t, c, ts), {})
      /\ c \in WithChannel(t, c, ts).channelMap
      /\ WithChannel(t, c, ts).clients = t.clients
      /\ WithChannel(t, c, ts).channelMap = t.channelMap \cup {c}
      /\ WithChannel(t, c, ts).userList = t.userList
  BY Channelled
<1>2. /\ Tabled(Older(t, c, ts)) /\ Listed(Older(t, c, ts), {})
      /\ Older(t, c, ts).channelMap = t.channelMap
      /\ Older(t, c, ts).clients = t.clients
      /\ Older(t, c, ts).userList = t.userList
  BY Resetting
<1>3. Emptied(WithChannel(t, c, ts)) \subseteq Emptied(t) \cup {c}
  BY <1>1 DEF Emptied
<1>4. Emptied(Older(t, c, ts)) = Emptied(t)
  BY <1>2 DEF Emptied
<1> QED
  BY <1>1, <1>2, <1>3, <1>4

LEMMA JoinEmpties ==
    ASSUME NEW t, Tabled(t), NEW n, n \in t.clients, NEW c, c \in t.channelMap,
           NEW op \in BOOLEAN, Listed(t, {})
    PROVE  Emptied(WithUser(t, n, c, op)) \subseteq Emptied(t) \ {c}
<1>1. n \in Client /\ c \in Chan /\ 0 \in Time
  BY Constants DEF Tabled, Tables
<1> QED
  BY <1>1, Empties

LEMMA AwaitNone ==
    ASSUME NEW t, NEW st, Emptied(t) = {}
    PROVE  Awaiting(t, st)
  BY DEF Awaiting

(* When idle, or when a handler other than B is next, there are none.      *)
LEMMA NoneEmpty ==
    ASSUME Fit(net, stack), Awaiting(net, stack),
           stack = <<>> \/ Head(stack).do \in {"J", "C", "L", "M"}
    PROVE  Emptied(net) = {}
<1> SUFFICES ASSUME NEW c \in Emptied(net) PROVE FALSE
  OBVIOUS
<1>1. PICK i \in 1 .. Len(stack) : stack[i].chan = c /\ stack[i].do \in {"Reap", "PartAll", "B"}
  BY DEF Awaiting, Waiting
<1>2. CASE stack = <<>>
  BY <1>1, <1>2
<1>3. CASE stack # <<>> /\ Head(stack).do \in {"J", "C", "L", "M"}
  <2>1. Head(stack).do \in Handlers
    BY <1>3 DEF Handlers
  <2>2. Len(stack) = 1 /\ Head(stack) = stack[1]
    BY <1>3, <2>1, BottomHandler, Resting DEF Fit
  <2>3. i = 1
    BY <1>1, <2>2
  <2> QED
    BY <1>1, <1>3, <2>2, <2>3
<1> QED
  BY <1>2, <1>3

LEMMA AwaitRun ==
    ASSUME Fit(net, stack), NEW kept, Rest(kept) \in Seq(Task), NEW t, NEW tasks \in Seq(Task),
           Run(t, tasks, kept),
           \A c \in Emptied(t) :
               \/ \E i \in 1 .. Len(tasks) : tasks[i].do = "Reap" /\ tasks[i].chan = c
               \/ \E i \in 1 .. Len(Rest(kept)) :
                    Rest(kept)[i].do \in {"Reap", "PartAll"} /\ Rest(kept)[i].chan = c
    PROVE  Awaiting(net', stack')
<1> DEFINE rest == Rest(kept)
<1>1. net' = t /\ Piled(stack', t, tasks, rest)
  BY Pushed
<1> SUFFICES ASSUME NEW c \in Emptied(t) PROVE Waiting(c, t, stack')
  BY <1>1 DEF Awaiting
<1>2. \/ \E i \in 1 .. Len(tasks) : tasks[i].do = "Reap" /\ tasks[i].chan = c
      \/ \E i \in 1 .. Len(rest) : rest[i].do \in {"Reap", "PartAll"} /\ rest[i].chan = c
  OBVIOUS
<1>3. rest \in Seq(Task)
  OBVIOUS
<1> HIDE DEF rest
<1>4. Len(tasks) \in Nat /\ Len(rest) \in Nat /\ Len(stack') = Len(tasks) + Len(rest)
  BY <1>1, <1>3 DEF Piled
<1>5. ASSUME NEW i \in 1 .. Len(tasks), tasks[i].do = "Reap", tasks[i].chan = c
      PROVE  Waiting(c, t, stack')
  <2>1. i \in 1 .. Len(stack') /\ stack'[i] = tasks[i]
    BY <1>1, <1>4 DEF Piled
  <2> QED
    BY <1>5, <2>1 DEF Waiting
<1>6. ASSUME NEW i \in 1 .. Len(rest), rest[i].do \in {"Reap", "PartAll"}, rest[i].chan = c
      PROVE  Waiting(c, t, stack')
  <2> DEFINE j == Len(tasks) + i
  <2>1. j \in 1 .. Len(stack') /\ stack'[j] = Aged(rest[i], t)
    BY <1>1, <1>4 DEF Piled
  <2>2. Aged(rest[i], t).do = rest[i].do /\ Aged(rest[i], t).chan = c
    BY <1>3, <1>6, Aging
  <2> HIDE DEF j
  <2> QED
    BY <1>6, <2>1, <2>2 DEF Waiting
<1> QED
  BY <1>2, <1>5, <1>6

LEMMA AwaitCall ==
    ASSUME Fit(net, stack), Awaiting(net, stack), NEW kept, Called(kept),
           NEW t, NEW tasks \in Seq(Task), Run(t, tasks, kept),
           \A c \in Emptied(t) :
               \/ \E i \in 1 .. Len(tasks) : tasks[i].do = "Reap" /\ tasks[i].chan = c
               \/ /\ c \in Emptied(net)
                  /\ stack = <<>> \/ Head(stack).do # "Reap" \/ Head(stack).chan # c
    PROVE  Awaiting(net', stack')
<1> DEFINE rest == Rest(kept)
<1>1. rest \in Seq(Task) /\ stack \in Seq(Task)
  BY CalledRest DEF Fit
<1>2. ASSUME NEW c \in Emptied(net),
             stack = <<>> \/ Head(stack).do # "Reap" \/ Head(stack).chan # c
      PROVE  \E i \in 1 .. Len(rest) : rest[i].do \in {"Reap", "PartAll"} /\ rest[i].chan = c
  <2>1. PICK i \in 1 .. Len(stack) :
            /\ stack[i].chan = c
            /\ stack[i].do \in {"Reap", "PartAll"} \/ (i = 1 /\ stack[i].do = "B")
    <3>1. Waiting(c, net, stack)
      BY DEF Awaiting
    <3> QED
      BY <3>1 DEF Waiting
  <2>2. stack # <<>>
    BY <2>1
  <2>3. Head(stack).do \notin Handlers /\ Head(stack) = stack[1] /\ Len(stack) >= 1
    BY <1>1, <2>2, Resting DEF Called
  <2>4. i # 1
    BY <1>2, <2>1, <2>2, <2>3 DEF Handlers
  <2>5. stack[i].do \in {"Reap", "PartAll"} /\ i \in 2 .. Len(stack)
    BY <1>1, <2>1, <2>4
  <2>6. CASE kept = <<>>
    <3>1. /\ Len(rest) = Len(stack) - 1
          /\ \A j \in 1 .. Len(rest) : rest[j] = stack[j + 1]
      BY <1>1, <2>2, <2>6, Resting
    <3> HIDE DEF rest
    <3>2. i - 1 \in 1 .. Len(rest) /\ (i - 1) + 1 = i
      BY <1>1, <2>5, <3>1
    <3>3. rest[i - 1] = stack[i]
      BY <3>1, <3>2
    <3> QED
      BY <2>1, <2>5, <3>2, <3>3
  <2>7. CASE \E k : Short(k) /\ kept = <<k>>
    <3>1. PICK k : Short(k) /\ kept = <<k>>
      BY <2>7
    <3>2. k \in Task
      BY <3>1 DEF Short
    <3>3. Len(rest) = Len(stack) /\ \A j \in 2 .. Len(stack) : rest[j] = stack[j]
      BY <1>1, <2>2, <3>1, <3>2, Resting
    <3> HIDE DEF rest
    <3>4. i \in 1 .. Len(rest) /\ rest[i] = stack[i]
      BY <1>1, <2>5, <3>3
    <3> QED
      BY <2>1, <2>5, <3>4
  <2> QED
    BY <2>2, <2>6, <2>7 DEF Called
<1>3. \A c \in Emptied(t) :
        \/ \E i \in 1 .. Len(tasks) : tasks[i].do = "Reap" /\ tasks[i].chan = c
        \/ \E i \in 1 .. Len(rest) : rest[i].do \in {"Reap", "PartAll"} /\ rest[i].chan = c
  BY <1>2
<1> QED
  BY <1>1, <1>3, AwaitRun

(* The messages.                                                           *)
LEMMA MessageAwaits ==
    ASSUME Handling, Occupying, Awaiting(net, stack), Message
    PROVE  Awaiting(net', stack')
<1>1. scene.chans \subseteq Chan /\ 1 .. MaxTime \subseteq Time /\ Tabled(net) /\ 0 \in Time
  BY Constants, ChannelsAssumption DEF Handling, Time, Fit
<1>2. ASSUME stack = <<>>, net' = net PROVE Awaiting(net', stack')
  BY <1>2, NoneEmpty, AwaitNone DEF Handling
<1>3. CASE \E n \in Client, chans \in SUBSET scene.chans \ {{}}, ts \in 1 .. MaxTime :
             List("J", n, chans, ts) \/ List("C", n, chans, ts)
  BY <1>2, <1>3 DEF List, Idle, Continue, Run
<1>4. CASE \E n \in Client, chans \in SUBSET scene.chans \ {{}} : List("L", n, chans, 0)
  BY <1>2, <1>4 DEF List, Idle, Continue, Run
<1>5. ASSUME NEW n \in Client, msg_J_0(n) PROVE Awaiting(net', stack')
  BY <1>2, <1>5 DEF msg_J_0, Idle, Continue, Run
<1>6. ASSUME NEW n \in Client, SignOn(n) PROVE Awaiting(net', stack')
  <2>1. stack = <<>> /\ net' = [net EXCEPT !.clients = @ \cup {n}]
    BY <1>6 DEF SignOn, Idle, Continue, Run
  <2>2. net'.userList = net.userList /\ net'.channelMap = net.channelMap
    BY <1>1, <2>1 DEF Tabled, Tables
  <2>3. Emptied(net') = {}
    BY <2>1, <2>2, NoneEmpty DEF Handling, Emptied
  <2> QED
    BY <2>3, AwaitNone
<1>7. ASSUME NEW n \in Client, Quit(n) PROVE Awaiting(net', stack')
  <2>1. stack = <<>> /\ net' = WithoutClient(net, n)
    BY <1>7 DEF Quit, Idle, Continue, Run
  <2>2. Emptied(net) = {} /\ Listed(net, {})
    BY <2>1, NoneEmpty, IdleListed DEF Handling
  <2>3. \A u : u = WithoutClient(net, n) => Emptied(u) = {}
    <3>1. /\ WithoutClient(net, n).channelMap \subseteq net.channelMap
          /\ \A d \in WithoutClient(net, n).channelMap :
               net.userList[d] # {} => WithoutClient(net, n).userList[d] # {}
      BY <1>1, <2>2, Removing
    <3> QED
      BY <2>2, <3>1 DEF Emptied
  <2> QED
    BY <2>1, <2>3, AwaitNone
<1>8. ASSUME NEW c \in scene.chans, NEW n \in Client, NEW local \in BOOLEAN, msg_K(c, n, local)
      PROVE  Awaiting(net', stack')
  <2> DEFINE t == WithoutUser(net, n, c)
  <2> DEFINE tasks == <<Post(IF local THEN "LOCALKICK" ELSE "KICK", c, n), Reap(c)>>
  <2>1. stack = <<>> /\ Run(t, tasks, <<>>) /\ c \in Chan
    BY <1>1, <1>8 DEF msg_K, Idle, Continue
  <2>2. Emptied(net) = {} /\ Listed(net, {}) /\ Called(<<>>)
    BY <2>1, NoneEmpty, IdleListed DEF Handling, Called
  <2>3. Emptied(t) \subseteq {c}
    <3>1. t.channelMap = net.channelMap /\ t.userList = [net.userList EXCEPT ![c] = @ \ {n}]
      BY <1>1, <2>1, <2>2, Leaving
    <3> HIDE DEF t
    <3> QED
      BY <1>1, <2>1, <2>2, <3>1 DEF Emptied, Tabled, Tables
  <2>4. (IF local THEN "LOCALKICK" ELSE "KICK") \in Events
    BY DEF Events
  <2>5. tasks \in Seq(Task) /\ Len(tasks) = 2 /\ tasks[2].do = "Reap" /\ tasks[2].chan = c
    BY <2>1, <2>4, ShortTasks DEF Short
  <2> HIDE DEF t, tasks
  <2> QED
    BY <2>1, <2>2, <2>3, <2>5, AwaitCall DEF Handling
<1>9. ASSUME NEW server \in BOOLEAN, NEW c \in scene.chans, NEW n \in Client,
             NEW plus \in BOOLEAN, NEW ts \in 1 .. MaxTime, msg_M(server, c, n, plus, ts)
      PROVE  Awaiting(net', stack')
  BY <1>2, <1>9 DEF msg_M, Idle, Continue, Run
<1>10. ASSUME NEW c \in scene.chans, NEW ts \in 1 .. MaxTime,
              NEW users \in SUBSET (Client \ (Xclient \cup Fake)),
              NEW marked \in SUBSET users, msg_B(c, ts, users, marked)
       PROVE  Awaiting(net', stack')
  <2> DEFINE g == NewTask("B", c, NoClient)
  <2> DEFINE h == [g EXCEPT !.users = users, !.marked = marked]
  <2> DEFINE t == IF c \notin net.channelMap THEN WithChannel(net, c, ts)
                  ELSE IF ts < net.creationTime[c] THEN Older(net, c, ts)
                  ELSE net
  <2>1. stack = <<>> /\ Run(t, <<h>>, <<>>) /\ c \in Chan /\ ts \in Time
    BY <1>1, <1>10 DEF msg_B, Idle, Continue
  <2>2. Emptied(net) = {} /\ Listed(net, {})
    BY <2>1, NoneEmpty, IdleListed DEF Handling
  <2>3. users # {} /\ users \subseteq net.clients
    BY <1>10 DEF msg_B, Occupying
  <2>4. Emptied(t) \subseteq {c} /\ t.clients = net.clients
    <3>1. CASE c \notin net.channelMap
      <4>1. WithChannel(net, c, ts).userList = net.userList
            /\ WithChannel(net, c, ts).channelMap = net.channelMap \cup {c}
            /\ WithChannel(net, c, ts).clients = net.clients
        BY <1>1, <2>1, <2>2, Channelled
      <4> QED
        BY <2>2, <3>1, <4>1 DEF Emptied
    <3>2. CASE c \in net.channelMap
      <4>1. Older(net, c, ts).userList = net.userList
            /\ Older(net, c, ts).channelMap = net.channelMap
            /\ Older(net, c, ts).clients = net.clients
        BY <1>1, <2>1, <2>2, Resetting
      <4> QED
        BY <2>2, <3>2, <4>1 DEF Emptied
    <3> QED
      BY <3>1, <3>2
  <2>5. "B" \in Work
    BY DEF Work
  <2>6. g \in Task /\ g.do = "B" /\ g.chan = c
    BY <2>1, <2>5, NewTasks
  <2> HIDE DEF g
  <2>7. h \in Task /\ h.do = "B" /\ h.chan = c /\ h.users = users
    BY <2>6 DEF Task
  <2> DEFINE tasks == <<h>>
  <2>8. tasks \in Seq(Task) /\ Len(tasks) = 1 /\ tasks[1] = h /\ Run(t, tasks, <<>>)
    BY <2>1, <2>7
  <2> HIDE DEF h, t, tasks
  <2>9. Rest(<<>>) = <<>> /\ Rest(<<>>) \in Seq(Task)
    BY <2>1, Resting, EmptySeq DEF Handling, Fit
  <2>10. net' = t /\ Piled(stack', t, tasks, Rest(<<>>))
    BY <2>8, <2>9, Pushed
  <2>11. Len(stack') >= 1 /\ stack'[1] = h
    <3>1. Len(stack') = Len(tasks) + Len(Rest(<<>>)) /\ Len(Rest(<<>>)) = 0
      BY <2>9, <2>10 DEF Piled
    <3>2. 1 \in 1 .. Len(tasks)
      BY <2>8
    <3>3. stack'[1] = tasks[1]
      BY <2>10, <3>2 DEF Piled
    <3> QED
      BY <2>8, <3>1, <3>3
  <2>12. Waiting(c, t, stack')
    <3>1. stack' \in Seq(Task)
      BY <2>10 DEF Piled
    <3>2. 1 \in 1 .. Len(stack')
      BY <2>11, <3>1
    <3> QED
      BY <2>3, <2>4, <2>7, <2>11, <3>2 DEF Waiting
  <2> QED
    BY <2>4, <2>10, <2>12 DEF Awaiting
<1>11. CASE \E n \in Client : msg_J_0(n) \/ SignOn(n) \/ Quit(n)
  BY <1>5, <1>6, <1>7, <1>11
<1>12. CASE \E c \in scene.chans, ts \in 1 .. MaxTime,
               users \in SUBSET (Client \ (Xclient \cup Fake)) :
              \E marked \in SUBSET users : msg_B(c, ts, users, marked)
  BY <1>10, <1>12
<1>13. CASE \E c \in scene.chans, n \in Client, local \in BOOLEAN : msg_K(c, n, local)
  BY <1>8, <1>13
<1>14. CASE \E server \in BOOLEAN, c \in scene.chans, n \in Client, plus \in BOOLEAN,
               ts \in 1 .. MaxTime : msg_M(server, c, n, plus, ts)
  BY <1>9, <1>14
<1> QED
  BY <1>3, <1>4, <1>11, <1>12, <1>13, <1>14 DEF Message

(* The calls, from a task that is not about to remove a channel.           *)
Acting(kept) == Called(kept) /\ (stack = <<>> \/ Head(stack).do # "Reap")

LEMMA AwaitLess ==
    ASSUME Fit(net, stack), Awaiting(net, stack), NEW kept, Acting(kept),
           NEW t, NEW tasks, Added(tasks), Run(t, tasks, kept), Emptied(t) \subseteq Emptied(net)
    PROVE  Awaiting(net', stack')
<1>1. tasks \in Seq(Task) /\ Called(kept) /\ (stack = <<>> \/ Head(stack).do # "Reap")
  BY AddedStacked DEF Acting
<1>2. \A c \in Emptied(t) :
        c \in Emptied(net) /\ (stack = <<>> \/ Head(stack).do # "Reap" \/ Head(stack).chan # c)
  BY <1>1
<1> QED
  BY <1>1, <1>2, AwaitCall

LEMMA JoinAwaits ==
    ASSUME Handling, Awaiting(net, stack), NEW x \in Xclient, NEW c \in Chan,
           NEW joinTime \in Time, NEW getOps \in BOOLEAN, NEW direct \in BOOLEAN,
           NEW kept, Acting(kept), JoinChannel(x, c, joinTime, getOps, direct, kept)
    PROVE  Awaiting(net', stack')
<1>1. Tabled(net) /\ Listed(net, Parting(stack)) /\ x \in net.clients
  BY DEF JoinChannel, Handling, Fit
<1>2. CASE CreateChannel(x, c, joinTime, getOps, kept)
  <2>1. PICK later \in {now, now + 1} \cap Time :
          LET post == IF joinTime = 0 THEN now ELSE joinTime
              ts == CreationTime(joinTime, post, later) IN
          Run(WithUser(WithChannel(net, c, ts), x, c, getOps \/ ~Bursting),
              <<Post(IF Bursting THEN "BURST" ELSE "CREATE", c, x)>>, kept)
    BY <1>2 DEF CreateChannel
  <2> DEFINE post == IF joinTime = 0 THEN now ELSE joinTime
  <2> DEFINE ts == CreationTime(joinTime, post, later)
  <2> DEFINE op == getOps \/ ~Bursting
  <2> DEFINE t == WithChannel(net, c, ts)
  <2> DEFINE u == WithUser(t, x, c, op)
  <2> DEFINE event == IF Bursting THEN "BURST" ELSE "CREATE"
  <2> DEFINE tasks == <<Post(event, c, x)>>
  <2>2. ts \in Time /\ op \in BOOLEAN /\ event \in Events /\ Run(u, tasks, kept)
    BY <2>1 DEF Handling, TypeOK, CreationTime, Events
  <2> HIDE DEF ts, op, event
  <2>3. Tabled(t) /\ c \in t.channelMap /\ x \in t.clients /\ Listed(t, Parting(stack))
        /\ Emptied(t) \subseteq Emptied(net) \cup {c}
    <3>1. /\ Tabled(t) /\ Listed(t, Parting(stack)) /\ c \in t.channelMap
          /\ t.userList = net.userList /\ t.clients = net.clients
          /\ t.channelMap = net.channelMap \cup {c}
      BY <1>1, <2>2, Channelled
    <3> HIDE DEF t
    <3> QED
      BY <1>1, <3>1 DEF Emptied
  <2> HIDE DEF t
  <2>4. Emptied(u) \subseteq Emptied(t) \ {c}
    BY <2>2, <2>3, Constants, Empties
  <2>5. Added(tasks)
    BY <2>2, Constants, ShortTasks, Adding
  <2> HIDE DEF u, tasks
  <2> QED
    BY <2>2, <2>3, <2>4, <2>5, AwaitLess DEF Handling
<1>3. CASE c \in net.channelMap /\ ~CreateChannel(x, c, joinTime, getOps, kept)
  <2> DEFINE post == JoinTime(c, joinTime)
  <2> DEFINE v == [net EXCEPT !.creationTime[c] = joinTime]
  <2> DEFINE w == Older(net, c, joinTime)
  <2> DEFINE t == IF post >= net.creationTime[c] THEN net
                  ELSE IF direct /\ ~Bursting THEN v ELSE w
  <2> DEFINE u == WithUser(t, x, c, getOps)
  <2> DEFINE event == IF Bursting THEN "BURST" ELSE "JOIN"
  <2> DEFINE tasks == <<Post(event, c, x)>>
  <2>1. Run(u, tasks, kept) /\ event \in Events
    BY <1>3 DEF JoinChannel, Events
  <2>2. Tabled(v) /\ v.userList = net.userList /\ v.channelMap = net.channelMap
        /\ v.clients = net.clients /\ v.channelList = net.channelList
    BY <1>1 DEF Tabled, Tables, Known
  <2>3. Tabled(w) /\ Listed(w, Parting(stack)) /\ w.userList = net.userList
        /\ w.channelMap = net.channelMap /\ w.clients = net.clients
    BY <1>1, Resetting
  <2> HIDE DEF post, event, v, w
  <2>4. Tabled(t) /\ Listed(t, Parting(stack)) /\ t.userList = net.userList
        /\ t.channelMap = net.channelMap /\ t.clients = net.clients
    BY <1>1, <2>2, <2>3 DEF Listed
  <2> HIDE DEF t
  <2>5. Emptied(u) \subseteq Emptied(t) \ {c}
    BY <1>1, <1>3, <2>4, Constants, Empties
  <2>6. Emptied(t) = Emptied(net)
    BY <2>4 DEF Emptied
  <2>7. Added(tasks)
    BY <2>1, Constants, ShortTasks, Adding
  <2> HIDE DEF u, tasks
  <2> QED
    BY <2>1, <2>5, <2>6, <2>7, AwaitLess DEF Handling
<1> QED
  BY <1>2, <1>3 DEF JoinChannel

LEMMA PartAwaits ==
    ASSUME Handling, Awaiting(net, stack), NEW x \in Client, NEW c \in Chan, NEW kept,
           Acting(kept), PartChannel(x, c, kept)
    PROVE  Awaiting(net', stack')
<1> DEFINE t == WithoutUser(net, x, c)
<1> DEFINE tasks == <<Post("PART", c, x), Reap(c)>>
<1>1. Run(t, tasks, kept) /\ "PART" \in Events /\ Called(kept)
  BY DEF PartChannel, Events, Continue, Acting
<1>2. Tabled(net) /\ Listed(net, Parting(stack))
  BY DEF Handling, Fit
<1>3. Emptied(t) \subseteq Emptied(net) \cup {c}
  <2>1. t.channelMap = net.channelMap /\ t.userList = [net.userList EXCEPT ![c] = @ \ {x}]
    BY <1>2, Leaving
  <2> HIDE DEF t
  <2> QED
    BY <1>2, <2>1 DEF Emptied, Tabled, Tables
<1>4. tasks \in Seq(Task) /\ Len(tasks) = 2 /\ tasks[2].do = "Reap" /\ tasks[2].chan = c
  BY <1>1, ShortTasks DEF Short
<1> HIDE DEF t, tasks
<1>5. \A d \in Emptied(t) :
        \/ \E i \in 1 .. Len(tasks) : tasks[i].do = "Reap" /\ tasks[i].chan = d
        \/ /\ d \in Emptied(net)
           /\ stack = <<>> \/ Head(stack).do # "Reap" \/ Head(stack).chan # d
  BY <1>3, <1>4 DEF Acting
<1> QED
  BY <1>1, <1>4, <1>5, AwaitCall DEF Handling

LEMMA KickAwaits ==
    ASSUME Handling, Awaiting(net, stack), NEW x \in Xclient, NEW c \in Chan, NEW n \in Client,
           NEW asServer \in BOOLEAN, NEW kept, Acting(kept), Kick(x, c, n, asServer, kept)
    PROVE  Awaiting(net', stack')
<1> DEFINE kick == NewTask("KickOn", c, n)
<1> DEFINE byX == [kick EXCEPT !.by = x]
<1> DEFINE t == WithUser(net, x, c, TRUE)
<1> DEFINE event == IF Bursting THEN "BURST" ELSE "JOIN"
<1> DEFINE two == <<Post(event, c, x), byX>>
<1> DEFINE one == <<kick>>
<1>1. x \in net.clients /\ n \in net.userList[c] \ Xclient
  BY DEF Kick
<1>2. Run(net, one, kept) \/ Run(t, two, kept)
  BY DEF Kick, Continue
<1>3. Tabled(net) /\ Listed(net, Parting(stack))
  BY DEF Handling, Fit
<1>4. c \in net.channelMap
  BY <1>1, <1>3 DEF Tabled, Known
<1>5. Emptied(t) \subseteq Emptied(net)
  BY <1>1, <1>3, <1>4, Constants, Empties
<1>6. Short(kick) /\ Short(byX) /\ event \in Events
  BY <1>1, KickTask DEF Events
<1> HIDE DEF kick, byX, event, t
<1>7. Added(one) /\ Added(two)
  BY <1>6, Constants, ShortTasks, Adding
<1> HIDE DEF one, two
<1> QED
  BY <1>2, <1>5, <1>7, AwaitLess DEF Handling

LEMMA KillAwaits ==
    ASSUME Handling, Awaiting(net, stack), NEW n \in Client, NEW kept, Acting(kept),
           Kill(n, kept)
    PROVE  Awaiting(net', stack')
<1> DEFINE t == WithoutClient(net, n)
<1>1. Run(t, <<>>, kept)
  BY DEF Kill, Continue
<1>2. Tabled(net) /\ Listed(net, Parting(stack))
  BY DEF Handling, Fit
<1>3. Emptied(t) \subseteq Emptied(net)
  <2>1. /\ t.channelMap \subseteq net.channelMap
        /\ \A d \in t.channelMap : net.userList[d] # {} => t.userList[d] # {}
    BY <1>2, Removing
  <2> HIDE DEF t
  <2> QED
    BY <2>1 DEF Emptied
<1> HIDE DEF t
<1> QED
  BY <1>1, <1>3, Adding, AwaitLess DEF Handling

LEMMA CallAwaits ==
    ASSUME Handling, Occupying, Awaiting(net, stack), Call
    PROVE  Awaiting(net', stack')
<1>1. scene.chans \subseteq Chan /\ 1 .. MaxTime \subseteq Time /\ 0 .. now \subseteq Time
  BY Constants, ChannelsAssumption DEF Handling, TypeOK, Time
<1>2. Idle => Acting(<<>>)
  BY DEF Idle, Called, Acting
<1>3. CASE \E x \in Xclient, c \in scene.chans, joinTime \in 0 .. now,
              getOps \in BOOLEAN, direct \in BOOLEAN :
              Idle /\ JoinChannel(x, c, joinTime, getOps, direct, <<>>)
  BY <1>1, <1>2, <1>3, JoinAwaits
<1>4. CASE \E x \in Xclient, c \in scene.chans : Idle /\ PartChannel(x, c, <<>>)
  BY <1>1, <1>2, <1>4, Constants, PartAwaits
<1>5. CASE \E x \in Xclient, c \in scene.chans, n \in Client, asServer \in BOOLEAN :
              Idle /\ Kick(x, c, n, asServer, <<>>)
  BY <1>1, <1>2, <1>5, KickAwaits
<1>6. CASE \E n \in Client : Idle /\ Kill(n, <<>>)
  BY <1>2, <1>6, KillAwaits
<1>7. CASE \E n \in Fake, c \in scene.chans : JoinFake(n, c) \/ PartFake(n, c)
  BY <1>7 DEF JoinFake, PartFake, Occupying
<1>8. ASSUME NEW c \in Chan, NEW ts \in Time, stack = <<>>, net' = Older(net, c, ts)
      PROVE  Awaiting(net', stack')
  <2>1. Emptied(net) = {} /\ Listed(net, {}) /\ Tabled(net)
    BY <1>8, NoneEmpty, IdleListed DEF Handling, Fit
  <2>2. \A u : u = Older(net, c, ts) => Emptied(u) = {}
    <3>1. Older(net, c, ts).userList = net.userList
          /\ Older(net, c, ts).channelMap = net.channelMap
      BY <1>8, <2>1, Resetting
    <3> QED
      BY <2>1, <3>1 DEF Emptied
  <2> QED
    BY <1>8, <2>2, AwaitNone
<1>9. CASE \E c \in scene.chans, ts \in 1 .. MaxTime : BurstChannel(c, ts)
  BY <1>1, <1>8, <1>9 DEF BurstChannel, Idle, Run
<1>10. CASE \E x \in Xclient, c \in scene.chans, joinTime \in 0 .. now : Rejoin(x, c, joinTime)
  BY <1>1, <1>8, <1>10 DEF Rejoin, Idle, Continue, Run
<1> QED
  BY <1>3, <1>4, <1>5, <1>6, <1>7, <1>9, <1>10 DEF Call

(* What is under way.                                                      *)
LEMMA NoneLeft ==
    ASSUME NEW t, NEW tasks, NEW kept, Continue(t, tasks, kept), Emptied(t) = {}
    PROVE  Awaiting(net', stack')
<1>1. net' = t
  BY DEF Continue, Run
<1> QED
  BY <1>1, AwaitNone

LEMMA JAwaits ==
    ASSUME Handling, Awaiting(net, stack), J
    PROVE  Awaiting(net', stack')
<1> DEFINE f == Head(stack)
<1> DEFINE n == f.client
<1>1. /\ stack # <<>> /\ f.do = "J"
      /\ n \in Client /\ f.chans \subseteq Chan /\ f.ts \in Time
      /\ f.chans # {} => n \in net.clients
  BY ListClient DEF J
<1>2. f.do \in Handlers \ {"PartAll"}
  BY <1>1 DEF Handlers
<1>3. Tabled(net) /\ Listed(net, {}) /\ Emptied(net) = {}
  BY <1>1, <1>2, TopListed, NoneEmpty DEF Handling
<1>4. now \in Time
  BY DEF Handling, TypeOK
<1>5. CASE f.chans = {} /\ Continue(net, <<>>, <<>>)
  BY <1>3, <1>5, NoneLeft
<1>6. ASSUME NEW c \in f.chans, c \notin net.channelMap,
             Continue(WithUser(WithChannel(net, c, now), n, c, TRUE),
                      <<Post("CREATE", c, n)>>, <<[f EXCEPT !.chans = @ \ {c}]>>)
      PROVE  Awaiting(net', stack')
  <2> DEFINE t == WithChannel(net, c, now)
  <2> DEFINE u == WithUser(t, n, c, TRUE)
  <2>1. /\ Tabled(t) /\ Listed(t, {}) /\ c \in t.channelMap /\ c \in Chan
        /\ t.clients = net.clients /\ Emptied(t) \subseteq {c}
    <3>1. c \in Chan
      BY <1>1, <1>6
    <3> QED
      BY <1>3, <1>4, <3>1, MadeEmpties
  <2>2. n \in t.clients
    BY <1>1, <1>6, <2>1
  <2> HIDE DEF t, n
  <2>3. Emptied(u) \subseteq Emptied(t) \ {c}
    BY <2>1, <2>2, JoinEmpties
  <2> HIDE DEF u
  <2> QED
    BY <1>6, <2>1, <2>3, NoneLeft DEF u, t
<1>7. ASSUME NEW c \in f.chans, c \in net.channelMap, NEW tasks, NEW kept,
             Continue(Joined(c, n, f.ts), tasks, kept)
      PROVE  Awaiting(net', stack')
  <2> DEFINE t == IF f.ts < net.creationTime[c] THEN Older(net, c, f.ts) ELSE net
  <2> DEFINE u == IF n \in net.userList[c] \/ c \in net.channelList[n] THEN t
                  ELSE WithUser(t, n, c, FALSE)
  <2>1. Continue(u, tasks, kept) /\ c \in Chan /\ n \in net.clients
    BY <1>1, <1>7 DEF Joined
  <2>2. /\ Tabled(t) /\ Listed(t, {}) /\ c \in t.channelMap /\ t.clients = net.clients
        /\ Emptied(t) = {}
    <3>1. /\ Tabled(Older(net, c, f.ts)) /\ Listed(Older(net, c, f.ts), {})
          /\ Older(net, c, f.ts).channelMap = net.channelMap
          /\ Older(net, c, f.ts).clients = net.clients
      BY <1>1, <1>3, <2>1, MadeEmpties
    <3>2. Emptied(Older(net, c, f.ts)) = Emptied(net)
      BY <1>1, <1>3, <2>1, MadeEmpties
    <3> QED
      BY <1>3, <1>7, <3>1, <3>2
  <2>3. n \in t.clients
    BY <2>1, <2>2
  <2> HIDE DEF t, n
  <2>4. Emptied(WithUser(t, n, c, FALSE)) \subseteq Emptied(t) \ {c}
    BY <2>2, <2>3, JoinEmpties
  <2>5. Emptied(u) = {}
    BY <2>2, <2>4
  <2> HIDE DEF u
  <2> QED
    BY <2>1, <2>5, NoneLeft
<1> QED
  BY <1>5, <1>6, <1>7 DEF J

LEMMA CAwaits ==
    ASSUME Handling, Awaiting(net, stack), C
    PROVE  Awaiting(net', stack')
<1> DEFINE f == Head(stack)
<1> DEFINE n == f.client
<1>1. /\ stack # <<>> /\ f.do = "C"
      /\ n \in Client /\ f.chans \subseteq Chan /\ f.ts \in Time
      /\ f.chans # {} => n \in net.clients
  BY ListClient DEF C
<1>2. f.do \in Handlers \ {"PartAll"}
  BY <1>1 DEF Handlers
<1>3. Tabled(net) /\ Listed(net, {}) /\ Emptied(net) = {}
  BY <1>1, <1>2, TopListed, NoneEmpty DEF Handling
<1>4. CASE f.chans = {} /\ Continue(net, <<>>, <<>>)
  BY <1>3, <1>4, NoneLeft
<1>5. ASSUME NEW c \in f.chans, NEW tasks, NEW kept, Continue(Created(c, n, f.ts), tasks, kept)
      PROVE  Awaiting(net', stack')
  <2> DEFINE t == IF c \notin net.channelMap THEN WithChannel(net, c, f.ts)
                  ELSE IF f.ts < net.creationTime[c] THEN Older(net, c, f.ts)
                  ELSE net
  <2> DEFINE op == n \in t.ops[c] \/ f.ts = t.creationTime[c]
  <2> DEFINE u == WithUser(t, n, c, op)
  <2>1. Continue(u, tasks, kept) /\ c \in Chan /\ n \in net.clients /\ op \in BOOLEAN
    BY <1>1, <1>5 DEF Created
  <2>2. /\ Tabled(t) /\ Listed(t, {}) /\ c \in t.channelMap /\ t.clients = net.clients
        /\ Emptied(t) \subseteq {c}
    <3> DEFINE ts == f.ts
    <3>1. ts \in Time
      BY <1>1
    <3> HIDE DEF ts
    <3>2. /\ Tabled(WithChannel(net, c, ts)) /\ Listed(WithChannel(net, c, ts), {})
          /\ c \in WithChannel(net, c, ts).channelMap
          /\ WithChannel(net, c, ts).clients = net.clients
          /\ Emptied(WithChannel(net, c, ts)) \subseteq Emptied(net) \cup {c}
          /\ Tabled(Older(net, c, ts)) /\ Listed(Older(net, c, ts), {})
          /\ Older(net, c, ts).channelMap = net.channelMap
          /\ Older(net, c, ts).clients = net.clients
          /\ Emptied(Older(net, c, ts)) = Emptied(net)
      BY <1>3, <2>1, <3>1, MadeEmpties
    <3> QED
      BY <1>3, <3>2 DEF ts
  <2>3. n \in t.clients
    BY <2>1, <2>2
  <2> HIDE DEF t, n, op
  <2>4. Emptied(u) \subseteq Emptied(t) \ {c}
    BY <2>1, <2>2, <2>3, JoinEmpties
  <2> HIDE DEF u
  <2> QED
    BY <2>1, <2>2, <2>4, NoneLeft
<1> QED
  BY <1>4, <1>5 DEF C

LEMMA LAwaits ==
    ASSUME Handling, Awaiting(net, stack), L
    PROVE  Awaiting(net', stack')
<1> DEFINE f == Head(stack)
<1> DEFINE n == f.client
<1>1. /\ stack # <<>> /\ f \in Task /\ Shaped(f) /\ f.do = "L" /\ n \in Client
      /\ f.chans \subseteq Chan
  BY ListClient DEF L
<1>2. f.do \in Handlers \ {"PartAll"}
  BY <1>1 DEF Handlers
<1>3. Tabled(net) /\ Listed(net, {}) /\ Emptied(net) = {}
  BY <1>1, <1>2, TopListed, NoneEmpty DEF Handling
<1>4. ASSUME NEW kept, Continue(net, <<>>, kept) PROVE Awaiting(net', stack')
  BY <1>3, <1>4, NoneLeft
<1>5. ASSUME NEW c \in f.chans,
             Continue(WithoutUser(net, n, c), <<Post("PART", c, n), Reap(c)>>,
                      <<[f EXCEPT !.chans = @ \ {c}]>>)
      PROVE  Awaiting(net', stack')
  <2> DEFINE k == [f EXCEPT !.chans = @ \ {c}]
  <2> DEFINE t == WithoutUser(net, n, c)
  <2> DEFINE tasks == <<Post("PART", c, n), Reap(c)>>
  <2>1. c \in Chan /\ Run(t, tasks, <<k>>) /\ "PART" \in Events /\ k \in Task
    <3>1. k \in Task
      BY <1>1 DEF Task
    <3> QED
      BY <1>1, <1>5, <3>1 DEF Continue, Events
  <2>2. Emptied(t) \subseteq {c}
    <3>1. n \in Client /\ Listed(net, {}) /\ Tabled(net) /\ c \in Chan
      BY <1>1, <1>3, <2>1
    <3> HIDE DEF n
    <3>2. t.channelMap = net.channelMap /\ t.userList = [net.userList EXCEPT ![c] = @ \ {n}]
      BY <3>1, Leaving
    <3> HIDE DEF t
    <3> QED
      BY <1>3, <3>1, <3>2 DEF Emptied, Tabled, Tables
  <2>3. tasks \in Seq(Task) /\ Len(tasks) = 2 /\ tasks[2].do = "Reap" /\ tasks[2].chan = c
    BY <1>1, <2>1, ShortTasks DEF Short
  <2>4. Rest(<<k>>) \in Seq(Task)
    BY <1>1, <1>2, <2>1, BottomHandler DEF Handling
  <2> HIDE DEF t, tasks, k
  <2>5. \A d \in Emptied(t) : \E i \in 1 .. Len(tasks) : tasks[i].do = "Reap" /\ tasks[i].chan = d
    BY <2>2, <2>3
  <2> QED
    BY <2>1, <2>3, <2>4, <2>5, AwaitRun DEF Handling
<1> QED
  BY <1>4, <1>5 DEF L

LEMMA MAwaits ==
    ASSUME Handling, Awaiting(net, stack), M
    PROVE  Awaiting(net', stack')
<1>1. stack # <<>> /\ Head(stack).do = "M"
  BY DEF M, Current
<1>2. Emptied(net) = {} /\ Tabled(net)
  BY <1>1, NoneEmpty DEF Handling, Fit
<1>3. net'.userList = net.userList /\ net'.channelMap = net.channelMap
  BY <1>2 DEF M, Continue, Run, Tabled, Tables
<1>4. Emptied(net') = {}
  BY <1>2, <1>3 DEF Emptied
<1> QED
  BY <1>4, AwaitNone


(* A handler alone on the stack waits for its own channel only.            *)
LEMMA OwnEmpty ==
    ASSUME Handling, Awaiting(net, stack), stack # <<>>, Head(stack).do \in Handlers,
           NEW c \in Emptied(net)
    PROVE  LET f == Head(stack) IN
           /\ f.chan = c
           /\ f.do = "B" => f.users # {} /\ f.users \subseteq net.clients
<1> DEFINE f == Head(stack)
<1>1. PICK i \in 1 .. Len(stack) :
        /\ stack[i].chan = c
        /\ \/ stack[i].do \in {"Reap", "PartAll"}
           \/ /\ i = 1 /\ stack[i].do = "B"
              /\ stack[i].users # {} /\ stack[i].users \subseteq net.clients
  BY DEF Awaiting, Waiting
<1>2. Len(stack) = 1 /\ f = stack[1]
  BY BottomHandler, Resting DEF Handling, Fit
<1>3. i = 1
  BY <1>1, <1>2
<1> HIDE DEF f
<1> QED
  BY <1>1, <1>2, <1>3 DEF f

LEMMA BAwaits ==
    ASSUME Handling, Awaiting(net, stack), B
    PROVE  Awaiting(net', stack')
<1> DEFINE f == Head(stack)
<1> DEFINE c == f.chan
<1>1. stack # <<>> /\ f.do = "B" /\ f \in Task /\ Shaped(f) /\ Live(f, net) /\ c \in Chan
      /\ Sound(f)
  <2>1. stack # <<>> /\ f.do = "B" /\ Sound(f)
    BY DEF B, Current
  <2> QED
    BY <2>1, TopTask DEF Shaped
<1>2. f.do \in Handlers \ {"PartAll"}
  BY <1>1 DEF Handlers
<1>3. Tabled(net) /\ Listed(net, {})
  BY <1>1, <1>2, TopListed
<1>4. Emptied(net) \subseteq {c}
        /\ (Emptied(net) # {} => f.users # {} /\ f.users \subseteq net.clients)
  BY <1>1, <1>2, OwnEmpty
<1>5. ASSUME f.users = {},
             Continue(IF Opped(f) = {} THEN net ELSE [net EXCEPT !.ops[c] = @ \cup Opped(f)],
                      <<>>, <<>>)
      PROVE  Awaiting(net', stack')
  <2>1. net' = IF Opped(f) = {} THEN net ELSE [net EXCEPT !.ops[c] = @ \cup Opped(f)]
    BY <1>5 DEF Continue, Run
  <2>2. net'.userList = net.userList /\ net'.channelMap = net.channelMap
    BY <1>3, <2>1 DEF Tabled, Tables
  <2>3. Emptied(net') = {}
    BY <1>4, <1>5, <2>2 DEF Emptied
  <2> QED
    BY <2>3, AwaitNone
<1>6. ASSUME NEW n \in f.users, NEW next, NEW none, NEW tasks,
             IF n \in net.clients /\ c \notin net.channelList[n]
             THEN Continue(WithUser(net, n, c, FALSE), tasks, next)
             ELSE Continue(net, <<>>, none)
      PROVE  Awaiting(net', stack')
  <2>1. c \in net.channelMap
    <3>1. "chan" \in Uses(f)
      BY <1>1, <1>6 DEF Uses, Pointers
    <3> QED
      BY <1>1, <3>1 DEF Sound, Live
  <2>2. n \in Client
    BY <1>1, <1>6 DEF Task
  <2>3. CASE n \in net.clients /\ c \notin net.channelList[n]
    <3> HIDE DEF c
    <3>1. Emptied(WithUser(net, n, c, FALSE)) \subseteq Emptied(net) \ {c}
      BY <1>3, <2>1, <2>3, JoinEmpties
    <3> QED
      BY <1>4, <1>6, <2>3, <3>1, NoneLeft
  <2>4. CASE ~(n \in net.clients /\ c \notin net.channelList[n])
    <3>1. n \in net.clients => n \in net.userList[c]
      BY <1>3, <2>2, <2>4 DEF Listed
    <3>2. Emptied(net) = {}
      BY <1>4, <1>6, <3>1 DEF Emptied
    <3> QED
      BY <1>6, <2>4, <3>2, NoneLeft
  <2> QED
    BY <2>3, <2>4
<1> QED
  <2>1. \/ /\ f.users = {}
           /\ Continue(IF Opped(f) = {} THEN net
                       ELSE [net EXCEPT !.ops[c] = @ \cup Opped(f)], <<>>, <<>>)
        \/ \E n \in f.users : \E next, none, tasks :
             IF n \in net.clients /\ c \notin net.channelList[n]
             THEN Continue(WithUser(net, n, c, FALSE), tasks, next)
             ELSE Continue(net, <<>>, none)
    BY DEF B
  <2> QED
    BY <1>5, <1>6, <2>1

LEMMA PartAllAwaits ==
    ASSUME Handling, Awaiting(net, stack), PartAll
    PROVE  Awaiting(net', stack')
<1> DEFINE f == Head(stack)
<1> DEFINE n == f.client
<1> DEFINE t == IF f.chan = NoChan THEN net ELSE Reaped(net, f.chan)
<1> DEFINE left == f.chans \cap net.channelList[n]
<1>1. stack # <<>> /\ f.do = "PartAll" /\ Fit(net, stack)
  BY DEF PartAll, Current, Handling
<1>2. f \in Task /\ Shaped(f) /\ n \in Client
  BY <1>1, TopTask DEF Shaped
<1>3. f.do \in Handlers
  BY <1>1 DEF Handlers
<1>4. Tabled(net) /\ Listed(net, {n})
  <2>1. {m \in {f.client} : f.do = "PartAll"} = {n}
    BY <1>1
  <2> QED
    BY <1>1, <1>3, <2>1, HandlerListed DEF Fit
<1>5. f.chan \in Chan \cup {NoChan} /\ f.chans \subseteq Chan
  BY <1>2 DEF Task
<1>6. Emptied(net) \subseteq {f.chan} \cap Chan
  <2>1. Emptied(net) \subseteq {f.chan}
    BY <1>1, <1>3, OwnEmpty
  <2>2. Emptied(net) \subseteq Chan
    BY <1>4 DEF Emptied, Tabled, Tables
  <2> QED
    BY <2>1, <2>2
<1>7. /\ \/ left = {} /\ Continue([t EXCEPT !.channelList[n] = {}], <<>>, <<>>)
         \/ \E c \in left :
              Continue(WithoutMember(t, n, c), <<Post("PART", c, n)>>,
                       <<[f EXCEPT !.chan = c, !.chans = @ \ {c}, !.dead = {}]>>)
  BY DEF PartAll
<1> HIDE DEF f
<1>8. Tabled(t) /\ Listed(t, {n}) /\ Emptied(t) = {}
  <2>1. CASE f.chan = NoChan
    BY <1>4, <1>6, <2>1, Constants
  <2>2. CASE f.chan # NoChan
    <3> DEFINE d == f.chan
    <3>1. d \in Chan /\ t = Reaped(net, d)
      BY <1>5, <2>2
    <3> HIDE DEF t, d
    <3>2. /\ Tabled(Reaped(net, d)) /\ Listed(Reaped(net, d), {n})
          /\ Reaped(net, d).channelMap \subseteq net.channelMap
          /\ Reaped(net, d).userList = net.userList
          /\ net.userList[d] = {} => d \notin Reaped(net, d).channelMap
      BY <1>4, <3>1, Reaping
    <3>3. Emptied(Reaped(net, d)) \subseteq Emptied(net) \ {d}
      BY <3>2 DEF Emptied
    <3> QED
      BY <1>6, <3>1, <3>2, <3>3 DEF d
  <2> QED
    BY <2>1, <2>2
<1> HIDE DEF t
<1>9. CASE left = {} /\ Continue([t EXCEPT !.channelList[n] = {}], <<>>, <<>>)
  <2>1. net' = [t EXCEPT !.channelList[n] = {}]
    BY <1>9 DEF Continue, Run
  <2>2. net'.userList = t.userList /\ net'.channelMap = t.channelMap
    BY <1>8, <2>1 DEF Tabled, Tables
  <2>3. Emptied(net') = {}
    BY <1>8, <2>2 DEF Emptied
  <2> QED
    BY <2>3, AwaitNone
<1>10. ASSUME NEW c \in left,
             Continue(WithoutMember(t, n, c), <<Post("PART", c, n)>>,
                      <<[f EXCEPT !.chan = c, !.chans = @ \ {c}, !.dead = {}]>>)
      PROVE  Awaiting(net', stack')
  <2> DEFINE u == WithoutMember(t, n, c)
  <2> DEFINE tasks == <<Post("PART", c, n)>>
  <2> DEFINE next == [f EXCEPT !.chan = c, !.chans = @ \ {c}, !.dead = {}]
  <2>1. c \in Chan /\ Run(u, tasks, <<next>>) /\ "PART" \in Events
    BY <1>5, <1>10 DEF Events, Continue
  <2>2. Emptied(u) \subseteq {c}
    <3>1. u.userList = [t.userList EXCEPT ![c] = @ \ {n}] /\ u.channelMap = t.channelMap
      BY <1>2, <1>8, <2>1, Dropping
    <3> HIDE DEF u
    <3> QED
      BY <1>8, <3>1 DEF Emptied, Tabled, Tables
  <2>3. Added(tasks)
    BY <1>2, <2>1, ShortTasks, Adding
  <2>4. next \in Task /\ next.do = "PartAll" /\ next.chan = c
    BY <1>1, <1>2, <2>1 DEF Task, f
  <2> HIDE DEF u, tasks, next
  <2>5. Rest(<<next>>) \in Seq(Task) /\ Len(Rest(<<next>>)) = 1 /\ Rest(<<next>>)[1] = next
    BY <1>1, <1>3, <2>4, BottomHandler DEF f
  <2>6. \A d \in Emptied(u) : \E i \in 1 .. Len(Rest(<<next>>)) :
           Rest(<<next>>)[i].do \in {"Reap", "PartAll"} /\ Rest(<<next>>)[i].chan = d
    <3>1. 1 \in 1 .. Len(Rest(<<next>>))
      BY <2>5
    <3> QED
      BY <2>2, <2>4, <2>5, <3>1
  <2>7. tasks \in Seq(Task)
    BY <2>3 DEF Added
  <2> QED
    BY <1>1, <2>1, <2>5, <2>6, <2>7, AwaitRun
<1> QED
  BY <1>7, <1>9, <1>10


LEMMA KickOnAwaits ==
    ASSUME Handling, Awaiting(net, stack), KickOn
    PROVE  Awaiting(net', stack')
<1> DEFINE f == Head(stack)
<1> DEFINE c == f.chan
<1> DEFINE part == IF f.by = NoClient THEN <<>> ELSE <<PartTask(f.by, c)>>
<1> DEFINE here == f.client \in net.userList[c]
<1> DEFINE t == IF here THEN WithoutUser(net, f.client, c) ELSE net
<1> DEFINE first == IF here THEN <<Post("KICK", c, f.client)>> ELSE <<>>
<1> DEFINE reap == <<Reap(c)>>
<1> DEFINE tasks == first \o part \o reap
<1>1. Run(t, tasks, <<>>) /\ stack # <<>> /\ f.do = "KickOn"
  BY DEF KickOn, Current, Continue
<1>2. c \in Chan /\ f.client \in Client /\ f.by \in Xclient \cup {NoClient}
  BY <1>1, TopTask DEF Shaped
<1>3. Called(<<>>)
  BY <1>1, TopCalled DEF Handlers
<1>4. Tabled(net) /\ Listed(net, Parting(stack))
  BY DEF Handling, Fit
<1>5. Emptied(t) \subseteq Emptied(net) \cup {c}
  <2> DEFINE n == f.client
  <2> DEFINE u == WithoutUser(net, n, c)
  <2>1. c \in Chan /\ n \in Client
    BY <1>2
  <2> HIDE DEF c, n
  <2>2. u.channelMap = net.channelMap /\ u.userList = [net.userList EXCEPT ![c] = @ \ {n}]
    BY <1>4, <2>1, Leaving
  <2> HIDE DEF u
  <2>3. Emptied(u) \subseteq Emptied(net) \cup {c}
    BY <1>4, <2>1, <2>2 DEF Emptied, Tabled, Tables
  <2> QED
    BY <2>3 DEF u, c, n
<1>6. "KICK" \in Events
  BY DEF Events
<1> HIDE DEF f
<1>7. Added(first) /\ Added(part)
  BY <1>2, <1>6, ShortTasks, Adding
<1>8. reap \in Seq(Task) /\ Len(reap) = 1 /\ reap[1].do = "Reap" /\ reap[1].chan = c
  BY <1>2, ShortTasks DEF Short
<1> HIDE DEF first, part, reap, t
<1>9. tasks \in Seq(Task) /\ \E i \in 1 .. Len(tasks) : tasks[i] = reap[1]
  <2> DEFINE p == first \o part
  <2>1. Added(p)
    BY <1>7, Adding
  <2>2. p \in Seq(Task) /\ tasks = p \o reap
    BY <2>1 DEF Added
  <2> HIDE DEF p
  <2>3. /\ p \o reap \in Seq(Task) /\ Len(p \o reap) = Len(p) + Len(reap)
        /\ (p \o reap)[Len(p) + 1] = reap[1]
    <3>1. p \in Seq(Task) /\ reap \in Seq(Task) /\ 1 \in 1 .. Len(reap)
      BY <1>8, <2>2
    <3>2. /\ p \o reap \in Seq(Task) /\ Len(p \o reap) = Len(p) + Len(reap)
          /\ \A i \in 1 .. Len(reap) : (p \o reap)[Len(p) + i] = reap[i]
      BY <3>1, Pushing
    <3> QED
      BY <3>1, <3>2
  <2>4. Len(p) + 1 \in 1 .. Len(p \o reap)
    BY <1>8, <2>2, <2>3
  <2> QED
    BY <2>2, <2>3, <2>4
<1> HIDE DEF tasks
<1>10. \A d \in Emptied(t) :
        \/ \E i \in 1 .. Len(tasks) : tasks[i].do = "Reap" /\ tasks[i].chan = d
        \/ /\ d \in Emptied(net)
           /\ stack = <<>> \/ Head(stack).do # "Reap" \/ Head(stack).chan # d
  BY <1>1, <1>5, <1>8, <1>9 DEF f
<1> QED
  BY <1>1, <1>3, <1>9, <1>10, AwaitCall DEF Handling

LEMMA PartNowAwaits ==
    ASSUME Handling, Awaiting(net, stack), PartNow
    PROVE  Awaiting(net', stack')
<1>1. stack # <<>> /\ Head(stack).do = "PartTask"
      /\ PartChannel(Head(stack).client, Head(stack).chan, <<>>)
  BY DEF PartNow, Current
<1>2. Head(stack).chan \in Chan /\ Head(stack).client \in Client
  BY <1>1, TopTask, Constants DEF Shaped
<1>3. Acting(<<>>)
  BY <1>1, TopCalled DEF Handlers, Acting
<1> QED
  BY <1>1, <1>2, <1>3, PartAwaits

LEMMA ReapAwaits ==
    ASSUME Handling, Awaiting(net, stack), ReapNow
    PROVE  Awaiting(net', stack')
<1> DEFINE c == Head(stack).chan
<1> DEFINE t == Reaped(net, c)
<1>1. stack # <<>> /\ Head(stack).do = "Reap" /\ Run(t, <<>>, <<>>)
  BY DEF ReapNow, Current, Continue
<1>2. c \in Chan
  BY <1>1, TopTask DEF Shaped
<1>3. Called(<<>>)
  BY <1>1, TopCalled DEF Handlers
<1> HIDE DEF c
<1>4. Tabled(net) /\ Listed(net, Parting(stack))
  BY DEF Handling, Fit
<1>5. Emptied(t) \subseteq Emptied(net) \ {c}
  <2>1. /\ t.channelMap \subseteq net.channelMap /\ t.userList = net.userList
        /\ net.userList[c] = {} => c \notin t.channelMap
    BY <1>2, <1>4, Reaping
  <2> HIDE DEF t
  <2> QED
    BY <2>1 DEF Emptied
<1>6. \A d \in Emptied(t) : d \in Emptied(net) /\ Head(stack).chan # d
  BY <1>5 DEF c
<1> HIDE DEF t
<1>7. <<>> \in Seq(Task)
  BY EmptySeq
<1> QED
  BY <1>1, <1>3, <1>6, <1>7, AwaitCall DEF Handling

LEMMA StayAwaits ==
    ASSUME Handling, Awaiting(net, stack), NEW kept, Acting(kept), Continue(net, <<>>, kept)
    PROVE  Awaiting(net', stack')
BY Adding, AwaitLess DEF Handling, Continue

LEMMA ReactAwaits ==
    ASSUME Handling, Awaiting(net, stack), NEW f, f.chan \in Chan, NEW kept, Acting(kept),
           React(f, kept)
    PROVE  Awaiting(net', stack')
<1>1. f.client \in Client \ Xclient /\ TRUE \in BOOLEAN /\ FALSE \in BOOLEAN /\ 0 \in Time
  BY Constants DEF React
<1>2. \/ \E x \in Xclient, n \in Client, asServer \in BOOLEAN :
              Kick(x, f.chan, n, asServer, kept)
      \/ \E x \in Xclient : JoinChannel(x, f.chan, 0, TRUE, FALSE, kept)
      \/ \E x \in Xclient : PartChannel(x, f.chan, kept)
      \/ Kill(f.client, kept) \/ KillCrash(f.client)
  BY <1>1 DEF React
<1>3. CASE \E x \in Xclient, n \in Client, asServer \in BOOLEAN :
              Kick(x, f.chan, n, asServer, kept)
  BY <1>3, KickAwaits
<1>4. CASE \E x \in Xclient : JoinChannel(x, f.chan, 0, TRUE, FALSE, kept)
  BY <1>1, <1>4, JoinAwaits
<1>5. CASE \E x \in Xclient : PartChannel(x, f.chan, kept)
  BY <1>5, PartAwaits, Constants
<1>6. CASE Kill(f.client, kept)
  BY <1>1, <1>6, KillAwaits
<1>7. CASE KillCrash(f.client)
  BY <1>7 DEF KillCrash
<1> QED
  BY <1>2, <1>3, <1>4, <1>5, <1>6, <1>7

LEMMA PostAwaits ==
    ASSUME Handling, Awaiting(net, stack), PostAll \/ PostChan
    PROVE  Awaiting(net', stack')
<1> DEFINE f == Head(stack)
<1>1. stack # <<>> /\ f.do \in {"PostAll", "PostChan"}
  BY DEF PostAll, PostChan, Current
<1>2. f \in Task /\ Shaped(f) /\ f.chan \in Chan
  BY <1>1, TopTask DEF Shaped
<1> DEFINE next == [f EXCEPT !.do = "PostChan"]
<1>3. Short(next)
  BY <1>2 DEF Short, Shaped, Handlers, Task, Work
<1>4. \/ Continue(net, <<>>, <<next>>) \/ React(f, <<next>>)
      \/ Continue(net, <<>>, <<>>) \/ React(f, <<>>)
  BY DEF PostAll, PostChan
<1>5. f.do \notin Handlers /\ f.do # "Reap"
  BY <1>1 DEF Handlers
<1>6. Acting(<<>>) /\ Acting(<<next>>)
  BY <1>1, <1>3, <1>5 DEF Called, Acting
<1> HIDE DEF f, next
<1> QED
  BY <1>2, <1>4, <1>6, ReactAwaits, StayAwaits

LEMMA SceneStays ==
    ASSUME [Next]_vars
    PROVE  scene' = scene
<1>1. \A t, tasks, kept : Run(t, tasks, kept) => scene' = scene
  BY DEF Run
<1>2. \A t, tasks, kept : Continue(t, tasks, kept) => scene' = scene
  BY <1>1 DEF Continue
<1>3. \A x, c, joinTime, getOps, kept : CreateChannel(x, c, joinTime, getOps, kept) => scene' = scene
  BY <1>1 DEF CreateChannel
<1>4. \A x, c, joinTime, getOps, direct, kept :
        JoinChannel(x, c, joinTime, getOps, direct, kept) => scene' = scene
  BY <1>1, <1>3 DEF JoinChannel
<1>5. \A x, c, kept : PartChannel(x, c, kept) => scene' = scene
  BY <1>2 DEF PartChannel
<1>6. \A x, c, n, asServer, kept : Kick(x, c, n, asServer, kept) => scene' = scene
  <2> SUFFICES ASSUME NEW x, NEW c, NEW n, NEW asServer, NEW kept,
                      Kick(x, c, n, asServer, kept)
               PROVE  scene' = scene
    OBVIOUS
  <2> QED
    BY <1>2 DEF Kick
<1>7. \A n, kept : (Kill(n, kept) => scene' = scene) /\ (KillCrash(n) => scene' = scene)
  BY <1>2 DEF Kill, KillCrash
<1>8. \A f, kept : React(f, kept) => scene' = scene
  <2> SUFFICES ASSUME NEW f, NEW kept, React(f, kept)
               PROVE  scene' = scene
    OBVIOUS
  <2> QED
    BY <1>4, <1>5, <1>6, <1>7 DEF React
<1>9. Message => scene' = scene
  BY <1>2 DEF Message, List, msg_J_0, msg_B, msg_K, msg_M, SignOn, Quit
<1>10. \A n, c, ts : /\ JoinFake(n, c) => scene' = scene
                     /\ PartFake(n, c) => scene' = scene
                     /\ BurstChannel(c, ts) => scene' = scene
                     /\ Rejoin(n, c, ts) => scene' = scene
  BY <1>1, <1>2 DEF JoinFake, PartFake, BurstChannel, Rejoin
<1>11. Call => scene' = scene
  BY <1>4, <1>5, <1>6, <1>7, <1>10 DEF Call
<1>12. (J \/ C \/ L \/ PartAll \/ B \/ M \/ KickOn \/ PartNow \/ ReapNow) => scene' = scene
  <2>1. (J \/ C \/ L) => scene' = scene
    BY <1>2 DEF J, C, L
  <2>2. PartAll => scene' = scene
    BY <1>2 DEF PartAll
  <2>3. B => scene' = scene
    BY <1>2 DEF B
  <2>4. (M \/ KickOn \/ PartNow \/ ReapNow) => scene' = scene
    BY <1>2, <1>5 DEF M, KickOn, PartNow, ReapNow
  <2> QED
    BY <2>1, <2>2, <2>3, <2>4
<1>13. (PostAll \/ PostChan) => scene' = scene
  BY <1>2, <1>8 DEF PostAll, PostChan
<1> QED
  BY <1>9, <1>11, <1>12, <1>13 DEF Next, Resume, Crash, Tick, vars

(* The whole of Memberships.                                               *)
Kept == Handling /\ (Occupying => Awaiting(net, stack))

LEMMA KeptStep ==
    ASSUME Kept, [Next]_vars
    PROVE  Kept'
<1>1. Handling'
  BY HandlingStep DEF Kept
<1>2. scene' = scene
  BY SceneStays
<1> SUFFICES ASSUME Occupying PROVE Awaiting(net', stack')
  BY <1>1, <1>2 DEF Kept, Occupying, Messages
<1>3. Handling /\ Awaiting(net, stack)
  BY DEF Kept
<1>4. CASE Message
  BY <1>3, <1>4, MessageAwaits
<1>5. CASE Call
  BY <1>3, <1>5, CallAwaits
<1>6. CASE Resume
  <2>1. Crash => Awaiting(net', stack')
    BY <1>3 DEF Crash
  <2> QED
    BY <1>3, <1>6, <2>1, JAwaits, CAwaits, LAwaits, PartAllAwaits, BAwaits, MAwaits,
       KickOnAwaits, PartNowAwaits, ReapAwaits, PostAwaits DEF Resume
<1>7. CASE Tick \/ UNCHANGED vars
  BY <1>3, <1>7 DEF Tick, vars
<1> QED
  BY <1>4, <1>5, <1>6, <1>7 DEF Next

LEMMA KeptInit == Init => Kept
<1> SUFFICES ASSUME Init PROVE Kept
  OBVIOUS
<1>1. Handling
  BY HandlingInit
<1>2. Emptied(net) = {}
  BY DEF Init, Emptied
<1> QED
  BY <1>1, <1>2, AwaitNone DEF Kept

LEMMA KeptMemberships == Kept => Memberships
<1> SUFFICES ASSUME Kept PROVE Memberships
  OBVIOUS
<1>1. TypeOK /\ Tabled(net) /\ Listed(net, Parting(stack)) /\ stack \in Seq(Task)
  BY DEF Kept, Handling, Fit
<1>2. MembersKnown
  BY <1>1 DEF Tabled, Known, MembersKnown
<1>3. ListedChannelsExist
  <2> SUFFICES ASSUME NEW n \in Client, NEW c \in net.channelList[n], ~PartingAll(n)
               PROVE  c \in net.channelMap /\ n \in net.userList[c]
    BY DEF ListedChannelsExist
  <2>1. n \notin Parting(stack)
    <3>1. DOMAIN stack = 1 .. Len(stack)
      BY <1>1
    <3> QED
      BY <3>1 DEF PartingAll, Parting
  <2>2. c \in Chan /\ n \in net.userList[c]
    BY <1>1, <2>1 DEF Listed, Tabled, Tables
  <2> QED
    BY <1>1, <2>2 DEF Tabled, Known
<1>4. NoEmptyChannel
  <2> SUFFICES ASSUME Idle, Occupying PROVE \A c \in net.channelMap : net.userList[c] # {}
    BY DEF NoEmptyChannel, Occupying
  <2>1. Emptied(net) = {}
    BY NoneEmpty DEF Idle, Kept, Handling
  <2> QED
    BY <2>1 DEF Emptied
<1> QED
  BY <1>1, <1>2, <1>3, <1>4 DEF Memberships

(* Both halves of every membership agree after every step of every         *)
(* handler, and a channel nobody is on goes, whatever modules do on an     *)
(* event.                                                                  *)
THEOREM MembershipsAgree == Spec => []Memberships
<1>1. Kept /\ [Next]_vars => Kept'
  BY KeptStep
<1> QED
  BY <1>1, KeptInit, KeptMemberships, PTL DEF Spec


-----------------------------------------------------------------------------
(* Timestamps.  What a step from table t to table u may do to them.        *)
Ruled(t, u) ==
    \A c \in t.channelMap \cap u.channelMap :
        /\ u.creationTime[c] <= t.creationTime[c]
        /\ /\ u.creationTime[c] < t.creationTime[c]
           /\ u.userList[c] # t.userList[c]
           => u.ops[c] \cap t.userList[c] = {}

LEMMA SameRuled ==
    ASSUME NEW t, Tabled(t), NEW u,
           \A c \in t.channelMap \cap u.channelMap : u.creationTime[c] = t.creationTime[c]
    PROVE  Ruled(t, u)
<1> SUFFICES ASSUME NEW c \in t.channelMap \cap u.channelMap
             PROVE  /\ u.creationTime[c] <= t.creationTime[c]
                    /\ ~(u.creationTime[c] < t.creationTime[c])
  BY DEF Ruled
<1>1. t.creationTime[c] \in Nat /\ u.creationTime[c] = t.creationTime[c]
  BY Constants DEF Tabled, Tables
<1> QED
  BY <1>1

LEMMA ResetRuled ==
    ASSUME NEW t, Tabled(t), NEW c \in Chan, NEW ts \in Time
    PROVE  /\ c \notin t.channelMap =>
                /\ Ruled(t, WithChannel(t, c, ts))
                /\ \A n \in Client, op \in BOOLEAN :
                     Ruled(t, WithUser(WithChannel(t, c, ts), n, c, op))
           /\ ts < t.creationTime[c] =>
                /\ Ruled(t, Older(t, c, ts))
                /\ \A n \in Client, op \in BOOLEAN :
                     Ruled(t, WithUser(Older(t, c, ts), n, c, op))
<1>1. t \in Tables /\ t.creationTime \in [Chan -> Nat] /\ ts \in Nat
  BY Constants DEF Tabled, Tables
<1>2. ASSUME c \notin t.channelMap, NEW n \in Client, NEW op \in BOOLEAN
      PROVE  /\ Ruled(t, WithChannel(t, c, ts))
             /\ Ruled(t, WithUser(WithChannel(t, c, ts), n, c, op))
  <2> DEFINE u == WithChannel(t, c, ts)
  <2>1. u.creationTime = [t.creationTime EXCEPT ![c] = ts] /\ u \in Tables
    BY <1>1 DEF WithChannel, Tables
  <2> HIDE DEF u
  <2>2. WithUser(u, n, c, op).creationTime = u.creationTime
    BY <2>1 DEF WithUser, Tables
  <2>3. \A d \in t.channelMap : u.creationTime[d] = t.creationTime[d]
    BY <1>1, <1>2, <2>1 DEF Tables
  <2> QED
    BY <2>2, <2>3, SameRuled DEF u
<1>3. ASSUME ts < t.creationTime[c], NEW n \in Client, NEW op \in BOOLEAN
      PROVE  /\ Ruled(t, Older(t, c, ts))
             /\ Ruled(t, WithUser(Older(t, c, ts), n, c, op))
  <2> DEFINE u == Older(t, c, ts)
  <2>1. /\ u.creationTime = [t.creationTime EXCEPT ![c] = ts]
        /\ u.ops = [t.ops EXCEPT ![c] = {}] /\ u.userList = t.userList
        /\ u.channelMap = t.channelMap /\ u \in Tables
    BY <1>1 DEF Older, Tables
  <2> HIDE DEF u
  <2>2. \A d \in Chan : u.creationTime[d] <= t.creationTime[d]
    <3> SUFFICES ASSUME NEW d \in Chan PROVE u.creationTime[d] <= t.creationTime[d]
      OBVIOUS
    <3>1. u.creationTime[d] = IF d = c THEN ts ELSE t.creationTime[d]
      BY <1>1, <2>1
    <3>2. t.creationTime[d] \in Nat
      BY <1>1
    <3> QED
      BY <1>1, <1>3, <3>1, <3>2
  <2>3. Ruled(t, u)
    BY <1>1, <2>1, <2>2 DEF Ruled, Tables
  <2> DEFINE w == WithUser(u, n, c, op)
  <2>4. /\ w.creationTime = u.creationTime
        /\ w.userList = [u.userList EXCEPT ![c] = @ \cup {n}]
        /\ w.ops = [u.ops EXCEPT ![c] = IF op THEN @ \cup {n} ELSE @]
        /\ w.channelMap = u.channelMap
    BY <2>1 DEF WithUser, Tables
  <2> HIDE DEF w
  <2>5. \A d \in Chan : u.creationTime[d] < t.creationTime[d] => d = c
    <3> SUFFICES ASSUME NEW d \in Chan, d # c PROVE ~(u.creationTime[d] < t.creationTime[d])
      OBVIOUS
    <3>1. u.creationTime[d] = t.creationTime[d] /\ t.creationTime[d] \in Nat
      BY <1>1, <2>1
    <3> QED
      BY <3>1
  <2>6. w.ops[c] \subseteq {n} /\ w.userList[c] = t.userList[c] \cup {n}
    <3>1. u.ops[c] = {} /\ c \in DOMAIN u.ops /\ c \in DOMAIN u.userList
      BY <1>1, <2>1 DEF Tables
    <3> QED
      BY <2>1, <2>4, <3>1
  <2>7. w.userList[c] # t.userList[c] => w.ops[c] \cap t.userList[c] = {}
    BY <2>6
  <2>8. Ruled(t, w)
    BY <1>1, <2>1, <2>2, <2>4, <2>5, <2>7 DEF Ruled, Tables
  <2> QED
    BY <2>3, <2>8 DEF w, u
<1>4. c \notin t.channelMap => Ruled(t, WithChannel(t, c, ts))
  <2>1. ASSUME c \notin t.channelMap
        PROVE  \A d \in t.channelMap : WithChannel(t, c, ts).creationTime[d] = t.creationTime[d]
    BY <1>1, <2>1 DEF WithChannel, Tables
  <2> QED
    BY <2>1, SameRuled
<1>5. ts < t.creationTime[c] => Ruled(t, Older(t, c, ts))
  <2> SUFFICES ASSUME ts < t.creationTime[c] PROVE Ruled(t, Older(t, c, ts))
    OBVIOUS
  <2>1. Older(t, c, ts).userList = t.userList
    BY <1>1 DEF Older, Tables
  <2>2. \A d \in Chan : Older(t, c, ts).creationTime[d] <= t.creationTime[d]
    <3> SUFFICES ASSUME NEW d \in Chan PROVE Older(t, c, ts).creationTime[d] <= t.creationTime[d]
      OBVIOUS
    <3>1. Older(t, c, ts).creationTime[d] = IF d = c THEN ts ELSE t.creationTime[d]
      BY <1>1 DEF Older, Tables
    <3>2. t.creationTime[d] \in Nat
      BY <1>1
    <3> QED
      BY <1>1, <3>1, <3>2
  <2> QED
    BY <1>1, <2>1, <2>2 DEF Ruled, Tables
<1> QED
  BY <1>2, <1>3, <1>4, <1>5

LEMMA JoinRuled ==
    ASSUME NEW t, Tabled(t), NEW c \in Chan, NEW n \in Client, NEW op \in BOOLEAN
    PROVE  Ruled(t, WithUser(t, n, c, op))
<1>1. WithUser(t, n, c, op).creationTime = t.creationTime
  BY DEF WithUser, Tabled, Tables
<1> QED
  BY <1>1, SameRuled

LEMMA LessRuled ==
    ASSUME NEW t, Tabled(t), NEW c \in Chan, NEW n \in Client, NEW P, Listed(t, P)
    PROVE  /\ Ruled(t, t) /\ Ruled(t, WithoutUser(t, n, c)) /\ Ruled(t, Reaped(t, c))
           /\ Ruled(t, WithoutClient(t, n))
           /\ Ruled(t, WithoutMember(t, n, c)) /\ Ruled(t, WithoutMember(Reaped(t, c), n, c))
<1>1. Ruled(t, t)
  BY SameRuled
<1>2. Ruled(t, WithoutUser(t, n, c))
  <2>1. WithoutUser(t, n, c).creationTime = t.creationTime
    BY Leaving
  <2> QED
    BY <2>1, SameRuled
<1>3. Ruled(t, Reaped(t, c))
  <2>1. \A d \in Reaped(t, c).channelMap : Reaped(t, c).creationTime[d] = t.creationTime[d]
    BY Reaping
  <2> QED
    BY <2>1, SameRuled
<1>4. Ruled(t, WithoutClient(t, n))
  <2>1. \A d \in WithoutClient(t, n).channelMap :
           WithoutClient(t, n).creationTime[d] = t.creationTime[d]
    BY Removing
  <2> QED
    BY <2>1, SameRuled
<1>5. \A u, m, d : WithoutMember(u, m, d).creationTime = u.creationTime
                    /\ WithoutMember(u, m, d).channelMap = u.channelMap
  BY DEF WithoutMember
<1>6. Ruled(t, WithoutMember(t, n, c))
  BY <1>5, SameRuled
<1>7. Ruled(t, WithoutMember(Reaped(t, c), n, c))
  <2>1. \A d \in Reaped(t, c).channelMap : Reaped(t, c).creationTime[d] = t.creationTime[d]
    BY Reaping
  <2> QED
    BY <1>5, <2>1, SameRuled
<1> QED
  BY <1>1, <1>2, <1>3, <1>4, <1>6, <1>7


(* The calls.  A direct call of JoinChannel() must be made in a burst.     *)
LEMMA CallRuled ==
    ASSUME Handling, NEW c \in Chan, NEW kept
    PROVE  /\ \A x \in Xclient, joinTime \in Time, getOps, direct \in BOOLEAN :
                (direct => Bursting) /\ JoinChannel(x, c, joinTime, getOps, direct, kept)
                => Ruled(net, net')
           /\ \A x \in Client : PartChannel(x, c, kept) => Ruled(net, net')
           /\ \A x \in Xclient, n \in Client, asServer \in BOOLEAN :
                Kick(x, c, n, asServer, kept) => Ruled(net, net')
           /\ \A n \in Client : Kill(n, kept) \/ KillCrash(n) => Ruled(net, net')
<1>1. Tabled(net) /\ Listed(net, Parting(stack)) /\ now \in Time
  BY DEF Handling, Fit, TypeOK
<1>2. ASSUME NEW x \in Xclient, NEW joinTime \in Time, NEW getOps \in BOOLEAN,
             NEW direct \in BOOLEAN, direct => Bursting,
             JoinChannel(x, c, joinTime, getOps, direct, kept)
      PROVE  Ruled(net, net')
  <2>1. x \in net.clients
    BY <1>2 DEF JoinChannel
  <2>2. CASE CreateChannel(x, c, joinTime, getOps, kept)
    <3>1. PICK ts \in Time, op \in BOOLEAN :
            net' = WithUser(WithChannel(net, c, ts), x, c, op) /\ c \notin net.channelMap
      <4>1. PICK later \in {now, now + 1} \cap Time :
              LET post == IF joinTime = 0 THEN now ELSE joinTime
                  ts == CreationTime(joinTime, post, later) IN
              net' = WithUser(WithChannel(net, c, ts), x, c, getOps \/ ~Bursting)
        BY <2>2 DEF CreateChannel, Run
      <4> DEFINE post == IF joinTime = 0 THEN now ELSE joinTime
      <4>2. CreationTime(joinTime, post, later) \in Time
        BY <1>1, <4>1 DEF CreationTime
      <4>3. (getOps \/ ~Bursting) \in BOOLEAN /\ c \notin net.channelMap
        BY <2>2 DEF CreateChannel
      <4> HIDE DEF post
      <4> QED
        BY <4>1, <4>2, <4>3 DEF post
    <3> QED
      BY <1>1, <2>1, <3>1, Constants, ResetRuled
  <2>3. CASE /\ c \in net.channelMap
             /\ LET post == JoinTime(c, joinTime)
                    t == IF post >= net.creationTime[c] THEN net
                         ELSE IF direct /\ ~Bursting
                         THEN [net EXCEPT !.creationTime[c] = joinTime]
                         ELSE Older(net, c, joinTime) IN
                net' = WithUser(t, x, c, getOps)
    <3>1. net.creationTime[c] \in Nat /\ joinTime \in Nat
      BY <1>1, Constants DEF Tabled, Tables
    <3>2. JoinTime(c, joinTime) \in {net.creationTime[c], joinTime}
      BY DEF JoinTime
    <3>3. \/ net' = WithUser(net, x, c, getOps)
          \/ joinTime < net.creationTime[c] /\ net' = WithUser(Older(net, c, joinTime), x, c, getOps)
      <4>1. CASE JoinTime(c, joinTime) >= net.creationTime[c]
        BY <2>3, <4>1
      <4>2. CASE ~(JoinTime(c, joinTime) >= net.creationTime[c])
        <5>1. joinTime < net.creationTime[c]
          BY <3>1, <3>2, <4>2
        <5>2. net' = WithUser(Older(net, c, joinTime), x, c, getOps)
          BY <1>2, <2>3, <4>2
        <5> QED
          BY <5>1, <5>2
      <4> QED
        BY <4>1, <4>2
    <3> QED
      BY <1>1, <2>1, <3>3, Constants, ResetRuled, JoinRuled
  <2> QED
    BY <1>2, <2>2, <2>3 DEF JoinChannel, Run
<1>3. ASSUME NEW x \in Client, PartChannel(x, c, kept) PROVE Ruled(net, net')
  <2>1. net' = WithoutUser(net, x, c)
    BY <1>3 DEF PartChannel, Continue, Run
  <2> QED
    BY <1>1, <2>1, LessRuled
<1>4. ASSUME NEW x \in Xclient, NEW n \in Client, NEW asServer \in BOOLEAN,
             Kick(x, c, n, asServer, kept)
      PROVE  Ruled(net, net')
  <2>1. net' = net \/ net' = WithUser(net, x, c, TRUE)
    BY <1>4 DEF Kick, Continue, Run
  <2> QED
    BY <1>1, <2>1, Constants, JoinRuled, SameRuled
<1>5. ASSUME NEW n \in Client, Kill(n, kept) \/ KillCrash(n) PROVE Ruled(net, net')
  <2>1. net' = net \/ net' = WithoutClient(net, n)
    BY <1>5 DEF Kill, KillCrash, Continue, Run
  <2> QED
    BY <1>1, <2>1, LessRuled
<1> QED
  BY <1>2, <1>3, <1>4, <1>5

LEMMA MessageRuled ==
    ASSUME Handling, Message
    PROVE  Ruled(net, net')
<1>1. scene.chans \subseteq Chan /\ 1 .. MaxTime \subseteq Time /\ Tabled(net)
      /\ Listed(net, Parting(stack))
  BY Constants, ChannelsAssumption DEF Handling, Time, Fit
<1>2. ASSUME net' = net PROVE Ruled(net, net')
  BY <1>1, <1>2, SameRuled
<1>3. CASE \E n \in Client, chans \in SUBSET scene.chans \ {{}}, ts \in 1 .. MaxTime :
             List("J", n, chans, ts) \/ List("C", n, chans, ts)
  BY <1>2, <1>3 DEF List, Continue, Run
<1>4. CASE \E n \in Client, chans \in SUBSET scene.chans \ {{}} : List("L", n, chans, 0)
  BY <1>2, <1>4 DEF List, Continue, Run
<1>5. ASSUME NEW n \in Client, msg_J_0(n) \/ SignOn(n) \/ Quit(n) PROVE Ruled(net, net')
  <2>1. CASE msg_J_0(n)
    BY <1>2, <2>1 DEF msg_J_0, Continue, Run
  <2>2. CASE SignOn(n)
    <3>1. net' = [net EXCEPT !.clients = @ \cup {n}]
      BY <2>2 DEF SignOn, Continue, Run
    <3>2. net'.creationTime = net.creationTime
      BY <1>1, <3>1 DEF Tabled, Tables
    <3> QED
      BY <1>1, <3>2, SameRuled
  <2>3. CASE Quit(n)
    <3>1. net' = WithoutClient(net, n)
      BY <2>3 DEF Quit, Continue, Run
    <3>2. \A d \in WithoutClient(net, n).channelMap :
             WithoutClient(net, n).creationTime[d] = net.creationTime[d]
      BY <1>1, Removing
    <3> QED
      BY <1>1, <3>1, <3>2, SameRuled
  <2> QED
    BY <1>5, <2>1, <2>2, <2>3
<1>6. ASSUME NEW c \in scene.chans, NEW n \in Client, NEW local \in BOOLEAN, msg_K(c, n, local)
      PROVE  Ruled(net, net')
  <2>1. net' = WithoutUser(net, n, c)
    BY <1>6 DEF msg_K, Continue, Run
  <2> QED
    BY <1>1, <2>1, LessRuled
<1>7. CASE \E server \in BOOLEAN, c \in scene.chans, n \in Client, plus \in BOOLEAN,
              ts \in 1 .. MaxTime : msg_M(server, c, n, plus, ts)
  BY <1>2, <1>7 DEF msg_M, Continue, Run
<1>8. ASSUME NEW c \in scene.chans, NEW ts \in 1 .. MaxTime, NEW users, NEW marked,
             msg_B(c, ts, users, marked)
      PROVE  Ruled(net, net')
  <2>1. \/ net' = net
        \/ c \notin net.channelMap /\ net' = WithChannel(net, c, ts)
        \/ ts < net.creationTime[c] /\ net' = Older(net, c, ts)
    BY <1>8 DEF msg_B, Continue, Run
  <2>2. c \in Chan /\ ts \in Time
    BY <1>1
  <2>3. CASE c \notin net.channelMap /\ net' = WithChannel(net, c, ts)
    BY <1>1, <2>2, <2>3, ResetRuled
  <2>4. CASE ts < net.creationTime[c] /\ net' = Older(net, c, ts)
    BY <1>1, <2>2, <2>4, ResetRuled
  <2> QED
    BY <1>2, <2>1, <2>3, <2>4
<1> QED
  BY <1>3, <1>4, <1>5, <1>6, <1>7, <1>8 DEF Message


DirectBursts == "Direct" \in Messages => Bursting

LEMMA AllCallsRuled ==
    ASSUME Handling, DirectBursts, Call
    PROVE  Ruled(net, net')
<1>1. scene.chans \subseteq Chan /\ 1 .. MaxTime \subseteq Time /\ 0 .. now \subseteq Time
      /\ Tabled(net) /\ Listed(net, Parting(stack))
  BY Constants, ChannelsAssumption DEF Handling, TypeOK, Time, Fit
<1>2. CASE \E x \in Xclient, c \in scene.chans, joinTime \in 0 .. now,
              getOps \in BOOLEAN, direct \in BOOLEAN :
              /\ direct => "Direct" \in Messages
              /\ JoinChannel(x, c, joinTime, getOps, direct, <<>>)
  <2>1. PICK x \in Xclient, c \in scene.chans, joinTime \in 0 .. now,
              getOps \in BOOLEAN, direct \in BOOLEAN :
              /\ direct => "Direct" \in Messages
              /\ JoinChannel(x, c, joinTime, getOps, direct, <<>>)
    BY <1>2
  <2>2. c \in Chan /\ joinTime \in Time /\ (direct => Bursting)
    BY <1>1, <2>1 DEF DirectBursts
  <2> QED
    BY <2>1, <2>2, CallRuled
<1>3. CASE \E x \in Xclient, c \in scene.chans : PartChannel(x, c, <<>>)
  BY <1>1, <1>3, Constants, CallRuled
<1>4. CASE \E x \in Xclient, c \in scene.chans, n \in Client, asServer \in BOOLEAN :
              Kick(x, c, n, asServer, <<>>)
  BY <1>1, <1>4, CallRuled
<1>5. ASSUME NEW n \in Client, Kill(n, <<>>) PROVE Ruled(net, net')
  <2>1. net' = WithoutClient(net, n)
    BY <1>5 DEF Kill, Continue, Run
  <2>2. \A d \in WithoutClient(net, n).channelMap :
           WithoutClient(net, n).creationTime[d] = net.creationTime[d]
    BY <1>1, Removing
  <2> QED
    BY <1>1, <2>1, <2>2, SameRuled
<1>6. ASSUME NEW n \in Fake, NEW c \in scene.chans, JoinFake(n, c) \/ PartFake(n, c)
      PROVE  Ruled(net, net')
  <2>1. net' = WithUser(net, n, c, FALSE) \/ net' = WithoutUser(net, n, c)
    BY <1>6 DEF JoinFake, PartFake, Continue, Run
  <2>2. n \in Client /\ c \in Chan /\ FALSE \in BOOLEAN
    BY <1>1, Constants
  <2>3. CASE net' = WithUser(net, n, c, FALSE)
    BY <1>1, <2>2, <2>3, JoinRuled
  <2>4. CASE net' = WithoutUser(net, n, c)
    BY <1>1, <2>2, <2>4, LessRuled
  <2> QED
    BY <2>1, <2>3, <2>4
<1>7. ASSUME NEW c \in scene.chans, NEW ts \in 1 .. MaxTime, BurstChannel(c, ts)
      PROVE  Ruled(net, net')
  <2>1. ts < net.creationTime[c] /\ net' = Older(net, c, ts)
    BY <1>7 DEF BurstChannel, Run
  <2> QED
    BY <1>1, <2>1, ResetRuled
<1>8. ASSUME NEW x \in Xclient, NEW c \in scene.chans, NEW joinTime \in 0 .. now,
             Rejoin(x, c, joinTime)
      PROVE  Ruled(net, net')
  <2>1. joinTime < net.creationTime[c] /\ net' = Older(net, c, joinTime)
    BY <1>8 DEF Rejoin, Continue, Run
  <2> QED
    BY <1>1, <2>1, ResetRuled
<1> QED
  BY <1>2, <1>3, <1>4, <1>5, <1>6, <1>7, <1>8 DEF Call

LEMMA ReactRuled ==
    ASSUME Handling, NEW f, f.chan \in Chan, NEW kept, React(f, kept)
    PROVE  Ruled(net, net')
<1>1. f.client \in Client \ Xclient /\ TRUE \in BOOLEAN /\ FALSE \in BOOLEAN /\ 0 \in Time
  BY Constants DEF React
<1>2. \/ \E x \in Xclient, n \in Client, asServer \in BOOLEAN :
              Kick(x, f.chan, n, asServer, kept)
      \/ \E x \in Xclient : JoinChannel(x, f.chan, 0, TRUE, FALSE, kept)
      \/ \E x \in Xclient : PartChannel(x, f.chan, kept)
      \/ Kill(f.client, kept) \/ KillCrash(f.client)
  BY <1>1 DEF React
<1>3. CASE \E x \in Xclient, n \in Client, asServer \in BOOLEAN :
              Kick(x, f.chan, n, asServer, kept)
  BY <1>3, CallRuled
<1>4. CASE \E x \in Xclient : JoinChannel(x, f.chan, 0, TRUE, FALSE, kept)
  BY <1>1, <1>4, CallRuled
<1>5. CASE \E x \in Xclient : PartChannel(x, f.chan, kept)
  BY <1>5, Constants, CallRuled
<1>6. CASE Kill(f.client, kept) \/ KillCrash(f.client)
  BY <1>1, <1>6, CallRuled
<1> QED
  BY <1>2, <1>3, <1>4, <1>5, <1>6

LEMMA ListRuled ==
    ASSUME Handling, J \/ C \/ L
    PROVE  Ruled(net, net')
<1> DEFINE f == Head(stack)
<1> DEFINE n == f.client
<1> DEFINE ts == f.ts
<1>1. n \in Client /\ f.chans \subseteq Chan /\ ts \in Time
  BY ListClient DEF J, C, L
<1>2. Tabled(net) /\ Listed(net, Parting(stack)) /\ now \in Time
  BY DEF Handling, Fit, TypeOK
<1>3. \/ net' = net
      \/ \E c \in f.chans :
           \/ c \notin net.channelMap
              /\ net' = WithUser(WithChannel(net, c, now), n, c, TRUE)
           \/ net' \in {Joined(c, n, ts), Created(c, n, ts), WithoutUser(net, n, c)}
  BY DEF J, C, L, Continue, Run
<1> HIDE DEF f, n, ts
<1>4. CASE net' = net
  BY <1>2, <1>4, SameRuled
<1>5. ASSUME NEW c \in f.chans, c \notin net.channelMap,
             net' = WithUser(WithChannel(net, c, now), n, c, TRUE)
      PROVE  Ruled(net, net')
  BY <1>1, <1>2, <1>5, ResetRuled
<1>6. ASSUME NEW c \in f.chans, net' = Joined(c, n, ts) PROVE Ruled(net, net')
  <2>1. \/ net' = net \/ net' = WithUser(net, n, c, FALSE)
        \/ /\ ts < net.creationTime[c]
           /\ net' = Older(net, c, ts) \/ net' = WithUser(Older(net, c, ts), n, c, FALSE)
    BY <1>6 DEF Joined
  <2>2. c \in Chan /\ FALSE \in BOOLEAN
    BY <1>1
  <2> QED
    BY <1>1, <1>2, <2>1, <2>2, SameRuled, JoinRuled, ResetRuled
<1>7. ASSUME NEW c \in f.chans, net' = Created(c, n, ts) PROVE Ruled(net, net')
  <2>1. \E op \in BOOLEAN :
          \/ c \notin net.channelMap /\ net' = WithUser(WithChannel(net, c, ts), n, c, op)
          \/ net' = WithUser(net, n, c, op)
          \/ ts < net.creationTime[c] /\ net' = WithUser(Older(net, c, ts), n, c, op)
    BY <1>7 DEF Created
  <2>2. c \in Chan
    BY <1>1
  <2> QED
    BY <1>1, <1>2, <2>1, <2>2, JoinRuled, ResetRuled
<1>8. ASSUME NEW c \in f.chans, net' = WithoutUser(net, n, c) PROVE Ruled(net, net')
  BY <1>1, <1>2, <1>8, LessRuled
<1> QED
  BY <1>3, <1>4, <1>5, <1>6, <1>7, <1>8

LEMMA ResumeRuled ==
    ASSUME Handling, Resume
    PROVE  Ruled(net, net')
<1> DEFINE f == Head(stack)
<1> DEFINE c == f.chan
<1> DEFINE n == f.client
<1>1. Tabled(net) /\ Listed(net, Parting(stack))
  BY DEF Handling, Fit
<1>2. Ruled(net, net)
  BY <1>1, SameRuled
<1>3. CASE PartAll
  <2>1. f \in Task /\ n \in Client /\ c \in Chan \cup {NoChan} /\ f.chans \subseteq Chan
    <3>1. stack # <<>> /\ f.do = "PartAll"
      BY <1>3 DEF PartAll, Current
    <3>2. f \in Task /\ Shaped(f)
      BY <3>1, TopTask
    <3> QED
      BY <3>1, <3>2 DEF Shaped, Task
  <2> DEFINE t == IF c = NoChan THEN net ELSE Reaped(net, c)
  <2>2. \/ net' = [t EXCEPT !.channelList[n] = {}]
        \/ \E d \in f.chans : net' = WithoutMember(t, n, d)
    BY <1>3 DEF PartAll, Continue, Run
  <2>3. t \in Tables /\ \A d \in net.channelMap \cap t.channelMap :
                           t.creationTime[d] = net.creationTime[d]
    <3>1. CASE c = NoChan
      BY <1>1, <3>1 DEF Tabled
    <3>2. CASE c # NoChan
      <4>1. c \in Chan
        BY <2>1, <3>2
      <4> HIDE DEF c
      <4>2. Tabled(Reaped(net, c)) /\ \A d \in Reaped(net, c).channelMap :
               Reaped(net, c).creationTime[d] = net.creationTime[d]
        BY <1>1, <4>1, Reaping
      <4> QED
        BY <3>2, <4>2 DEF Tabled
    <3> QED
      BY <3>1, <3>2
  <2> HIDE DEF t
  <2>4. net'.creationTime = t.creationTime /\ net'.channelMap = t.channelMap
    BY <2>2, <2>3 DEF WithoutMember, Tables
  <2>5. \A d \in net.channelMap \cap net'.channelMap : net'.creationTime[d] = net.creationTime[d]
    BY <2>3, <2>4
  <2> QED
    BY <1>1, <2>5, SameRuled
<1>4. CASE B
  <2>1. f \in Task /\ c \in Chan /\ f.users \subseteq Client
    <3>1. stack # <<>> /\ f.do = "B"
      BY <1>4 DEF B, Current
    <3>2. f \in Task /\ Shaped(f)
      BY <3>1, TopTask
    <3> QED
      BY <3>1, <3>2 DEF Shaped, Task
  <2>2. \/ net' = net
        \/ net' = [net EXCEPT !.ops[c] = @ \cup Opped(f)]
        \/ \E m \in f.users : net' = WithUser(net, m, c, FALSE)
    BY <1>4 DEF B, Continue, Run
  <2>3. net'.creationTime = net.creationTime
    BY <1>1, <2>2 DEF WithUser, Tabled, Tables
  <2> QED
    BY <1>1, <2>3, SameRuled
<1>5. CASE M
  <2>1. f \in Task /\ c \in Chan /\ f.ts \in Nat
    <3>1. stack # <<>> /\ f.do = "M"
      BY <1>5 DEF M, Current
    <3>2. f \in Task /\ Shaped(f)
      BY <3>1, TopTask
    <3> QED
      BY <3>1, <3>2, Constants DEF Shaped, Task
  <2>2. net' = [net EXCEPT
                  !.creationTime[c] = IF f.ts < @ THEN f.ts ELSE @,
                  !.ops[c] = (@ \ Targets(f)) \cup (Targets(f) \cap f.marked)]
    BY <1>5 DEF M, Continue, Run
  <2> HIDE DEF c, f
  <2>3. /\ net'.userList = net.userList
        /\ net'.creationTime = [net.creationTime EXCEPT ![c] = IF f.ts < @ THEN f.ts ELSE @]
        /\ net.creationTime \in [Chan -> Nat] /\ net.channelMap \subseteq Chan
    BY <1>1, <2>2, Constants DEF Tabled, Tables
  <2>4. ASSUME NEW d \in Chan PROVE net'.creationTime[d] <= net.creationTime[d]
    <3>1. net'.creationTime[d] = IF d = c /\ f.ts < net.creationTime[d] THEN f.ts
                                 ELSE net.creationTime[d]
      BY <2>1, <2>3
    <3>2. net.creationTime[d] \in Nat
      BY <2>3
    <3> QED
      BY <2>1, <3>1, <3>2
  <2> QED
    BY <2>3, <2>4 DEF Ruled
<1>6. ASSUME NEW d \in Chan, NEW m \in Client,
             net' \in {net, WithoutUser(net, m, d), Reaped(net, d)}
      PROVE  Ruled(net, net')
  BY <1>1, <1>6, LessRuled
<1>7. CASE KickOn \/ PartNow \/ ReapNow
  <2>1. c \in Chan
    <3>1. stack # <<>> /\ f.do \in {"KickOn", "PartTask", "Reap"}
      BY <1>7 DEF KickOn, PartNow, ReapNow, Current
    <3> QED
      BY <3>1, TopTask DEF Shaped
  <2>2. CASE ReapNow
    <3>1. net' = Reaped(net, c)
      BY <2>2 DEF ReapNow, Continue, Run
    <3> HIDE DEF c
    <3>2. \A d \in Reaped(net, c).channelMap : Reaped(net, c).creationTime[d] = net.creationTime[d]
      BY <1>1, <2>1, Reaping
    <3> QED
      BY <1>1, <3>1, <3>2, SameRuled
  <2>3. CASE KickOn \/ PartNow
    <3>1. net' = net \/ net' = WithoutUser(net, n, c)
      BY <2>3 DEF KickOn, PartNow, PartChannel, Continue, Run
    <3>2. n \in Client
      <4>1. stack # <<>> /\ f.do \in {"KickOn", "PartTask"}
        BY <2>3 DEF KickOn, PartNow, Current
      <4> QED
        BY <4>1, TopTask, Constants DEF Shaped
    <3> QED
      BY <1>6, <2>1, <3>1, <3>2
  <2> QED
    BY <1>7, <2>2, <2>3
<1>8. CASE PostAll \/ PostChan
  <2>1. stack # <<>> /\ f.do \in {"PostAll", "PostChan"}
    BY <1>8 DEF PostAll, PostChan, Current
  <2>2. c \in Chan
    BY <2>1, TopTask DEF Shaped
  <2>3. net' = net \/ \E kept : React(f, kept)
    BY <1>8 DEF PostAll, PostChan, Continue, Run
  <2> HIDE DEF f
  <2> QED
    BY <1>2, <2>2, <2>3, ReactRuled
<1> QED
  BY <1>2, <1>3, <1>4, <1>5, <1>7, <1>8, ListRuled DEF Resume, Crash

LEMMA RuledStep ==
    ASSUME Handling, DirectBursts, [Next]_vars
    PROVE  Ruled(net, net')
<1>1. net' = net => Ruled(net, net')
  BY SameRuled DEF Handling, Fit
<1> QED
  BY <1>1, MessageRuled, AllCallsRuled, ResumeRuled DEF Next, Tick, vars

(* Operators never survive a newcomer with an older timestamp, and the     *)
(* timestamp of a channel that stays never rises, as long as modules call  *)
(* JoinChannel() directly in a burst only.                                 *)
THEOREM TimestampsDecide ==
    ASSUME \A s \in Scenes : "Direct" \in s.messages => s.bursting
    PROVE  Spec => TimestampDecides
<1> DEFINE Decided ==
      \A c \in net.channelMap \cap net'.channelMap :
            /\ net'.creationTime[c] <= net.creationTime[c]
            /\ /\ net'.creationTime[c] < net.creationTime[c]
               /\ net'.userList[c] # net.userList[c]
               => net'.ops[c] \cap net.userList[c] = {}
<1>1. Handling /\ [Next]_vars => Decided
  <2> SUFFICES ASSUME Handling, [Next]_vars PROVE Decided
    OBVIOUS
  <2>1. DirectBursts
    BY DEF Handling, TypeOK, DirectBursts, Bursting, Messages
  <2>2. Ruled(net, net')
    BY <2>1, RuledStep
  <2> QED
    BY <2>2 DEF Ruled
<1>2. TimestampDecides <=> [][Decided]_vars
  BY DEF TimestampDecides
<1> HIDE DEF Decided
<1> QED
  BY <1>1, <1>2, Handled, PTL DEF Spec


-----------------------------------------------------------------------------
(* What is written of a join is what the tables say afterwards.            *)
LEMMA Unwritten ==
    ASSUME sent' = {}
    PROVE  WrittenTimestamp'
  BY DEF WrittenTimestamp

LEMMA JoinWrites ==
    ASSUME Handling, NEW x \in Xclient, NEW c \in Chan, NEW joinTime \in Time,
           NEW getOps \in BOOLEAN, NEW direct \in BOOLEAN, NEW kept,
           joinTime <= now, JoinChannel(x, c, joinTime, getOps, direct, kept)
    PROVE  WrittenTimestamp'
<1>1. /\ Tabled(net) /\ now \in Nat /\ joinTime \in Nat /\ x \in Client
      /\ net \in Tables /\ net.creationTime[c] \in Nat
  BY Constants DEF Handling, Fit, TypeOK, Tabled, Tables
<1>2. \A t \in Tables, op \in BOOLEAN : WithUser(t, x, c, op).creationTime = t.creationTime
  BY <1>1 DEF WithUser, Tables
<1>3. CASE CreateChannel(x, c, joinTime, getOps, kept)
  <2> DEFINE post == IF joinTime = 0 THEN now ELSE joinTime
  <2> DEFINE op == getOps \/ ~Bursting
  <2>1. PICK later \in {now, now + 1} \cap Time :
          /\ sent' = {[cmd |-> IF Bursting THEN "B" ELSE "C", chan |-> c, ts |-> post,
                       late |-> joinTime = 0 /\ later # now]}
          /\ net' = WithUser(WithChannel(net, c, CreationTime(joinTime, post, later)), x, c, op)
    BY <1>3 DEF CreateChannel, Run
  <2> DEFINE ts == CreationTime(joinTime, post, later)
  <2> DEFINE t == WithChannel(net, c, ts)
  <2> DEFINE late == joinTime = 0 /\ later # now
  <2> DEFINE m == [cmd |-> IF Bursting THEN "B" ELSE "C", chan |-> c, ts |-> post, late |-> late]
  <2>2. ts \in Time /\ ts <= post /\ (late \/ ts = post)
    <3>1. now \in Time /\ later \in Nat /\ now <= later
      BY <1>1, <2>1 DEF Handling, TypeOK
    <3> QED
      BY <1>1, <3>1 DEF CreationTime
  <2>3. op \in BOOLEAN /\ m.chan = c /\ m.ts = post /\ m.late = late
    OBVIOUS
  <2>4. sent' = {m} /\ net' = WithUser(t, x, c, op)
    BY <2>1
  <2> HIDE DEF ts, late, op, post, m
  <2>5. t \in Tables /\ t.creationTime[c] = ts
    BY <1>1, <2>2 DEF WithChannel, Tables
  <2> HIDE DEF t
  <2>6. net'.creationTime[c] = ts
    BY <1>2, <2>3, <2>4, <2>5
  <2> QED
    BY <2>2, <2>3, <2>4, <2>6 DEF WrittenTimestamp
<1>4. CASE c \in net.channelMap /\ ~CreateChannel(x, c, joinTime, getOps, kept)
  <2> DEFINE post == JoinTime(c, joinTime)
  <2> DEFINE v == [net EXCEPT !.creationTime[c] = joinTime]
  <2> DEFINE w == Older(net, c, joinTime)
  <2> DEFINE t == IF post >= net.creationTime[c] THEN net
                  ELSE IF direct /\ ~Bursting THEN v ELSE w
  <2> DEFINE m == [cmd |-> IF Bursting THEN "B" ELSE "J", chan |-> c, ts |-> post, late |-> FALSE]
  <2>1. sent' = {m} /\ net' = WithUser(t, x, c, getOps)
    BY <1>4 DEF JoinChannel, Run
  <2>2. /\ v \in Tables /\ v.creationTime[c] = joinTime
        /\ w \in Tables /\ w.creationTime[c] = joinTime
    BY <1>1 DEF Older, Tables
  <2>3. m.chan = c /\ m.ts = post /\ (m.cmd \in {"C", "B"} => Bursting)
    OBVIOUS
  <2>4. /\ post \in {net.creationTime[c], joinTime}
        /\ Bursting /\ joinTime # 0 /\ post >= net.creationTime[c] => post = net.creationTime[c]
        /\ joinTime = 0 => post = net.creationTime[c]
    BY <1>1 DEF JoinTime
  <2> HIDE DEF v, w, post, m
  <2>5. /\ t \in Tables /\ t.creationTime[c] <= post
        /\ Bursting => t.creationTime[c] = post
    <3>1. CASE post >= net.creationTime[c]
      BY <1>1, <2>4, <3>1
    <3>2. CASE ~(post >= net.creationTime[c])
      BY <1>1, <2>2, <2>4, <3>2
    <3> QED
      BY <3>1, <3>2
  <2> HIDE DEF t
  <2>6. net'.creationTime[c] = t.creationTime[c]
    BY <1>2, <2>1, <2>5
  <2> QED
    BY <2>1, <2>3, <2>5, <2>6 DEF WrittenTimestamp
<1> QED
  BY <1>3, <1>4 DEF JoinChannel

LEMMA ReactWrites ==
    ASSUME Handling, NEW f, f.chan \in Chan, NEW kept, WrittenTimestamp,
           React(f, kept)
    PROVE  WrittenTimestamp'
<1>1. \A t, tasks, k : Continue(t, tasks, k) => sent' = {}
  BY DEF Continue, Quiet
<1>2. CASE \E x \in Xclient : JoinChannel(x, f.chan, 0, TRUE, FALSE, kept)
  <2>1. 0 \in Time /\ 0 <= now /\ TRUE \in BOOLEAN /\ FALSE \in BOOLEAN
    BY Constants DEF Handling, TypeOK
  <2> QED
    BY <1>2, <2>1, JoinWrites
<1>3. CASE KillCrash(f.client)
  BY <1>3 DEF KillCrash, WrittenTimestamp
<1>4. CASE \/ \E x \in Xclient, n \in Client, asServer \in BOOLEAN :
                  Kick(x, f.chan, n, asServer, kept)
           \/ \E x \in Xclient : PartChannel(x, f.chan, kept)
           \/ Kill(f.client, kept)
  BY <1>1, <1>4, Unwritten DEF Kick, PartChannel, Kill
<1>5. f.client \in Client /\ TRUE \in BOOLEAN /\ FALSE \in BOOLEAN
  BY DEF React
<1> QED
  BY <1>2, <1>3, <1>4, <1>5 DEF React

LEMMA WrittenStep ==
    ASSUME Handling, WrittenTimestamp, [Next]_vars
    PROVE  WrittenTimestamp'
<1>1. \A t, tasks, kept : Continue(t, tasks, kept) => sent' = {}
  BY DEF Continue, Quiet
<1>2. UNCHANGED <<net, sent>> => WrittenTimestamp'
  BY DEF WrittenTimestamp
<1>3. CASE Message
  BY <1>1, <1>3, Unwritten DEF Message, List, msg_J_0, msg_B, msg_K, msg_M, SignOn, Quit
<1>4. CASE Call
  <2>1. scene.chans \subseteq Chan /\ 0 .. now \subseteq Time /\ 1 .. MaxTime \subseteq Time
        /\ now \in Nat
    BY Constants, ChannelsAssumption DEF Handling, TypeOK, Time
  <2>2. CASE \E x \in Xclient, c \in scene.chans, joinTime \in 0 .. now,
              getOps \in BOOLEAN, direct \in BOOLEAN :
              JoinChannel(x, c, joinTime, getOps, direct, <<>>)
    <3>1. PICK x \in Xclient, c \in scene.chans, joinTime \in 0 .. now,
              getOps \in BOOLEAN, direct \in BOOLEAN :
              JoinChannel(x, c, joinTime, getOps, direct, <<>>)
      BY <2>2
    <3>2. c \in Chan /\ joinTime \in Time /\ joinTime <= now
      BY <2>1
    <3> QED
      BY <3>1, <3>2, JoinWrites
  <2>3. CASE \E c \in scene.chans, ts \in 1 .. MaxTime : BurstChannel(c, ts)
    <3>1. PICK c \in scene.chans, ts \in 1 .. MaxTime : BurstChannel(c, ts)
      BY <2>3
    <3> DEFINE m == [cmd |-> "B", chan |-> c, ts |-> ts, late |-> FALSE]
    <3>2. sent' = {m} /\ net' = Older(net, c, ts) /\ m.chan = c /\ m.ts = ts
      BY <3>1 DEF BurstChannel, Run
    <3>3. Older(net, c, ts).creationTime[c] = ts /\ ts \in Nat /\ ts <= ts
      BY <2>1, Constants DEF Handling, TypeOK, Older, Tables
    <3> HIDE DEF m
    <3> QED
      BY <3>2, <3>3 DEF WrittenTimestamp
  <2>4. CASE \/ \E x \in Xclient, c \in scene.chans : PartChannel(x, c, <<>>)
             \/ \E x \in Xclient, c \in scene.chans, n \in Client, asServer \in BOOLEAN :
                    Kick(x, c, n, asServer, <<>>)
             \/ \E n \in Client : Kill(n, <<>>)
             \/ \E n \in Fake, c \in scene.chans : JoinFake(n, c) \/ PartFake(n, c)
             \/ \E x \in Xclient, c \in scene.chans, joinTime \in 0 .. now : Rejoin(x, c, joinTime)
    BY <1>1, <2>4, Unwritten DEF PartChannel, Kick, Kill, JoinFake, PartFake, Rejoin
  <2> QED
    BY <1>4, <2>2, <2>3, <2>4 DEF Call
<1>5. CASE Resume
  <2>1. CASE PostAll \/ PostChan
    <3> DEFINE f == Head(stack)
    <3>1. stack # <<>> /\ f.do \in {"PostAll", "PostChan"}
      BY <2>1 DEF PostAll, PostChan, Current
    <3>2. f.chan \in Chan
      BY <3>1, TopTask DEF Shaped
    <3>3. sent' = {} \/ \E kept : React(f, kept)
      BY <1>1, <2>1 DEF PostAll, PostChan
    <3> HIDE DEF f
    <3> QED
      BY <3>2, <3>3, ReactWrites, Unwritten
  <2>2. CASE PartAll \/ B
    BY <1>1, <2>2, Unwritten DEF PartAll, B
  <2>3. CASE J \/ C \/ L
    BY <1>1, <2>3, Unwritten DEF J, C, L
  <2>4. CASE M \/ KickOn \/ PartNow \/ ReapNow
    BY <1>1, <2>4, Unwritten DEF M, KickOn, PartNow, PartChannel, ReapNow
  <2>5. CASE Crash
    BY <1>2, <2>5 DEF Crash
  <2> QED
    BY <1>5, <2>1, <2>2, <2>3, <2>4, <2>5 DEF Resume
<1>6. CASE Tick
  BY <1>6, Unwritten DEF Tick
<1>7. CASE UNCHANGED vars
  BY <1>2, <1>7 DEF vars
<1> QED
  BY <1>3, <1>4, <1>5, <1>6, <1>7 DEF Next

(* A join of ours is written with a timestamp that the tables keep or have *)
(* beaten, and a creation with the one they keep, whenever the clock       *)
(* advances; but that a creation for which no time was given keeps 0 if it *)
(* does while the channel is made (JoinChannel, server.cc).                *)
THEOREM WrittenIsKept == Spec => []WrittenTimestamp
<1>1. Init => WrittenTimestamp
  BY DEF Init, WrittenTimestamp
<1>2. Handling /\ WrittenTimestamp /\ [Next]_vars => WrittenTimestamp'
  BY WrittenStep
<1> QED
  BY <1>1, <1>2, Handled, PTL DEF Spec


-----------------------------------------------------------------------------
(* Nothing that was deleted is used, when modules only join or kick from   *)
(* channels they are on.  Then no pointer on the stack ever dies, for a    *)
(* channel a task may remove while others wait for it has a service on it; *)
(* and the users a burst will give +o are still on the channel, for a      *)
(* module can only kick the one whose join it is told of.                  *)
Confined ==
    /\ Reactions \subseteq {"KickOn", "Join"}
    /\ Messages \cap {"KickOutside", "BGone"} = {}

Whole(f) == f.dead = {} /\ f.do # "PartTask" /\ f.by = NoClient

Served(c, t) == t.userList[c] \cap Xclient # {}

Opping(b, t) ==
    /\ b.ops \subseteq t.userList[b.chan]
    /\ b.ops \cap (b.users \cup {b.client}) = {}
    /\ b.client \notin b.users

Toward(f, b) == f.client \in Xclient \cup {NoClient, b.client}

Harmless(f, g, t) ==
    /\ f.do \in {"KickOn", "Reap"} /\ g.chan = f.chan => Served(g.chan, t)
    /\ g.do = "B" => Toward(f, g)

Clean(st, t) ==
    /\ \A i \in 1 .. Len(st) : Whole(st[i]) /\ (st[i].do = "B" => Opping(st[i], t))
    /\ \A i, j \in 1 .. Len(st) : i < j => Harmless(st[i], st[j], t)

Tidy == ~freed /\ Clean(stack, net)

(* Tasks a step may add: the only one that removes a channel comes last.   *)
Fresh(tasks) ==
    /\ tasks \in Seq(Task)
    /\ \A i \in 1 .. Len(tasks) :
        /\ Whole(tasks[i]) /\ tasks[i].do # "B"
        /\ tasks[i].do \in {"KickOn", "Reap"} => i = Len(tasks)

LEMMA AgedSame ==
    ASSUME NEW f \in Task, NEW t, Lost(f, t) = {}
    PROVE  Aged(f, t) = f
  BY DEF Aged, Task

LEMMA CleanRun ==
    ASSUME ~freed, NEW t, NEW kept, Rest(kept) \in Seq(Task), NEW tasks, Fresh(tasks),
           Run(t, tasks, kept), Clean(Rest(kept), t),
           \A i \in 1 .. Len(Rest(kept)) : Lost(Rest(kept)[i], t) = {},
           \A i \in 1 .. Len(tasks), j \in 1 .. Len(Rest(kept)) :
                Harmless(tasks[i], Rest(kept)[j], t)
    PROVE  Tidy'
<1> DEFINE rest == Rest(kept)
<1>1. tasks \in Seq(Task)
  BY DEF Fresh
<1>2. net' = t /\ freed' = freed /\ Piled(stack', t, tasks, rest)
  BY <1>1, Pushed
<1>3. /\ rest \in Seq(Task) /\ Clean(rest, t)
      /\ \A i \in 1 .. Len(rest) : Lost(rest[i], t) = {}
      /\ \A i \in 1 .. Len(tasks), j \in 1 .. Len(rest) : Harmless(tasks[i], rest[j], t)
  OBVIOUS
<1> HIDE DEF rest
<1>4. /\ Len(tasks) \in Nat /\ Len(rest) \in Nat /\ Len(stack') = Len(tasks) + Len(rest)
  BY <1>1, <1>2, <1>3 DEF Piled
<1>5. \A i \in 1 .. Len(stack') :
         \/ i \in 1 .. Len(tasks) /\ stack'[i] = tasks[i]
         \/ i - Len(tasks) \in 1 .. Len(rest) /\ stack'[i] = rest[i - Len(tasks)]
  <2> SUFFICES ASSUME NEW i \in 1 .. Len(stack'), ~(i \in 1 .. Len(tasks) /\ stack'[i] = tasks[i])
               PROVE  i - Len(tasks) \in 1 .. Len(rest) /\ stack'[i] = rest[i - Len(tasks)]
    OBVIOUS
  <2> DEFINE k == i - Len(tasks)
  <2>1. k \in 1 .. Len(rest) /\ stack'[i] = Aged(rest[k], t)
    BY <1>2 DEF Piled
  <2> HIDE DEF k
  <2>2. rest[k] \in Task
    BY <1>3, <2>1
  <2>3. Lost(rest[k], t) = {}
    BY <1>3, <2>1
  <2> QED
    BY <2>1, <2>2, <2>3, AgedSame DEF k
<1>6. ASSUME NEW i \in 1 .. Len(stack')
      PROVE  Whole(stack'[i]) /\ (stack'[i].do = "B" => Opping(stack'[i], t))
  BY <1>3, <1>5 DEF Clean, Fresh
<1>7. ASSUME NEW i \in 1 .. Len(stack'), NEW j \in 1 .. Len(stack'), i < j
      PROVE  Harmless(stack'[i], stack'[j], t)
  <2>1. CASE j \in 1 .. Len(tasks) /\ stack'[j] = tasks[j]
    <3>1. i \in 1 .. Len(tasks) /\ i # Len(tasks)
      BY <1>4, <1>7, <2>1
    <3>2. stack'[i] = tasks[i]
      BY <1>2, <3>1 DEF Piled
    <3> QED
      BY <2>1, <3>1, <3>2 DEF Fresh, Harmless
  <2>2. CASE j - Len(tasks) \in 1 .. Len(rest) /\ stack'[j] = rest[j - Len(tasks)]
    <3> DEFINE k == j - Len(tasks)
    <3>1. k \in 1 .. Len(rest) /\ stack'[j] = rest[k]
      BY <2>2
    <3>2. CASE i \in 1 .. Len(tasks) /\ stack'[i] = tasks[i]
      <4> HIDE DEF k
      <4> QED
        BY <1>3, <3>1, <3>2
    <3>3. CASE i - Len(tasks) \in 1 .. Len(rest) /\ stack'[i] = rest[i - Len(tasks)]
      <4> DEFINE l == i - Len(tasks)
      <4>1. l \in 1 .. Len(rest) /\ stack'[i] = rest[l] /\ l < k
        BY <1>4, <1>7, <3>3
      <4> HIDE DEF k, l
      <4> QED
        BY <1>3, <3>1, <4>1 DEF Clean
    <3> QED
      BY <1>5, <3>2, <3>3
  <2> QED
    BY <1>5, <2>1, <2>2
<1>8. Clean(stack', t)
  BY <1>6, <1>7 DEF Clean
<1> QED
  BY <1>2, <1>8 DEF Tidy


LEMMA FreshOne ==
    ASSUME NEW h \in Task, Whole(h), h.do # "B"
    PROVE  Fresh(<<h>>)
<1> DEFINE s == <<h>>
<1>1. s \in Seq(Task) /\ Len(s) = 1 /\ s[1] = h
  OBVIOUS
<1> HIDE DEF s
<1>2. Fresh(s)
  BY <1>1 DEF Fresh
<1> QED
  BY <1>2 DEF s

LEMMA FreshTasks ==
    ASSUME NEW c \in Chan, NEW event \in Events, NEW n \in Client \cup {NoClient}
    PROVE  /\ Fresh(<<>>)
           /\ Fresh(<<Post(event, c, n)>>)
           /\ Fresh(<<Post(event, c, n), Reap(c)>>)
<1> DEFINE p == Post(event, c, n)
<1> DEFINE r == Reap(c)
<1>1. p \in Task /\ p.do = "PostAll" /\ p.dead = {} /\ p.by = NoClient
  BY ShortTasks DEF Short
<1>2. r \in Task /\ r.do = "Reap" /\ r.dead = {} /\ r.by = NoClient
  BY ShortTasks DEF Short
<1> HIDE DEF p, r
<1>3. Whole(p) /\ Whole(r) /\ p.do # "B" /\ r.do # "B" /\ p.do \notin {"KickOn", "Reap"}
  BY <1>1, <1>2 DEF Whole
<1>4. Fresh(<<>>)
  BY EmptySeq DEF Fresh
<1>5. Fresh(<<p, r>>)
  <2> DEFINE s == <<p, r>>
  <2>1. s \in Seq(Task) /\ Len(s) = 2 /\ s[1] = p /\ s[2] = r
    BY <1>1, <1>2
  <2> HIDE DEF s
  <2>2. \A i \in 1 .. Len(s) : i = 1 \/ i = 2
    BY <2>1
  <2>3. Fresh(s)
    BY <1>3, <2>1, <2>2 DEF Fresh
  <2> QED
    BY <2>3 DEF s
<1>6. Fresh(<<p>>)
  BY <1>1, <1>3, FreshOne
<1> QED
  BY <1>4, <1>5, <1>6 DEF p, r

(* A message when idle, or a handler that ends.                            *)
LEMMA LastClean ==
    ASSUME Handling, ~freed, stack = <<>> \/ Head(stack).do \in Handlers,
           NEW t, NEW tasks, Fresh(tasks), Run(t, tasks, <<>>)
    PROVE  Tidy'
<1> DEFINE kept == <<>>
<1>1. Rest(kept) = <<>> /\ Run(t, tasks, kept)
  BY BottomHandler, Resting DEF Handling, Fit
<1> HIDE DEF kept
<1>2. Rest(kept) \in Seq(Task) /\ Len(Rest(kept)) = 0
  BY <1>1, EmptySeq
<1>3. Clean(Rest(kept), t)
  BY <1>2 DEF Clean
<1>4. \A i \in 1 .. Len(Rest(kept)) :
        Lost(Rest(kept)[i], t) = {} /\ \A j \in 1 .. Len(tasks) : Harmless(tasks[j], Rest(kept)[i], t)
  BY <1>2
<1> QED
  BY <1>1, <1>2, <1>3, <1>4, CleanRun

(* A handler that goes on as k.                                            *)
LEMMA NextClean ==
    ASSUME Handling, ~freed, stack # <<>>, Head(stack).do \in Handlers,
           NEW t, NEW k \in Task, Whole(k), k.do = "B" => Opping(k, t), Lost(k, t) = {},
           NEW tasks, Fresh(tasks), Run(t, tasks, <<k>>),
           \A i \in 1 .. Len(tasks) : Harmless(tasks[i], k, t)
    PROVE  Tidy'
<1> DEFINE kept == <<k>>
<1>1. Rest(kept) \in Seq(Task) /\ Len(Rest(kept)) = 1 /\ Rest(kept)[1] = k /\ Run(t, tasks, kept)
  BY BottomHandler DEF Handling
<1> HIDE DEF kept
<1>2. \A i \in 1 .. Len(Rest(kept)) : i = 1
  BY <1>1
<1>3. Clean(Rest(kept), t)
  BY <1>1, <1>2 DEF Clean
<1> QED
  BY <1>1, <1>2, <1>3, CleanRun

(* What is left of a task that is not a handler: nothing, or one about the *)
(* same channel and client that removes nothing.                           *)
Trailing(kept) ==
    /\ stack # <<>> /\ Head(stack).do \notin Handlers
    /\ \/ kept = <<>>
       \/ \E k : /\ Short(k) /\ Whole(k) /\ kept = <<k>> /\ k.do \notin {"KickOn", "Reap"}
                 /\ k.client = Head(stack).client

(* The tasks below, and the tasks that are left, are clean.                *)
LEMMA RestClean ==
    ASSUME Handling, Clean(stack, net), NEW kept, Trailing(kept)
    PROVE  /\ Rest(kept) \in Seq(Task) /\ Clean(Rest(kept), net)
           /\ \A j \in 1 .. Len(Rest(kept)) :
                \/ j = 1 /\ kept = <<Rest(kept)[1]>> /\ Short(Rest(kept)[1])
                \/ \E i \in 2 .. Len(stack) : Rest(kept)[j] = stack[i]
<1> DEFINE rest == Rest(kept)
<1>1. stack \in Seq(Task) /\ Len(stack) >= 1 /\ Head(stack) = stack[1]
  BY Resting DEF Handling, Fit, Trailing
<1>2. CASE kept = <<>>
  <2>1. /\ rest \in Seq(Task) /\ Len(rest) = Len(stack) - 1
        /\ \A i \in 1 .. Len(rest) : rest[i] = stack[i + 1]
    BY <1>1, <1>2, Resting DEF Trailing
  <2> HIDE DEF rest
  <2>2. \A i \in 1 .. Len(rest) : i + 1 \in 2 .. Len(stack) /\ i + 1 \in 1 .. Len(stack)
    BY <1>1, <2>1
  <2>3. \A i, j \in 1 .. Len(rest) : i < j => i + 1 < j + 1
    BY <2>1
  <2>4. Clean(rest, net)
    <3>1. \A i \in 1 .. Len(rest) :
            Whole(rest[i]) /\ (rest[i].do = "B" => Opping(rest[i], net))
      BY <2>1, <2>2 DEF Clean
    <3>2. \A i, j \in 1 .. Len(rest) : i < j => Harmless(rest[i], rest[j], net)
      <4> SUFFICES ASSUME NEW i \in 1 .. Len(rest), NEW j \in 1 .. Len(rest), i < j
                   PROVE  Harmless(rest[i], rest[j], net)
        OBVIOUS
      <4> DEFINE k == i + 1
      <4> DEFINE l == j + 1
      <4>1. k \in 1 .. Len(stack) /\ l \in 1 .. Len(stack) /\ k < l
            /\ rest[i] = stack[k] /\ rest[j] = stack[l]
        BY <2>1, <2>2, <2>3
      <4> HIDE DEF k, l
      <4> QED
        BY <4>1 DEF Clean
    <3> QED
      BY <3>1, <3>2 DEF Clean
  <2> QED
    BY <2>1, <2>2, <2>4 DEF rest
<1>3. CASE kept # <<>>
  <2>1. PICK k : /\ Short(k) /\ Whole(k) /\ kept = <<k>> /\ k.do \notin {"KickOn", "Reap"}
                 /\ k.client = stack[1].client
    BY <1>1, <1>3 DEF Trailing
  <2>2. k \in Task /\ k.do # "B"
    BY <2>1 DEF Short, Handlers
  <2>3. /\ rest \in Seq(Task) /\ Len(rest) = Len(stack) /\ rest[1] = k
        /\ \A i \in 2 .. Len(stack) : rest[i] = stack[i]
    BY <1>1, <2>1, <2>2, Resting DEF Trailing
  <2> HIDE DEF rest
  <2>4. \A i \in 1 .. Len(rest) : i = 1 \/ (i \in 2 .. Len(stack) /\ rest[i] = stack[i])
    BY <1>1, <2>3
  <2>5. \A i \in 1 .. Len(rest) : Whole(rest[i]) /\ (rest[i].do = "B" => Opping(rest[i], net))
    <3>1. \A i \in 2 .. Len(stack) : i \in 1 .. Len(stack)
      BY <1>1
    <3> QED
      BY <2>1, <2>2, <2>3, <2>4, <3>1 DEF Clean
  <2>6. \A i, j \in 1 .. Len(rest) : i < j => Harmless(rest[i], rest[j], net)
    <3> SUFFICES ASSUME NEW i \in 1 .. Len(rest), NEW j \in 1 .. Len(rest), i < j
                 PROVE  Harmless(rest[i], rest[j], net)
      OBVIOUS
    <3>1. j \in 1 .. Len(stack) /\ i \in 1 .. Len(stack) /\ rest[j] = stack[j]
      BY <1>1, <2>3
    <3>2. Harmless(stack[i], stack[j], net)
      BY <3>1 DEF Clean
    <3>3. CASE i = 1
      BY <2>1, <2>3, <3>1, <3>2, <3>3 DEF Harmless, Toward
    <3>4. CASE i # 1
      BY <2>4, <3>1, <3>2, <3>4
    <3> QED
      BY <3>3, <3>4
  <2> QED
    BY <2>1, <2>3, <2>4, <2>5, <2>6 DEF rest, Clean
<1> QED
  BY <1>2, <1>3


LEMMA TopClean ==
    ASSUME Handling, Tidy, NEW kept, Trailing(kept), NEW t, NEW tasks, Fresh(tasks),
           Run(t, tasks, kept),
           \A c \in Chan : net.userList[c] \cap Xclient \subseteq t.userList[c],
           \A j \in 1 .. Len(Rest(kept)) :
               LET g == Rest(kept)[j] IN
               /\ Lost(g, t) = {}
               /\ g.do = "B" => g.ops \subseteq t.userList[g.chan]
               /\ \A i \in 1 .. Len(tasks) : Harmless(tasks[i], g, t)
    PROVE  Tidy'
<1> DEFINE rest == Rest(kept)
<1>1. rest \in Seq(Task) /\ Clean(rest, net) /\ Stacked(rest, net)
  <2>1. Called(kept)
    BY DEF Trailing, Called
  <2> QED
    BY <2>1, RestClean, CalledRest DEF Tidy, Handling
<1>2. \A j \in 1 .. Len(rest) :
        /\ Lost(rest[j], t) = {}
        /\ rest[j].do = "B" => rest[j].ops \subseteq t.userList[rest[j].chan]
        /\ \A i \in 1 .. Len(tasks) : Harmless(tasks[i], rest[j], t)
  OBVIOUS
<1> HIDE DEF rest
<1>3. \A i \in 1 .. Len(rest) : Whole(rest[i]) /\ (rest[i].do = "B" => Opping(rest[i], t))
  BY <1>1, <1>2 DEF Clean, Opping
<1>4. \A i, j \in 1 .. Len(rest) : i < j => Harmless(rest[i], rest[j], t)
  <2> SUFFICES ASSUME NEW i \in 1 .. Len(rest), NEW j \in 1 .. Len(rest), i < j
               PROVE  Harmless(rest[i], rest[j], t)
    OBVIOUS
  <2>1. Harmless(rest[i], rest[j], net)
    BY <1>1 DEF Clean
  <2>2. rest[i].do \in {"KickOn", "Reap"} => rest[i].chan \in Chan
    BY <1>1 DEF Stacked, Shaped
  <2>3. rest[i].do \in {"KickOn", "Reap"} /\ rest[j].chan = rest[i].chan
        => Served(rest[j].chan, t)
    BY <2>1, <2>2 DEF Harmless, Served
  <2> QED
    BY <2>1, <2>3 DEF Harmless
<1>5. Clean(rest, t)
  BY <1>3, <1>4 DEF Clean
<1> QED
  BY <1>1, <1>2, <1>5, CleanRun DEF rest, Tidy

(* The tasks below are not for another client than a burst's own.          *)
LEMMA BelowBurst ==
    ASSUME Handling, Tidy, NEW kept, Trailing(kept), NEW j \in 1 .. Len(Rest(kept))
    PROVE  /\ Rest(kept)[j] \in Task
           /\ Rest(kept)[j].do = "B" =>
                /\ Toward(Head(stack), Rest(kept)[j]) /\ Opping(Rest(kept)[j], net)
                /\ Rest(kept)[j].chan \in Chan
           /\ kept = <<>> /\ Head(stack).do \in {"KickOn", "Reap"}
              /\ Rest(kept)[j].chan = Head(stack).chan => Served(Head(stack).chan, net)
<1> DEFINE g == Rest(kept)[j]
<1>1. stack \in Seq(Task) /\ Len(stack) >= 1 /\ Head(stack) = stack[1]
  BY Resting DEF Handling, Fit, Trailing
<1>2. /\ g \in Task
      /\ \/ j = 1 /\ kept = <<g>> /\ Short(g)
         \/ \E i \in 2 .. Len(stack) : g = stack[i]
  BY RestClean DEF Tidy
<1> HIDE DEF g
<1>3. CASE kept = <<g>> /\ Short(g)
  <2>1. g.do # "B" /\ kept # <<>>
    BY <1>3 DEF Short, Handlers
  <2> QED
    BY <1>2, <2>1 DEF g
<1>4. ASSUME NEW i \in 2 .. Len(stack), g = stack[i] PROVE
             /\ g.do = "B" =>
                /\ Toward(Head(stack), g) /\ Opping(g, net) /\ g.chan \in Chan
             /\ kept = <<>> /\ Head(stack).do \in {"KickOn", "Reap"}
                /\ g.chan = Head(stack).chan => Served(Head(stack).chan, net)
  <2>1. i \in 1 .. Len(stack) /\ 1 \in 1 .. Len(stack) /\ 1 < i
    BY <1>1
  <2>2. Harmless(stack[1], g, net) /\ (g.do = "B" => Opping(g, net))
    BY <1>4, <2>1 DEF Tidy, Clean
  <2>3. Shaped(g)
    BY <1>4, <2>1 DEF Handling, Fit, Stacked
  <2> QED
    BY <1>1, <2>2, <2>3 DEF Harmless, Shaped
<1> QED
  BY <1>2, <1>3, <1>4 DEF g

LEMMA GrowClean ==
    ASSUME Handling, Tidy, NEW kept, Trailing(kept), NEW t,
           net.clients \subseteq t.clients, net.channelMap \subseteq t.channelMap,
           \A c \in Chan : net.userList[c] \subseteq t.userList[c],
           NEW tasks, Fresh(tasks), Run(t, tasks, kept),
           \A i \in 1 .. Len(tasks) :
               /\ tasks[i].client \in Xclient \cup {NoClient, Head(stack).client}
               /\ tasks[i].do \in {"KickOn", "Reap"} => Served(tasks[i].chan, t)
    PROVE  Tidy'
<1>1. ASSUME NEW j \in 1 .. Len(Rest(kept))
      PROVE  LET g == Rest(kept)[j] IN
               /\ Lost(g, t) = {}
               /\ g.do = "B" => g.ops \subseteq t.userList[g.chan]
               /\ \A i \in 1 .. Len(tasks) : Harmless(tasks[i], g, t)
  <2> DEFINE g == Rest(kept)[j]
  <2>1. g \in Task /\ (g.do = "B" => Toward(Head(stack), g) /\ Opping(g, net) /\ g.chan \in Chan)
    BY BelowBurst
  <2> HIDE DEF g
  <2>2. Lost(g, t) = {}
    BY DEF Lost
  <2>3. g.do = "B" => g.ops \subseteq t.userList[g.chan]
    BY <2>1 DEF Opping
  <2>4. \A i \in 1 .. Len(tasks) : Harmless(tasks[i], g, t)
    BY <2>1 DEF Harmless, Toward
  <2> QED
    BY <2>2, <2>3, <2>4 DEF g
<1> QED
  BY <1>1, TopClean


(* What a join makes of the tables.                                        *)
Grown(t) ==
    /\ net.clients \subseteq t.clients /\ net.channelMap \subseteq t.channelMap
    /\ \A c \in Chan : net.userList[c] \subseteq t.userList[c]

LEMMA JoinGrows ==
    ASSUME Handling, NEW x \in Xclient, NEW c \in Chan, NEW joinTime, NEW getOps, NEW direct,
           NEW kept, JoinChannel(x, c, joinTime, getOps, direct, kept)
    PROVE  \E t : \E event \in Events : Grown(t) /\ Run(t, <<Post(event, c, x)>>, kept)
<1>1. net \in Tables /\ x \in Client
  BY Constants DEF Handling, Fit, Tabled
<1>2. \A t, op : t \in {net, Older(net, c, joinTime), [net EXCEPT !.creationTime[c] = joinTime]}
                       \cup {WithChannel(net, c, ts) : ts \in {joinTime, now, now + 1}}
                 => Grown(WithUser(t, x, c, op))
  <2> SUFFICES ASSUME NEW t, NEW op,
                      t \in {net, Older(net, c, joinTime), [net EXCEPT !.creationTime[c] = joinTime]}
                            \cup {WithChannel(net, c, ts) : ts \in {joinTime, now, now + 1}}
               PROVE  Grown(WithUser(t, x, c, op))
    OBVIOUS
  <2>1. t.clients = net.clients /\ net.channelMap \subseteq t.channelMap /\ t.userList = net.userList
    <3>1. CASE t \in {net, Older(net, c, joinTime), [net EXCEPT !.creationTime[c] = joinTime]}
      BY <1>1, <3>1 DEF Older, Tables
    <3>2. CASE t \in {WithChannel(net, c, ts) : ts \in {joinTime, now, now + 1}}
      <4>1. PICK ts : t = WithChannel(net, c, ts)
        BY <3>2
      <4> QED
        BY <1>1, <4>1 DEF WithChannel, Tables
    <3> QED
      BY <3>1, <3>2
  <2>2. DOMAIN net.userList = Chan
    BY <1>1 DEF Tables
  <2>3. /\ WithUser(t, x, c, op).clients = t.clients
        /\ WithUser(t, x, c, op).channelMap = t.channelMap
        /\ WithUser(t, x, c, op).userList = [t.userList EXCEPT ![c] = @ \cup {x}]
    BY <1>1 DEF WithChannel, Older, WithUser, Tables
  <2> QED
    BY <2>1, <2>2, <2>3 DEF Grown
<1>3. "BURST" \in Events /\ "CREATE" \in Events /\ "JOIN" \in Events
  BY DEF Events
<1>4. CASE CreateChannel(x, c, joinTime, getOps, kept)
  <2>1. PICK later \in {now, now + 1} \cap Time :
          LET post == IF joinTime = 0 THEN now ELSE joinTime
              ts == CreationTime(joinTime, post, later) IN
          Run(WithUser(WithChannel(net, c, ts), x, c, getOps \/ ~Bursting),
              <<Post(IF Bursting THEN "BURST" ELSE "CREATE", c, x)>>, kept)
    BY <1>4 DEF CreateChannel
  <2> DEFINE ts == CreationTime(joinTime, IF joinTime = 0 THEN now ELSE joinTime, later)
  <2>2. ts \in {joinTime, now, now + 1}
    BY <2>1 DEF CreationTime
  <2>3. Run(WithUser(WithChannel(net, c, ts), x, c, getOps \/ ~Bursting),
            <<Post(IF Bursting THEN "BURST" ELSE "CREATE", c, x)>>, kept)
    BY <2>1
  <2> HIDE DEF ts
  <2>4. Grown(WithUser(WithChannel(net, c, ts), x, c, getOps \/ ~Bursting))
    BY <1>2, <2>2
  <2> DEFINE u == WithUser(WithChannel(net, c, ts), x, c, getOps \/ ~Bursting)
  <2> DEFINE event == IF Bursting THEN "BURST" ELSE "CREATE"
  <2>5. Grown(u) /\ Run(u, <<Post(event, c, x)>>, kept) /\ event \in Events
    BY <1>3, <2>3, <2>4
  <2> HIDE DEF u, event
  <2> QED
    BY <2>5
<1>5. CASE c \in net.channelMap /\ ~CreateChannel(x, c, joinTime, getOps, kept)
  <2> DEFINE t == IF JoinTime(c, joinTime) >= net.creationTime[c] THEN net
                  ELSE IF direct /\ ~Bursting
                  THEN [net EXCEPT !.creationTime[c] = joinTime]
                  ELSE Older(net, c, joinTime)
  <2>1. Run(WithUser(t, x, c, getOps), <<Post(IF Bursting THEN "BURST" ELSE "JOIN", c, x)>>, kept)
    BY <1>5 DEF JoinChannel
  <2>2. t \in {net, Older(net, c, joinTime), [net EXCEPT !.creationTime[c] = joinTime]}
    OBVIOUS
  <2> HIDE DEF t
  <2>3. Grown(WithUser(t, x, c, getOps))
    BY <1>2, <2>2
  <2> DEFINE u == WithUser(t, x, c, getOps)
  <2> DEFINE event == IF Bursting THEN "BURST" ELSE "JOIN"
  <2>4. Grown(u) /\ Run(u, <<Post(event, c, x)>>, kept) /\ event \in Events
    BY <1>3, <2>1, <2>3
  <2> HIDE DEF u, event
  <2> QED
    BY <2>4
<1> QED
  BY <1>4, <1>5 DEF JoinChannel

LEMMA MessageClean ==
    ASSUME Handling, Tidy, Message
    PROVE  Tidy'
<1>1. scene.chans \subseteq Chan /\ 1 .. MaxTime \subseteq Time /\ 0 \in Time /\ ~freed
  BY Constants, ChannelsAssumption DEF Handling, Time, Tidy
<1>2. \A t, tasks : stack = <<>> /\ Fresh(tasks) /\ Run(t, tasks, <<>>) => Tidy'
  BY <1>1, LastClean
<1>3. ASSUME NEW cmd \in {"J", "C", "L"}, NEW n \in Client, NEW chans \in SUBSET Chan,
             NEW ts \in Time, List(cmd, n, chans, ts)
      PROVE  Tidy'
  <2> DEFINE g == NewTask(cmd, NoChan, n)
  <2> DEFINE h == [g EXCEPT !.chans = chans, !.ts = ts]
  <2>1. stack = <<>> /\ Run(net, <<h>>, <<>>)
    BY <1>3 DEF List, Idle, Continue
  <2>2. g \in Task /\ g.do = cmd /\ g.dead = {} /\ g.by = NoClient
    <3>1. cmd \in Work
      BY DEF Work
    <3> QED
      BY <3>1, NewTasks
  <2> HIDE DEF g
  <2>3. h \in Task /\ Whole(h) /\ h.do # "B"
    BY <2>2 DEF Task, Whole
  <2> HIDE DEF h
  <2>4. Fresh(<<h>>)
    BY <2>3, FreshOne
  <2> QED
    BY <1>2, <2>1, <2>4
<1>4. ASSUME NEW n \in Client, msg_J_0(n) PROVE Tidy'
  <2> DEFINE g == NewTask("PartAll", NoChan, n)
  <2> DEFINE h == [g EXCEPT !.chans = net.channelList[n]]
  <2>1. stack = <<>> /\ Run(net, <<h>>, <<>>)
    BY <1>4 DEF msg_J_0, Idle, Continue
  <2>2. g \in Task /\ g.do = "PartAll" /\ g.dead = {} /\ g.by = NoClient
    BY NewTasks DEF Work
  <2>3. net.channelList[n] \subseteq Chan
    BY DEF Handling, Fit, Tabled, Tables
  <2> HIDE DEF g
  <2>4. h \in Task /\ Whole(h) /\ h.do # "B"
    BY <2>2, <2>3 DEF Task, Whole
  <2> HIDE DEF h
  <2>5. Fresh(<<h>>)
    BY <2>4, FreshOne
  <2> QED
    BY <1>2, <2>1, <2>5
<1>5. ASSUME NEW n \in Client, SignOn(n) \/ Quit(n) PROVE Tidy'
  <2>1. stack = <<>> /\ \E t : Run(t, <<>>, <<>>)
    BY <1>5 DEF SignOn, Quit, Idle, Continue
  <2>2. Fresh(<<>>)
    BY EmptySeq DEF Fresh
  <2> QED
    BY <1>2, <2>1, <2>2
<1>6. ASSUME NEW c \in scene.chans, NEW n \in Client, NEW local \in BOOLEAN, msg_K(c, n, local)
      PROVE  Tidy'
  <2> DEFINE event == IF local THEN "LOCALKICK" ELSE "KICK"
  <2>1. stack = <<>> /\ \E t : Run(t, <<Post(event, c, n), Reap(c)>>, <<>>)
    BY <1>6 DEF msg_K, Idle, Continue
  <2>2. event \in Events /\ c \in Chan
    BY <1>1 DEF Events
  <2> HIDE DEF event
  <2>3. Fresh(<<Post(event, c, n), Reap(c)>>)
    BY <2>2, FreshTasks
  <2> QED
    BY <1>2, <2>1, <2>3
<1>7. ASSUME NEW server \in BOOLEAN, NEW c \in scene.chans, NEW n \in Client,
             NEW plus \in BOOLEAN, NEW ts \in 1 .. MaxTime, msg_M(server, c, n, plus, ts)
      PROVE  Tidy'
  <2> DEFINE g == NewTask("M", c, NoClient)
  <2> DEFINE h == [g EXCEPT !.users = {n}, !.ts = ts, !.marked = IF plus THEN {n} ELSE {}]
  <2> DEFINE p == Post("SERVERMODE", c, NoClient)
  <2>1. stack = <<>> /\ Run(net, (IF server THEN <<p>> ELSE <<>>) \o <<h>>, <<>>) /\ c \in Chan
    BY <1>1, <1>7 DEF msg_M, Idle, Continue
  <2>2. g \in Task /\ g.do = "M" /\ g.dead = {} /\ g.by = NoClient
    BY <2>1, NewTasks DEF Work
  <2> HIDE DEF g
  <2>3. h \in Task /\ Whole(h) /\ h.do = "M"
    BY <1>1, <2>2 DEF Task, Whole
  <2>4. p \in Task /\ Whole(p) /\ p.do = "PostAll"
    <3>1. "SERVERMODE" \in Events
      BY DEF Events
    <3> QED
      BY <2>1, <3>1, ShortTasks DEF Short, Whole
  <2> HIDE DEF h, p
  <2>5. CASE server
    <3> DEFINE p0 == <<p>>
    <3> DEFINE q == <<h>>
    <3> DEFINE s == p0 \o q
    <3>1. p0 \in Seq(Task) /\ q \in Seq(Task) /\ Len(p0) = 1 /\ Len(q) = 1
          /\ p0[1] = p /\ q[1] = h
      BY <2>3, <2>4
    <3>2. Run(net, s, <<>>)
      BY <2>1, <2>5
    <3> HIDE DEF p0, q
    <3>3. s \in Seq(Task) /\ Len(s) = 2 /\ s[1] = p0[1] /\ s[2] = q[1]
      <4>1. p0 \in Seq(Task) /\ q \in Seq(Task)
        BY <3>1
      <4>2. /\ s \in Seq(Task) /\ Len(s) = Len(p0) + Len(q)
            /\ \A i \in 1 .. Len(p0) : s[i] = p0[i]
            /\ \A i \in 1 .. Len(q) : s[Len(p0) + i] = q[i]
        BY <4>1, Pushing
      <4> HIDE DEF s
      <4>3. 1 \in 1 .. Len(p0) /\ 1 \in 1 .. Len(q) /\ Len(p0) + 1 = 2
        BY <3>1
      <4>4. s[1] = p0[1] /\ s[Len(p0) + 1] = q[1]
        BY <4>2, <4>3
      <4> QED
        BY <3>1, <4>2, <4>3, <4>4
    <3> HIDE DEF s
    <3>4. \A i \in 1 .. Len(s) : i = 1 \/ i = 2
      BY <3>3
    <3>5. Fresh(s)
      BY <2>3, <2>4, <3>1, <3>3, <3>4 DEF Fresh
    <3> QED
      BY <1>2, <2>1, <3>2, <3>5
  <2>6. CASE ~server
    <3>1. <<h>> \in Seq(Task) /\ Run(net, <<>> \o <<h>>, <<>>)
      BY <2>1, <2>3, <2>6
    <3>2. <<>> \o <<h>> = <<h>>
      BY <3>1
    <3>3. Fresh(<<h>>) /\ Run(net, <<h>>, <<>>)
      BY <2>3, <3>1, <3>2, FreshOne
    <3> QED
      BY <1>2, <2>1, <3>3
  <2> QED
    BY <2>5, <2>6
<1>8. ASSUME NEW c \in scene.chans, NEW ts \in 1 .. MaxTime,
              NEW users \in SUBSET (Client \ (Xclient \cup Fake)),
              NEW marked \in SUBSET users, msg_B(c, ts, users, marked)
      PROVE  Tidy'
  <2> DEFINE g == NewTask("B", c, NoClient)
  <2> DEFINE h == [g EXCEPT !.users = users, !.marked = marked]
  <2> DEFINE tasks == <<h>>
  <2>1. stack = <<>> /\ (\E t : Run(t, tasks, <<>>)) /\ c \in Chan
    BY <1>1, <1>8 DEF msg_B, Idle, Continue
  <2>2. g \in Task /\ g.do = "B" /\ g.dead = {} /\ g.by = NoClient /\ g.ops = {}
        /\ g.client = NoClient
    BY <2>1, NewTasks DEF Work
  <2> HIDE DEF g
  <2>3. h \in Task /\ Whole(h) /\ \A t : Opping(h, t)
    <3>1. h \in Task /\ h.users = users /\ h.client = NoClient /\ h.ops = {} /\ h.dead = {}
          /\ h.by = NoClient /\ h.do = "B"
      BY <2>2 DEF Task
    <3>2. NoClient \notin users
      BY Constants
    <3> HIDE DEF h
    <3> QED
      BY <3>1, <3>2 DEF Whole, Opping
  <2>4. tasks \in Seq(Task) /\ Len(tasks) = 1 /\ tasks[1] = h
    BY <2>3
  <2>5. PICK t : Run(t, tasks, <<>>)
    BY <2>1
  <2> HIDE DEF h, tasks
  <2>6. Rest(<<>>) = <<>> /\ Rest(<<>>) \in Seq(Task)
    BY <2>1, Resting, EmptySeq DEF Handling, Fit
  <2>7. net' = t /\ freed' = freed /\ Piled(stack', t, tasks, Rest(<<>>))
    BY <2>4, <2>5, <2>6, Pushed
  <2>8. Len(stack') = 1 /\ stack'[1] = h
    <3>1. Len(stack') = Len(tasks) + Len(Rest(<<>>)) /\ Len(Rest(<<>>)) = 0
      BY <2>6, <2>7 DEF Piled
    <3>2. 1 \in 1 .. Len(tasks)
      BY <2>4
    <3>3. stack'[1] = tasks[1]
      BY <2>7, <3>2 DEF Piled
    <3> QED
      BY <2>4, <3>1, <3>3
  <2>9. \A i \in 1 .. Len(stack') : i = 1
    BY <2>8
  <2>10. Clean(stack', t)
    BY <2>3, <2>8, <2>9 DEF Clean
  <2> QED
    BY <1>1, <2>7, <2>10 DEF Tidy
<1>9. CASE \/ \E n \in Client, chans \in SUBSET scene.chans \ {{}}, ts \in 1 .. MaxTime :
                 List("J", n, chans, ts) \/ List("C", n, chans, ts)
           \/ \E n \in Client, chans \in SUBSET scene.chans \ {{}} : List("L", n, chans, 0)
  BY <1>1, <1>3, <1>9
<1>10. CASE \E n \in Client : msg_J_0(n) \/ SignOn(n) \/ Quit(n)
  BY <1>4, <1>5, <1>10
<1>11. CASE \E c \in scene.chans, ts \in 1 .. MaxTime,
               users \in SUBSET (Client \ (Xclient \cup Fake)) :
              \E marked \in SUBSET users : msg_B(c, ts, users, marked)
  BY <1>8, <1>11
<1>12. CASE \E c \in scene.chans, n \in Client, local \in BOOLEAN : msg_K(c, n, local)
  BY <1>6, <1>12
<1>13. CASE \E server \in BOOLEAN, c \in scene.chans, n \in Client, plus \in BOOLEAN,
               ts \in 1 .. MaxTime : msg_M(server, c, n, plus, ts)
  BY <1>7, <1>13
<1> QED
  BY <1>9, <1>10, <1>11, <1>12, <1>13 DEF Message


LEMMA FreshKick ==
    ASSUME NEW c \in Chan, NEW n \in Client \ Xclient
    PROVE  LET kick == NewTask("KickOn", c, n) IN
           /\ Fresh(<<kick>>) /\ Len(<<kick>>) = 1 /\ <<kick>>[1] = kick
           /\ kick.do = "KickOn" /\ kick.chan = c /\ kick.client = n
<1> DEFINE kick == NewTask("KickOn", c, n)
<1>1. Short(kick) /\ kick.do = "KickOn" /\ kick.chan = c /\ kick.client = n
      /\ kick.by = NoClient /\ kick.dead = {}
  BY KickTask
<1> HIDE DEF kick
<1>2. kick \in Task /\ Whole(kick) /\ kick.do # "B"
  BY <1>1 DEF Short, Whole
<1>3. Fresh(<<kick>>)
  BY <1>2, FreshOne
<1> QED
  BY <1>1, <1>3 DEF kick

(* A kick from a channel the service is on is that of one task.            *)
LEMMA KickGrows ==
    ASSUME NEW x \in Xclient, NEW c \in Chan, NEW n, NEW asServer, NEW kept,
           Handling, Kick(x, c, n, asServer, kept), asServer \/ x \in net.userList[c]
    PROVE  n \in Client \ Xclient /\ n \in net.userList[c]
           /\ Run(net, <<NewTask("KickOn", c, n)>>, kept)
<1>1. net.userList[c] \subseteq Client
  BY DEF Handling, Fit, Tabled, Tables
<1> QED
  BY <1>1 DEF Kick, Continue

LEMMA CallClean ==
    ASSUME Handling, Tidy, Confined, Call
    PROVE  Tidy'
<1>1. scene.chans \subseteq Chan /\ ~freed /\ Fake \subseteq Client /\ Xclient \subseteq Client
  BY Constants, ChannelsAssumption DEF Handling, Tidy
<1>2. \A t, tasks : stack = <<>> /\ Fresh(tasks) /\ Run(t, tasks, <<>>) => Tidy'
  BY <1>1, LastClean
<1>3. "JOIN" \in Events /\ "PART" \in Events
  BY DEF Events
<1>4. ASSUME NEW x \in Xclient, NEW c \in scene.chans, NEW joinTime, NEW getOps, NEW direct,
             Idle, JoinChannel(x, c, joinTime, getOps, direct, <<>>)
      PROVE  Tidy'
  <2> DEFINE kept == <<>>
  <2>1. c \in Chan /\ x \in Client /\ stack = <<>> /\ JoinChannel(x, c, joinTime, getOps, direct, kept)
    BY <1>1, <1>4 DEF Idle
  <2> HIDE DEF kept
  <2>2. PICK t : \E event \in Events : Grown(t) /\ Run(t, <<Post(event, c, x)>>, kept)
    BY <2>1, JoinGrows
  <2>3. PICK event \in Events : Run(t, <<Post(event, c, x)>>, kept)
    BY <2>2
  <2>4. Fresh(<<Post(event, c, x)>>)
    BY <2>1, FreshTasks
  <2> QED
    BY <1>2, <2>1, <2>3, <2>4 DEF kept
<1>5. ASSUME NEW x \in Xclient, NEW c \in scene.chans, Idle, PartChannel(x, c, <<>>)
      PROVE  Tidy'
  <2>1. c \in Chan /\ x \in Client /\ stack = <<>>
        /\ Run(WithoutUser(net, x, c), <<Post("PART", c, x), Reap(c)>>, <<>>)
    BY <1>1, <1>5 DEF Idle, PartChannel, Continue
  <2>2. Fresh(<<Post("PART", c, x), Reap(c)>>)
    BY <1>3, <2>1, FreshTasks
  <2> QED
    BY <1>2, <2>1, <2>2
<1>6. ASSUME NEW x \in Xclient, NEW c \in scene.chans, NEW n \in Client, NEW asServer \in BOOLEAN,
             Idle, asServer \/ x \in net.userList[c] \/ "KickOutside" \in Messages,
             Kick(x, c, n, asServer, <<>>)
      PROVE  Tidy'
  <2>1. c \in Chan /\ stack = <<>> /\ (asServer \/ x \in net.userList[c])
    BY <1>1, <1>6 DEF Idle, Confined
  <2> DEFINE kept == <<>>
  <2>2. Kick(x, c, n, asServer, kept)
    BY <1>6
  <2> HIDE DEF kept
  <2>3. n \in Client \ Xclient /\ Run(net, <<NewTask("KickOn", c, n)>>, kept)
    BY <2>1, <2>2, KickGrows
  <2>4. Fresh(<<NewTask("KickOn", c, n)>>)
    BY <2>1, <2>3, FreshKick
  <2> QED
    BY <1>2, <2>1, <2>3, <2>4 DEF kept
<1>7. ASSUME NEW n \in Client, Idle, Kill(n, <<>>) PROVE Tidy'
  <2>1. stack = <<>> /\ Run(WithoutClient(net, n), <<>>, <<>>)
    BY <1>7 DEF Idle, Kill, Continue
  <2>2. Fresh(<<>>)
    BY EmptySeq DEF Fresh
  <2> QED
    BY <1>2, <2>1, <2>2
<1>8. ASSUME NEW n \in Fake, NEW c \in scene.chans, JoinFake(n, c) \/ PartFake(n, c) PROVE Tidy'
  <2>1. c \in Chan /\ n \in Client /\ stack = <<>>
    BY <1>1, <1>8 DEF JoinFake, PartFake, Idle
  <2>2. CASE JoinFake(n, c)
    <3>1. Fresh(<<Post("JOIN", c, n)>>)
      BY <1>3, <2>1, FreshTasks
    <3>2. Run(WithUser(net, n, c, FALSE), <<Post("JOIN", c, n)>>, <<>>)
      BY <2>2 DEF JoinFake, Continue
    <3> QED
      BY <1>2, <2>1, <3>1, <3>2
  <2>3. CASE PartFake(n, c)
    <3>1. Fresh(<<Post("PART", c, n)>>)
      BY <1>3, <2>1, FreshTasks
    <3>2. Run(WithoutUser(net, n, c), <<Post("PART", c, n)>>, <<>>)
      BY <2>3 DEF PartFake, Continue
    <3> QED
      BY <1>2, <2>1, <3>1, <3>2
  <2> QED
    BY <1>8, <2>2, <2>3
<1>9. ASSUME NEW c \in scene.chans, NEW ts \in 1 .. MaxTime, BurstChannel(c, ts) PROVE Tidy'
  <2>1. stack = <<>> /\ Run(Older(net, c, ts), <<>>, <<>>)
    BY <1>9 DEF BurstChannel, Idle
  <2>2. Fresh(<<>>)
    BY EmptySeq DEF Fresh
  <2> QED
    BY <1>2, <2>1, <2>2
<1>16. ASSUME NEW x \in Xclient, NEW c \in scene.chans, NEW joinTime \in 0 .. now,
              Rejoin(x, c, joinTime)
       PROVE  Tidy'
  <2>1. stack = <<>> /\ Run(Older(net, c, joinTime), <<>>, <<>>)
    BY <1>16 DEF Rejoin, Idle, Continue
  <2>2. Fresh(<<>>)
    BY EmptySeq DEF Fresh
  <2> QED
    BY <1>2, <2>1, <2>2
<1>10. CASE \E x \in Xclient, c \in scene.chans, joinTime \in 0 .. now,
              getOps \in BOOLEAN, direct \in BOOLEAN :
              Idle /\ JoinChannel(x, c, joinTime, getOps, direct, <<>>)
  BY <1>4, <1>10
<1>11. CASE \E x \in Xclient, c \in scene.chans : Idle /\ PartChannel(x, c, <<>>)
  BY <1>5, <1>11
<1>12. CASE \E x \in Xclient, c \in scene.chans, n \in Client, asServer \in BOOLEAN :
              /\ Idle
              /\ asServer \/ x \in net.userList[c] \/ "KickOutside" \in Messages
              /\ Kick(x, c, n, asServer, <<>>)
  BY <1>6, <1>12
<1>13. CASE \E n \in Client : Idle /\ Kill(n, <<>>)
  BY <1>7, <1>13
<1>14. CASE \E n \in Fake, c \in scene.chans : JoinFake(n, c) \/ PartFake(n, c)
  BY <1>8, <1>14
<1>15. CASE \E c \in scene.chans, ts \in 1 .. MaxTime : BurstChannel(c, ts)
  BY <1>9, <1>15
<1> QED
  BY <1>10, <1>11, <1>12, <1>13, <1>14, <1>15, <1>16 DEF Call

(* What is under way.                                                      *)
LEMMA TopWhole ==
    ASSUME Handling, Tidy, stack # <<>>
    PROVE  /\ Whole(Head(stack)) /\ ~freed
           /\ Head(stack).do = "B" => Opping(Head(stack), net)
<1>1. stack \in Seq(Task) /\ Len(stack) >= 1 /\ Head(stack) = stack[1]
  BY Resting DEF Handling, Fit
<1>2. 1 \in 1 .. Len(stack)
  BY <1>1
<1> QED
  BY <1>1, <1>2 DEF Tidy, Clean

(* The tasks of an event, and the channel and the client they are about.   *)
EventOn(tasks, event, c, n) ==
    \/ tasks = <<>>
    \/ tasks = <<Post(event, c, n)>>
    \/ tasks = <<Post(event, c, n), Reap(c)>>

About(tasks, c, n) ==
    /\ Fresh(tasks)
    /\ \A i \in 1 .. Len(tasks) :
        /\ tasks[i].chan = c /\ tasks[i].client \in {n, NoClient}
        /\ tasks[i].do = "PostAll" \/ (tasks[i].do = "Reap" /\ Len(tasks) = 2)

LEMMA EventTasks ==
    ASSUME NEW c \in Chan, NEW event \in Events, NEW n \in Client \cup {NoClient},
           NEW tasks, EventOn(tasks, event, c, n)
    PROVE  About(tasks, c, n)
<1> DEFINE p == Post(event, c, n)
<1> DEFINE r == Reap(c)
<1>1. p \in Task /\ p.do = "PostAll" /\ p.chan = c /\ p.client = n
  BY ShortTasks DEF Short
<1>2. r \in Task /\ r.do = "Reap" /\ r.chan = c /\ r.client = NoClient
  BY ShortTasks DEF Short
<1>3. Fresh(tasks)
  BY FreshTasks DEF EventOn
<1>4. tasks = <<>> \/ tasks = <<p>> \/ tasks = <<p, r>>
  BY DEF EventOn
<1> SUFFICES ASSUME NEW i \in 1 .. Len(tasks)
             PROVE  /\ tasks[i].chan = c /\ tasks[i].client \in {n, NoClient}
                    /\ tasks[i].do = "PostAll" \/ (tasks[i].do = "Reap" /\ Len(tasks) = 2)
  BY <1>3 DEF About
<1> HIDE DEF p, r
<1>5. CASE tasks = <<>>
  <2>1. Len(tasks) = 0
    BY <1>5
  <2> QED
    BY <2>1
<1>6. CASE tasks = <<p>>
  <2>1. Len(tasks) = 1 /\ tasks[1] = p /\ i = 1
    BY <1>6
  <2> QED
    BY <1>1, <2>1
<1>7. CASE tasks = <<p, r>>
  <2>1. Len(tasks) = 2 /\ tasks[1] = p /\ tasks[2] = r /\ (i = 1 \/ i = 2)
    BY <1>7
  <2> QED
    BY <1>1, <1>2, <2>1
<1> QED
  BY <1>4, <1>5, <1>6, <1>7

(* A handler of a list goes on with the channels after c, or ends.         *)
LEMMA ListClean ==
    ASSUME Handling, Tidy, stack # <<>>, Head(stack).do \in {"J", "C", "L"}, NEW c, NEW t,
           net.clients \subseteq t.clients, NEW tasks, Fresh(tasks),
           \A i \in 1 .. Len(tasks) : tasks[i].chan \in Chan,
           Run(t, tasks, <<[Head(stack) EXCEPT !.chans = @ \ {c}]>>)
    PROVE  Tidy'
<1> DEFINE f == Head(stack)
<1> DEFINE k == [f EXCEPT !.chans = @ \ {c}]
<1>1. f \in Task /\ Shaped(f) /\ Whole(f) /\ ~freed /\ f.do \in {"J", "C", "L"}
  BY TopTask, TopWhole
<1>2. Run(t, tasks, <<k>>) /\ f.do \in Handlers
  BY DEF Handlers
<1> HIDE DEF f
<1>3. /\ k \in Task /\ k.do = f.do /\ k.client = f.client /\ k.chan = f.chan
      /\ k.by = f.by /\ k.dead = f.dead
  BY <1>1 DEF Task
<1> HIDE DEF k
<1>4. Whole(k) /\ k.do # "B" /\ k.chan = NoChan
  BY <1>1, <1>3 DEF Whole, Shaped
<1>5. NoChan \notin net.channelMap /\ NoChan \notin Chan
  BY ChannelsAssumption DEF Handling, Fit, Tabled, Tables
<1>6. Lost(k, t) = {}
  BY <1>4, <1>5 DEF Lost
<1>7. \A i \in 1 .. Len(tasks) : Harmless(tasks[i], k, t)
  BY <1>4, <1>5 DEF Harmless
<1> QED
  BY <1>1, <1>2, <1>3, <1>4, <1>6, <1>7, NextClean DEF f

(* A handler that is done.                                                 *)
LEMMA DoneClean ==
    ASSUME Handling, Tidy, stack # <<>>, Head(stack).do \in Handlers, NEW t, Run(t, <<>>, <<>>)
    PROVE  Tidy'
<1>1. Fresh(<<>>)
  BY EmptySeq DEF Fresh
<1> DEFINE tasks == <<>>
<1>2. Fresh(tasks) /\ Run(t, tasks, <<>>)
  BY <1>1
<1> HIDE DEF tasks
<1> QED
  BY <1>2, TopWhole, LastClean

LEMMA JClean ==
    ASSUME Handling, Tidy, J
    PROVE  Tidy'
<1> DEFINE f == Head(stack)
<1> DEFINE n == f.client
<1>1. stack # <<>> /\ f.do = "J" /\ n \in Client /\ f.chans \subseteq Chan
  BY ListClient DEF J
<1>2. f.do \in Handlers /\ f.do \in {"J", "C", "L"}
  BY <1>1 DEF Handlers
<1>3. "CREATE" \in Events /\ "JOIN" \in Events
  BY DEF Events
<1>4. net \in Tables
  BY DEF Handling, Fit, Tabled
<1>5. CASE f.chans = {} /\ Continue(net, <<>>, <<>>)
  BY <1>1, <1>2, <1>5, DoneClean DEF Continue
<1>6. ASSUME NEW c \in f.chans, NEW t, net.clients = t.clients, NEW tasks, NEW event \in Events,
             tasks \in {<<>>, <<Post(event, c, n)>>},
             Continue(t, tasks, <<[f EXCEPT !.chans = @ \ {c}]>>)
      PROVE  Tidy'
  <2>1. c \in Chan /\ n \in Client \cup {NoClient}
    BY <1>1, <1>6
  <2> HIDE DEF n
  <2>2. Fresh(tasks) /\ \A i \in 1 .. Len(tasks) : tasks[i].chan = c
    <3> DEFINE e == event
    <3>1. e \in Events /\ EventOn(tasks, e, c, n)
      BY <1>6, <2>1 DEF EventOn
    <3> HIDE DEF e
    <3>2. About(tasks, c, n)
      BY <2>1, <3>1, EventTasks
    <3> QED
      BY <3>2 DEF About
  <2>3. Run(t, tasks, <<[Head(stack) EXCEPT !.chans = @ \ {c}]>>)
    BY <1>6 DEF Continue
  <2>4. net.clients \subseteq t.clients /\ \A i \in 1 .. Len(tasks) : tasks[i].chan \in Chan
    BY <1>6, <2>1, <2>2
  <2> QED
    BY <1>1, <1>2, <2>2, <2>3, <2>4, ListClean
<1>7. ASSUME NEW c \in f.chans
      PROVE  LET next == [f EXCEPT !.chans = @ \ {c}] IN
             /\ ~Continue(WithUser(WithChannel(net, c, now), n, c, TRUE),
                          <<Post("CREATE", c, n)>>, <<next>>) \/ Tidy'
             /\ ~Continue(Joined(c, n, f.ts),
                          IF n \in net.userList[c] THEN <<>> ELSE <<Post("JOIN", c, n)>>,
                          <<next>>) \/ Tidy'
  <2>1. WithUser(WithChannel(net, c, now), n, c, TRUE).clients = net.clients
    BY <1>4 DEF WithUser, WithChannel, Tables
  <2>2. Joined(c, n, f.ts).clients = net.clients
    BY <1>4 DEF Joined, Older, WithUser, Tables
  <2> QED
    BY <1>3, <1>6, <2>1, <2>2
<1> QED
  BY <1>5, <1>7 DEF J

LEMMA CClean ==
    ASSUME Handling, Tidy, C
    PROVE  Tidy'
<1> DEFINE f == Head(stack)
<1> DEFINE n == f.client
<1>1. stack # <<>> /\ f.do = "C" /\ n \in Client /\ f.chans \subseteq Chan
  BY ListClient DEF C
<1>2. f.do \in Handlers /\ f.do \in {"J", "C", "L"}
  BY <1>1 DEF Handlers
<1>3. "CREATE" \in Events /\ net \in Tables
  BY DEF Events, Handling, Fit, Tabled
<1>4. CASE f.chans = {} /\ Continue(net, <<>>, <<>>)
  BY <1>1, <1>2, <1>4, DoneClean DEF Continue
<1>5. ASSUME NEW c \in f.chans,
             Continue(Created(c, n, f.ts), <<Post("CREATE", c, n)>>,
                      <<[f EXCEPT !.chans = @ \ {c}]>>)
      PROVE  Tidy'
  <2> DEFINE tasks == <<Post("CREATE", c, n)>>
  <2> DEFINE t == Created(c, n, f.ts)
  <2>1. c \in Chan /\ n \in Client \cup {NoClient}
    BY <1>1, <1>5
  <2>2. t.clients = net.clients
    BY <1>3 DEF Created, Older, WithChannel, WithUser, Tables
  <2>3. Run(t, tasks, <<[Head(stack) EXCEPT !.chans = @ \ {c}]>>)
    BY <1>5 DEF Continue
  <2> HIDE DEF n
  <2>4. Fresh(tasks) /\ \A i \in 1 .. Len(tasks) : tasks[i].chan = c
    <3> DEFINE e == "CREATE"
    <3>1. e \in Events /\ EventOn(tasks, e, c, n)
      BY <1>3, <2>1 DEF EventOn
    <3> HIDE DEF e
    <3>2. About(tasks, c, n)
      BY <2>1, <3>1, EventTasks
    <3> QED
      BY <3>2 DEF About
  <2> HIDE DEF tasks, t
  <2>5. net.clients \subseteq t.clients /\ \A i \in 1 .. Len(tasks) : tasks[i].chan \in Chan
    BY <2>1, <2>2, <2>4
  <2> QED
    BY <1>1, <1>2, <2>3, <2>4, <2>5, ListClean
<1> QED
  BY <1>4, <1>5 DEF C

LEMMA LClean ==
    ASSUME Handling, Tidy, L
    PROVE  Tidy'
<1> DEFINE f == Head(stack)
<1> DEFINE n == f.client
<1>1. stack # <<>> /\ f.do = "L" /\ n \in Client /\ f.chans \subseteq Chan
  BY ListClient DEF L
<1>2. f.do \in Handlers /\ f.do \in {"J", "C", "L"}
  BY <1>1 DEF Handlers
<1>3. "PART" \in Events /\ net \in Tables
  BY DEF Events, Handling, Fit, Tabled
<1>4. CASE f.chans = {} /\ Continue(net, <<>>, <<>>)
  BY <1>1, <1>2, <1>4, DoneClean DEF Continue
<1>5. ASSUME NEW c \in f.chans, NEW t, net.clients = t.clients, NEW tasks,
             tasks \in {<<>>, <<Post("PART", c, n), Reap(c)>>},
             Continue(t, tasks, <<[f EXCEPT !.chans = @ \ {c}]>>)
      PROVE  Tidy'
  <2>1. c \in Chan /\ n \in Client \cup {NoClient}
    BY <1>1, <1>5
  <2>2. Run(t, tasks, <<[Head(stack) EXCEPT !.chans = @ \ {c}]>>)
    BY <1>5 DEF Continue
  <2> HIDE DEF n
  <2>3. Fresh(tasks) /\ \A i \in 1 .. Len(tasks) : tasks[i].chan = c
    <3> DEFINE e == "PART"
    <3>1. e \in Events /\ EventOn(tasks, e, c, n)
      BY <1>3, <1>5, <2>1 DEF EventOn
    <3> HIDE DEF e
    <3>2. About(tasks, c, n)
      BY <2>1, <3>1, EventTasks
    <3> QED
      BY <3>2 DEF About
  <2>4. net.clients \subseteq t.clients /\ \A i \in 1 .. Len(tasks) : tasks[i].chan \in Chan
    BY <1>5, <2>1, <2>3
  <2> QED
    BY <1>1, <1>2, <2>2, <2>3, <2>4, ListClean
<1>6. ASSUME NEW c \in f.chans
      PROVE  LET next == [f EXCEPT !.chans = @ \ {c}] IN
             /\ ~Continue(WithoutUser(net, n, c), <<Post("PART", c, n), Reap(c)>>, <<next>>)
                \/ Tidy'
             /\ ~Continue(net, <<>>, <<next>>) \/ Tidy'
  <2>1. WithoutUser(net, n, c).clients = net.clients
    BY <1>3 DEF WithoutUser, WithoutMember, Tables
  <2> QED
    BY <1>5, <2>1
<1> QED
  BY <1>4, <1>6 DEF L

LEMMA MClean ==
    ASSUME Handling, Tidy, M
    PROVE  Tidy'
<1>1. stack # <<>> /\ Head(stack).do = "M" /\ \E t : Run(t, <<>>, <<>>)
  BY DEF M, Current, Continue
<1>2. Head(stack).do \in Handlers
  BY <1>1 DEF Handlers
<1> QED
  BY <1>1, <1>2, DoneClean

LEMMA BClean ==
    ASSUME Handling, Tidy, B
    PROVE  Tidy'
<1> DEFINE f == Head(stack)
<1> DEFINE c == f.chan
<1> DEFINE opped == Opped(f)
<1>1. stack # <<>> /\ f.do = "B"
  BY DEF B, Current
<1>2. /\ f \in Task /\ c \in Chan /\ Whole(f) /\ Opping(f, net)
      /\ f.do \in Handlers /\ ~freed /\ f.users \subseteq Client
  BY <1>1, TopTask, TopWhole DEF Shaped, Handlers, Task
<1>3. net \in Tables /\ "BURST" \in Events /\ net.userList[c] \subseteq Client
  BY <1>2 DEF Handling, Fit, Tabled, Events, Tables
<1>4. /\ opped \subseteq net.userList[c] /\ opped \subseteq Client
      /\ opped \cap f.users = {}
  BY <1>2, <1>3 DEF Opped, Opping
<1>5. CASE f.users = {} /\ \E t : Continue(t, <<>>, <<>>)
  BY <1>1, <1>2, <1>5, DoneClean DEF Continue
<1>6. ASSUME NEW n \in f.users
      PROVE  LET next == [f EXCEPT !.users = @ \ {n}, !.client = n,
                                   !.ops = opped, !.dead = @ \ {"client"}] IN
             (IF n \in net.clients /\ c \notin net.channelList[n]
              THEN Continue(WithUser(net, n, c, FALSE), <<Post("BURST", c, n)>>, <<next>>)
              ELSE Continue(net, <<>>, <<[next EXCEPT !.client = NoClient]>>))
             => Tidy'
  <2> DEFINE next == [f EXCEPT !.users = @ \ {n}, !.client = n,
                               !.ops = opped, !.dead = @ \ {"client"}]
  <2> DEFINE none == [next EXCEPT !.client = NoClient]
  <2> DEFINE u == WithUser(net, n, c, FALSE)
  <2> DEFINE e == "BURST"
  <2> DEFINE tasks == <<Post(e, c, n)>>
  <2>1. n \in Client /\ n \in Client \cup {NoClient} /\ e \in Events /\ NoClient \notin Client
    BY <1>2, <1>3, <1>6, Constants
  <2>2. /\ u.clients = net.clients /\ u.channelMap = net.channelMap
        /\ net.userList[c] \subseteq u.userList[c]
    BY <1>2, <1>3 DEF WithUser, Tables
  <2>3. /\ next \in Task /\ next.do = "B" /\ next.chan = c /\ next.client = n
        /\ next.ops = opped /\ next.users = f.users \ {n} /\ next.dead = {} /\ next.by = NoClient
        /\ none \in Task /\ none.do = "B" /\ none.chan = c /\ none.client = NoClient
        /\ none.ops = opped /\ none.users = f.users \ {n} /\ none.dead = {} /\ none.by = NoClient
    <3> HIDE DEF opped
    <3> QED
      BY <1>1, <1>2, <1>4, <2>1 DEF Task, Whole
  <2> HIDE DEF next, none, opped, u, e
  <2>4. Opping(next, u)
    BY <1>4, <2>2, <2>3, <1>6 DEF Opping
  <2>5. Opping(none, net)
    BY <1>2, <1>4, <2>1, <2>3 DEF Opping
  <2>6. Whole(next) /\ Whole(none) /\ Lost(next, u) = {} /\ Lost(none, net) = {}
    BY <2>2, <2>3 DEF Whole, Lost
  <2>7. About(tasks, c, n)
    <3>1. EventOn(tasks, e, c, n)
      BY DEF EventOn
    <3> HIDE DEF tasks, c
    <3> QED
      BY <1>2, <2>1, <3>1, EventTasks
  <2>8. CASE n \in net.clients /\ c \notin net.channelList[n] /\ Continue(u, tasks, <<next>>)
    <3>1. Fresh(tasks) /\ Run(u, tasks, <<next>>) /\ Len(tasks) = 1
      BY <2>7, <2>8 DEF About, Continue
    <3> HIDE DEF tasks
    <3>2. \A i \in 1 .. Len(tasks) : tasks[i].do = "PostAll" /\ tasks[i].client \in {n, NoClient}
      BY <2>7, <3>1 DEF About
    <3>3. \A i \in 1 .. Len(tasks) : Harmless(tasks[i], next, u)
      BY <2>3, <3>2 DEF Harmless, Toward
    <3>4. next \in Task
      BY <2>3
    <3> HIDE DEF f, c
    <3> QED
      BY <1>1, <1>2, <2>4, <2>6, <3>1, <3>3, <3>4, NextClean DEF f
  <2>9. CASE Continue(net, <<>>, <<none>>)
    <3> DEFINE no == <<>>
    <3>1. Fresh(no) /\ Len(no) = 0 /\ Run(net, no, <<none>>) /\ none \in Task
      BY <2>3, <2>9, EmptySeq DEF Fresh, Continue
    <3> HIDE DEF no, f, c
    <3>2. \A i \in 1 .. Len(no) : Harmless(no[i], none, net)
      BY <3>1
    <3> QED
      BY <1>1, <1>2, <2>5, <2>6, <3>1, <3>2, NextClean DEF f
  <2> QED
    BY <2>8, <2>9 DEF next, none, opped, u, e
<1> QED
  BY <1>5, <1>6 DEF B

LEMMA PartAllClean ==
    ASSUME Handling, Tidy, PartAll
    PROVE  Tidy'
<1> DEFINE f == Head(stack)
<1> DEFINE n == f.client
<1> DEFINE t == IF f.chan = NoChan THEN net ELSE Reaped(net, f.chan)
<1> DEFINE left == f.chans \cap net.channelList[n]
<1>1. stack # <<>> /\ f.do = "PartAll"
  BY DEF PartAll, Current
<1>2. /\ f \in Task /\ Shaped(f) /\ Whole(f) /\ f.do \in Handlers /\ ~freed
  BY <1>1, TopTask, TopWhole DEF Handlers
<1>3. /\ n \in Client /\ n \in Client \cup {NoClient} /\ f.chans \subseteq Chan
      /\ f.chan \notin f.chans /\ f.chan \in Chan \cup {NoChan}
  BY <1>1, <1>2 DEF Shaped, Task
<1>4. net \in Tables /\ "PART" \in Events
  BY DEF Handling, Fit, Tabled, Events
<1>5. /\ \/ left = {} /\ Continue([t EXCEPT !.channelList[n] = {}], <<>>, <<>>)
         \/ \E c \in left :
              Continue(WithoutMember(t, n, c), <<Post("PART", c, n)>>,
                       <<[f EXCEPT !.chan = c, !.chans = @ \ {c}, !.dead = {}]>>)
  BY DEF PartAll
<1>6. /\ t \in Tables /\ t.clients = net.clients /\ net.channelMap \ {f.chan} \subseteq t.channelMap
  <2>1. 0 \in Time
    BY Constants
  <2> QED
    BY <1>3, <1>4, <2>1 DEF Reaped, Tables
<1> HIDE DEF t
<1>7. CASE left = {} /\ Continue([t EXCEPT !.channelList[n] = {}], <<>>, <<>>)
  BY <1>1, <1>2, <1>7, DoneClean DEF Continue
<1>8. ASSUME NEW c \in left,
             Continue(WithoutMember(t, n, c), <<Post("PART", c, n)>>,
                      <<[f EXCEPT !.chan = c, !.chans = @ \ {c}, !.dead = {}]>>)
      PROVE  Tidy'
  <2> DEFINE u == WithoutMember(t, n, c)
  <2> DEFINE e == "PART"
  <2> DEFINE tasks == <<Post(e, c, n)>>
  <2> DEFINE next == [f EXCEPT !.chan = c, !.chans = @ \ {c}, !.dead = {}]
  <2>1. c \in Chan /\ c # f.chan /\ e \in Events /\ Run(u, tasks, <<next>>)
    BY <1>3, <1>4, <1>8 DEF Continue
  <2>2. u.clients = net.clients /\ (c \in net.channelMap => c \in u.channelMap)
    BY <1>6, <2>1 DEF WithoutMember, Tables
  <2>3. /\ next \in Task /\ next.do = "PartAll" /\ next.client = n /\ next.chan = c
        /\ next.dead = {} /\ next.by = NoClient
    BY <1>1, <1>2, <2>1 DEF Task, Whole
  <2>4. EventOn(tasks, e, c, n) /\ Len(tasks) = 1
    BY DEF EventOn
  <2> HIDE DEF u, tasks, next, e
  <2>5. Whole(next) /\ next.do # "B" /\ Lost(next, u) = {}
    BY <2>2, <2>3 DEF Whole, Lost
  <2>6. About(tasks, c, n)
    BY <1>3, <2>1, <2>4, EventTasks
  <2>7. Fresh(tasks) /\ \A i \in 1 .. Len(tasks) : Harmless(tasks[i], next, u)
    BY <2>4, <2>5, <2>6 DEF About, Harmless
  <2> HIDE DEF f
  <2> QED
    BY <1>1, <1>2, <2>1, <2>3, <2>5, <2>7, NextClean DEF f
<1> QED
  BY <1>5, <1>7, <1>8

LEMMA TrailingNone ==
    ASSUME stack # <<>>, Head(stack).do \notin Handlers
    PROVE  Trailing(<<>>)
  BY DEF Trailing

(* What a module may do on an event: kick the client it is about from a    *)
(* channel the service is on, or join.                                     *)
LEMMA ReactClean ==
    ASSUME Handling, Tidy, Confined, NEW kept, Trailing(kept), Head(stack).chan \in Chan,
           React(Head(stack), kept)
    PROVE  Tidy'
<1> DEFINE c == Head(stack).chan
<1> DEFINE n == Head(stack).client
<1>1. c \in Chan
  OBVIOUS
<1>2. \/ \E x \in Xclient : x \in net.userList[c] /\ Kick(x, c, n, FALSE, kept)
      \/ \E x \in Xclient : JoinChannel(x, c, 0, TRUE, FALSE, kept)
  BY DEF React, Confined
<1>3. ASSUME NEW x \in Xclient, x \in net.userList[c], Kick(x, c, n, FALSE, kept) PROVE Tidy'
  <2> DEFINE kick == NewTask("KickOn", c, n)
  <2> DEFINE tasks == <<kick>>
  <2> HIDE DEF c, n
  <2>1. n \in Client \ Xclient /\ Run(net, tasks, kept)
    BY <1>1, <1>3, KickGrows
  <2>2. Fresh(tasks) /\ Len(tasks) = 1 /\ tasks[1] = kick
        /\ kick.do = "KickOn" /\ kick.chan = c /\ kick.client = n
    BY <1>1, <2>1, FreshKick
  <2>3. Served(c, net)
    BY <1>3 DEF Served
  <2> HIDE DEF tasks, kick
  <2>4. \A i \in 1 .. Len(tasks) :
          /\ tasks[i].client \in Xclient \cup {NoClient, Head(stack).client}
          /\ tasks[i].do \in {"KickOn", "Reap"} => Served(tasks[i].chan, net)
    <3>1. \A i \in 1 .. Len(tasks) : i = 1
      BY <2>2
    <3> QED
      BY <2>2, <2>3, <3>1 DEF n
  <2> QED
    BY <2>1, <2>2, <2>4, GrowClean
<1>4. ASSUME NEW x \in Xclient, JoinChannel(x, c, 0, TRUE, FALSE, kept) PROVE Tidy'
  <2> HIDE DEF c
  <2>1. PICK t : \E event \in Events : Grown(t) /\ Run(t, <<Post(event, c, x)>>, kept)
    BY <1>1, <1>4, JoinGrows
  <2>2. PICK event \in Events : Grown(t) /\ Run(t, <<Post(event, c, x)>>, kept)
    BY <2>1
  <2> DEFINE tasks == <<Post(event, c, x)>>
  <2>3. EventOn(tasks, event, c, x) /\ Len(tasks) = 1 /\ Run(t, tasks, kept)
    BY <2>2 DEF EventOn
  <2>4. x \in Client \cup {NoClient}
    BY Constants
  <2> HIDE DEF tasks
  <2>5. About(tasks, c, x)
    BY <1>1, <2>3, <2>4, EventTasks
  <2>6. Fresh(tasks) /\ \A i \in 1 .. Len(tasks) :
          /\ tasks[i].client \in Xclient \cup {NoClient, Head(stack).client}
          /\ tasks[i].do \in {"KickOn", "Reap"} => Served(tasks[i].chan, t)
    BY <2>3, <2>5 DEF About
  <2>7. /\ net.clients \subseteq t.clients /\ net.channelMap \subseteq t.channelMap
        /\ \A d \in Chan : net.userList[d] \subseteq t.userList[d]
    BY <2>2 DEF Grown
  <2> QED
    BY <2>3, <2>6, <2>7, GrowClean
<1> QED
  BY <1>2, <1>3, <1>4

LEMMA StayClean ==
    ASSUME Handling, Tidy, NEW kept, Trailing(kept), Continue(net, <<>>, kept)
    PROVE  Tidy'
<1> DEFINE tasks == <<>>
<1>1. Fresh(tasks) /\ Len(tasks) = 0 /\ Run(net, tasks, kept)
  BY EmptySeq DEF Fresh, Continue
<1> HIDE DEF tasks
<1>2. \A i \in 1 .. Len(tasks) :
          /\ tasks[i].client \in Xclient \cup {NoClient, Head(stack).client}
          /\ tasks[i].do \in {"KickOn", "Reap"} => Served(tasks[i].chan, net)
  BY <1>1
<1> QED
  BY <1>1, <1>2, GrowClean

LEMMA PostClean ==
    ASSUME Handling, Tidy, Confined, PostAll \/ PostChan
    PROVE  Tidy'
<1> DEFINE f == Head(stack)
<1>1. stack # <<>> /\ f.do \in {"PostAll", "PostChan"}
  BY DEF PostAll, PostChan, Current
<1>2. f \in Task /\ Shaped(f) /\ f.chan \in Chan /\ Whole(f) /\ f.do \notin Handlers
  BY <1>1, TopTask, TopWhole DEF Shaped, Handlers
<1> DEFINE next == [f EXCEPT !.do = "PostChan"]
<1>3. Short(next) /\ Whole(next) /\ next.do = "PostChan" /\ next.client = f.client
  <2> HIDE DEF f
  <2> QED
    BY <1>1, <1>2 DEF Short, Shaped, Handlers, Task, Work, Whole
<1>4. \/ Continue(net, <<>>, <<next>>) \/ React(f, <<next>>)
      \/ Continue(net, <<>>, <<>>) \/ React(f, <<>>)
  BY DEF PostAll, PostChan
<1>5. Trailing(<<>>)
  BY <1>1, <1>2, TrailingNone
<1>6. Trailing(<<next>>)
  <2> HIDE DEF next
  <2> QED
    BY <1>1, <1>2, <1>3 DEF Trailing
<1> HIDE DEF next
<1> QED
  BY <1>2, <1>4, <1>5, <1>6, ReactClean, StayClean

(* A kick: the event, then the channel is removed if it is empty.          *)
LEMMA KickTasks ==
    ASSUME NEW c \in Chan, NEW n \in Client, NEW event \in Events, NEW first,
           first = <<>> \/ first = <<Post(event, c, n)>>
    PROVE  LET tasks == first \o <<>> \o <<Reap(c)>> IN
           /\ Fresh(tasks)
           /\ \A i \in 1 .. Len(tasks) :
                /\ tasks[i].client \in {n, NoClient} /\ tasks[i].chan = c
<1> DEFINE p == Post(event, c, n)
<1> DEFINE r == Reap(c)
<1> DEFINE last == <<r>>
<1>1. p \in Task /\ Whole(p) /\ p.do = "PostAll" /\ p.chan = c /\ p.client = n
  BY ShortTasks DEF Short, Whole
<1>2. r \in Task /\ Whole(r) /\ r.do = "Reap" /\ r.chan = c /\ r.client = NoClient
  BY ShortTasks DEF Short, Whole
<1> HIDE DEF p, r
<1>3. first \in Seq(Task) /\ Len(first) \in {0, 1} /\ \A i \in 1 .. Len(first) : first[i] = p
  <2>1. CASE first = <<>>
    BY <2>1, EmptySeq
  <2>2. CASE first = <<p>>
    BY <1>1, <2>2
  <2> QED
    BY <2>1, <2>2 DEF p
<1>4. last \in Seq(Task) /\ Len(last) = 1 /\ \A i \in 1 .. Len(last) : last[i] = r
  BY <1>2
<1> DEFINE tasks == first \o last
<1>5. first \o <<>> \o <<Reap(c)>> = tasks
  <2>1. first \o <<>> = first
    BY <1>3
  <2> QED
    BY <2>1 DEF r
<1> HIDE DEF last
<1>6. /\ tasks \in Seq(Task) /\ Len(tasks) = Len(first) + 1
      /\ \A i \in 1 .. Len(tasks) :
            \/ i \in 1 .. Len(first) /\ tasks[i] = first[i]
            \/ i - Len(first) \in 1 .. Len(last) /\ tasks[i] = last[i - Len(first)]
  BY <1>3, <1>4, Pushing
<1> HIDE DEF tasks
<1>7. \A i \in 1 .. Len(tasks) : tasks[i] = p \/ (tasks[i] = r /\ i = Len(tasks))
  <2> SUFFICES ASSUME NEW i \in 1 .. Len(tasks)
               PROVE  tasks[i] = p \/ (tasks[i] = r /\ i = Len(tasks))
    OBVIOUS
  <2>1. CASE i \in 1 .. Len(first) /\ tasks[i] = first[i]
    BY <1>3, <2>1
  <2>2. CASE i - Len(first) \in 1 .. Len(last) /\ tasks[i] = last[i - Len(first)]
    <3> DEFINE j == i - Len(first)
    <3>1. j \in 1 .. Len(last) /\ tasks[i] = last[j] /\ i = Len(tasks)
      BY <1>3, <1>4, <1>6, <2>2
    <3> HIDE DEF j
    <3> QED
      BY <1>4, <3>1
  <2> QED
    BY <1>6, <2>1, <2>2
<1>8. Fresh(tasks)
  BY <1>1, <1>2, <1>6, <1>7 DEF Fresh
<1>9. \A i \in 1 .. Len(tasks) : tasks[i].client \in {n, NoClient} /\ tasks[i].chan = c
  BY <1>1, <1>2, <1>7
<1> QED
  BY <1>5, <1>8, <1>9

LEMMA KickOnClean ==
    ASSUME Handling, Tidy, KickOn
    PROVE  Tidy'
<1> DEFINE f == Head(stack)
<1> DEFINE n == f.client
<1> DEFINE c == f.chan
<1> DEFINE here == n \in net.userList[c]
<1> DEFINE t == IF here THEN WithoutUser(net, n, c) ELSE net
<1> DEFINE e == "KICK"
<1> DEFINE first == IF here THEN <<Post(e, c, n)>> ELSE <<>>
<1> DEFINE tasks == first \o <<>> \o <<Reap(c)>>
<1>1. stack # <<>> /\ f.do = "KickOn"
  BY DEF KickOn, Current
<1>2. f.by = NoClient
  BY <1>1, TopWhole DEF Whole
<1>3. Run(t, tasks, <<>>)
  BY <1>2 DEF KickOn, Continue
<1>4. c \in Chan /\ n \in Client \ Xclient /\ f.do \notin Handlers
  BY <1>1, TopTask DEF Shaped, Handlers
<1>5. e \in Events /\ net \in Tables /\ NoClient \notin Client
  BY Constants DEF Events, Handling, Fit, Tabled
<1> DEFINE kept == <<>>
<1>6. Trailing(kept) /\ Run(t, tasks, kept)
  BY <1>1, <1>3, <1>4, TrailingNone
<1>7. kept = <<>>
  OBVIOUS
<1>8. /\ t.clients = net.clients /\ t.channelMap = net.channelMap
      /\ \A d \in Chan : net.userList[d] \ {n} \subseteq t.userList[d]
  <2> HIDE DEF n, c
  <2> QED
    BY <1>4, <1>5 DEF WithoutUser, WithoutMember, Tables
<1>9. first = <<>> \/ first = <<Post(e, c, n)>>
  OBVIOUS
<1> HIDE DEF first, t, n, c, e
<1>10. /\ Fresh(tasks)
       /\ \A i \in 1 .. Len(tasks) : tasks[i].client \in {n, NoClient} /\ tasks[i].chan = c
  BY <1>4, <1>5, <1>9, KickTasks
<1> HIDE DEF tasks, kept
<1>11. \A d \in Chan : net.userList[d] \cap Xclient \subseteq t.userList[d]
  BY <1>4, <1>8
<1>12. ASSUME NEW j \in 1 .. Len(Rest(kept))
       PROVE  LET g == Rest(kept)[j] IN
               /\ Lost(g, t) = {}
               /\ g.do = "B" => g.ops \subseteq t.userList[g.chan]
               /\ \A i \in 1 .. Len(tasks) : Harmless(tasks[i], g, t)
  <2> DEFINE g == Rest(kept)[j]
  <2>1. /\ g \in Task
        /\ g.do = "B" => Toward(f, g) /\ Opping(g, net) /\ g.chan \in Chan
        /\ g.chan = c => Served(c, net)
    BY <1>1, <1>6, <1>7, BelowBurst DEF c
  <2> HIDE DEF g
  <2>2. Lost(g, t) = {}
    BY <1>8 DEF Lost
  <2>3. g.do = "B" => g.client = n
    BY <1>4, <1>5, <2>1 DEF Toward, n
  <2>4. g.do = "B" => g.ops \subseteq t.userList[g.chan]
    <3> SUFFICES ASSUME g.do = "B" PROVE g.ops \subseteq t.userList[g.chan]
      OBVIOUS
    <3>1. g.ops \subseteq net.userList[g.chan] /\ n \notin g.ops /\ g.chan \in Chan
      BY <2>1, <2>3 DEF Opping
    <3> QED
      BY <1>8, <3>1
  <2>5. g.chan = c => Served(c, t)
    BY <1>4, <1>11, <2>1 DEF Served
  <2>6. \A i \in 1 .. Len(tasks) : Harmless(tasks[i], g, t)
    BY <1>10, <2>3, <2>5 DEF Harmless, Toward
  <2> QED
    BY <2>2, <2>4, <2>6 DEF g
<1> QED
  BY <1>6, <1>10, <1>11, <1>12, TopClean

LEMMA ReapClean ==
    ASSUME Handling, Tidy, ReapNow
    PROVE  Tidy'
<1> DEFINE c == Head(stack).chan
<1> DEFINE t == Reaped(net, c)
<1> DEFINE kept == <<>>
<1> DEFINE tasks == <<>>
<1>1. stack # <<>> /\ Head(stack).do = "Reap" /\ Run(t, tasks, kept)
  BY DEF ReapNow, Current, Continue
<1>2. c \in Chan /\ Head(stack).do \notin Handlers /\ net \in Tables
  BY <1>1, TopTask DEF Shaped, Handlers, Handling, Fit, Tabled
<1>3. Trailing(kept) /\ kept = <<>> /\ Fresh(tasks) /\ Len(tasks) = 0
  BY <1>1, <1>2, TrailingNone, EmptySeq DEF Fresh
<1>4. /\ t.clients = net.clients /\ t.userList = net.userList
      /\ net.channelMap \ {c} \subseteq t.channelMap
      /\ net.userList[c] # {} => t = net
  <2> HIDE DEF c
  <2> QED
    BY <1>2 DEF Reaped, Tables
<1> HIDE DEF c, t, kept, tasks
<1>5. ASSUME NEW j \in 1 .. Len(Rest(kept))
      PROVE  LET g == Rest(kept)[j] IN
               /\ Lost(g, t) = {}
               /\ g.do = "B" => g.ops \subseteq t.userList[g.chan]
               /\ \A i \in 1 .. Len(tasks) : Harmless(tasks[i], g, t)
  <2> DEFINE g == Rest(kept)[j]
  <2>1. /\ g.do = "B" => Opping(g, net)
        /\ g.chan = c => Served(c, net)
    BY <1>1, <1>3, BelowBurst DEF c
  <2> HIDE DEF g
  <2>2. Lost(g, t) = {}
    BY <1>4, <2>1 DEF Lost, Served
  <2>3. g.do = "B" => g.ops \subseteq t.userList[g.chan]
    BY <1>4, <2>1 DEF Opping
  <2> QED
    BY <1>3, <2>2, <2>3 DEF g
<1>6. \A d \in Chan : net.userList[d] \cap Xclient \subseteq t.userList[d]
  BY <1>4
<1> QED
  BY <1>1, <1>3, <1>5, <1>6, TopClean

(* No task is about to use what was deleted.                               *)
LEMMA TopSound ==
    ASSUME Handling, Tidy, stack # <<>>
    PROVE  Sound(Head(stack)) /\ Head(stack).do # "PartTask"
<1> DEFINE f == Head(stack)
<1>1. Whole(f) /\ (f.do = "B" => Opping(f, net))
  BY TopWhole
<1> HIDE DEF f
<1>2. f.do = "B" => Opped(f) \subseteq net.userList[f.chan]
  BY <1>1 DEF Opped, Opping
<1> QED
  BY <1>1, <1>2 DEF f, Sound, Whole

LEMMA TidyStep ==
    ASSUME Handling, Tidy, Confined, [Next]_vars
    PROVE  Tidy'
<1>1. CASE Message
  BY <1>1, MessageClean
<1>2. CASE Call
  BY <1>2, CallClean
<1>3. ~Crash /\ ~PartNow
  BY TopSound DEF Crash, PartNow, Current
<1>4. CASE Resume
  BY <1>3, <1>4, JClean, CClean, LClean, PartAllClean, BClean, MClean, KickOnClean,
     ReapClean, PostClean DEF Resume
<1>5. CASE Tick \/ UNCHANGED vars
  BY <1>5 DEF Tick, vars, Tidy, Clean
<1> QED
  BY <1>1, <1>2, <1>4, <1>5 DEF Next

(* No handler uses a channel, a client or a ChannelUser that was deleted   *)
(* while it had posted an event, as long as modules only join on events,   *)
(* or kick the client from channels they are on.                           *)
THEOREM NothingDeletedUsed == Spec => []NoUseAfterDelete
<1> DEFINE Sane == Handling /\ (Confined => Tidy)
<1>1. Init => Sane
  <2> SUFFICES ASSUME Init PROVE Sane
    OBVIOUS
  <2>1. ~freed /\ Len(stack) = 0
    BY DEF Init
  <2>2. Clean(stack, net)
    BY <2>1 DEF Clean
  <2> QED
    BY <2>1, <2>2, HandlingInit DEF Tidy
<1>2. Sane /\ [Next]_vars => Sane'
  <2> SUFFICES ASSUME Sane, [Next]_vars PROVE Sane'
    OBVIOUS
  <2>1. Handling' /\ scene' = scene
    BY HandlingStep, SceneStays
  <2>2. Confined' = Confined
    BY <2>1 DEF Confined, Messages, Reactions
  <2>3. Confined => Tidy'
    BY TidyStep
  <2> QED
    BY <2>1, <2>2, <2>3
<1>3. Sane => NoUseAfterDelete
  BY DEF NoUseAfterDelete, NeverFreed, Confined, Tidy
<1> QED
  BY <1>1, <1>2, <1>3, PTL DEF Spec

-----------------------------------------------------------------------------
(* Events and their listeners: what follows is about E, EventLists.        *)
(* Lists.                                                                  *)

(* What erasing the first node of x from a list leaves.                    *)
LEMMA FirstNode ==
    ASSUME NEW T, NEW s \in Seq(T), NEW x, x \in E!Range(s)
    PROVE  \E k \in 1 .. Len(s) : s[k] = x /\ E!RemoveFirst(s, x) = E!RemoveAt(s, k)
<1> DEFINE I == {i \in 1 .. Len(s) : s[i] = x}
<1>1. I \subseteq Nat /\ I # {}
  BY DEF E!Range
<1>2. PICK d \in I : \A e \in I : ~(<<e, d>> \in OpToRel(<, Nat))
  BY <1>1, NatLessThanWellFounded, WFMin
<1>3. \A e \in I : d =< e
  <2> SUFFICES ASSUME NEW e \in I PROVE d =< e
    OBVIOUS
  <2>1. ~(e < d)
    BY <1>1, <1>2 DEF OpToRel
  <2> QED
    BY <1>1, <2>1
<1>4. E!Min(I) \in I
  BY <1>2, <1>3 DEF E!Min
<1>5. E!RemoveFirst(s, x) = E!RemoveAt(s, E!Min(I))
  BY <1>1 DEF E!RemoveFirst, E!SelectInSeq
<1> QED
  BY <1>4, <1>5

LEMMA Erasing ==
    ASSUME NEW T, NEW s \in Seq(T), NEW x, E!IsInjective(s)
    PROVE  /\ E!RemoveFirst(s, x) \in Seq(T) /\ E!IsInjective(E!RemoveFirst(s, x))
           /\ E!Range(E!RemoveFirst(s, x)) = E!Range(s) \ {x}
<1>1. CASE x \notin E!Range(s)
  <2>1. E!RemoveFirst(s, x) = s
    BY <1>1 DEF E!RemoveFirst, E!Range
  <2> QED
    BY <1>1, <2>1
<1>2. CASE x \in E!Range(s)
  <2>1. PICK k \in 1 .. Len(s) : s[k] = x /\ E!RemoveFirst(s, x) = E!RemoveAt(s, k)
    BY <1>2, FirstNode
  <2> DEFINE n == Len(s)
  <2> DEFINE a == SubSeq(s, 1, k - 1)
  <2> DEFINE b == SubSeq(s, k + 1, n)
  <2> DEFINE t == a \o b
  <2>2. n \in Nat /\ k \in 1 .. n /\ DOMAIN s = 1 .. n /\ \A i \in 1 .. n : s[i] \in T
    OBVIOUS
  <2>3. /\ a \in Seq(T) /\ Len(a) = k - 1
        /\ \A i \in 1 .. k - 1 : a[i] = s[i]
    OBVIOUS
  <2>4. /\ b \in Seq(T) /\ Len(b) = n - k
        /\ \A i \in 1 .. n - k : b[i] = s[k + i]
    OBVIOUS
  <2> HIDE DEF a, b
  <2>5. /\ t \in Seq(T) /\ Len(t) = n - 1 /\ DOMAIN t = 1 .. n - 1
        /\ \A i \in 1 .. n - 1 : t[i] = IF i < k THEN s[i] ELSE s[i + 1]
    <3>1. t \in Seq(T) /\ Len(t) = Len(a) + Len(b)
      BY <2>3, <2>4, ConcatProperties
    <3>2. \A i \in 1 .. Len(a) : t[i] = a[i]
      BY <2>3, <2>4
    <3>3. \A i \in 1 .. Len(b) : t[Len(a) + i] = b[i]
      BY <2>3, <2>4
    <3> HIDE DEF t
    <3>4. Len(t) = n - 1
      BY <2>2, <2>3, <2>4, <3>1
    <3>5. ASSUME NEW i \in 1 .. n - 1
          PROVE  t[i] = IF i < k THEN s[i] ELSE s[i + 1]
      <4>1. CASE i < k
        BY <2>2, <2>3, <3>2, <4>1
      <4>2. CASE ~(i < k)
        <5>1. /\ i - (k - 1) \in 1 .. n - k /\ (k - 1) + (i - (k - 1)) = i
              /\ k + (i - (k - 1)) = i + 1
          BY <2>2, <4>2
        <5> DEFINE j == i - (k - 1)
        <5>2. t[(k - 1) + j] = s[k + j]
          BY <2>3, <2>4, <3>3, <5>1
        <5> QED
          BY <4>2, <5>1, <5>2
      <4> QED
        BY <4>1, <4>2
    <3> QED
      BY <3>1, <3>4, <3>5
  <2>6. E!RemoveFirst(s, x) = t
    BY <2>1 DEF E!RemoveAt, a, b
  <2> HIDE DEF t, n
  <2>7. \A i \in 1 .. n - 1 : i \in 1 .. n /\ i + 1 \in 1 .. n
    BY <2>2
  <2>8. \A i, j \in 1 .. n : s[i] = s[j] => i = j
    BY <2>2 DEF E!IsInjective
  <2>9. E!IsInjective(t)
    BY <2>2, <2>5, <2>7, <2>8 DEF E!IsInjective
  <2>10. \A i \in 1 .. n - 1 : t[i] \in E!Range(s) \ {x}
    <3> SUFFICES ASSUME NEW i \in 1 .. n - 1
                 PROVE  t[i] \in E!Range(s) \ {x}
      OBVIOUS
    <3>1. \E j \in 1 .. n : t[i] = s[j] /\ j # k
      BY <2>2, <2>5, <2>7
    <3> QED
      BY <2>1, <2>2, <2>8, <3>1 DEF E!Range
  <2>11. \A y \in E!Range(s) \ {x} : \E i \in 1 .. n - 1 : t[i] = y
    <3> SUFFICES ASSUME NEW j \in 1 .. n, s[j] # x
                 PROVE  \E i \in 1 .. n - 1 : t[i] = s[j]
      BY <2>2 DEF E!Range
    <3>1. CASE j < k
      <4>1. j \in 1 .. n - 1 /\ t[j] = s[j]
        BY <2>2, <2>5, <3>1
      <4> QED
        BY <4>1
    <3>2. CASE j > k
      <4>1. j - 1 \in 1 .. n - 1 /\ t[j - 1] = s[(j - 1) + 1] /\ (j - 1) + 1 = j
        BY <2>2, <2>5, <3>2
      <4> QED
        BY <4>1
    <3> QED
      BY <2>1, <2>2, <3>1, <3>2
  <2>12. E!Range(t) = E!Range(s) \ {x}
    <3>1. DOMAIN t = 1 .. n - 1
      BY <2>5
    <3>2. E!Range(t) \subseteq E!Range(s) \ {x}
      <4> DEFINE S == E!Range(s) \ {x}
      <4>1. \A i \in 1 .. n - 1 : t[i] \in S
        BY <2>10
      <4> HIDE DEF S
      <4>2. E!Range(t) \subseteq S
        BY <3>1, <4>1 DEF E!Range
      <4> QED
        BY <4>2 DEF S
    <3>3. \A y \in E!Range(s) \ {x} : y \in E!Range(t)
      BY <2>11, <3>1 DEF E!Range
    <3> QED
      BY <3>2, <3>3
  <2> QED
    BY <2>5, <2>6, <2>9, <2>12
<1> QED
  BY <1>1, <1>2

(* What a list holds after a node is added at the end.                     *)
LEMMA AppendedTo ==
    ASSUME NEW T, NEW s \in Seq(T), NEW x \in T
    PROVE  /\ Append(s, x) \in Seq(T)
           /\ E!Range(Append(s, x)) = E!Range(s) \cup {x}
           /\ x \notin E!Range(s) /\ E!IsInjective(s) => E!IsInjective(Append(s, x))
<1>1. /\ Append(s, x) \in Seq(T) /\ Len(Append(s, x)) = Len(s) + 1
      /\ \A i \in 1 .. Len(s) : Append(s, x)[i] = s[i]
      /\ Append(s, x)[Len(s) + 1] = x
  OBVIOUS
<1>2. /\ DOMAIN s = 1 .. Len(s) /\ DOMAIN Append(s, x) = 1 .. Len(s) + 1
      /\ Len(s) \in Nat
  BY <1>1
<1>3. \A i \in 1 .. Len(s) + 1 : i \in 1 .. Len(s) \/ i = Len(s) + 1
  BY <1>2
<1>4. 1 .. Len(s) \subseteq 1 .. Len(s) + 1 /\ Len(s) + 1 \in 1 .. Len(s) + 1
  BY <1>2
<1> DEFINE t == Append(s, x)
<1> HIDE DEF t
<1>5. E!Range(t) = E!Range(s) \cup {x}
  BY <1>1, <1>2, <1>3, <1>4 DEF E!Range, t
<1>6. x \notin E!Range(s) /\ E!IsInjective(s) => E!IsInjective(t)
  BY <1>1, <1>2, <1>3, <1>4 DEF E!Range, E!IsInjective, t
<1> QED
  BY <1>1, <1>5, <1>6 DEF t

(* What is left of a list when its first node is taken.                    *)
LEMMA Taking ==
    ASSUME NEW T, NEW s \in Seq(T), s # <<>>
    PROVE  /\ Head(s) \in T /\ Tail(s) \in Seq(T)
           /\ E!Range(s) = {Head(s)} \cup E!Range(Tail(s))
           /\ E!IsInjective(s) => E!IsInjective(Tail(s)) /\ Head(s) \notin E!Range(Tail(s))
<1>1. /\ Tail(s) \in Seq(T) /\ Len(Tail(s)) = Len(s) - 1
      /\ \A i \in 1 .. Len(s) - 1 : Tail(s)[i] = s[i + 1]
      /\ Head(s) = s[1] /\ s[1] \in T
      /\ 1 \in 1 .. Len(s) /\ Len(s) \in Nat
  OBVIOUS
<1>2. DOMAIN s = 1 .. Len(s) /\ DOMAIN Tail(s) = 1 .. Len(s) - 1
  BY <1>1
<1>3. /\ \A i \in 1 .. Len(s) - 1 : i + 1 \in 1 .. Len(s) /\ i + 1 # 1
      /\ \A i \in 1 .. Len(s) : i = 1 \/ (i - 1 \in 1 .. Len(s) - 1 /\ (i - 1) + 1 = i)
  BY <1>1
<1> DEFINE t == Tail(s)
<1> HIDE DEF t
<1>4. \A y \in E!Range(s) : y = s[1] \/ y \in E!Range(t)
  <2> SUFFICES ASSUME NEW i \in 1 .. Len(s), i # 1
               PROVE  s[i] \in E!Range(t)
    BY <1>2 DEF E!Range
  <2>1. i - 1 \in 1 .. Len(s) - 1 /\ t[i - 1] = s[(i - 1) + 1] /\ (i - 1) + 1 = i
    BY <1>1, <1>3 DEF t
  <2> QED
    BY <1>2, <2>1 DEF E!Range, t
<1>5. s[1] \in E!Range(s) /\ E!Range(t) \subseteq E!Range(s)
  BY <1>1, <1>2, <1>3 DEF E!Range, t
<1>6. E!IsInjective(s) => E!IsInjective(t) /\ s[1] \notin E!Range(t)
  <2> SUFFICES ASSUME E!IsInjective(s)
               PROVE  E!IsInjective(t) /\ s[1] \notin E!Range(t)
    OBVIOUS
  <2>1. \A i, j \in 1 .. Len(s) : s[i] = s[j] => i = j
    BY <1>2 DEF E!IsInjective
  <2>2. \A i, j \in 1 .. Len(s) - 1 : t[i] = t[j] => i = j
    BY <1>1, <1>3, <2>1 DEF t
  <2>3. \A i \in 1 .. Len(s) - 1 : t[i] # s[1]
    BY <1>1, <1>3, <2>1 DEF t
  <2> QED
    BY <1>2, <2>2, <2>3 DEF E!IsInjective, E!Range, t
<1> QED
  BY <1>1, <1>4, <1>5, <1>6 DEF t

-----------------------------------------------------------------------------
(* The invariant.  A walk is as it should be when a are the modules there  *)
(* are: whoever is owed is not the module left out, and is told or will    *)
(* be; whoever will be told is there, was not told yet, and only once.     *)
WalkSound(p, a) ==
    /\ p \in E!Post
    /\ ~p.lost => p.owed \subseteq p.told \cup E!Range(p.rest)
    /\ E!Range(p.rest) \cap p.told = {} /\ E!IsInjective(p.rest)
    /\ E!Range(p.rest) \cup ({p.at} \ {NoClient}) \subseteq a
    /\ p.exclude \notin p.owed

Walks == posts \in Seq(E!Post) /\ \A i \in 1 .. Len(posts) : WalkSound(posts[i], attached)

(* A module leaves when nothing else is posted: its EVT_QUIT is at the     *)
(* bottom of the posts.                                                    *)
Bottom == \A i \in 1 .. Len(posts) : posts[i].leaving # NoClient => i = Len(posts)

(* Every list has modules that are there, each once; one that is not empty *)
(* is in the map.                                                          *)
Listing ==
    /\ attached \subseteq Module /\ channels \subseteq EventChan
    /\ channelEventMap \subseteq E!Name /\ registered \subseteq E!List \X Module
    /\ erased \in BOOLEAN
    /\ lists \in [E!List -> Seq(Module)]
    /\ E!ListsDistinct /\ E!NoStaleRegistration
    /\ \A l \in E!List : E!Range(lists[l]) \subseteq attached
    /\ \A name \in E!Name \ channelEventMap : lists[name] = <<>>

IInv == Listing /\ Walks /\ Bottom

LEMMA InvariantSuffices == IInv => E!ToldOnce
<1> SUFFICES ASSUME IInv
             PROVE  E!ToldOnce
  OBVIOUS
<1>1. DOMAIN posts = 1 .. Len(posts) /\ \A i \in DOMAIN posts : WalkSound(posts[i], attached)
  BY DEF IInv, Walks
<1>2. E!TypeOK
  BY DEF IInv, Listing, Walks, E!TypeOK
<1>3. E!EveryListenerTold /\ E!NobodyToldTwice /\ E!OnlyAttachedTold
  BY <1>1 DEF WalkSound, E!EveryListenerTold, E!NobodyToldTwice, E!OnlyAttachedTold
<1> QED
  BY <1>2, <1>3 DEF IInv, Listing, E!ToldOnce

LEMMA EmptyList == E!Range(<<>>) = {} /\ E!IsInjective(<<>>) /\ \A T : <<>> \in Seq(T)
  BY DEF E!Range, E!IsInjective

LEMMA InitInvariant == E!Init => IInv
<1> SUFFICES ASSUME E!Init
             PROVE  IInv
  OBVIOUS
<1>1. posts \in Seq(E!Post) /\ Len(posts) = 0
  BY EmptySeq DEF E!Init
<1>2. \A l \in E!List : lists[l] = <<>>
  BY DEF E!Init
<1>3. lists \in [E!List -> Seq(Module)]
  BY EmptyList DEF E!Init
<1>4. Listing
  BY <1>2, <1>3, EmptyList DEF E!Init, Listing, E!ListsDistinct, E!NoStaleRegistration, E!List
<1> QED
  BY <1>1, <1>4 DEF IInv, Walks, Bottom

-----------------------------------------------------------------------------
(* What registering and unregistering do to a walk.                        *)
ErasedOne(p, l, x) ==
    IF p.list = l
    THEN [p EXCEPT !.owed = @ \ {x},
                   !.told = IF p.live THEN @ \ {x} ELSE @,
                   !.rest = IF p.live THEN E!RemoveFirst(@, x) ELSE @,
                   !.lost = @ \/ (p.live /\ p.at = x)]
    ELSE p

AppendedOne(p, l, x) ==
    IF p.list = l /\ p.live THEN [p EXCEPT !.rest = Append(@, x)] ELSE p

(* The list l of p, if p is still bound to one, no longer has x.           *)
Cleared(p, l, x) ==
    p.list = l /\ p.live => x \notin E!Range(p.rest) /\ x \notin p.told

LEMMA ErasingOne ==
    ASSUME NEW p, NEW a, NEW l, NEW x, WalkSound(p, a)
    PROVE  /\ WalkSound(ErasedOne(p, l, x), a)
           /\ ErasedOne(p, l, x).leaving = p.leaving
           /\ Cleared(ErasedOne(p, l, x), l, x)
<1>1. /\ p \in E!Post
      /\ ~p.lost => p.owed \subseteq p.told \cup E!Range(p.rest)
      /\ E!Range(p.rest) \cap p.told = {} /\ E!IsInjective(p.rest)
      /\ E!Range(p.rest) \cup ({p.at} \ {NoClient}) \subseteq a
      /\ p.exclude \notin p.owed
  BY DEF WalkSound
<1>2. CASE p.list # l
  BY <1>1, <1>2 DEF ErasedOne, Cleared, WalkSound
<1>3. CASE p.list = l /\ ~p.live
  <2>1. ErasedOne(p, l, x) = [p EXCEPT !.owed = @ \ {x}]
    BY <1>1, <1>3 DEF ErasedOne, E!Post
  <2> QED
    BY <1>1, <1>3, <2>1 DEF E!Post, WalkSound, Cleared
<1>4. CASE p.list = l /\ p.live
  <2> DEFINE r == E!RemoveFirst(p.rest, x)
  <2>1. r \in Seq(Module) /\ E!IsInjective(r) /\ E!Range(r) = E!Range(p.rest) \ {x}
    <3>1. p.rest \in Seq(Module)
      BY <1>1 DEF E!Post
    <3> QED
      BY <1>1, <3>1, Erasing
  <2> DEFINE q == [p EXCEPT !.owed = @ \ {x}, !.told = @ \ {x}, !.rest = r,
                            !.lost = @ \/ p.at = x]
  <2>2. ErasedOne(p, l, x) = q
    BY <1>4 DEF ErasedOne
  <2> HIDE DEF r
  <2>3. /\ q \in E!Post /\ q.owed = p.owed \ {x} /\ q.told = p.told \ {x} /\ q.rest = r
        /\ q.lost = (p.lost \/ p.at = x) /\ q.at = p.at /\ q.exclude = p.exclude
        /\ q.leaving = p.leaving
    BY <1>1, <2>1 DEF E!Post
  <2> HIDE DEF q
  <2> QED
    BY <1>1, <2>1, <2>2, <2>3 DEF WalkSound, Cleared
<1> QED
  BY <1>2, <1>3, <1>4

LEMMA AppendingOne ==
    ASSUME NEW p, NEW a, NEW l, NEW x \in Module \cap a, WalkSound(p, a), Cleared(p, l, x)
    PROVE  /\ WalkSound(AppendedOne(p, l, x), a)
           /\ AppendedOne(p, l, x).leaving = p.leaving
<1>1. /\ p \in E!Post
      /\ ~p.lost => p.owed \subseteq p.told \cup E!Range(p.rest)
      /\ E!Range(p.rest) \cap p.told = {} /\ E!IsInjective(p.rest)
      /\ E!Range(p.rest) \cup ({p.at} \ {NoClient}) \subseteq a
      /\ p.exclude \notin p.owed
  BY DEF WalkSound
<1>2. CASE ~(p.list = l /\ p.live)
  BY <1>1, <1>2 DEF AppendedOne, WalkSound
<1>3. CASE p.list = l /\ p.live
  <2> DEFINE r == Append(p.rest, x)
  <2>1. r \in Seq(Module) /\ E!IsInjective(r) /\ E!Range(r) = E!Range(p.rest) \cup {x}
    <3>1. p.rest \in Seq(Module)
      BY <1>1 DEF E!Post
    <3> QED
      BY <1>1, <1>3, <3>1, AppendedTo DEF Cleared
  <2> DEFINE q == [p EXCEPT !.rest = r]
  <2>2. AppendedOne(p, l, x) = q
    BY <1>3 DEF AppendedOne
  <2> HIDE DEF r
  <2>3. /\ q \in E!Post /\ q.owed = p.owed /\ q.told = p.told /\ q.rest = r
        /\ q.lost = p.lost /\ q.at = p.at /\ q.exclude = p.exclude
        /\ q.leaving = p.leaving
    BY <1>1, <2>1 DEF E!Post
  <2> HIDE DEF q
  <2> QED
    BY <1>1, <1>3, <2>1, <2>2, <2>3 DEF WalkSound, Cleared
<1> QED
  BY <1>2, <1>3

(* A posts of which each walk was changed and stays as it should be.       *)
LEMMA ErasingAll ==
    ASSUME NEW s \in Seq(E!Post), NEW a, NEW l, NEW x,
           \A i \in 1 .. Len(s) : WalkSound(s[i], a)
    PROVE  LET t == E!Erased(s, l, x) IN
           /\ t \in Seq(E!Post) /\ Len(t) = Len(s)
           /\ \A i \in 1 .. Len(s) : /\ WalkSound(t[i], a) /\ t[i].leaving = s[i].leaving
                                     /\ Cleared(t[i], l, x)
<1> DEFINE t == E!Erased(s, l, x)
<1>1. Len(s) \in Nat /\ DOMAIN s = 1 .. Len(s)
  OBVIOUS
<1>2. t = [i \in 1 .. Len(s) |-> ErasedOne(s[i], l, x)]
  BY <1>1 DEF E!Erased, ErasedOne
<1>3. \A i \in 1 .. Len(s) :
        /\ WalkSound(ErasedOne(s[i], l, x), a) /\ ErasedOne(s[i], l, x) \in E!Post
        /\ ErasedOne(s[i], l, x).leaving = s[i].leaving
        /\ Cleared(ErasedOne(s[i], l, x), l, x)
  <2> SUFFICES ASSUME NEW i \in 1 .. Len(s)
               PROVE  LET q == ErasedOne(s[i], l, x) IN
                      /\ WalkSound(q, a) /\ q \in E!Post
                      /\ q.leaving = s[i].leaving /\ Cleared(q, l, x)
    OBVIOUS
  <2>1. WalkSound(s[i], a)
    OBVIOUS
  <2> DEFINE p == s[i]
  <2>2. WalkSound(p, a)
    BY <2>1
  <2> HIDE DEF p
  <2>3. /\ WalkSound(ErasedOne(p, l, x), a) /\ ErasedOne(p, l, x).leaving = p.leaving
        /\ Cleared(ErasedOne(p, l, x), l, x)
    BY <2>2, ErasingOne
  <2> QED
    BY <2>3 DEF p, WalkSound
<1> HIDE DEF t
<1>4. t \in Seq(E!Post) /\ Len(t) = Len(s)
  BY <1>1, <1>2, <1>3
<1> QED
  BY <1>2, <1>3, <1>4 DEF t

LEMMA AppendingAll ==
    ASSUME NEW s \in Seq(E!Post), NEW a, NEW l, NEW x \in Module \cap a,
           \A i \in 1 .. Len(s) : WalkSound(s[i], a) /\ Cleared(s[i], l, x)
    PROVE  LET t == E!Appended(s, l, x) IN
           /\ t \in Seq(E!Post) /\ Len(t) = Len(s)
           /\ \A i \in 1 .. Len(s) : WalkSound(t[i], a) /\ t[i].leaving = s[i].leaving
<1> DEFINE t == E!Appended(s, l, x)
<1>1. Len(s) \in Nat /\ DOMAIN s = 1 .. Len(s)
  OBVIOUS
<1>2. t = [i \in 1 .. Len(s) |-> AppendedOne(s[i], l, x)]
  BY <1>1 DEF E!Appended, AppendedOne
<1>3. \A i \in 1 .. Len(s) :
        /\ WalkSound(AppendedOne(s[i], l, x), a) /\ AppendedOne(s[i], l, x) \in E!Post
        /\ AppendedOne(s[i], l, x).leaving = s[i].leaving
  BY AppendingOne DEF WalkSound
<1> HIDE DEF t
<1>4. t \in Seq(E!Post) /\ Len(t) = Len(s)
  BY <1>1, <1>2, <1>3
<1> QED
  BY <1>2, <1>3, <1>4 DEF t

-----------------------------------------------------------------------------
(* One lemma per action.                                                   *)

(* What is at the top of the posts.                                        *)
LEMMA Top ==
    ASSUME IInv, posts # <<>>
    PROVE  /\ Len(posts) \in Nat \ {0} /\ Head(posts) = posts[1]
           /\ WalkSound(posts[1], attached) /\ posts[1] \in E!Post
           /\ Tail(posts) \in Seq(E!Post) /\ Len(Tail(posts)) = Len(posts) - 1
           /\ \A i \in 1 .. Len(posts) - 1 :
                Tail(posts)[i] = posts[i + 1] /\ i + 1 \in 1 .. Len(posts)
           /\ posts[1].leaving # NoClient => Tail(posts) = <<>>
<1>1. posts \in Seq(E!Post) /\ \A i \in 1 .. Len(posts) : WalkSound(posts[i], attached)
  BY DEF IInv, Walks
<1>2. /\ Len(posts) \in Nat \ {0} /\ Head(posts) = posts[1] /\ posts[1] \in E!Post
      /\ Tail(posts) \in Seq(E!Post) /\ Len(Tail(posts)) = Len(posts) - 1
      /\ \A i \in 1 .. Len(posts) - 1 :
           Tail(posts)[i] = posts[i + 1] /\ i + 1 \in 1 .. Len(posts)
      /\ 1 \in 1 .. Len(posts)
  BY <1>1
<1>3. ASSUME posts[1].leaving # NoClient
      PROVE  Tail(posts) = <<>>
  <2>1. 1 = Len(posts)
    BY <1>2, <1>3 DEF IInv, Bottom
  <2> DEFINE t == Tail(posts)
  <2>2. t \in Seq(E!Post) /\ Len(t) = Len(posts) - 1
    BY <1>2
  <2> HIDE DEF t
  <2>3. Len(t) = 0
    BY <2>1, <2>2
  <2>4. t = <<>>
    BY <2>2, <2>3, EmptySeq
  <2> QED
    BY <2>4 DEF t
<1> QED
  BY <1>1, <1>2, <1>3

(* A posts whose top is taken off or replaced.                             *)
LEMMA Popping ==
    ASSUME IInv, posts # <<>>, posts' = Tail(posts), attached' = attached
    PROVE  Walks' /\ Bottom'
<1>1. \A i \in 1 .. Len(posts) : /\ WalkSound(posts[i], attached)
                                 /\ posts[i].leaving # NoClient => i = Len(posts)
  BY DEF IInv, Walks, Bottom
<1>2. Len(posts') = Len(posts) - 1 /\ Len(posts) \in Nat
  BY Top
<1>3. \A i \in 1 .. Len(posts') :
        posts'[i] = posts[i + 1] /\ i + 1 \in 1 .. Len(posts)
  BY <1>2, Top
<1>4. Walks'
  BY <1>1, <1>3, Top DEF Walks
<1>5. Bottom'
  <2> SUFFICES ASSUME NEW i \in 1 .. Len(posts'), posts'[i].leaving # NoClient
               PROVE  i = Len(posts')
    BY DEF Bottom
  <2> DEFINE n == Len(posts)
  <2> DEFINE m == Len(posts')
  <2>1. i + 1 = n /\ m = n - 1 /\ n \in Nat /\ i \in 1 .. m
    BY <1>1, <1>2, <1>3
  <2> HIDE DEF n, m
  <2>2. i = m
    BY <2>1
  <2> QED
    BY <2>2 DEF m
<1> QED
  BY <1>4, <1>5

LEMMA Posting ==
    ASSUME IInv, NEW p, WalkSound(p, attached), p.leaving # NoClient => posts = <<>>,
           posts' = <<p>> \o posts, attached' = attached
    PROVE  Walks' /\ Bottom'
<1>1. posts \in Seq(E!Post) /\ p \in E!Post
  BY DEF IInv, Walks, WalkSound
<1>2. /\ Len(posts) \in Nat /\ posts' \in Seq(E!Post) /\ Len(posts') = 1 + Len(posts)
      /\ posts'[1] = p /\ \A i \in 1 .. Len(posts) : posts'[1 + i] = posts[i]
  BY <1>1
<1>3. \A i \in 1 .. Len(posts') :
        \/ i = 1 /\ posts'[i] = p
        \/ i - 1 \in 1 .. Len(posts) /\ posts'[i] = posts[i - 1]
  <2> SUFFICES ASSUME NEW i \in 1 .. Len(posts'), i # 1
               PROVE  i - 1 \in 1 .. Len(posts) /\ posts'[i] = posts[i - 1]
    BY <1>2
  <2>1. i - 1 \in 1 .. Len(posts) /\ 1 + (i - 1) = i
    BY <1>2
  <2> QED
    BY <1>2, <2>1
<1>4. \A i \in 1 .. Len(posts) : /\ WalkSound(posts[i], attached)
                                 /\ posts[i].leaving # NoClient => i = Len(posts)
  BY DEF IInv, Walks, Bottom
<1>5. Walks'
  BY <1>2, <1>3, <1>4 DEF Walks
<1>6. Bottom'
  <2> SUFFICES ASSUME NEW i \in 1 .. Len(posts'), posts'[i].leaving # NoClient
               PROVE  i = Len(posts')
    BY DEF Bottom
  <2>1. CASE i = 1 /\ posts'[i] = p
    <3>1. Len(posts) = 0
      BY <2>1, EmptySeq
    <3> QED
      BY <1>2, <2>1, <3>1
  <2>2. CASE i - 1 \in 1 .. Len(posts) /\ posts'[i] = posts[i - 1]
    <3>1. i - 1 = Len(posts)
      BY <1>4, <2>2
    <3> QED
      BY <1>2, <3>1
  <2> QED
    BY <1>3, <2>1, <2>2
<1> QED
  BY <1>5, <1>6

LEMMA Replacing ==
    ASSUME IInv, posts # <<>>, NEW p, WalkSound(p, attached),
           p.leaving # NoClient => posts[1].leaving # NoClient,
           posts' = <<p>> \o Tail(posts), attached' = attached
    PROVE  Walks' /\ Bottom'
<1>1. /\ Tail(posts) \in Seq(E!Post) /\ p \in E!Post /\ Len(posts) \in Nat \ {0}
      /\ Len(Tail(posts)) = Len(posts) - 1
      /\ \A i \in 1 .. Len(posts) - 1 :
           Tail(posts)[i] = posts[i + 1] /\ i + 1 \in 1 .. Len(posts)
  BY Top DEF WalkSound
<1>2. /\ posts' \in Seq(E!Post) /\ Len(posts') = 1 + (Len(posts) - 1)
      /\ posts'[1] = p /\ \A i \in 1 .. Len(posts) - 1 : posts'[1 + i] = Tail(posts)[i]
  <2> DEFINE t == Tail(posts)
  <2>1. /\ t \in Seq(E!Post) /\ Len(t) = Len(posts) - 1 /\ posts' = <<p>> \o t
    BY <1>1
  <2> HIDE DEF t
  <2>2. /\ posts' \in Seq(E!Post) /\ Len(posts') = 1 + Len(t)
        /\ posts'[1] = p /\ \A i \in 1 .. Len(t) : posts'[1 + i] = t[i]
    BY <1>1, <2>1
  <2> QED
    BY <2>1, <2>2 DEF t
<1>3. Len(posts') = Len(posts)
  BY <1>1, <1>2
<1>4. \A i \in 1 .. Len(posts) : i = 1 \/ posts'[i] = posts[i]
  <2> SUFFICES ASSUME NEW i \in 1 .. Len(posts), i # 1
               PROVE  posts'[i] = posts[i]
    OBVIOUS
  <2>1. i - 1 \in 1 .. Len(posts) - 1 /\ 1 + (i - 1) = i /\ (i - 1) + 1 = i
    BY <1>1
  <2> QED
    BY <1>1, <1>2, <2>1
<1>5. \A i \in 1 .. Len(posts) : /\ WalkSound(posts[i], attached)
                                 /\ posts[i].leaving # NoClient => i = Len(posts)
  BY DEF IInv, Walks, Bottom
<1>6. Walks'
  BY <1>2, <1>3, <1>4, <1>5 DEF Walks
<1>7. Bottom'
  <2>1. 1 \in 1 .. Len(posts)
    BY <1>1
  <2> QED
    BY <1>2, <1>3, <1>4, <1>5, <2>1 DEF Bottom
<1> QED
  BY <1>6, <1>7

LEMMA NewPostSound ==
    ASSUME IInv, NEW l \in E!List, NEW exclude \in Module \cup {NoClient},
           NEW chan \in EventChan \cup {NoChan}, NEW leaving \in Module \cup {NoClient}
    PROVE  /\ WalkSound(E!NewPost(l, exclude, chan, leaving), attached)
           /\ E!NewPost(l, exclude, chan, leaving).leaving = leaving
           /\ WalkSound([E!NewPost(l, exclude, chan, leaving) EXCEPT !.checked = TRUE], attached)
           /\ [E!NewPost(l, exclude, chan, leaving) EXCEPT !.checked = TRUE].leaving = leaving
<1> DEFINE s == lists[l]
<1>1. s \in Seq(Module) /\ E!IsInjective(s) /\ E!Range(s) \subseteq attached
  BY DEF IInv, Listing, E!ListsDistinct
<1>2. E!Range(s) \subseteq Module
  BY <1>1 DEF IInv, Listing
<1> DEFINE p == E!NewPost(l, exclude, chan, leaving)
<1> DEFINE q == [p EXCEPT !.checked = TRUE]
<1>3. p = [list |-> l, at |-> NoClient, rest |-> s, live |-> TRUE, lost |-> FALSE,
           exclude |-> exclude, owed |-> E!Range(s) \ {exclude}, told |-> {},
           chan |-> chan, checked |-> FALSE, leaving |-> leaving]
  BY DEF E!NewPost
<1> HIDE DEF s, p
<1>4. /\ p \in E!Post /\ p.at = NoClient /\ p.rest = s /\ p.exclude = exclude
      /\ p.owed = E!Range(s) \ {exclude} /\ p.told = {} /\ p.leaving = leaving
  BY <1>1, <1>2, <1>3 DEF E!Post
<1>5. /\ q \in E!Post /\ q.at = NoClient /\ q.rest = s /\ q.exclude = exclude
      /\ q.owed = E!Range(s) \ {exclude} /\ q.told = {} /\ q.leaving = leaving
  BY <1>4 DEF E!Post
<1> HIDE DEF q
<1>6. WalkSound(p, attached) /\ WalkSound(q, attached)
  BY <1>1, <1>4, <1>5 DEF WalkSound
<1> QED
  BY <1>4, <1>5, <1>6 DEF p, q

(* Registering and unregistering.                                          *)
LEMMA ListsAfter ==
    ASSUME IInv, NEW l \in E!List, NEW s \in Seq(Module), E!IsInjective(s),
           E!Range(s) \subseteq attached,
           attached' = attached, channels' = channels, erased' = erased,
           lists' = [lists EXCEPT ![l] = s],
           channelEventMap' \subseteq channelEventMap \cup ({l} \cap E!Name),
           channelEventMap \ {l} \subseteq channelEventMap',
           l \in E!Name \ channelEventMap' => s = <<>>,
           registered' \subseteq E!List \X Module,
           \A r \in registered : r[1] # l => r \in registered',
           \A x \in E!Range(s) : <<l, x>> \in registered'
    PROVE  Listing'
<1>1. /\ attached \subseteq Module /\ channels \subseteq EventChan
      /\ channelEventMap \subseteq E!Name /\ erased \in BOOLEAN
      /\ lists \in [E!List -> Seq(Module)]
      /\ \A k \in E!List : E!IsInjective(lists[k]) /\ E!Range(lists[k]) \subseteq attached
      /\ \A k \in E!List : \A x \in E!Range(lists[k]) : <<k, x>> \in registered
      /\ \A name \in E!Name \ channelEventMap : lists[name] = <<>>
  BY DEF IInv, Listing, E!ListsDistinct, E!NoStaleRegistration
<1>2. /\ lists' \in [E!List -> Seq(Module)] /\ lists'[l] = s
      /\ \A k \in E!List : k # l => lists'[k] = lists[k]
  BY <1>1
<1>3. \A k \in E!List : E!IsInjective(lists'[k]) /\ E!Range(lists'[k]) \subseteq attached
  BY <1>1, <1>2
<1>4. ASSUME NEW k \in E!List, NEW x \in E!Range(lists'[k])
      PROVE  <<k, x>> \in registered'
  <2>1. CASE k = l
    BY <1>2, <2>1
  <2>2. CASE k # l
    <3> DEFINE r == <<k, x>>
    <3>1. r \in registered /\ r[1] # l
      BY <1>1, <1>2, <2>2
    <3> HIDE DEF r
    <3>2. r \in registered'
      BY <3>1
    <3> QED
      BY <3>2 DEF r
  <2> QED
    BY <2>1, <2>2
<1>5. \A name \in E!Name \ channelEventMap' : lists'[name] = <<>>
  BY <1>1, <1>2 DEF E!List
<1>6. channelEventMap' \subseteq E!Name
  BY <1>1
<1> QED
  BY <1>1, <1>2, <1>3, <1>4, <1>5, <1>6 DEF Listing, E!ListsDistinct, E!NoStaleRegistration

LEMMA RegisterEventStep ==
    ASSUME IInv, NEW l \in E!List, NEW x \in Module, E!RegisterEvent(l, x)
    PROVE  IInv'
<1>1. /\ x \in attached /\ lists' = [lists EXCEPT ![l] = Append(E!RemoveFirst(@, x), x)]
      /\ channelEventMap' = channelEventMap \cup ({l} \cap E!Name)
      /\ registered' = registered \cup {<<l, x>>}
      /\ posts' = E!Appended(E!Erased(posts, l, x), l, x)
      /\ attached' = attached /\ channels' = channels /\ erased' = erased
  BY DEF E!RegisterEvent, E!Register, E!Calls
<1> DEFINE old == lists[l]
<1> DEFINE cut == E!RemoveFirst(old, x)
<1> DEFINE s == Append(cut, x)
<1>2. /\ old \in Seq(Module) /\ E!IsInjective(old) /\ E!Range(old) \subseteq attached
      /\ lists \in [E!List -> Seq(Module)]
  BY DEF IInv, Listing, E!ListsDistinct
<1>3. lists' = [lists EXCEPT ![l] = s]
  BY <1>1
<1>4. \A y \in E!Range(old) : <<l, y>> \in registered
  BY DEF IInv, Listing, E!NoStaleRegistration
<1> HIDE DEF old
<1>5. cut \in Seq(Module) /\ E!IsInjective(cut) /\ E!Range(cut) = E!Range(old) \ {x}
  BY <1>2, Erasing
<1> HIDE DEF cut
<1>6. s \in Seq(Module) /\ E!IsInjective(s) /\ E!Range(s) = E!Range(cut) \cup {x}
  BY <1>5, AppendedTo
<1> HIDE DEF s
<1>7. E!Range(s) \subseteq attached /\ \A y \in E!Range(s) : <<l, y>> \in registered'
  BY <1>1, <1>2, <1>4, <1>5, <1>6
<1>8. registered' \subseteq E!List \X Module /\ \A r \in registered : r \in registered'
  BY <1>1 DEF IInv, Listing
<1>9. Listing'
  <2>1. /\ channelEventMap' \subseteq channelEventMap \cup ({l} \cap E!Name)
        /\ channelEventMap \ {l} \subseteq channelEventMap'
        /\ l \in E!Name \ channelEventMap' => s = <<>>
    BY <1>1
  <2> QED
    BY <1>1, <1>3, <1>6, <1>7, <1>8, <2>1, ListsAfter
<1>10. posts \in Seq(E!Post) /\ \A i \in 1 .. Len(posts) : WalkSound(posts[i], attached)
  BY DEF IInv, Walks
<1> DEFINE e == E!Erased(posts, l, x)
<1>11. /\ e \in Seq(E!Post) /\ Len(e) = Len(posts)
       /\ \A i \in 1 .. Len(posts) :
            /\ WalkSound(e[i], attached) /\ e[i].leaving = posts[i].leaving
            /\ Cleared(e[i], l, x)
  BY <1>10, ErasingAll
<1>12. posts' = E!Appended(e, l, x)
  BY <1>1
<1> HIDE DEF e
<1>13. /\ posts' \in Seq(E!Post) /\ Len(posts') = Len(posts)
       /\ \A i \in 1 .. Len(posts) :
            WalkSound(posts'[i], attached) /\ posts'[i].leaving = e[i].leaving
  <2>1. \A i \in 1 .. Len(e) : WalkSound(e[i], attached) /\ Cleared(e[i], l, x)
    BY <1>11
  <2> QED
    BY <1>1, <1>11, <1>12, <2>1, AppendingAll
<1>14. Walks' /\ Bottom'
  BY <1>1, <1>11, <1>13 DEF IInv, Walks, Bottom
<1> QED
  BY <1>9, <1>14 DEF IInv

LEMMA UnRegisterEventStep ==
    ASSUME IInv, NEW l \in E!List, NEW x \in Module, E!UnRegisterEvent(l, x)
    PROVE  IInv'
<1>1. /\ lists' = [lists EXCEPT ![l] = E!RemoveFirst(@, x)]
      /\ channelEventMap' =
            IF lists[l] # <<>> /\ E!RemoveFirst(lists[l], x) = <<>>
            THEN channelEventMap \ {l} ELSE channelEventMap
      /\ registered' = registered \ {<<l, x>>}
      /\ posts' = E!Erased(posts, l, x)
      /\ attached' = attached /\ channels' = channels /\ erased' = erased
  BY DEF E!UnRegisterEvent, E!UnRegister
<1> DEFINE old == lists[l]
<1> DEFINE s == E!RemoveFirst(old, x)
<1>2. /\ old \in Seq(Module) /\ E!IsInjective(old) /\ E!Range(old) \subseteq attached
      /\ lists \in [E!List -> Seq(Module)]
      /\ l \in E!Name \ channelEventMap => old = <<>>
  BY DEF IInv, Listing, E!ListsDistinct
<1>3. /\ lists' = [lists EXCEPT ![l] = s]
      /\ channelEventMap' = IF old # <<>> /\ s = <<>>
                            THEN channelEventMap \ {l} ELSE channelEventMap
  BY <1>1
<1>4. \A y \in E!Range(old) : <<l, y>> \in registered
  BY DEF IInv, Listing, E!NoStaleRegistration
<1> HIDE DEF old
<1>5. s \in Seq(Module) /\ E!IsInjective(s) /\ E!Range(s) = E!Range(old) \ {x}
  BY <1>2, Erasing
<1>6. old = <<>> => s = <<>>
  <2> SUFFICES ASSUME old = <<>>
               PROVE  s = <<>>
    OBVIOUS
  <2>1. ~\E i \in 1 .. Len(old) : old[i] = x
    OBVIOUS
  <2> QED
    BY <2>1 DEF E!RemoveFirst
<1> HIDE DEF s
<1>7. E!Range(s) \subseteq attached /\ \A y \in E!Range(s) : <<l, y>> \in registered'
  <2> SUFFICES ASSUME NEW y \in E!Range(s)
               PROVE  <<l, y>> \in registered'
    BY <1>2, <1>5
  <2>1. y # x /\ <<l, y>> \in registered
    BY <1>4, <1>5
  <2> QED
    BY <1>1, <2>1
<1>8. registered' \subseteq E!List \X Module
  BY <1>1 DEF IInv, Listing
<1>9. \A r \in registered : r[1] # l => r \in registered'
  BY <1>1
<1>10. Listing'
  <2>1. /\ channelEventMap' \subseteq channelEventMap \cup ({l} \cap E!Name)
        /\ channelEventMap \ {l} \subseteq channelEventMap'
    BY <1>3
  <2>2. l \in E!Name \ channelEventMap' => s = <<>>
    BY <1>2, <1>3, <1>6
  <2> QED
    BY <1>1, <1>3, <1>5, <1>7, <1>8, <1>9, <2>1, <2>2, ListsAfter
<1>11. posts \in Seq(E!Post) /\ \A i \in 1 .. Len(posts) : WalkSound(posts[i], attached)
  BY DEF IInv, Walks
<1> DEFINE e == E!Erased(posts, l, x)
<1>12. /\ e \in Seq(E!Post) /\ Len(e) = Len(posts)
       /\ \A i \in 1 .. Len(posts) :
            /\ WalkSound(e[i], attached) /\ e[i].leaving = posts[i].leaving
            /\ Cleared(e[i], l, x)
  BY <1>11, ErasingAll
<1>14. posts' = e
  BY <1>1
<1> HIDE DEF e
<1>13. Walks' /\ Bottom'
  BY <1>1, <1>12, <1>14 DEF IInv, Walks, Bottom
<1> QED
  BY <1>10, <1>13 DEF IInv

-----------------------------------------------------------------------------
(* Posting.                                                                *)
LEMMA SameLists ==
    ASSUME IInv, UNCHANGED <<attached, channels, lists, channelEventMap, registered, erased>>
    PROVE  Listing'
BY DEF IInv, Listing, E!ListsDistinct, E!NoStaleRegistration

LEMMA BeginStep ==
    ASSUME IInv, NEW p, WalkSound(p, attached), p.leaving # NoClient => posts = <<>>, E!Begin(p)
    PROVE  IInv'
<1>1. /\ posts' = <<p>> \o posts /\ attached' = attached
      /\ UNCHANGED <<attached, channels, lists, channelEventMap, registered, erased>>
  BY DEF E!Begin
<1>2. Walks' /\ Bottom'
  BY <1>1, Posting
<1> QED
  BY <1>1, <1>2, SameLists DEF IInv

LEMMA EventNames ==
    /\ Event \subseteq E!List /\ EventChan \subseteq E!List /\ All \in E!List /\ EVT_QUIT \in E!List
    /\ NoChan \notin E!Name /\ NoClient \notin Module
BY EventsAssumed DEF E!EventListsAssumption, E!List, E!Name

LEMMA PostEventStep ==
    ASSUME IInv, NEW e \in Event, NEW x \in Module \cup {NoClient}, E!PostEvent(e, x)
    PROVE  IInv'
<1> DEFINE p == E!NewPost(e, x, NoChan, NoClient)
<1>1. WalkSound(p, attached) /\ p.leaving = NoClient
  <2>1. /\ e \in E!List /\ NoChan \in EventChan \cup {NoChan}
        /\ NoClient \in Module \cup {NoClient}
    BY EventNames
  <2>2. WalkSound(p, attached)
    BY <2>1, NewPostSound
  <2> QED
    BY <2>2 DEF E!NewPost
<1>2. E!Begin(p)
  BY DEF E!PostEvent
<1> HIDE DEF p
<1> QED
  BY <1>1, <1>2, BeginStep

LEMMA PostChannelEventStep ==
    ASSUME IInv, NEW c \in EventChan, E!PostChannelEvent(c)
    PROVE  IInv'
<1> DEFINE p == [E!NewPost(All, NoClient, c, NoClient) EXCEPT !.checked = TRUE]
<1>1. WalkSound(p, attached) /\ p.leaving = NoClient
  BY EventNames, NewPostSound
<1>2. E!Begin(p)
  BY DEF E!PostChannelEvent
<1> HIDE DEF p
<1> QED
  BY <1>1, <1>2, BeginStep

LEMMA PostChannelKickStep ==
    ASSUME IInv, NEW c \in EventChan, E!PostChannelKick(c)
    PROVE  IInv'
<1> DEFINE p == E!NewPost(All, NoClient, c, NoClient)
<1>1. WalkSound(p, attached) /\ p.leaving = NoClient
  <2>1. /\ All \in E!List /\ NoChan \in EventChan \cup {NoChan}
        /\ NoClient \in Module \cup {NoClient}
    BY EventNames
  <2>2. WalkSound(p, attached)
    BY <2>1, NewPostSound
  <2> QED
    BY <2>2 DEF E!NewPost
<1>2. E!Begin(p)
  BY DEF E!PostChannelKick
<1> HIDE DEF p
<1> QED
  BY <1>1, <1>2, BeginStep

LEMMA DetachClientStep ==
    ASSUME IInv, NEW x \in Module, E!DetachClient(x)
    PROVE  IInv'
<1> DEFINE p == E!NewPost(EVT_QUIT, NoClient, NoChan, x)
<1>1. WalkSound(p, attached)
  BY EventNames, NewPostSound
<1>2. E!Begin(p) /\ posts = <<>>
  BY DEF E!DetachClient, E!Idle
<1> HIDE DEF p
<1> QED
  BY <1>1, <1>2, BeginStep

LEMMA TellStep == IInv /\ E!Tell => IInv'
<1> SUFFICES ASSUME IInv, E!Tell
             PROVE  IInv'
  OBVIOUS
<1> DEFINE p == posts[1]
<1> DEFINE x == Head(p.rest)
<1> DEFINE r == Tail(p.rest)
<1> DEFINE q == [p EXCEPT !.at = x, !.rest = r, !.told = @ \cup ({x} \ {p.exclude})]
<1>1. /\ posts # <<>> /\ Head(posts) = p /\ WalkSound(p, attached)
      /\ p.rest # <<>> /\ attached' = attached
      /\ UNCHANGED <<attached, channels, lists, channelEventMap, registered, erased>>
  BY Top DEF E!Tell
<1>2. posts' = <<q>> \o Tail(posts)
  BY <1>1 DEF E!Tell
<1>3. /\ p \in E!Post
      /\ ~p.lost => p.owed \subseteq p.told \cup E!Range(p.rest)
      /\ E!Range(p.rest) \cap p.told = {} /\ E!IsInjective(p.rest)
      /\ E!Range(p.rest) \cup ({p.at} \ {NoClient}) \subseteq attached
      /\ p.exclude \notin p.owed
  BY <1>1 DEF WalkSound
<1>4. /\ x \in Module /\ r \in Seq(Module) /\ E!IsInjective(r) /\ x \notin E!Range(r)
      /\ E!Range(p.rest) = {x} \cup E!Range(r)
  <2> DEFINE s == p.rest
  <2>1. s \in Seq(Module) /\ s # <<>> /\ E!IsInjective(s)
    BY <1>1, <1>3 DEF E!Post
  <2> HIDE DEF s
  <2>2. /\ Head(s) \in Module /\ Tail(s) \in Seq(Module)
        /\ E!IsInjective(Tail(s)) /\ Head(s) \notin E!Range(Tail(s))
        /\ E!Range(s) = {Head(s)} \cup E!Range(Tail(s))
    BY <2>1, Taking
  <2> QED
    BY <2>2 DEF s
<1> HIDE DEF p, x, r
<1>5. /\ q \in E!Post /\ q.owed = p.owed /\ q.told = p.told \cup ({x} \ {p.exclude})
      /\ q.rest = r /\ q.lost = p.lost /\ q.at = x /\ q.exclude = p.exclude
      /\ q.leaving = p.leaving
  BY <1>3, <1>4 DEF E!Post
<1> HIDE DEF q
<1>6. WalkSound(q, attached)
  BY <1>3, <1>4, <1>5 DEF WalkSound
<1>7. q.leaving # NoClient => posts[1].leaving # NoClient
  BY <1>5 DEF p
<1>8. Walks' /\ Bottom'
  BY <1>1, <1>2, <1>6, <1>7, Replacing
<1> QED
  BY <1>1, <1>8, SameLists DEF IInv

LEMMA UseErasedStep == IInv /\ E!UseErased => IInv'
BY DEF IInv, E!UseErased, Listing, E!ListsDistinct, E!NoStaleRegistration, Walks, Bottom

LEMMA ReturnStep == IInv /\ E!Return => IInv'
<1> SUFFICES ASSUME IInv, E!Return
             PROVE  IInv'
  OBVIOUS
<1>1. /\ posts # <<>> /\ posts' = Tail(posts) /\ attached' = attached
      /\ UNCHANGED <<attached, channels, lists, channelEventMap, registered, erased>>
  BY DEF E!Return, E!Finished
<1> QED
  BY <1>1, Popping, SameLists DEF IInv

LEMMA ToChannelStep == IInv /\ E!ToChannel => IInv'
<1> SUFFICES ASSUME IInv, E!ToChannel
             PROVE  IInv'
  OBVIOUS
<1> DEFINE c == Head(posts).chan
<1> DEFINE p == E!NewPost(c, NoClient, NoChan, NoClient)
<1>1. /\ posts # <<>> /\ c \in channelEventMap /\ attached' = attached
      /\ posts' = <<p>> \o Tail(posts)
      /\ UNCHANGED <<attached, channels, lists, channelEventMap, registered, erased>>
  BY DEF E!ToChannel, E!Finished
<1>2. c \in E!List
  BY <1>1 DEF IInv, Listing, E!List
<1> HIDE DEF c
<1>3. WalkSound(p, attached) /\ p.leaving = NoClient
  <2>1. NoChan \in EventChan \cup {NoChan} /\ NoClient \in Module \cup {NoClient}
    OBVIOUS
  <2>2. WalkSound(p, attached)
    BY <1>2, <2>1, NewPostSound
  <2> QED
    BY <2>2 DEF E!NewPost
<1> HIDE DEF p
<1>4. Walks' /\ Bottom'
  BY <1>1, <1>3, Replacing
<1> QED
  BY <1>1, <1>4, SameLists DEF IInv

LEMMA ToGoneChannelStep == IInv /\ E!ToGoneChannel => IInv'
<1> SUFFICES ASSUME IInv, E!ToGoneChannel
             PROVE  IInv'
  OBVIOUS
<1> DEFINE c == Head(posts).chan
<1>1. /\ posts # <<>> /\ c \in channelEventMap
      /\ channelEventMap' = channelEventMap \ {c}
      /\ lists' = [lists EXCEPT ![c] = <<>>]
      /\ posts' = [i \in 1 .. Len(posts) - 1 |->
                      [posts[i + 1] EXCEPT !.live = @ /\ posts[i + 1].list # c]]
      /\ UNCHANGED <<attached, channels, registered, erased>>
  BY DEF E!ToGoneChannel, E!Finished
<1>2. c \in E!List
  BY <1>1 DEF IInv, Listing, E!List
<1> HIDE DEF c
<1>3. Listing'
  <2> DEFINE s == <<>>
  <2>1. /\ s \in Seq(Module) /\ E!IsInjective(s) /\ E!Range(s) = {}
    BY EmptyList
  <2>2. lists' = [lists EXCEPT ![c] = s] /\ s = <<>>
    BY <1>1
  <2> HIDE DEF s
  <2>3. registered \subseteq E!List \X Module
    BY DEF IInv, Listing
  <2> QED
    BY <1>1, <1>2, <2>1, <2>2, <2>3, ListsAfter
<1>4. \A i \in 1 .. Len(posts) : /\ WalkSound(posts[i], attached)
                                 /\ posts[i].leaving # NoClient => i = Len(posts)
  BY DEF IInv, Walks, Bottom
<1> DEFINE dead(i) == [posts[i + 1] EXCEPT !.live = @ /\ posts[i + 1].list # c]
<1>5. ASSUME NEW i \in 1 .. Len(posts) - 1
      PROVE  /\ i + 1 \in 1 .. Len(posts) /\ dead(i) \in E!Post
             /\ WalkSound(dead(i), attached) /\ dead(i).leaving = posts[i + 1].leaving
  <2>1. i + 1 \in 1 .. Len(posts)
    BY <1>1, Top
  <2> DEFINE p == posts[i + 1]
  <2> DEFINE q == [p EXCEPT !.live = @ /\ p.list # c]
  <2>2. WalkSound(p, attached)
    BY <1>4, <2>1
  <2> HIDE DEF p
  <2>3. /\ q \in E!Post /\ q.owed = p.owed /\ q.told = p.told /\ q.rest = p.rest
        /\ q.lost = p.lost /\ q.at = p.at /\ q.exclude = p.exclude /\ q.leaving = p.leaving
    BY <2>2 DEF E!Post, WalkSound
  <2>4. WalkSound(q, attached)
    BY <2>2, <2>3 DEF WalkSound
  <2> QED
    BY <2>1, <2>3, <2>4 DEF p
<1>6. posts' = [i \in 1 .. Len(posts) - 1 |-> dead(i)]
  BY <1>1
<1> HIDE DEF dead
<1>7. Len(posts) - 1 \in Nat
  BY <1>1, Top
<1> DEFINE n == Len(posts) - 1
<1>8. /\ posts' \in Seq(E!Post) /\ Len(posts') = n /\ \A i \in 1 .. n : posts'[i] = dead(i)
  <2>1. n \in Nat /\ posts' = [i \in 1 .. n |-> dead(i)] /\ \A i \in 1 .. n : dead(i) \in E!Post
    BY <1>5, <1>6, <1>7
  <2> HIDE DEF n
  <2> QED
    BY <2>1
<1>9. Walks'
  <2>1. ASSUME NEW i \in 1 .. n
        PROVE  WalkSound(posts'[i], attached)
    <3>1. i \in 1 .. Len(posts) - 1
      OBVIOUS
    <3> QED
      BY <1>5, <1>8, <3>1
  <2> HIDE DEF n
  <2> QED
    BY <1>1, <1>8, <2>1 DEF Walks
<1>10. Bottom'
  <2> SUFFICES ASSUME NEW i \in 1 .. Len(posts'), posts'[i].leaving # NoClient
               PROVE  i = Len(posts')
    BY DEF Bottom
  <2>1. i + 1 = Len(posts)
    BY <1>4, <1>5, <1>8
  <2>2. i = n
    BY <1>8, <2>1
  <2> QED
    BY <1>8, <2>2
<1> QED
  BY <1>3, <1>9, <1>10 DEF IInv

-----------------------------------------------------------------------------
(* Modules and channels that come and go.                                  *)
LEMMA AttachClientStep ==
    ASSUME IInv, NEW x \in Module, E!AttachClient(x)
    PROVE  IInv'
<1>1. /\ posts = <<>> /\ posts' = posts /\ attached' = attached \cup {x}
      /\ UNCHANGED <<channels, lists, channelEventMap, registered, erased>>
  BY DEF E!AttachClient, E!Idle
<1>2. Listing'
  BY <1>1 DEF IInv, Listing, E!ListsDistinct, E!NoStaleRegistration
<1>3. Len(posts') = 0
  BY <1>1, EmptySeq
<1> QED
  BY <1>1, <1>2, <1>3 DEF IInv, Walks, Bottom

LEMMA removeClientStep == IInv /\ E!removeClient => IInv'
<1> SUFFICES ASSUME IInv, E!removeClient
             PROVE  IInv'
  OBVIOUS
<1> DEFINE x == Head(posts).leaving
<1>1. /\ posts # <<>> /\ x # NoClient
      /\ lists' = [l \in E!List |-> E!RemoveFirst(lists[l], x)]
      /\ registered' = {r \in registered : r[2] # x}
      /\ attached' = attached \ {x} /\ posts' = Tail(posts)
      /\ UNCHANGED <<channels, channelEventMap, erased>>
  BY DEF E!removeClient, E!Finished, E!RemovedFromAll
<1>2. posts' = <<>>
  BY <1>1, Top
<1> HIDE DEF x
<1>3. /\ lists \in [E!List -> Seq(Module)]
      /\ \A l \in E!List : E!IsInjective(lists[l]) /\ E!Range(lists[l]) \subseteq attached
      /\ \A l \in E!List : \A y \in E!Range(lists[l]) : <<l, y>> \in registered
      /\ \A name \in E!Name \ channelEventMap : lists[name] = <<>>
  BY DEF IInv, Listing, E!ListsDistinct, E!NoStaleRegistration
<1>4. ASSUME NEW l \in E!List
      PROVE  /\ lists'[l] \in Seq(Module) /\ E!IsInjective(lists'[l])
             /\ E!Range(lists'[l]) = E!Range(lists[l]) \ {x}
             /\ lists[l] = <<>> => lists'[l] = <<>>
  <2> DEFINE s == lists[l]
  <2>1. s \in Seq(Module) /\ E!IsInjective(s) /\ lists'[l] = E!RemoveFirst(s, x)
    BY <1>1, <1>3
  <2> HIDE DEF s
  <2>2. s = <<>> => E!RemoveFirst(s, x) = s
    BY DEF E!RemoveFirst
  <2>3. /\ E!RemoveFirst(s, x) \in Seq(Module) /\ E!IsInjective(E!RemoveFirst(s, x))
        /\ E!Range(E!RemoveFirst(s, x)) = E!Range(s) \ {x}
    BY <2>1, Erasing
  <2> QED
    BY <2>1, <2>2, <2>3 DEF s
<1>5. ASSUME NEW l \in E!List, NEW y \in E!Range(lists'[l])
      PROVE  <<l, y>> \in registered'
  <2> DEFINE r == <<l, y>>
  <2>1. r \in registered /\ r[2] # x
    BY <1>3, <1>4
  <2> HIDE DEF r
  <2>2. r \in registered'
    BY <1>1, <2>1
  <2> QED
    BY <2>2 DEF r
<1>6. lists' \in [E!List -> Seq(Module)]
  BY <1>1, <1>4
<1>7. \A l \in E!List : E!Range(lists'[l]) \subseteq attached'
  BY <1>1, <1>3, <1>4
<1>8. \A name \in E!Name \ channelEventMap' : lists'[name] = <<>>
  BY <1>1, <1>3, <1>4 DEF E!List
<1>9. Listing'
  BY <1>1, <1>4, <1>5, <1>6, <1>7, <1>8 DEF IInv, Listing, E!ListsDistinct, E!NoStaleRegistration
<1>10. posts' \in Seq(E!Post) /\ Len(posts') = 0
  BY <1>2, EmptySeq
<1> QED
  BY <1>9, <1>10 DEF IInv, Walks, Bottom

LEMMA ChannelStep ==
    ASSUME IInv, NEW c \in EventChan, E!Create(c) \/ E!Destroy(c)
    PROVE  IInv'
BY DEF IInv, E!Create, E!Destroy, Listing, E!ListsDistinct, E!NoStaleRegistration, Walks, Bottom

LEMMA NextInvariant == IInv /\ [E!Next]_(E!vars) => IInv'
<1> SUFFICES ASSUME IInv, [E!Next]_(E!vars)
             PROVE  IInv'
  OBVIOUS
<1>1. CASE UNCHANGED E!vars
  BY <1>1 DEF IInv, E!vars, Listing, E!ListsDistinct, E!NoStaleRegistration, Walks, Bottom
<1>2. ASSUME NEW l \in E!List, NEW x \in Module, E!RegisterEvent(l, x) \/ E!UnRegisterEvent(l, x)
      PROVE  IInv'
  BY <1>2, RegisterEventStep, UnRegisterEventStep
<1>3. ASSUME NEW e \in Event, NEW x \in Module \cup {NoClient}, E!PostEvent(e, x)
      PROVE  IInv'
  BY <1>3, PostEventStep
<1>4. ASSUME NEW c \in EventChan,
             E!PostChannelEvent(c) \/ E!PostChannelKick(c) \/ E!Create(c) \/ E!Destroy(c)
      PROVE  IInv'
  BY <1>4, PostChannelEventStep, PostChannelKickStep, ChannelStep
<1>5. ASSUME NEW x \in Module, E!AttachClient(x) \/ E!DetachClient(x)
      PROVE  IInv'
  BY <1>5, AttachClientStep, DetachClientStep
<1>6. CASE E!Tell \/ E!Return \/ E!ToChannel \/ E!ToGoneChannel \/ E!removeClient \/ E!UseErased
  BY <1>6, TellStep, ReturnStep, ToChannelStep, ToGoneChannelStep, removeClientStep,
     UseErasedStep
<1> QED
  BY <1>1, <1>2, <1>3, <1>4, <1>5, <1>6 DEF E!Next

-----------------------------------------------------------------------------
(* Whatever the modules do when they are told of an event (register,       *)
(* unregister, post events themselves, destroy the channel, be removed),   *)
(* each one that is registered all along is told of it exactly once, and   *)
(* nobody who is not registered or not there: eventList, channelEventMap   *)
(* and the walks of PostEvent() and PostChannelEvent().                    *)
THEOREM ListenersToldOnce == E!Spec => []ToldOnce
<1>1. IInv /\ [E!Next]_(E!vars) => IInv'
  BY NextInvariant
<1> QED
  BY InitInvariant, <1>1, InvariantSuffices, PTL DEF E!Spec, ToldOnce
=============================================================================
