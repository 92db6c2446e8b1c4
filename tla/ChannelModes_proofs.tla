------------------------ MODULE ChannelModes_proofs ------------------------
(* Proof that the table of this server holds what the network holds, for   *)
(* any clients, masks, keys and MaxModes: for calls about any number of    *)
(* users and masks, and so messages, and for lists of one or two changes   *)
(* where somebody else chooses them (Some), as in the model.               *)
(*                                                                         *)
(* Table and network are compared mode by mode: what either says of a mode *)
(* after a change depends on what it said of that mode before (OnMoves,    *)
(* NetMoves), and after the same change both say the same (Agrees) or the  *)
(* mode is in spoiled.  The network takes the changes in messages of at    *)
(* most MaxModes, and from a bot only as long as that is operator; the     *)
(* table has some of them at once and some later.                          *)
EXTENDS ChannelModes, WellFoundedInduction, SequenceTheorems, FiniteSetTheorems, TLAPS

-----------------------------------------------------------------------------
(* Least numbers, and recursions over the changes of a call.               *)

(* A set of numbers has a least one.                                       *)
LEMMA Least == ASSUME NEW S \in SUBSET Nat, S # {} PROVE \E m \in S : \A n \in S : m =< n
<1>1. PICK m \in S : \A n \in S : ~(<<n, m>> \in OpToRel(<, Nat))
  BY NatLessThanWellFounded, WFMin
<1>2. \A n \in S : m =< n
  <2> SUFFICES ASSUME NEW n \in S PROVE m =< n
    OBVIOUS
  <2>1. ~(n < m)
    BY <1>1 DEF OpToRel
  <2> QED
    BY <2>1
<1> QED
  BY <1>2

(* Induction up to n, for sets.                                            *)
LEMMA Reaches ==
    ASSUME NEW n \in Nat, NEW S, 0 \in S, \A i \in 1..n : i - 1 \in S => i \in S
    PROVE  \A i \in 0..n : i \in S
<1> DEFINE Bad == {i \in 0..n : i \notin S}
<1> SUFFICES ASSUME Bad # {} PROVE FALSE
  OBVIOUS
<1>1. PICK m \in Bad : \A k \in Bad : m =< k
  <2>1. Bad \in SUBSET Nat
    OBVIOUS
  <2> HIDE DEF Bad
  <2> QED
    BY <2>1, Least
<1>2. m \in 0..n /\ m \notin S
  BY <1>1
<1>3. m # 0 /\ m - 1 \in 0..n /\ m \in 1..n /\ ~(m =< m - 1)
  BY <1>2
<1>4. m - 1 \in S
  BY <1>1, <1>3
<1> QED
  BY <1>2, <1>3, <1>4

(* The recursive functions of the model: n steps G from b, which stay in A. *)
Run(n, A, b, G, f) ==
    /\ f \in [0..n -> A]
    /\ f[0] = b
    /\ \A i \in 1..n : f[i] = G[i][f[i - 1]]

(* A recursion over 1..n that stays in A has a value at each place.        *)
LEMMA Runs ==
    ASSUME NEW n \in Nat, NEW A, NEW b \in A, NEW G \in [1..n -> [A -> A]]
    PROVE  \E f : Run(n, A, b, G, f)
<1> DEFINE S == {k \in 0..n : \E f : Run(k, A, b, G, f)}
<1>1. 0 \in S
  <2>1. Run(0, A, b, G, [i \in 0..0 |-> b])
    BY DEF Run
  <2> QED
    BY <2>1
<1>2. ASSUME NEW k \in 1..n, k - 1 \in S PROVE k \in S
  <2>1. PICK f : Run(k - 1, A, b, G, f)
    BY <1>2
  <2> DEFINE h == [i \in 0..k |-> IF i = k THEN G[k][f[k - 1]] ELSE f[i]]
  <2>2. \A i \in 0..k : i # k => i \in 0..(k - 1)
    OBVIOUS
  <2>3. f[k - 1] \in A /\ G[k][f[k - 1]] \in A
    BY <2>1 DEF Run
  <2>4. h \in [0..k -> A]
    <3> SUFFICES ASSUME NEW i \in 0..k PROVE h[i] \in A
      OBVIOUS
    <3> QED
      BY <2>1, <2>2, <2>3 DEF Run
  <2>5. h[0] = b
    BY <2>1 DEF Run
  <2>6. ASSUME NEW i \in 1..k PROVE h[i] = G[i][h[i - 1]]
    <3>1. i - 1 \in 0..k /\ i \in 0..k /\ i - 1 # k
      OBVIOUS
    <3>2. h[i - 1] = f[i - 1]
      BY <3>1
    <3>3. CASE i = k
      BY <3>1, <3>2, <3>3
    <3>4. CASE i # k
      <4>1. i \in 1..(k - 1) /\ h[i] = f[i]
        BY <3>1, <3>4
      <4> QED
        BY <2>1, <3>2, <4>1 DEF Run
    <3> QED
      BY <3>3, <3>4
  <2> HIDE DEF h
  <2>7. Run(k, A, b, G, h)
    BY <2>4, <2>5, <2>6 DEF Run
  <2>8. k \in 0..n
    OBVIOUS
  <2> QED
    BY <2>7, <2>8
<1> HIDE DEF S
<1>3. \A i \in 0..n : i \in S
  BY <1>1, <1>2, Reaches
<1>4. n \in S
  BY <1>3
<1> QED
  BY <1>4 DEF S

Fit == {c \in Change :
    /\ c.mode \in Keyed => c.arg \in Value \cup {None}
    /\ c.mode \in {"o", "v"} => c.arg \in User \cup {None}
    /\ c.mode = "b" => c.arg \in Mask \cup {None}}
Whole == {c \in Fit : NeedsArgument(c) => c.arg # None}

(* A change of the table, and of the network, gives modes again.           *)
LEMMA OnChangeType == ASSUME NEW t \in Modes, NEW c \in Whole PROVE OnChange(t, c) \in Modes
<1>1. c.mode \in Plain \cup Keyed \cup Listed /\ c.plus \in BOOLEAN
  BY DEF Whole, Fit, Change
<1>2. t.on \in SUBSET (Plain \cup Keyed) /\ t.arg \in [Keyed -> Value \cup {None}]
      /\ t.ops \in SUBSET User /\ t.voices \in SUBSET User /\ t.bans \in [Mask -> 0..MaxCopies]
      /\ DOMAIN t = {"on", "arg", "ops", "voices", "bans"}
  BY DEF Modes
<1>3. CASE c.mode = "t"
  BY <1>1, <1>2, <1>3 DEF OnChange, OnMode, Modes, Plain, Keyed, Listed
<1>4. CASE c.mode \in Keyed
  <2>1. c.arg \in Value \cup {None}
    BY <1>4 DEF Whole, Fit
  <2>2. \A l \in Keyed, v \in Value \cup {None} : Present(t, l, v) \in Modes
    BY <1>2 DEF Present, Modes, Keyed, Plain
  <2>3. \A l \in Keyed : Absent(t, l) \in Modes
    BY <1>2 DEF Absent, Modes, Keyed, Plain
  <2>4. CASE c.mode = "A"
    BY <1>2, <2>1, <2>2, <2>3, <2>4 DEF OnChange, OnModeA, Modes, Keyed, Plain, Listed
  <2>5. CASE c.mode # "A"
    BY <1>4, <2>1, <2>2, <2>3, <2>5 DEF OnChange, OnModeK, OnModeL, OnModeU, Keyed, Plain, Listed
  <2> QED
    BY <2>4, <2>5
<1>5. CASE c.mode \in {"o", "v"}
  <2>1. c.arg \in User
    BY <1>5 DEF Whole, Fit, NeedsArgument, Listed
  <2> QED
    BY <1>2, <1>5, <2>1 DEF OnChange, OnModeO, OnModeV, Modes, Keyed, Plain
<1>6. CASE c.mode = "b"
  <2>1. c.arg \in Mask
    BY <1>6 DEF Whole, Fit, NeedsArgument, Listed
  <2>2. \A u \in Modes, m \in Mask : SetBan(u, m) \in Modes /\ RemoveBan(u, m) \in Modes
    <3> SUFFICES ASSUME NEW u \in Modes, NEW m \in Mask
                 PROVE  SetBan(u, m) \in Modes /\ RemoveBan(u, m) \in Modes
      OBVIOUS
    <3>1. u.bans \in [Mask -> 0..MaxCopies] /\ u.bans[m] \in 0..MaxCopies
      BY DEF Modes
    <3>2. /\ (IF u.bans[m] < MaxCopies THEN u.bans[m] + 1 ELSE u.bans[m]) \in 0..MaxCopies
          /\ (IF u.bans[m] > 0 THEN u.bans[m] - 1 ELSE u.bans[m]) \in 0..MaxCopies
      BY <3>1 DEF MaxCopies
    <3> QED
      BY <3>1, <3>2 DEF SetBan, RemoveBan, Modes
  <2>3. [t EXCEPT !.bans = [m \in Mask |-> IF <<c.arg, m>> \in Covers THEN 0 ELSE t.bans[m]]] \in Modes
    <3>1. [m \in Mask |-> IF <<c.arg, m>> \in Covers THEN 0 ELSE t.bans[m]] \in [Mask -> 0..MaxCopies]
      BY <1>2 DEF MaxCopies
    <3> QED
      BY <1>2, <3>1 DEF Modes
  <2> QED
    BY <1>6, <2>1, <2>2, <2>3 DEF OnChange, OnModeB, Keyed, Plain
<1> QED
  BY <1>1, <1>3, <1>4, <1>5, <1>6 DEF Plain, Listed

(* What the changes of a call do, one after the other; and so for each of  *)
(* the recursions below: a sequence of values that starts with the first,  *)
(* goes on by the step and ends with the result.                           *)
LEMMA OnChangesTrace ==
    ASSUME NEW t \in Modes, NEW s \in Seq(Whole)
    PROVE  \E h \in [0..Len(s) -> Modes] :
               /\ h[0] = t
               /\ \A i \in 1..Len(s) : h[i] = OnChange(h[i - 1], s[i])
               /\ OnChanges(t, s) = h[Len(s)]
<1> DEFINE n == Len(s)
<1> DEFINE G == [i \in 1..n |-> [x \in Modes |-> OnChange(x, s[i])]]
<1>1. n \in Nat /\ \A i \in 1..n : s[i] \in Whole
  OBVIOUS
<1>2. t \in Modes
  OBVIOUS
<1>3. G \in [1..n -> [Modes -> Modes]]
  <2> SUFFICES ASSUME NEW i \in 1..n PROVE [x \in Modes |-> OnChange(x, s[i])] \in [Modes -> Modes]
    OBVIOUS
  <2>1. \A x \in Modes : OnChange(x, s[i]) \in Modes
    BY <1>1, OnChangeType
  <2> QED
    BY <2>1
<1>4. PICK g : Run(n, Modes, t, G, g)
  <2> HIDE DEF G, n
  <2> QED
    BY <1>1, <1>2, <1>3, Runs
<1>5. \A i \in 1..n : g[i - 1] \in Modes /\ g[i] = OnChange(g[i - 1], s[i])
  <2> SUFFICES ASSUME NEW i \in 1..n PROVE g[i - 1] \in Modes /\ g[i] = OnChange(g[i - 1], s[i])
    OBVIOUS
  <2>1. i - 1 \in 0..n
    OBVIOUS
  <2>2. g[i - 1] \in Modes /\ g[i] = G[i][g[i - 1]]
    BY <1>4, <2>1 DEF Run
  <2> QED
    BY <2>2
<1>6. g = [i \in 0..n |-> IF i = 0 THEN t ELSE OnChange(g[i - 1], s[i])]
  <2>1. \A i \in 0..n : i # 0 => i \in 1..n
    OBVIOUS
  <2> HIDE DEF n
  <2> QED
    BY <1>4, <1>5, <2>1 DEF Run
<1> HIDE DEF G
<1> DEFINE f == CHOOSE f : f = [i \in 0..n |-> IF i = 0 THEN t ELSE OnChange(f[i - 1], s[i])]
<1>7. OnChanges(t, s) = f[n]
  BY DEF OnChanges
<1>8. f = [i \in 0..n |-> IF i = 0 THEN t ELSE OnChange(f[i - 1], s[i])]
  <2> HIDE DEF n
  <2> QED
    BY <1>6
<1> HIDE DEF f, n
<1>9. f[0] = t /\ \A i \in 1..n : f[i] = OnChange(f[i - 1], s[i])
  <2>1. 0 \in 0..n /\ \A i \in 1..n : i \in 0..n /\ i # 0
    BY <1>1
  <2> QED
    BY <1>8, <2>1
<1>10. \A i \in 0..n : f[i] \in Modes
  <2> DEFINE S == {j \in 0..n : f[j] \in Modes }
  <2>1. 0 \in S
    BY <1>1, <1>2, <1>9
  <2>2. ASSUME NEW i \in 1..n, i - 1 \in S PROVE i \in S
    <3>1. f[i - 1] \in Modes /\ f[i] = OnChange(f[i - 1], s[i]) /\ s[i] \in Whole
      BY <1>1, <1>9, <2>2
    <3>2. f[i] \in Modes
      BY <3>1, OnChangeType
    <3>3. i \in 0..n
      BY <1>1
    <3> QED
      BY <3>2, <3>3
  <2> HIDE DEF S
  <2>3. \A i \in 0..n : i \in S
    BY <1>1, <2>1, <2>2, Reaches
  <2> QED
    BY <2>3 DEF S
<1>11. f \in [0..n -> Modes]
  BY <1>8, <1>10
<1> QED
  BY <1>7, <1>9, <1>11 DEF n

LEMMA NetChangeType == ASSUME NEW t \in Modes, NEW c \in Fit PROVE NetChange(t, c) \in Modes
<1>1. CASE NeedsArgument(c) /\ c.arg = None
  BY <1>1 DEF NetChange
<1>2. CASE ~(NeedsArgument(c) /\ c.arg = None)
  <2>1. c \in Whole
    BY <1>2 DEF Whole
  <2>2. OnChange(t, c) \in Modes
    BY <2>1, OnChangeType
  <2>3. Absent(t, "A") \in Modes
    BY DEF Absent, Modes, Keyed, Plain
  <2> QED
    BY <2>2, <2>3 DEF NetChange
<1> QED
  BY <1>1, <1>2

Acc == [modes : Modes, args : 0..MaxModes]

LEMMA NetNextType == ASSUME NEW a \in Acc, NEW c \in Fit PROVE NetNext(a, c) \in Acc
<1>1. a.modes \in Modes /\ a.args \in 0..MaxModes /\ MaxModes \in Nat
  BY ModesAssumption DEF Acc
<1>2. NetChange(a.modes, c) \in Modes
  BY <1>1, NetChangeType
<1>3. a.args # MaxModes => a.args + 1 \in 0..MaxModes
  BY <1>1
<1> HIDE DEF Acc
<1>4. [a EXCEPT !.modes = NetChange(@, c)] \in Acc
  BY <1>2 DEF Acc
<1>5. a.args # MaxModes => [modes |-> NetChange(a.modes, c), args |-> a.args + 1] \in Acc
  BY <1>2, <1>3 DEF Acc
<1> QED
  BY <1>4, <1>5 DEF NetNext

(* The same of the changes the network makes,                              *)
LEMMA NetChangesTrace ==
    ASSUME NEW t \in Modes, NEW s \in Seq(Fit)
    PROVE  \E h \in [0..Len(s) -> Modes] :
               /\ h[0] = t
               /\ \A i \in 1..Len(s) : h[i] = NetChange(h[i - 1], s[i])
               /\ NetChanges(t, s) = h[Len(s)]
<1> DEFINE n == Len(s)
<1> DEFINE G == [i \in 1..n |-> [x \in Modes |-> NetChange(x, s[i])]]
<1>1. n \in Nat /\ \A i \in 1..n : s[i] \in Fit
  OBVIOUS
<1>2. t \in Modes
  OBVIOUS
<1>3. G \in [1..n -> [Modes -> Modes]]
  <2> SUFFICES ASSUME NEW i \in 1..n PROVE [x \in Modes |-> NetChange(x, s[i])] \in [Modes -> Modes]
    OBVIOUS
  <2>1. \A x \in Modes : NetChange(x, s[i]) \in Modes
    BY <1>1, NetChangeType
  <2> QED
    BY <2>1
<1>4. PICK g : Run(n, Modes, t, G, g)
  <2> HIDE DEF G, n
  <2> QED
    BY <1>1, <1>2, <1>3, Runs
<1>5. \A i \in 1..n : g[i - 1] \in Modes /\ g[i] = NetChange(g[i - 1], s[i])
  <2> SUFFICES ASSUME NEW i \in 1..n PROVE g[i - 1] \in Modes /\ g[i] = NetChange(g[i - 1], s[i])
    OBVIOUS
  <2>1. i - 1 \in 0..n
    OBVIOUS
  <2>2. g[i - 1] \in Modes /\ g[i] = G[i][g[i - 1]]
    BY <1>4, <2>1 DEF Run
  <2> QED
    BY <2>2
<1>6. g = [i \in 0..n |-> IF i = 0 THEN t ELSE NetChange(g[i - 1], s[i])]
  <2>1. \A i \in 0..n : i # 0 => i \in 1..n
    OBVIOUS
  <2> HIDE DEF n
  <2> QED
    BY <1>4, <1>5, <2>1 DEF Run
<1> HIDE DEF G
<1> DEFINE f == CHOOSE f : f = [i \in 0..n |-> IF i = 0 THEN t ELSE NetChange(f[i - 1], s[i])]
<1>7. NetChanges(t, s) = f[n]
  BY DEF NetChanges
<1>8. f = [i \in 0..n |-> IF i = 0 THEN t ELSE NetChange(f[i - 1], s[i])]
  <2> HIDE DEF n
  <2> QED
    BY <1>6
<1> HIDE DEF f, n
<1>9. f[0] = t /\ \A i \in 1..n : f[i] = NetChange(f[i - 1], s[i])
  <2>1. 0 \in 0..n /\ \A i \in 1..n : i \in 0..n /\ i # 0
    BY <1>1
  <2> QED
    BY <1>8, <2>1
<1>10. \A i \in 0..n : f[i] \in Modes
  <2> DEFINE S == {j \in 0..n : f[j] \in Modes }
  <2>1. 0 \in S
    BY <1>1, <1>2, <1>9
  <2>2. ASSUME NEW i \in 1..n, i - 1 \in S PROVE i \in S
    <3>1. f[i - 1] \in Modes /\ f[i] = NetChange(f[i - 1], s[i]) /\ s[i] \in Fit
      BY <1>1, <1>9, <2>2
    <3>2. f[i] \in Modes
      BY <3>1, NetChangeType
    <3>3. i \in 0..n
      BY <1>1
    <3> QED
      BY <3>2, <3>3
  <2> HIDE DEF S
  <2>3. \A i \in 0..n : i \in S
    BY <1>1, <2>1, <2>2, Reaches
  <2> QED
    BY <2>3 DEF S
<1>11. f \in [0..n -> Modes]
  BY <1>8, <1>10
<1> QED
  BY <1>7, <1>9, <1>11 DEF n

(* of those of one message, with the count of its arguments,               *)
LEMMA NetMessageTrace ==
    ASSUME NEW t \in Modes, NEW s \in Seq(Fit)
    PROVE  \E h \in [0..Len(s) -> Acc] :
               /\ h[0] = [modes |-> t, args |-> 0]
               /\ \A i \in 1..Len(s) : h[i] = NetNext(h[i - 1], s[i])
               /\ NetMessage(t, s) = h[Len(s)].modes
<1> DEFINE n == Len(s)
<1> DEFINE G == [i \in 1..n |-> [x \in Acc |-> NetNext(x, s[i])]]
<1>1. n \in Nat /\ \A i \in 1..n : s[i] \in Fit
  OBVIOUS
<1>2. [modes |-> t, args |-> 0] \in Acc
  BY ModesAssumption DEF Acc
<1>3. G \in [1..n -> [Acc -> Acc]]
  <2> SUFFICES ASSUME NEW i \in 1..n PROVE [x \in Acc |-> NetNext(x, s[i])] \in [Acc -> Acc]
    OBVIOUS
  <2>1. \A x \in Acc : NetNext(x, s[i]) \in Acc
    BY <1>1, NetNextType
  <2> QED
    BY <2>1
<1>4. PICK g : Run(n, Acc, [modes |-> t, args |-> 0], G, g)
  <2> HIDE DEF G, n
  <2> QED
    BY <1>1, <1>2, <1>3, Runs
<1>5. \A i \in 1..n : g[i - 1] \in Acc /\ g[i] = NetNext(g[i - 1], s[i])
  <2> SUFFICES ASSUME NEW i \in 1..n PROVE g[i - 1] \in Acc /\ g[i] = NetNext(g[i - 1], s[i])
    OBVIOUS
  <2>1. i - 1 \in 0..n
    OBVIOUS
  <2>2. g[i - 1] \in Acc /\ g[i] = G[i][g[i - 1]]
    BY <1>4, <2>1 DEF Run
  <2> QED
    BY <2>2
<1>6. g = [i \in 0..n |-> IF i = 0 THEN [modes |-> t, args |-> 0] ELSE NetNext(g[i - 1], s[i])]
  <2>1. \A i \in 0..n : i # 0 => i \in 1..n
    OBVIOUS
  <2> HIDE DEF n
  <2> QED
    BY <1>4, <1>5, <2>1 DEF Run
<1> HIDE DEF G
<1> DEFINE f == CHOOSE f : f = [i \in 0..n |-> IF i = 0 THEN [modes |-> t, args |-> 0] ELSE NetNext(f[i - 1], s[i])]
<1>7. NetMessage(t, s) = f[n].modes
  BY DEF NetMessage
<1>8. f = [i \in 0..n |-> IF i = 0 THEN [modes |-> t, args |-> 0] ELSE NetNext(f[i - 1], s[i])]
  <2> HIDE DEF n
  <2> QED
    BY <1>6
<1> HIDE DEF f, n
<1>9. f[0] = [modes |-> t, args |-> 0] /\ \A i \in 1..n : f[i] = NetNext(f[i - 1], s[i])
  <2>1. 0 \in 0..n /\ \A i \in 1..n : i \in 0..n /\ i # 0
    BY <1>1
  <2> QED
    BY <1>8, <2>1
<1>10. \A i \in 0..n : f[i] \in Acc
  <2> DEFINE S == {j \in 0..n : f[j] \in Acc }
  <2>1. 0 \in S
    BY <1>1, <1>2, <1>9
  <2>2. ASSUME NEW i \in 1..n, i - 1 \in S PROVE i \in S
    <3>1. f[i - 1] \in Acc /\ f[i] = NetNext(f[i - 1], s[i]) /\ s[i] \in Fit
      BY <1>1, <1>9, <2>2
    <3>2. f[i] \in Acc
      BY <3>1, NetNextType
    <3>3. i \in 0..n
      BY <1>1
    <3> QED
      BY <3>2, <3>3
  <2> HIDE DEF S
  <2>3. \A i \in 0..n : i \in S
    BY <1>1, <2>1, <2>2, Reaches
  <2> QED
    BY <2>3 DEF S
<1>11. f \in [0..n -> Acc]
  BY <1>8, <1>10
<1> QED
  BY <1>7, <1>9, <1>11 DEF n

LEMMA NetMessageType == ASSUME NEW t \in Modes, NEW s \in Seq(Fit) PROVE NetMessage(t, s) \in Modes
<1>1. PICK h \in [0..Len(s) -> Acc] : NetMessage(t, s) = h[Len(s)].modes
  BY NetMessageTrace
<1>2. h[Len(s)] \in Acc
  OBVIOUS
<1> QED
  BY <1>1, <1>2 DEF Acc

(* What the network makes of one of the messages of the bot.               *)
TakesOfBot(m, message) == IF Bot \in m.ops THEN NetMessage(m, message) ELSE m

(* of the messages of a server                                             *)
LEMMA ServerWritesTrace ==
    ASSUME NEW t \in Modes, NEW s \in Seq(Seq(Fit))
    PROVE  \E h \in [0..Len(s) -> Modes] :
               /\ h[0] = t
               /\ \A i \in 1..Len(s) : h[i] = NetMessage(h[i - 1], s[i])
               /\ NetTakes(t, TRUE, s) = h[Len(s)]
<1> DEFINE n == Len(s)
<1> DEFINE G == [i \in 1..n |-> [x \in Modes |-> NetMessage(x, s[i])]]
<1>1. n \in Nat /\ \A i \in 1..n : s[i] \in Seq(Fit)
  OBVIOUS
<1>2. t \in Modes
  OBVIOUS
<1>3. G \in [1..n -> [Modes -> Modes]]
  <2> SUFFICES ASSUME NEW i \in 1..n PROVE [x \in Modes |-> NetMessage(x, s[i])] \in [Modes -> Modes]
    OBVIOUS
  <2>1. \A x \in Modes : NetMessage(x, s[i]) \in Modes
    BY <1>1, NetMessageType
  <2> QED
    BY <2>1
<1>4. PICK g : Run(n, Modes, t, G, g)
  <2> HIDE DEF G, n
  <2> QED
    BY <1>1, <1>2, <1>3, Runs
<1>5. \A i \in 1..n : g[i - 1] \in Modes /\ g[i] = NetMessage(g[i - 1], s[i])
  <2> SUFFICES ASSUME NEW i \in 1..n PROVE g[i - 1] \in Modes /\ g[i] = NetMessage(g[i - 1], s[i])
    OBVIOUS
  <2>1. i - 1 \in 0..n
    OBVIOUS
  <2>2. g[i - 1] \in Modes /\ g[i] = G[i][g[i - 1]]
    BY <1>4, <2>1 DEF Run
  <2> QED
    BY <2>2
<1>6. g = [i \in 0..n |-> IF i = 0 THEN t ELSE NetMessage(g[i - 1], s[i])]
  <2>1. \A i \in 0..n : i # 0 => i \in 1..n
    OBVIOUS
  <2> HIDE DEF n
  <2> QED
    BY <1>4, <1>5, <2>1 DEF Run
<1> HIDE DEF G
<1> DEFINE f == CHOOSE f : f = [i \in 0..n |-> IF i = 0 THEN t ELSE NetMessage(f[i - 1], s[i])]
<1>7. NetTakes(t, TRUE, s) = f[n]
  BY DEF NetTakes
<1>8. f = [i \in 0..n |-> IF i = 0 THEN t ELSE NetMessage(f[i - 1], s[i])]
  <2> HIDE DEF n
  <2> QED
    BY <1>6
<1> HIDE DEF f, n
<1>9. f[0] = t /\ \A i \in 1..n : f[i] = NetMessage(f[i - 1], s[i])
  <2>1. 0 \in 0..n /\ \A i \in 1..n : i \in 0..n /\ i # 0
    BY <1>1
  <2> QED
    BY <1>8, <2>1
<1>10. \A i \in 0..n : f[i] \in Modes
  <2> DEFINE S == {j \in 0..n : f[j] \in Modes }
  <2>1. 0 \in S
    BY <1>1, <1>2, <1>9
  <2>2. ASSUME NEW i \in 1..n, i - 1 \in S PROVE i \in S
    <3>1. f[i - 1] \in Modes /\ f[i] = NetMessage(f[i - 1], s[i]) /\ s[i] \in Seq(Fit)
      BY <1>1, <1>9, <2>2
    <3>2. f[i] \in Modes
      BY <3>1, NetMessageType
    <3>3. i \in 0..n
      BY <1>1
    <3> QED
      BY <3>2, <3>3
  <2> HIDE DEF S
  <2>3. \A i \in 0..n : i \in S
    BY <1>1, <2>1, <2>2, Reaches
  <2> QED
    BY <2>3 DEF S
<1>11. f \in [0..n -> Modes]
  BY <1>8, <1>10
<1> QED
  BY <1>7, <1>9, <1>11 DEF n

(* and of those of a bot, while it is operator.                            *)
LEMMA BotWritesTrace ==
    ASSUME NEW t \in Modes, NEW s \in Seq(Seq(Fit))
    PROVE  \E h \in [0..Len(s) -> Modes] :
               /\ h[0] = t
               /\ \A i \in 1..Len(s) : h[i] = TakesOfBot(h[i - 1], s[i])
               /\ NetTakes(t, FALSE, s) = h[Len(s)]
<1> DEFINE n == Len(s)
<1> DEFINE G == [i \in 1..n |-> [x \in Modes |-> TakesOfBot(x, s[i])]]
<1>1. n \in Nat /\ \A i \in 1..n : s[i] \in Seq(Fit)
  OBVIOUS
<1>2. t \in Modes
  OBVIOUS
<1>3. G \in [1..n -> [Modes -> Modes]]
  <2> SUFFICES ASSUME NEW i \in 1..n PROVE [x \in Modes |-> TakesOfBot(x, s[i])] \in [Modes -> Modes]
    OBVIOUS
  <2>1. \A x \in Modes : TakesOfBot(x, s[i]) \in Modes
    BY <1>1, NetMessageType DEF TakesOfBot
  <2> QED
    BY <2>1
<1>4. PICK g : Run(n, Modes, t, G, g)
  <2> HIDE DEF G, n
  <2> QED
    BY <1>1, <1>2, <1>3, Runs
<1>5. \A i \in 1..n : g[i - 1] \in Modes /\ g[i] = TakesOfBot(g[i - 1], s[i])
  <2> SUFFICES ASSUME NEW i \in 1..n PROVE g[i - 1] \in Modes /\ g[i] = TakesOfBot(g[i - 1], s[i])
    OBVIOUS
  <2>1. i - 1 \in 0..n
    OBVIOUS
  <2>2. g[i - 1] \in Modes /\ g[i] = G[i][g[i - 1]]
    BY <1>4, <2>1 DEF Run
  <2> QED
    BY <2>2
<1>6. g = [i \in 0..n |-> IF i = 0 THEN t ELSE TakesOfBot(g[i - 1], s[i])]
  <2>1. \A i \in 0..n : i # 0 => i \in 1..n
    OBVIOUS
  <2> HIDE DEF n
  <2> QED
    BY <1>4, <1>5, <2>1 DEF Run
<1> HIDE DEF G
<1> DEFINE f == CHOOSE f : f = [i \in 0..n |-> IF i = 0 THEN t ELSE TakesOfBot(f[i - 1], s[i])]
<1>7. NetTakes(t, FALSE, s) = f[n]
  BY DEF NetTakes, TakesOfBot
<1>8. f = [i \in 0..n |-> IF i = 0 THEN t ELSE TakesOfBot(f[i - 1], s[i])]
  <2> HIDE DEF n
  <2> QED
    BY <1>6
<1> HIDE DEF f, n
<1>9. f[0] = t /\ \A i \in 1..n : f[i] = TakesOfBot(f[i - 1], s[i])
  <2>1. 0 \in 0..n /\ \A i \in 1..n : i \in 0..n /\ i # 0
    BY <1>1
  <2> QED
    BY <1>8, <2>1
<1>10. \A i \in 0..n : f[i] \in Modes
  <2> DEFINE S == {j \in 0..n : f[j] \in Modes }
  <2>1. 0 \in S
    BY <1>1, <1>2, <1>9
  <2>2. ASSUME NEW i \in 1..n, i - 1 \in S PROVE i \in S
    <3>1. f[i - 1] \in Modes /\ f[i] = TakesOfBot(f[i - 1], s[i]) /\ s[i] \in Seq(Fit)
      BY <1>1, <1>9, <2>2
    <3>2. f[i] \in Modes
      BY <3>1, NetMessageType DEF TakesOfBot
    <3>3. i \in 0..n
      BY <1>1
    <3> QED
      BY <3>2, <3>3
  <2> HIDE DEF S
  <2>3. \A i \in 0..n : i \in S
    BY <1>1, <2>1, <2>2, Reaches
  <2> QED
    BY <2>3 DEF S
<1>11. f \in [0..n -> Modes]
  BY <1>8, <1>10
<1> QED
  BY <1>7, <1>9, <1>11 DEF n

-----------------------------------------------------------------------------
(* What is said of one mode, and what a change does to it.                 *)

(* What a table says of one mode, "bot" being the op of the bot.           *)
View(t, l) ==
    CASE l = "o" -> t.ops
      [] l = "bot" -> t.ops \cap {Bot}
      [] l = "v" -> t.voices
      [] l = "b" -> t.bans
      [] l \in Plain -> t.on \cap {l}
      [] OTHER -> IF l \in t.on THEN {t.arg[l]} ELSE {}

Viewed == AnyMode \cup {"bot"}

(* Two tables are the same of a mode if they say the same of it.           *)
LEMMA SameView ==
    ASSUME NEW t \in Modes, NEW u \in Modes, NEW l \in AnyMode
    PROVE  Same(t, u, l) <=> View(t, l) = View(u, l)
<1>1. CASE l \in Listed
  BY <1>1 DEF Same, View, Listed, Plain
<1>2. CASE l \in Plain
  <2>1. l = "t" /\ View(t, l) = t.on \cap {"t"} /\ View(u, l) = u.on \cap {"t"}
    BY <1>2 DEF View, Plain
  <2>2. Same(t, u, l) <=> ("t" \in t.on <=> "t" \in u.on)
    BY <2>1 DEF Same, Keyed
  <2> QED
    BY <2>1, <2>2
<1>3. CASE l \in Keyed
  BY <1>3 DEF Same, View, Plain, Keyed
<1> QED
  BY <1>1, <1>2, <1>3 DEF AnyMode

(* What a change may change the view of: by mistake, k.                    *)
Touches(c, l) ==
    \/ c.mode = l
    \/ l = "bot" /\ c.mode = "o" /\ c.arg = Bot
    \/ l = "k" /\ c.mode = "A" /\ ~c.plus

(* A change leaves what the table says of the other modes.                 *)
LEMMA Untouched ==
    ASSUME NEW t \in Modes, NEW c \in Whole, NEW l \in Viewed, ~Touches(c, l)
    PROVE  View(OnChange(t, c), l) = View(t, l)
<1>1. c.mode \in Plain \cup Keyed \cup Listed /\ c.plus \in BOOLEAN /\ c.mode # l
  BY DEF Whole, Fit, Change, Touches
<1>2. t.on \in SUBSET (Plain \cup Keyed) /\ t.arg \in [Keyed -> Value \cup {None}]
      /\ DOMAIN t = {"on", "arg", "ops", "voices", "bans"}
  BY DEF Modes
<1>3. CASE c.mode \in Plain
  BY <1>1, <1>2, <1>3 DEF OnChange, OnMode, View, Plain, Viewed, AnyMode, Keyed, Listed
<1>4. CASE c.mode = "A"
  BY <1>1, <1>2, <1>4 DEF OnChange, OnModeA, Present, View, Plain, Viewed, AnyMode, Keyed, Listed, Touches
<1>5. CASE c.mode \in {"k", "l", "U"}
  BY <1>1, <1>2, <1>5 DEF OnChange, OnModeK, OnModeL, OnModeU, Present, Absent, View, Plain, Viewed, AnyMode, Keyed, Listed
<1>6. CASE c.mode \in {"o", "v"}
  BY <1>1, <1>2, <1>6, SMTT(30) DEF OnChange, OnModeO, OnModeV, View, Plain, Viewed, AnyMode, Keyed, Listed, Touches
<1>7. CASE c.mode = "b"
  BY <1>1, <1>2, <1>7 DEF OnChange, OnModeB, SetBan, RemoveBan, View, Plain, Viewed, AnyMode, Keyed, Listed
<1> QED
  BY <1>1, <1>3, <1>4, <1>5, <1>6, <1>7 DEF Keyed, Listed

(* What changes do to a flag, to the operators and to the bans.            *)
Flagged(S, c) == IF c.plus THEN S \cup {c.mode} ELSE S \ {c.mode}
Named(S, c) == IF c.plus THEN S \cup {c.arg} ELSE S \ {c.arg}
Banned(f, c) ==
    IF c.plus THEN [m \in Mask |-> IF m = c.arg THEN 1
                                   ELSE IF <<c.arg, m>> \in Covers THEN 0 ELSE f[m]]
    ELSE [m \in Mask |-> IF m = c.arg /\ f[m] > 0 THEN f[m] - 1 ELSE f[m]]

(* What a change does to the flags, the users and the bans.                *)
LEMMA Effects ==
    ASSUME NEW t \in Modes, NEW c \in Whole
    PROVE  /\ c.mode \in Plain => OnChange(t, c).on = Flagged(t.on, c)
           /\ c.mode = "o" => OnChange(t, c).ops = Named(t.ops, c)
           /\ c.mode = "v" => OnChange(t, c).voices = Named(t.voices, c)
           /\ c.mode = "b" => OnChange(t, c).bans = Banned(t.bans, c)
<1>1. t.on \in SUBSET (Plain \cup Keyed) /\ DOMAIN t = {"on", "arg", "ops", "voices", "bans"}
      /\ t.bans \in [Mask -> 0..MaxCopies]
  BY DEF Modes
<1>2. c.mode \in Plain => OnChange(t, c).on = Flagged(t.on, c)
  BY <1>1 DEF OnChange, OnMode, Flagged, Plain
<1>3. c.mode = "o" => OnChange(t, c).ops = Named(t.ops, c)
  BY <1>1 DEF OnChange, OnModeO, Named, Plain
<1>4. c.mode = "v" => OnChange(t, c).voices = Named(t.voices, c)
  BY <1>1 DEF OnChange, OnModeV, Named, Plain
<1>5. ASSUME c.mode = "b" PROVE OnChange(t, c).bans = Banned(t.bans, c)
  <2>1. c.arg \in Mask /\ OnChange(t, c) = OnModeB(t, c)
    BY <1>5 DEF Whole, Fit, NeedsArgument, Listed, OnChange, Plain
  <2>2. CASE c.plus
    <3> DEFINE z == [m \in Mask |-> IF <<c.arg, m>> \in Covers THEN 0 ELSE t.bans[m]]
    <3> DEFINE u == [t EXCEPT !.bans = z]
    <3>1. z \in [Mask -> 0..MaxCopies] /\ z[c.arg] = 0
      BY <1>1, <2>1, ModesAssumption DEF MaxCopies
    <3>2. OnModeB(t, c) = SetBan(u, c.arg)
      BY <2>2 DEF OnModeB
    <3>3. u.bans = z /\ DOMAIN u = {"on", "arg", "ops", "voices", "bans"}
      <4> HIDE DEF z
      <4> QED
        BY <1>1
    <3> HIDE DEF z, u
    <3>4. SetBan(u, c.arg).bans = [z EXCEPT ![c.arg] = IF @ < MaxCopies THEN @ + 1 ELSE @]
      BY <3>3 DEF SetBan
    <3>5. SetBan(u, c.arg).bans = [z EXCEPT ![c.arg] = 1]
      BY <2>1, <3>1, <3>4 DEF MaxCopies
    <3>6. [z EXCEPT ![c.arg] = 1] = Banned(t.bans, c)
      BY <2>1, <2>2 DEF Banned, z
    <3> QED
      BY <2>1, <3>2, <3>5, <3>6
  <2>3. CASE ~c.plus
    <3>1. OnModeB(t, c).bans = [t.bans EXCEPT ![c.arg] = IF @ > 0 THEN @ - 1 ELSE @]
      BY <1>1, <2>3 DEF OnModeB, RemoveBan
    <3>2. [t.bans EXCEPT ![c.arg] = IF @ > 0 THEN @ - 1 ELSE @] = Banned(t.bans, c)
      BY <1>1, <2>1, <2>3 DEF Banned
    <3> QED
      BY <2>1, <3>1, <3>2
  <2> QED
    BY <2>2, <2>3
<1> QED
  BY <1>2, <1>3, <1>4, <1>5

(* What a change makes of a mode depends on what there was of that mode.   *)
LEMMA OnMoves ==
    ASSUME NEW t \in Modes, NEW u \in Modes, NEW c \in Whole, NEW l \in Viewed,
           View(t, l) = View(u, l)
    PROVE  View(OnChange(t, c), l) = View(OnChange(u, c), l)
<1>1. c.mode \in Plain \cup Keyed \cup Listed /\ c.plus \in BOOLEAN
  BY DEF Whole, Fit, Change
<1>2. CASE ~Touches(c, l)
  BY <1>2, Untouched
<1>3. CASE Touches(c, l)
  <2> DEFINE t1 == OnChange(t, c)
             u1 == OnChange(u, c)
  <2>8. /\ c.mode \in Plain => t1.on = Flagged(t.on, c) /\ u1.on = Flagged(u.on, c)
        /\ c.mode = "o" => t1.ops = Named(t.ops, c) /\ u1.ops = Named(u.ops, c)
        /\ c.mode = "v" => t1.voices = Named(t.voices, c) /\ u1.voices = Named(u.voices, c)
        /\ c.mode = "b" => t1.bans = Banned(t.bans, c) /\ u1.bans = Banned(u.bans, c)
    BY Effects
  <2>1. /\ t.on \in SUBSET (Plain \cup Keyed) /\ t.arg \in [Keyed -> Value \cup {None}]
        /\ DOMAIN t = {"on", "arg", "ops", "voices", "bans"}
        /\ u.on \in SUBSET (Plain \cup Keyed) /\ u.arg \in [Keyed -> Value \cup {None}]
        /\ DOMAIN u = {"on", "arg", "ops", "voices", "bans"}
    BY DEF Modes
  <2>2. CASE c.mode \in Plain
    <3>1. l = c.mode /\ \A x : View(x, l) = x.on \cap {l}
      BY <1>3, <2>2 DEF Touches, Plain, View
    <3>2. Flagged(t.on, c) \cap {l} = Flagged(u.on, c) \cap {l}
      BY <3>1 DEF Flagged
    <3> HIDE DEF t1, u1
    <3>3. View(t1, l) = View(u1, l)
      BY <2>2, <2>8, <3>1, <3>2
    <3> QED
      BY <3>3 DEF t1, u1
  <2>3. CASE c.mode = "A"
    BY <1>3, <2>1, <2>3 DEF Touches, OnChange, OnModeA, Present, View, Plain, Keyed
  <2>4. CASE c.mode \in {"k", "l", "U"}
    BY <1>3, <2>1, <2>4 DEF Touches, OnChange, OnModeK, OnModeL, OnModeU, Present, Absent, View, Plain, Keyed
  <2>5. CASE c.mode = "o"
    <3>1. CASE l = "o"
      BY <2>5, <2>8, <3>1 DEF View, Plain
    <3>2. CASE l = "bot"
      <4>1. t.ops \cap {Bot} = u.ops \cap {Bot}
        BY <3>2 DEF View, Plain
      <4>2. Named(t.ops, c) \cap {Bot} = Named(u.ops, c) \cap {Bot}
        BY <4>1 DEF Named
      <4> QED
        BY <2>5, <2>8, <3>2, <4>2 DEF View, Plain
    <3> QED
      BY <1>3, <2>5, <3>1, <3>2 DEF Touches
  <2>6. CASE c.mode = "v"
    BY <1>3, <2>6, <2>8 DEF Touches, View, Plain
  <2>7. CASE c.mode = "b"
    BY <1>3, <2>7, <2>8 DEF Touches, View, Plain
  <2> QED
    BY <1>1, <2>2, <2>3, <2>4, <2>5, <2>6, <2>7 DEF Keyed, Listed
<1> QED
  BY <1>2, <1>3

(* What the network makes of a change.                                     *)
Ignored(n, c) ==
    \/ NeedsArgument(c) /\ c.arg = None
    \/ c.mode \in {"k", "A", "U"} /\ c.plus /\ c.mode \in n.on

(* The network makes a change as the table does or not at all; but for -A, *)
(* which the table takes for -k.                                           *)
LEMMA NetChangeIs ==
    ASSUME NEW n \in Modes, NEW c \in Fit
    PROVE  /\ Ignored(n, c) => NetChange(n, c) = n
           /\ ~Ignored(n, c) => c \in Whole
           /\ ~Ignored(n, c) /\ ~(c.mode = "A" /\ ~c.plus) => NetChange(n, c) = OnChange(n, c)
           /\ ~Ignored(n, c) /\ c.mode = "A" /\ ~c.plus => NetChange(n, c) = Absent(n, "A")
  BY DEF NetChange, Ignored, Whole

(* A mode that is taken away is the only one to go.                        *)
LEMMA AbsentView ==
    ASSUME NEW n \in Modes, NEW l \in Viewed, NEW m \in Keyed
    PROVE  View(Absent(n, m), l) = IF l = m THEN {} ELSE View(n, l)
  BY DEF View, Absent, Modes, Viewed, AnyMode, Plain, Keyed, Listed

(* A change leaves what the network says of the other modes,               *)
LEMMA NetUntouched ==
    ASSUME NEW n \in Modes, NEW c \in Fit, NEW l \in Viewed,
           c.mode # l, l = "bot" => c.mode # "o" \/ c.arg # Bot
    PROVE  View(NetChange(n, c), l) = View(n, l)
<1>1. CASE c.mode = "A" /\ ~c.plus
  BY <1>1, NetChangeIs, AbsentView DEF Keyed
<1>2. CASE ~(c.mode = "A" /\ ~c.plus)
  <2>1. ~Touches(c, l)
    BY <1>2 DEF Touches
  <2> QED
    BY <1>2, <2>1, NetChangeIs, Untouched
<1> QED
  BY <1>1, <1>2

(* and what it says of one afterwards depends on what it said of that one. *)
LEMMA NetMoves ==
    ASSUME NEW n \in Modes, NEW m \in Modes, NEW c \in Fit, NEW l \in Viewed,
           View(n, l) = View(m, l)
    PROVE  View(NetChange(n, c), l) = View(NetChange(m, c), l)
<1>1. CASE c.mode # l /\ (l = "bot" => c.mode # "o" \/ c.arg # Bot)
  BY <1>1, NetUntouched
<1>2. CASE c.mode = l
  <2>1. Ignored(n, c) <=> Ignored(m, c)
    <3>1. CASE l \in {"k", "A", "U"}
      <4>1. l \in n.on <=> l \in m.on
        BY <3>1 DEF View, Plain
      <4> QED
        BY <1>2, <4>1 DEF Ignored
    <3>2. CASE l \notin {"k", "A", "U"}
      BY <1>2, <3>2 DEF Ignored
    <3> QED
      BY <3>1, <3>2
  <2> QED
    BY <1>2, <2>1, NetChangeIs, OnMoves, AbsentView DEF Keyed
<1>3. CASE l = "bot" /\ c.mode = "o"
  <2>1. Ignored(n, c) <=> Ignored(m, c)
    BY <1>3 DEF Ignored
  <2> QED
    BY <1>3, <2>1, NetChangeIs, OnMoves
<1> QED
  BY <1>1, <1>2, <1>3

(* The table and the network make the same of a change.                    *)
LEMMA Agrees ==
    ASSUME NEW t \in Modes, NEW n \in Modes, NEW c \in Whole, NEW l \in Viewed,
           View(t, l) = View(n, l),
           ~(c.mode = "A" /\ ~c.plus /\ l \in {"A", "k"}),
           ~(c.mode = l /\ l \in {"k", "A", "U"} /\ c.plus /\ l \in n.on)
    PROVE  View(OnChange(t, c), l) = View(NetChange(n, c), l)
<1>1. c \in Fit
  BY DEF Whole
<1>2. CASE Touches(c, l)
  <2>1. ~Ignored(n, c)
    BY <1>2 DEF Ignored, Touches, Whole
  <2>2. NetChange(n, c) = OnChange(n, c)
    BY <1>1, <1>2, <2>1, NetChangeIs DEF Touches
  <2> QED
    BY <2>2, OnMoves
<1>3. CASE ~Touches(c, l)
  BY <1>1, <1>3, Untouched, NetUntouched DEF Touches
<1> QED
  BY <1>2, <1>3

(* A change of a flag, or of a mode with a value, does not depend on what  *)
(* there was: both have the same afterwards.                               *)
LEMMA Settles ==
    ASSUME NEW t \in Modes, NEW n \in Modes, NEW c \in Whole,
           c.mode \in Plain \cup {"k", "l", "U"},
           ~(c.mode \in {"k", "U"} /\ c.plus /\ c.mode \in n.on)
    PROVE  View(OnChange(t, c), c.mode) = View(NetChange(n, c), c.mode)
<1>1. NetChange(n, c) = OnChange(n, c)
  BY DEF NetChange, Whole, Plain
<1>2. /\ t.on \in SUBSET (Plain \cup Keyed) /\ t.arg \in [Keyed -> Value \cup {None}]
      /\ DOMAIN t = {"on", "arg", "ops", "voices", "bans"}
      /\ n.on \in SUBSET (Plain \cup Keyed) /\ n.arg \in [Keyed -> Value \cup {None}]
      /\ DOMAIN n = {"on", "arg", "ops", "voices", "bans"}
  BY DEF Modes
<1>3. CASE c.mode \in Plain
  <2>1. \A x : View(x, c.mode) = x.on \cap {c.mode}
    BY <1>3 DEF View, Plain
  <2>2. Flagged(t.on, c) \cap {c.mode} = Flagged(n.on, c) \cap {c.mode}
    BY DEF Flagged
  <2>3. OnChange(t, c).on = Flagged(t.on, c) /\ OnChange(n, c).on = Flagged(n.on, c)
    BY <1>3, Effects
  <2>4. View(OnChange(t, c), c.mode) = View(OnChange(n, c), c.mode)
    BY <2>1, <2>2, <2>3
  <2> QED
    BY <1>1, <2>4
<1>4. CASE c.mode \in {"k", "l", "U"}
  <2>1. \A x \in {t, n} : View(OnChange(x, c), c.mode) = IF c.plus THEN {c.arg} ELSE {}
    <3> SUFFICES ASSUME NEW x \in {t, n} PROVE View(OnChange(x, c), c.mode) = IF c.plus THEN {c.arg} ELSE {}
      OBVIOUS
    <3>1. /\ x.on \in SUBSET (Plain \cup Keyed) /\ x.arg \in [Keyed -> Value \cup {None}]
          /\ DOMAIN x = {"on", "arg", "ops", "voices", "bans"}
      BY <1>2
    <3>2. CASE c.mode = "k"
      BY <3>1, <3>2 DEF OnChange, OnModeK, Present, Absent, View, Plain, Keyed
    <3>3. CASE c.mode = "l"
      BY <3>1, <3>3 DEF OnChange, OnModeL, Present, Absent, View, Plain, Keyed
    <3>4. CASE c.mode = "U"
      BY <3>1, <3>4 DEF OnChange, OnModeU, Present, Absent, View, Plain, Keyed
    <3> QED
      BY <1>4, <3>2, <3>3, <3>4
  <2> QED
    BY <1>1, <2>1
<1> QED
  BY <1>3, <1>4

-----------------------------------------------------------------------------
(* The changes of a call, in the table and on the network.                 *)

NetTouches(c, l) == c.mode = l \/ (l = "bot" /\ c.mode = "o" /\ c.arg = Bot)

(* The same facts for the changes of a call: types,                        *)
LEMMA OnChangesType == ASSUME NEW t \in Modes, NEW s \in Seq(Whole) PROVE OnChanges(t, s) \in Modes
<1>1. PICK h \in [0..Len(s) -> Modes] : OnChanges(t, s) = h[Len(s)]
  BY OnChangesTrace
<1>2. Len(s) \in 0..Len(s)
  OBVIOUS
<1> QED
  BY <1>1, <1>2

(* none and one,                                                           *)
LEMMA OnChangesFew ==
    ASSUME NEW t \in Modes, NEW c \in Whole
    PROVE  OnChanges(t, <<>>) = t /\ OnChanges(t, <<c>>) = OnChange(t, c)
<1>1. <<>> \in Seq(Whole) /\ Len(<<>>) = 0 /\ <<c>> \in Seq(Whole) /\ Len(<<c>>) = 1 /\ <<c>>[1] = c
  OBVIOUS
<1>2. OnChanges(t, <<>>) = t
  <2> DEFINE e == <<>>
  <2>1. e \in Seq(Whole) /\ Len(e) = 0
    OBVIOUS
  <2> HIDE DEF e
  <2>2. PICK h \in [0..Len(e) -> Modes] : h[0] = t /\ OnChanges(t, e) = h[Len(e)]
    BY <2>1, OnChangesTrace, ZenonT(30)
  <2> QED
    BY <2>1, <2>2 DEF e
<1>3. OnChanges(t, <<c>>) = OnChange(t, c)
  <2>1. PICK h \in [0..Len(<<c>>) -> Modes] :
               /\ h[0] = t
               /\ \A i \in 1..Len(<<c>>) : h[i] = OnChange(h[i - 1], <<c>>[i])
               /\ OnChanges(t, <<c>>) = h[Len(<<c>>)]
    BY <1>1, OnChangesTrace
  <2>2. 1 \in 1..Len(<<c>>) /\ 1 - 1 = 0
    BY <1>1
  <2>3. h[1] = OnChange(h[1 - 1], <<c>>[1])
    BY <2>1, <2>2
  <2> QED
    BY <1>1, <2>1, <2>2, <2>3
<1> QED
  BY <1>2, <1>3

(* one list after another,                                                 *)
LEMMA OnChangesJoined ==
    ASSUME NEW t \in Modes, NEW s \in Seq(Whole), NEW r \in Seq(Whole)
    PROVE  OnChanges(t, s \o r) = OnChanges(OnChanges(t, s), r)
<1> DEFINE w == s \o r
<1>1. w \in Seq(Whole) /\ Len(s) \in Nat /\ Len(r) \in Nat /\ Len(w) = Len(s) + Len(r)
  OBVIOUS
<1>2. /\ \A i \in 1..Len(s) : w[i] = s[i] /\ i \in 1..Len(w)
      /\ \A i \in 1..Len(r) : w[Len(s) + i] = r[i] /\ Len(s) + i \in 1..Len(w)
  OBVIOUS
<1> HIDE DEF w
<1>3. PICK h \in [0..Len(s) -> Modes] :
               /\ h[0] = t
               /\ \A i \in 1..Len(s) : h[i] = OnChange(h[i - 1], s[i])
               /\ OnChanges(t, s) = h[Len(s)]
  BY OnChangesTrace
<1>4. PICK k \in [0..Len(w) -> Modes] :
               /\ k[0] = t
               /\ \A i \in 1..Len(w) : k[i] = OnChange(k[i - 1], w[i])
               /\ OnChanges(t, w) = k[Len(w)]
  BY <1>1, OnChangesTrace
<1>5. OnChanges(t, s) \in Modes
  BY OnChangesType
<1>6. PICK g \in [0..Len(r) -> Modes] :
               /\ g[0] = OnChanges(t, s)
               /\ \A i \in 1..Len(r) : g[i] = OnChange(g[i - 1], r[i])
               /\ OnChanges(OnChanges(t, s), r) = g[Len(r)]
  BY <1>5, OnChangesTrace
<1>7. \A i \in 0..Len(s) : k[i] = h[i]
  <2> DEFINE S == {i \in 0..Len(s) : k[i] = h[i]}
  <2>1. 0 \in S
    BY <1>1, <1>3, <1>4
  <2>2. \A i \in 1..Len(s) : i - 1 \in S => i \in S
    BY <1>1, <1>2, <1>3, <1>4
  <2> HIDE DEF S
  <2>3. \A i \in 0..Len(s) : i \in S
    BY <1>1, <2>1, <2>2, Reaches
  <2> QED
    BY <2>3 DEF S
<1>8. \A i \in 0..Len(r) : k[Len(s) + i] = g[i]
  <2> DEFINE S == {i \in 0..Len(r) : k[Len(s) + i] = g[i]}
  <2>1. 0 \in S
    <3>1. k[Len(s)] = h[Len(s)] /\ Len(s) + 0 = Len(s)
      BY <1>1, <1>7
    <3> QED
      BY <1>1, <1>3, <1>6, <3>1
  <2>2. ASSUME NEW i \in 1..Len(r), i - 1 \in S PROVE i \in S
    <3>1. k[Len(s) + i] = OnChange(k[Len(s) + i - 1], w[Len(s) + i])
      BY <1>2, <1>4
    <3>2. Len(s) + i - 1 = Len(s) + (i - 1) /\ i \in 0..Len(r)
      BY <1>1
    <3> QED
      BY <1>2, <1>6, <2>2, <3>1, <3>2
  <2> HIDE DEF S
  <2>3. \A i \in 0..Len(r) : i \in S
    BY <1>1, <2>1, <2>2, Reaches
  <2> QED
    BY <2>3 DEF S
<1>9. k[Len(s) + Len(r)] = g[Len(r)]
  BY <1>1, <1>8
<1> QED
  BY <1>1, <1>4, <1>6, <1>9 DEF w

(* what a mode depends on,                                                 *)
LEMMA OnChangesMove ==
    ASSUME NEW t \in Modes, NEW u \in Modes, NEW s \in Seq(Whole), NEW l \in Viewed,
           View(t, l) = View(u, l)
    PROVE  View(OnChanges(t, s), l) = View(OnChanges(u, s), l)
<1>1. PICK h \in [0..Len(s) -> Modes] :
               /\ h[0] = t
               /\ \A i \in 1..Len(s) : h[i] = OnChange(h[i - 1], s[i])
               /\ OnChanges(t, s) = h[Len(s)]
  BY OnChangesTrace
<1>2. PICK k \in [0..Len(s) -> Modes] :
               /\ k[0] = u
               /\ \A i \in 1..Len(s) : k[i] = OnChange(k[i - 1], s[i])
               /\ OnChanges(u, s) = k[Len(s)]
  BY OnChangesTrace
<1> DEFINE S == {i \in 0..Len(s) : View(h[i], l) = View(k[i], l)}
<1>3. Len(s) \in Nat /\ 0 \in S
  BY <1>1, <1>2
<1>4. ASSUME NEW i \in 1..Len(s), i - 1 \in S PROVE i \in S
  <2>1. i - 1 \in 0..Len(s) /\ i \in 0..Len(s) /\ s[i] \in Whole
    OBVIOUS
  <2>2. h[i - 1] \in Modes /\ k[i - 1] \in Modes /\ View(h[i - 1], l) = View(k[i - 1], l)
    BY <1>4, <2>1
  <2>3. View(OnChange(h[i - 1], s[i]), l) = View(OnChange(k[i - 1], s[i]), l)
    BY <2>1, <2>2, OnMoves
  <2> QED
    BY <1>1, <1>2, <2>1, <2>3
<1> HIDE DEF S
<1>5. \A i \in 0..Len(s) : i \in S
  BY <1>3, <1>4, Reaches
<1>6. Len(s) \in S
  BY <1>3, <1>5
<1> QED
  BY <1>1, <1>2, <1>6 DEF S

(* and which modes are left alone.                                         *)
LEMMA OnChangesSpare ==
    ASSUME NEW t \in Modes, NEW s \in Seq(Whole), NEW l \in Viewed,
           \A i \in 1..Len(s) : ~Touches(s[i], l)
    PROVE  View(OnChanges(t, s), l) = View(t, l)
<1>1. PICK h \in [0..Len(s) -> Modes] :
               /\ h[0] = t
               /\ \A i \in 1..Len(s) : h[i] = OnChange(h[i - 1], s[i])
               /\ OnChanges(t, s) = h[Len(s)]
  BY OnChangesTrace
<1> DEFINE S == {i \in 0..Len(s) : View(h[i], l) = View(t, l)}
<1>3. Len(s) \in Nat /\ 0 \in S
  BY <1>1
<1>4. ASSUME NEW i \in 1..Len(s), i - 1 \in S PROVE i \in S
  <2>1. i - 1 \in 0..Len(s) /\ i \in 0..Len(s) /\ s[i] \in Whole
    OBVIOUS
  <2>2. h[i - 1] \in Modes /\ View(h[i - 1], l) = View(t, l) /\ ~Touches(s[i], l)
    BY <1>4, <2>1
  <2>3. View(OnChange(h[i - 1], s[i]), l) = View(h[i - 1], l)
    BY <2>1, <2>2, Untouched
  <2> QED
    BY <1>1, <2>1, <2>2, <2>3
<1> HIDE DEF S
<1>5. \A i \in 0..Len(s) : i \in S
  BY <1>3, <1>4, Reaches
<1>6. Len(s) \in S
  BY <1>3, <1>5
<1> QED
  BY <1>1, <1>6 DEF S

(* And for the changes as the network makes them.                          *)
LEMMA NetChangesType == ASSUME NEW t \in Modes, NEW s \in Seq(Fit) PROVE NetChanges(t, s) \in Modes
<1>1. PICK h \in [0..Len(s) -> Modes] : NetChanges(t, s) = h[Len(s)]
  BY NetChangesTrace
<1>2. Len(s) \in 0..Len(s)
  OBVIOUS
<1> QED
  BY <1>1, <1>2

LEMMA NetChangesFew ==
    ASSUME NEW t \in Modes, NEW c \in Fit
    PROVE  NetChanges(t, <<>>) = t /\ NetChanges(t, <<c>>) = NetChange(t, c)
<1>1. <<>> \in Seq(Fit) /\ Len(<<>>) = 0 /\ <<c>> \in Seq(Fit) /\ Len(<<c>>) = 1 /\ <<c>>[1] = c
  OBVIOUS
<1>2. NetChanges(t, <<>>) = t
  <2> DEFINE e == <<>>
  <2>1. e \in Seq(Fit) /\ Len(e) = 0
    OBVIOUS
  <2> HIDE DEF e
  <2>2. PICK h \in [0..Len(e) -> Modes] : h[0] = t /\ NetChanges(t, e) = h[Len(e)]
    BY <2>1, NetChangesTrace, ZenonT(30)
  <2> QED
    BY <2>1, <2>2 DEF e
<1>3. NetChanges(t, <<c>>) = NetChange(t, c)
  <2>1. PICK h \in [0..Len(<<c>>) -> Modes] :
               /\ h[0] = t
               /\ \A i \in 1..Len(<<c>>) : h[i] = NetChange(h[i - 1], <<c>>[i])
               /\ NetChanges(t, <<c>>) = h[Len(<<c>>)]
    BY <1>1, NetChangesTrace
  <2>2. 1 \in 1..Len(<<c>>) /\ 1 - 1 = 0
    BY <1>1
  <2>3. h[1] = NetChange(h[1 - 1], <<c>>[1])
    BY <2>1, <2>2
  <2> QED
    BY <1>1, <2>1, <2>2, <2>3
<1> QED
  BY <1>2, <1>3

LEMMA NetChangesJoined ==
    ASSUME NEW t \in Modes, NEW s \in Seq(Fit), NEW r \in Seq(Fit)
    PROVE  NetChanges(t, s \o r) = NetChanges(NetChanges(t, s), r)
<1> DEFINE w == s \o r
<1>1. w \in Seq(Fit) /\ Len(s) \in Nat /\ Len(r) \in Nat /\ Len(w) = Len(s) + Len(r)
  OBVIOUS
<1>2. /\ \A i \in 1..Len(s) : w[i] = s[i] /\ i \in 1..Len(w)
      /\ \A i \in 1..Len(r) : w[Len(s) + i] = r[i] /\ Len(s) + i \in 1..Len(w)
  OBVIOUS
<1> HIDE DEF w
<1>3. PICK h \in [0..Len(s) -> Modes] :
               /\ h[0] = t
               /\ \A i \in 1..Len(s) : h[i] = NetChange(h[i - 1], s[i])
               /\ NetChanges(t, s) = h[Len(s)]
  BY NetChangesTrace
<1>4. PICK k \in [0..Len(w) -> Modes] :
               /\ k[0] = t
               /\ \A i \in 1..Len(w) : k[i] = NetChange(k[i - 1], w[i])
               /\ NetChanges(t, w) = k[Len(w)]
  BY <1>1, NetChangesTrace
<1>5. NetChanges(t, s) \in Modes
  BY NetChangesType
<1>6. PICK g \in [0..Len(r) -> Modes] :
               /\ g[0] = NetChanges(t, s)
               /\ \A i \in 1..Len(r) : g[i] = NetChange(g[i - 1], r[i])
               /\ NetChanges(NetChanges(t, s), r) = g[Len(r)]
  BY <1>5, NetChangesTrace
<1>7. \A i \in 0..Len(s) : k[i] = h[i]
  <2> DEFINE S == {i \in 0..Len(s) : k[i] = h[i]}
  <2>1. 0 \in S
    BY <1>1, <1>3, <1>4
  <2>2. \A i \in 1..Len(s) : i - 1 \in S => i \in S
    BY <1>1, <1>2, <1>3, <1>4
  <2> HIDE DEF S
  <2>3. \A i \in 0..Len(s) : i \in S
    BY <1>1, <2>1, <2>2, Reaches
  <2> QED
    BY <2>3 DEF S
<1>8. \A i \in 0..Len(r) : k[Len(s) + i] = g[i]
  <2> DEFINE S == {i \in 0..Len(r) : k[Len(s) + i] = g[i]}
  <2>1. 0 \in S
    <3>1. k[Len(s)] = h[Len(s)] /\ Len(s) + 0 = Len(s)
      BY <1>1, <1>7
    <3> QED
      BY <1>1, <1>3, <1>6, <3>1
  <2>2. ASSUME NEW i \in 1..Len(r), i - 1 \in S PROVE i \in S
    <3>1. k[Len(s) + i] = NetChange(k[Len(s) + i - 1], w[Len(s) + i])
      BY <1>2, <1>4
    <3>2. Len(s) + i - 1 = Len(s) + (i - 1) /\ i \in 0..Len(r)
      BY <1>1
    <3> QED
      BY <1>2, <1>6, <2>2, <3>1, <3>2
  <2> HIDE DEF S
  <2>3. \A i \in 0..Len(r) : i \in S
    BY <1>1, <2>1, <2>2, Reaches
  <2> QED
    BY <2>3 DEF S
<1>9. k[Len(s) + Len(r)] = g[Len(r)]
  BY <1>1, <1>8
<1> QED
  BY <1>1, <1>4, <1>6, <1>9 DEF w

LEMMA NetChangesMove ==
    ASSUME NEW t \in Modes, NEW u \in Modes, NEW s \in Seq(Fit), NEW l \in Viewed,
           View(t, l) = View(u, l)
    PROVE  View(NetChanges(t, s), l) = View(NetChanges(u, s), l)
<1>1. PICK h \in [0..Len(s) -> Modes] :
               /\ h[0] = t
               /\ \A i \in 1..Len(s) : h[i] = NetChange(h[i - 1], s[i])
               /\ NetChanges(t, s) = h[Len(s)]
  BY NetChangesTrace
<1>2. PICK k \in [0..Len(s) -> Modes] :
               /\ k[0] = u
               /\ \A i \in 1..Len(s) : k[i] = NetChange(k[i - 1], s[i])
               /\ NetChanges(u, s) = k[Len(s)]
  BY NetChangesTrace
<1> DEFINE S == {i \in 0..Len(s) : View(h[i], l) = View(k[i], l)}
<1>3. Len(s) \in Nat /\ 0 \in S
  BY <1>1, <1>2
<1>4. ASSUME NEW i \in 1..Len(s), i - 1 \in S PROVE i \in S
  <2>1. i - 1 \in 0..Len(s) /\ i \in 0..Len(s) /\ s[i] \in Fit
    OBVIOUS
  <2>2. h[i - 1] \in Modes /\ k[i - 1] \in Modes /\ View(h[i - 1], l) = View(k[i - 1], l)
    BY <1>4, <2>1
  <2>3. View(NetChange(h[i - 1], s[i]), l) = View(NetChange(k[i - 1], s[i]), l)
    BY <2>1, <2>2, NetMoves
  <2> QED
    BY <1>1, <1>2, <2>1, <2>3
<1> HIDE DEF S
<1>5. \A i \in 0..Len(s) : i \in S
  BY <1>3, <1>4, Reaches
<1>6. Len(s) \in S
  BY <1>3, <1>5
<1> QED
  BY <1>1, <1>2, <1>6 DEF S

LEMMA NetChangesSpare ==
    ASSUME NEW t \in Modes, NEW s \in Seq(Fit), NEW l \in Viewed,
           \A i \in 1..Len(s) : ~NetTouches(s[i], l)
    PROVE  View(NetChanges(t, s), l) = View(t, l)
<1>1. PICK h \in [0..Len(s) -> Modes] :
               /\ h[0] = t
               /\ \A i \in 1..Len(s) : h[i] = NetChange(h[i - 1], s[i])
               /\ NetChanges(t, s) = h[Len(s)]
  BY NetChangesTrace
<1> DEFINE S == {i \in 0..Len(s) : View(h[i], l) = View(t, l)}
<1>3. Len(s) \in Nat /\ 0 \in S
  BY <1>1
<1>4. ASSUME NEW i \in 1..Len(s), i - 1 \in S PROVE i \in S
  <2>1. i - 1 \in 0..Len(s) /\ i \in 0..Len(s) /\ s[i] \in Fit
    OBVIOUS
  <2>2. h[i - 1] \in Modes /\ View(h[i - 1], l) = View(t, l) /\ ~NetTouches(s[i], l)
    BY <1>4, <2>1
  <2>3. View(NetChange(h[i - 1], s[i]), l) = View(h[i - 1], l)
    <3>1. s[i].mode # l /\ (l = "bot" => s[i].mode # "o" \/ s[i].arg # Bot)
      BY <2>2 DEF NetTouches
    <3> QED
      BY <2>1, <2>2, <3>1, NetUntouched
  <2> QED
    BY <1>1, <2>1, <2>2, <2>3
<1> HIDE DEF S
<1>5. \A i \in 0..Len(s) : i \in S
  BY <1>3, <1>4, Reaches
<1>6. Len(s) \in S
  BY <1>3, <1>5
<1> QED
  BY <1>1, <1>6 DEF S

(* Changes of which none is one the two understand differently.            *)
LEMMA AgreeAll ==
    ASSUME NEW t \in Modes, NEW n \in Modes, NEW s \in Seq(Whole), NEW l \in Viewed,
           View(t, l) = View(n, l),
           \A i \in 1..Len(s) : /\ ~(s[i].mode = "A" /\ ~s[i].plus /\ l \in {"A", "k"})
                                /\ ~(s[i].mode = l /\ l \in {"k", "A", "U"} /\ s[i].plus)
    PROVE  View(OnChanges(t, s), l) = View(NetChanges(n, s), l)
<1>0. s \in Seq(Fit)
  BY DEF Whole
<1>1. PICK h \in [0..Len(s) -> Modes] :
               /\ h[0] = t
               /\ \A i \in 1..Len(s) : h[i] = OnChange(h[i - 1], s[i])
               /\ OnChanges(t, s) = h[Len(s)]
  BY OnChangesTrace
<1>2. PICK k \in [0..Len(s) -> Modes] :
               /\ k[0] = n
               /\ \A i \in 1..Len(s) : k[i] = NetChange(k[i - 1], s[i])
               /\ NetChanges(n, s) = k[Len(s)]
  BY <1>0, NetChangesTrace
<1> DEFINE S == {i \in 0..Len(s) : View(h[i], l) = View(k[i], l)}
<1>3. Len(s) \in Nat /\ 0 \in S
  BY <1>1, <1>2
<1>4. ASSUME NEW i \in 1..Len(s), i - 1 \in S PROVE i \in S
  <2>1. i - 1 \in 0..Len(s) /\ i \in 0..Len(s) /\ s[i] \in Whole
    OBVIOUS
  <2>2. h[i - 1] \in Modes /\ k[i - 1] \in Modes /\ View(h[i - 1], l) = View(k[i - 1], l)
    BY <1>4, <2>1
  <2>3. View(OnChange(h[i - 1], s[i]), l) = View(NetChange(k[i - 1], s[i]), l)
    BY <2>1, <2>2, Agrees
  <2> QED
    BY <1>1, <1>2, <2>1, <2>3
<1> HIDE DEF S
<1>5. \A i \in 0..Len(s) : i \in S
  BY <1>3, <1>4, Reaches
<1>6. Len(s) \in S
  BY <1>3, <1>5
<1> QED
  BY <1>1, <1>2, <1>6 DEF S

-----------------------------------------------------------------------------
(* One message.                                                            *)

(* A message takes effect as a whole if its arguments are not too many: w  *)
(* is a count of them.                                                     *)
LEMMA MessageWhole ==
    ASSUME NEW n \in Modes, NEW s \in Seq(Fit), NEW w \in [0..Len(s) -> Nat],
           \A i \in 1..Len(s) : /\ w[i - 1] =< w[i]
                                /\ s[i].arg # None => w[i - 1] < MaxModes /\ w[i - 1] < w[i]
    PROVE  NetMessage(n, s) = NetChanges(n, s)
<1>1. PICK h \in [0..Len(s) -> Acc] :
               /\ h[0] = [modes |-> n, args |-> 0]
               /\ \A i \in 1..Len(s) : h[i] = NetNext(h[i - 1], s[i])
               /\ NetMessage(n, s) = h[Len(s)].modes
  BY NetMessageTrace
<1>2. PICK k \in [0..Len(s) -> Modes] :
               /\ k[0] = n
               /\ \A i \in 1..Len(s) : k[i] = NetChange(k[i - 1], s[i])
               /\ NetChanges(n, s) = k[Len(s)]
  BY NetChangesTrace
<1> DEFINE S == {i \in 0..Len(s) : h[i].modes = k[i] /\ h[i].args =< w[i]}
<1>3. Len(s) \in Nat /\ 0 \in S
  BY <1>1, <1>2, SMTT(30)
<1>4. ASSUME NEW i \in 1..Len(s), i - 1 \in S PROVE i \in S
  <2>1. i - 1 \in 0..Len(s) /\ i \in 0..Len(s)
    OBVIOUS
  <2>0. h[i - 1] \in Acc /\ h[i - 1].modes = k[i - 1] /\ h[i - 1].args =< w[i - 1]
        /\ w[i - 1] \in Nat /\ w[i] \in Nat
    BY <1>4, <2>1
  <2>2. /\ h[i - 1] \in Acc /\ h[i - 1].modes = k[i - 1] /\ h[i - 1].args =< w[i - 1]
        /\ h[i - 1].args \in Nat /\ w[i - 1] \in Nat /\ w[i] \in Nat /\ MaxModes \in Nat
    BY <2>0, ModesAssumption DEF Acc
  <2>3. h[i] = NetNext(h[i - 1], s[i]) /\ k[i] = NetChange(k[i - 1], s[i])
    BY <1>1, <1>2
  <2>4. CASE s[i].arg = None
    <3>1. h[i].modes = NetChange(h[i - 1].modes, s[i]) /\ h[i].args = h[i - 1].args
      BY <2>2, <2>3, <2>4 DEF NetNext, Acc
    <3> QED
      BY <2>1, <2>2, <2>3, <3>1
  <2>5. CASE s[i].arg # None
    <3>1. w[i - 1] < MaxModes /\ w[i - 1] < w[i]
      BY <2>5
    <3>2. h[i - 1].args # MaxModes /\ h[i - 1].args + 1 =< w[i]
      BY <2>2, <3>1
    <3>3. h[i].modes = NetChange(h[i - 1].modes, s[i]) /\ h[i].args = h[i - 1].args + 1
      BY <2>3, <2>5, <3>2 DEF NetNext
    <3> QED
      BY <2>1, <2>2, <2>3, <3>2, <3>3
  <2> QED
    BY <2>4, <2>5
<1> HIDE DEF S
<1>5. \A i \in 0..Len(s) : i \in S
  BY <1>3, <1>4, Reaches
<1>6. Len(s) \in S
  BY <1>3, <1>5
<1> QED
  BY <1>1, <1>2, <1>6 DEF S

(* Up to MaxModes changes fit into a message,                              *)
LEMMA MessageShort ==
    ASSUME NEW n \in Modes, NEW s \in Seq(Fit), Len(s) =< MaxModes
    PROVE  NetMessage(n, s) = NetChanges(n, s)
<1> DEFINE w == [i \in 0..Len(s) |-> i]
<1>1. Len(s) \in Nat /\ MaxModes \in Nat
  BY ModesAssumption
<1>2. w \in [0..Len(s) -> Nat]
  BY <1>1
<1>3. \A i \in 1..Len(s) : w[i - 1] = i - 1 /\ w[i] = i
  BY <1>1
<1> HIDE DEF w
<1>4. \A i \in 1..Len(s) : /\ w[i - 1] =< w[i]
                           /\ s[i].arg # None => w[i - 1] < MaxModes /\ w[i - 1] < w[i]
  BY <1>1, <1>3
<1> QED
  BY <1>2, <1>4, MessageWhole

(* One argument is never too many.                                         *)
LEMMA MessageOfOne ==
    ASSUME NEW n \in Modes, NEW s \in Seq(Fit), NEW j \in Nat,
           \A i \in 1..Len(s) : i # j => s[i].arg = None
    PROVE  NetMessage(n, s) = NetChanges(n, s)
<1> DEFINE w == [i \in 0..Len(s) |-> IF i < j THEN 0 ELSE 1]
<1>1. Len(s) \in Nat /\ MaxModes \in Nat /\ 0 < MaxModes
  BY ModesAssumption
<1>2. w \in [0..Len(s) -> Nat]
  BY <1>1
<1>3. \A i \in 1..Len(s) : /\ w[i - 1] = (IF i - 1 < j THEN 0 ELSE 1)
                           /\ w[i] = (IF i < j THEN 0 ELSE 1)
  BY <1>1
<1> HIDE DEF w
<1>4. \A i \in 1..Len(s) : /\ w[i - 1] =< w[i]
                           /\ s[i].arg # None => w[i - 1] < MaxModes /\ w[i - 1] < w[i]
  BY <1>1, <1>3
<1> QED
  BY <1>2, <1>4, MessageWhole

(* Enough messages are written, and none too many.                         *)
LEMMA Quotient ==
    ASSUME NEW L \in Nat, NEW M \in Nat \ {0}, NEW K, K = (L + M - 1) \div M
    PROVE  K \in Nat /\ L =< K * M /\ K * M < L + M
<1>1. L + M - 1 \in Nat
  OBVIOUS
<1>2. K \in Int /\ M * K =< L + M - 1 /\ L + M - 1 < M * K + M
  BY <1>1
<1> QED
  BY <1>2

-----------------------------------------------------------------------------
(* The messages of a call.                                                 *)

(* The messages of a call, one after the other, are its changes.           *)
Ends(s, m, e) ==
    /\ e \in [0..Len(m) -> 0..Len(s)]
    /\ e[0] = 0 /\ e[Len(m)] = Len(s)
    /\ \A i \in 1..Len(m) : /\ e[i - 1] =< e[i] /\ e[i] - e[i - 1] =< MaxModes
                            /\ m[i] = SubSeq(s, e[i - 1] + 1, e[i])

(* Cutting a list at two places.                                           *)
LEMMA Parts ==
    ASSUME NEW s \in Seq(Fit), NEW a \in 0..Len(s), NEW b \in 0..Len(s), a =< b
    PROVE  /\ SubSeq(s, a + 1, b) \in Seq(Fit) /\ Len(SubSeq(s, a + 1, b)) = b - a
           /\ SubSeq(s, 1, a) \in Seq(Fit)
           /\ SubSeq(s, 1, b) = SubSeq(s, 1, a) \o SubSeq(s, a + 1, b)
           /\ \A i \in 1..Len(SubSeq(s, a + 1, b)) : \E j \in 1..Len(s) : SubSeq(s, a + 1, b)[i] = s[j]
<1>1. Len(s) \in Nat /\ a \in Nat /\ b \in Nat /\ a =< Len(s) /\ b =< Len(s) /\ \A i \in 1..Len(s) : s[i] \in Fit
  OBVIOUS
<1>2. SubSeq(s, a + 1, b) \in Seq(Fit) /\ Len(SubSeq(s, a + 1, b)) = b - a
      /\ \A i \in 1..(b - a) : SubSeq(s, a + 1, b)[i] = s[a + i]
  BY <1>1
<1>3. SubSeq(s, 1, a) \in Seq(Fit) /\ Len(SubSeq(s, 1, a)) = a /\ \A i \in 1..a : SubSeq(s, 1, a)[i] = s[i]
  BY <1>1
<1>4. SubSeq(s, 1, b) \in Seq(Fit) /\ Len(SubSeq(s, 1, b)) = b /\ \A i \in 1..b : SubSeq(s, 1, b)[i] = s[i]
  BY <1>1
<1> DEFINE x == SubSeq(s, 1, a)
           y == SubSeq(s, a + 1, b)
           z == SubSeq(s, 1, b)
<1>5. z = x \o y
  <2> HIDE DEF x, y, z
  <2>1. x \in Seq(Fit) /\ y \in Seq(Fit) /\ z \in Seq(Fit) /\ Len(x) = a /\ Len(y) = b - a /\ Len(z) = b
    BY <1>2, <1>3, <1>4 DEF x, y, z
  <2>2. x \o y \in Seq(Fit) /\ Len(x \o y) = b
    <3>1. x \o y \in Seq(Fit) /\ Len(x \o y) = Len(x) + Len(y)
      BY <2>1, ConcatProperties
    <3> QED
      BY <1>1, <2>1, <3>1
  <2>3. \A i \in 1..b : (x \o y)[i] = IF i =< a THEN x[i] ELSE y[i - a]
    BY <1>1, <2>1
  <2>4. \A i \in 1..b : z[i] = (x \o y)[i]
    <3> SUFFICES ASSUME NEW i \in 1..b PROVE z[i] = (x \o y)[i]
      OBVIOUS
    <3>1. z[i] = s[i]
      BY <1>4 DEF z
    <3>2. CASE i =< a
      <4>1. i \in 1..a
        BY <1>1, <3>2
      <4> QED
        BY <1>3, <2>3, <3>1, <3>2, <4>1 DEF x
    <3>3. CASE ~(i =< a)
      <4>1. i - a \in 1..(b - a) /\ a + (i - a) = i
        BY <1>1, <3>3
      <4>2. y[i - a] = s[a + (i - a)]
        BY <1>2, <4>1 DEF y
      <4> QED
        BY <2>3, <3>1, <3>3, <4>1, <4>2
    <3> QED
      BY <3>2, <3>3
  <2> QED
    BY <2>1, <2>2, <2>4, SeqEqual
<1>6. ASSUME NEW i \in 1..Len(y) PROVE \E j \in 1..Len(s) : y[i] = s[j]
  <2>1. i \in 1..(b - a)
    BY <1>2
  <2>2. a + i \in 1..Len(s)
    BY <1>1, <2>1
  <2> QED
    BY <1>2, <2>1, <2>2
<1> QED
  BY <1>2, <1>3, <1>5, <1>6

(* Chunks() cuts the list into messages that are short enough.             *)
LEMMA ChunksAre ==
    ASSUME NEW s \in Seq(Fit)
    PROVE  Chunks(s) \in Seq(Seq(Fit)) /\ \E e : Ends(s, Chunks(s), e)
<1> DEFINE L == Len(s)
           M == MaxModes
           K == (Len(s) + MaxModes - 1) \div MaxModes
           up(i) == IF i * MaxModes < Len(s) THEN i * MaxModes ELSE Len(s)
           e == [i \in 0..K |-> up(i)]
           m == Chunks(s)
<1>1. L \in Nat /\ M \in Nat /\ M # 0
  BY ModesAssumption
<1>2. K \in Nat /\ L =< K * M /\ K * M < L + M
  BY <1>1, Quotient
<1>3. m = [i \in 1..K |-> SubSeq(s, (i - 1) * M + 1, up(i))]
  BY DEF Chunks
<1>4. ASSUME NEW i \in 0..K PROVE up(i) \in 0..L
  <2>1. i * M \in Nat
    BY <1>1, <1>2
  <2> HIDE DEF L
  <2> QED
    BY <1>1, <2>1 DEF L
<1>5. up(0) = 0 /\ up(K) = L
  BY <1>1, <1>2
<1>6. ASSUME NEW i \in 1..K
      PROVE  /\ up(i - 1) = (i - 1) * M /\ up(i - 1) =< up(i) /\ up(i) - up(i - 1) =< M
  <2> DEFINE q == (i - 1) * M
  <2>1. i * M = q + M /\ q \in Nat
    BY <1>1, <1>2
  <2>2. q < L
    <3> DEFINE d == (K - i) * M
    <3>1. d \in Nat /\ K * M = d + i * M
      BY <1>1, <1>2
    <3> HIDE DEF K, d, q, L, M
    <3> QED
      BY <1>1, <1>2, <2>1, <3>1
  <2> HIDE DEF q
  <2> QED
    BY <1>1, <2>1, <2>2 DEF q
<1>7. \A i \in 1..K : i - 1 \in 0..K /\ i \in 0..K
  BY <1>2
<1> HIDE DEF L, M, K, up
<1>8. e \in [0..K -> 0..L] /\ e[0] = 0 /\ e[K] = L
  BY <1>2, <1>4, <1>5
<1>9. \A i \in 1..K : /\ e[i - 1] =< e[i] /\ e[i] - e[i - 1] =< M
                      /\ m[i] = SubSeq(s, e[i - 1] + 1, e[i])
  BY <1>3, <1>6, <1>7
<1>10. m \in Seq(Seq(Fit)) /\ Len(m) = K
  <2>1. \A i \in 1..K : SubSeq(s, (i - 1) * M + 1, up(i)) \in Seq(Fit)
    <3> SUFFICES ASSUME NEW i \in 1..K PROVE SubSeq(s, (i - 1) * M + 1, up(i)) \in Seq(Fit)
      OBVIOUS
    <3>1. up(i - 1) \in 0..L /\ up(i) \in 0..L /\ up(i - 1) = (i - 1) * M /\ up(i - 1) =< up(i)
      BY <1>4, <1>6, <1>7
    <3> QED
      BY <3>1, Parts DEF L
  <2> HIDE DEF m
  <2> QED
    BY <1>2, <1>3, <2>1
<1> HIDE DEF e, m
<1>11. Ends(s, m, e)
  BY <1>8, <1>9, <1>10 DEF Ends, L, M
<1> QED
  BY <1>10, <1>11 DEF m

-----------------------------------------------------------------------------
(* What a server and a bot write.                                          *)

Deopping == Change1(FALSE, "o", Bot)
Opping == Change1(TRUE, "o", Bot)

(* Only its own op and deop are about the op of the bot.                   *)
LEMMA AboutBot ==
    ASSUME NEW c \in Fit, c # Deopping, c # Opping
    PROVE  ~NetTouches(c, "bot")
  BY DEF Fit, Change, Deopping, Opping, Change1, NetTouches, Plain, Keyed, Listed

(* Who is not operator becomes one by +o only, and loses it by -o only.    *)
LEMMA BotStaysOp ==
    ASSUME NEW n \in Modes, NEW s \in Seq(Fit), \A i \in 1..Len(s) : s[i] # Deopping /\ s[i] # Opping
    PROVE  Bot \in NetChanges(n, s).ops <=> Bot \in n.ops
<1>1. \A i \in 1..Len(s) : ~NetTouches(s[i], "bot")
  <2> SUFFICES ASSUME NEW i \in 1..Len(s) PROVE ~NetTouches(s[i], "bot")
    OBVIOUS
  <2>1. s[i] \in Fit /\ s[i] # Deopping /\ s[i] # Opping
    OBVIOUS
  <2> QED
    BY <2>1, AboutBot
<1>2. "bot" \in Viewed
  BY DEF Viewed
<1>3. View(NetChanges(n, s), "bot") = View(n, "bot")
  BY <1>1, <1>2, NetChangesSpare
<1>4. NetChanges(n, s).ops \cap {Bot} = n.ops \cap {Bot}
  BY <1>3 DEF View, Plain
<1> QED
  BY <1>4

(* A bot that has lost its op does not get it back from a list without it. *)
LEMMA BotStaysOut ==
    ASSUME NEW n \in Modes, NEW s \in Seq(Fit), \A i \in 1..Len(s) : s[i] # Opping, Bot \notin n.ops
    PROVE  Bot \notin NetChanges(n, s).ops
<1>1. PICK h \in [0..Len(s) -> Modes] :
               /\ h[0] = n
               /\ \A i \in 1..Len(s) : h[i] = NetChange(h[i - 1], s[i])
               /\ NetChanges(n, s) = h[Len(s)]
  BY NetChangesTrace
<1> DEFINE S == {i \in 0..Len(s) : Bot \notin h[i].ops}
<1>2. Len(s) \in Nat /\ 0 \in S
  BY <1>1
<1>3. ASSUME NEW i \in 1..Len(s), i - 1 \in S PROVE i \in S
  <2>1. i \in 0..Len(s) /\ s[i] \in Fit /\ h[i - 1] \in Modes /\ Bot \notin h[i - 1].ops /\ s[i] # Opping
    BY <1>3
  <2>2. Bot \notin NetChange(h[i - 1], s[i]).ops
    <3> DEFINE x == h[i - 1]
               c == s[i]
    <3>1. x \in Modes /\ c \in Fit /\ Bot \notin x.ops /\ c # Opping
      BY <2>1
    <3> HIDE DEF x, c
    <3>2. CASE c # Deopping
      <4>1. View(NetChange(x, c), "bot") = View(x, "bot")
        <5>1. ~NetTouches(c, "bot")
          BY <3>1, <3>2, AboutBot
        <5>2. "bot" \in Viewed /\ c.mode # "bot" /\ ("bot" = "bot" => c.mode # "o" \/ c.arg # Bot)
          BY <5>1 DEF NetTouches, Viewed
        <5> QED
          BY <3>1, <5>2, NetUntouched
      <4>2. NetChange(x, c).ops \cap {Bot} = x.ops \cap {Bot}
        BY <4>1 DEF View, Plain
      <4> QED
        BY <3>1, <4>2
    <3>3. CASE c = Deopping
      <4>1. c.mode = "o" /\ c.plus = FALSE /\ c.arg = Bot
        BY <3>3 DEF Deopping, Change1
      <4>2. ~Ignored(x, c) /\ ~(c.mode = "A" /\ ~c.plus)
        BY <4>1, ModesAssumption DEF Ignored, User
      <4>3. c \in Whole /\ NetChange(x, c) = OnChange(x, c)
        BY <3>1, <4>2, NetChangeIs
      <4>4. OnChange(x, c).ops = Named(x.ops, c)
        BY <3>1, <4>1, <4>3, Effects
      <4> QED
        BY <4>1, <4>3, <4>4 DEF Named
    <3> QED
      BY <3>2, <3>3 DEF x, c
  <2> QED
    BY <1>1, <2>1, <2>2
<1> HIDE DEF S
<1>4. \A i \in 0..Len(s) : i \in S
  BY <1>2, <1>3, Reaches
<1>5. Len(s) \in S
  BY <1>2, <1>4
<1> QED
  BY <1>1, <1>5 DEF S

(* What the network has after i messages is what the changes up to there   *)
(* make.                                                                   *)
LEMMA Piece ==
    ASSUME NEW s \in Seq(Fit), NEW e, Ends(s, Chunks(s), e), NEW i \in 1..Len(Chunks(s))
    PROVE  /\ Chunks(s)[i] \in Seq(Fit)
           /\ \A x \in Modes : NetMessage(x, Chunks(s)[i]) = NetChanges(x, Chunks(s)[i])
           /\ \A n \in Modes : NetChanges(n, SubSeq(s, 1, e[i]))
                               = NetChanges(NetChanges(n, SubSeq(s, 1, e[i - 1])), Chunks(s)[i])
           /\ \A k \in 1..Len(Chunks(s)[i]) : \E j \in 1..Len(s) : Chunks(s)[i][k] = s[j]
           /\ SubSeq(s, 1, e[i - 1]) \in Seq(Fit) /\ SubSeq(s, 1, e[i]) \in Seq(Fit)
<1>0. Chunks(s) \in Seq(Seq(Fit)) /\ Len(Chunks(s)) \in Nat
  BY ChunksAre
<1>1. i - 1 \in 0..Len(Chunks(s)) /\ i \in 0..Len(Chunks(s))
  BY <1>0
<1> DEFINE a == e[i - 1]
           b == e[i]
<1>2. a \in 0..Len(s) /\ b \in 0..Len(s) /\ a =< b /\ b - a =< MaxModes /\ Chunks(s)[i] = SubSeq(s, a + 1, b)
  BY <1>1 DEF Ends
<1> HIDE DEF a, b
<1>3. /\ SubSeq(s, a + 1, b) \in Seq(Fit) /\ Len(SubSeq(s, a + 1, b)) = b - a
      /\ SubSeq(s, 1, a) \in Seq(Fit)
      /\ SubSeq(s, 1, b) = SubSeq(s, 1, a) \o SubSeq(s, a + 1, b)
      /\ \A k \in 1..Len(SubSeq(s, a + 1, b)) : \E j \in 1..Len(s) : SubSeq(s, a + 1, b)[k] = s[j]
  BY <1>2, Parts
<1>4. Chunks(s)[i] \in Seq(Fit) /\ Len(Chunks(s)[i]) =< MaxModes
  BY <1>2, <1>3
<1>5. \A x \in Modes : NetMessage(x, Chunks(s)[i]) = NetChanges(x, Chunks(s)[i])
  BY <1>4, MessageShort
<1>6. ASSUME NEW n \in Modes
      PROVE  NetChanges(n, SubSeq(s, 1, b)) = NetChanges(NetChanges(n, SubSeq(s, 1, a)), SubSeq(s, a + 1, b))
  <2> DEFINE x == SubSeq(s, 1, a)
             y == SubSeq(s, a + 1, b)
             z == SubSeq(s, 1, b)
  <2>1. x \in Seq(Fit) /\ y \in Seq(Fit) /\ z = x \o y
    BY <1>3
  <2> HIDE DEF x, y, z
  <2>2. NetChanges(n, x \o y) = NetChanges(NetChanges(n, x), y)
    BY <2>1, NetChangesJoined
  <2>3. NetChanges(n, z) = NetChanges(NetChanges(n, x), y)
    BY <2>1, <2>2
  <2> QED
    BY <2>3 DEF x, y, z
<1>7. SubSeq(s, 1, b) \in Seq(Fit)
  <2>1. 0 \in 0..Len(s) /\ 0 =< b
    BY <1>2
  <2>2. SubSeq(s, 0 + 1, b) \in Seq(Fit)
    BY <1>2, <2>1, Parts
  <2> QED
    BY <2>2
<1> QED
  BY <1>2, <1>3, <1>4, <1>5, <1>6, <1>7 DEF a, b

(* It begins with no changes and ends with all.                            *)
LEMMA Whence ==
    ASSUME NEW s \in Seq(Fit), NEW e, Ends(s, Chunks(s), e), NEW n \in Modes
    PROVE  /\ Chunks(s) \in Seq(Seq(Fit)) /\ Len(Chunks(s)) \in Nat
           /\ NetChanges(n, SubSeq(s, 1, e[0])) = n
           /\ NetChanges(n, SubSeq(s, 1, e[Len(Chunks(s))])) = NetChanges(n, s)
<1>1. Chunks(s) \in Seq(Seq(Fit)) /\ Len(Chunks(s)) \in Nat
  BY ChunksAre
<1>2. SubSeq(s, 1, 0) = <<>> /\ SubSeq(s, 1, Len(s)) = s
  OBVIOUS
<1>3. NetChanges(n, <<>>) = n
  <2>1. PICK c : c \in Fit
    <3>1. [plus |-> TRUE, mode |-> "t", arg |-> None] \in Fit
      BY DEF Fit, Change, Plain, Keyed, Listed, Argument
    <3> QED
      BY <3>1
  <2> QED
    BY <2>1, NetChangesFew
<1> QED
  BY <1>1, <1>2, <1>3 DEF Ends

(* What is written by a server takes effect as a whole,                    *)
LEMMA ServersMayWrite ==
    ASSUME NEW n \in Modes, NEW s \in Seq(Fit)
    PROVE  NetTakes(n, TRUE, Chunks(s)) = NetChanges(n, s)
<1> DEFINE m == Chunks(s)
<1>1. PICK e : Ends(s, m, e)
  BY ChunksAre
<1>2. m \in Seq(Seq(Fit)) /\ Len(m) \in Nat /\ NetChanges(n, SubSeq(s, 1, e[0])) = n
      /\ NetChanges(n, SubSeq(s, 1, e[Len(m)])) = NetChanges(n, s)
  BY <1>1, Whence
<1>3. PICK h \in [0..Len(m) -> Modes] :
               /\ h[0] = n
               /\ \A i \in 1..Len(m) : h[i] = NetMessage(h[i - 1], m[i])
               /\ NetTakes(n, TRUE, m) = h[Len(m)]
  <2> HIDE DEF m
  <2> QED
    BY <1>2, ServerWritesTrace
<1>4. ASSUME NEW i \in 1..Len(m), NEW x \in Modes PROVE
          /\ NetMessage(x, m[i]) = NetChanges(x, m[i])
          /\ NetChanges(n, SubSeq(s, 1, e[i])) = NetChanges(NetChanges(n, SubSeq(s, 1, e[i - 1])), m[i])
  BY <1>1, Piece
<1> HIDE DEF m
<1> DEFINE S == {i \in 0..Len(m) : h[i] = NetChanges(n, SubSeq(s, 1, e[i]))}
<1>5. 0 \in S
  BY <1>2, <1>3
<1>6. ASSUME NEW i \in 1..Len(m), i - 1 \in S PROVE i \in S
  <2>0. i \in 0..Len(m) /\ i - 1 \in 0..Len(m)
    BY <1>2
  <2>1. h[i - 1] \in Modes /\ h[i - 1] = NetChanges(n, SubSeq(s, 1, e[i - 1]))
    BY <1>6, <2>0
  <2>2. h[i] = NetMessage(h[i - 1], m[i])
    BY <1>3
  <2> QED
    BY <1>4, <2>0, <2>1, <2>2
<1> HIDE DEF S
<1>7. \A i \in 0..Len(m) : i \in S
  BY <1>2, <1>5, <1>6, Reaches
<1>8. Len(m) \in S
  BY <1>2, <1>7
<1> QED
  BY <1>2, <1>3, <1>8 DEF S, m

(* and by the bot until it takes its own op, after which only modes in     *)
(* Refused differ.                                                         *)
LEMMA BotMayWrite ==
    ASSUME NEW n \in Modes, NEW s \in Seq(Fit), Bot \in n.ops,
           \A i \in 1..Len(s) : s[i] # Opping,
           NEW l \in Viewed, l \notin Refused(Chunks(s))
    PROVE  View(NetTakes(n, FALSE, Chunks(s)), l) = View(NetChanges(n, s), l)
<1> DEFINE m == Chunks(s)
<1>1. PICK e : Ends(s, m, e)
  BY ChunksAre
<1>2. m \in Seq(Seq(Fit)) /\ Len(m) \in Nat /\ NetChanges(n, SubSeq(s, 1, e[0])) = n
      /\ NetChanges(n, SubSeq(s, 1, e[Len(m)])) = NetChanges(n, s)
  BY <1>1, Whence
<1>3. PICK h \in [0..Len(m) -> Modes] :
               /\ h[0] = n
               /\ \A i \in 1..Len(m) : h[i] = TakesOfBot(h[i - 1], m[i])
               /\ NetTakes(n, FALSE, m) = h[Len(m)]
  <2> HIDE DEF m
  <2> QED
    BY <1>2, BotWritesTrace
<1> DEFINE w(i) == NetChanges(n, SubSeq(s, 1, e[i]))
           Left(i) == \E a \in 1..i : \E k \in 1..Len(m[a]) : m[a][k] = Deopping
<1>4. ASSUME NEW i \in 1..Len(m) PROVE
          /\ m[i] \in Seq(Fit)
          /\ \A x \in Modes : NetMessage(x, m[i]) = NetChanges(x, m[i])
          /\ w(i) = NetChanges(w(i - 1), m[i])
          /\ w(i) \in Modes /\ w(i - 1) \in Modes
          /\ \A k \in 1..Len(m[i]) : m[i][k] # Opping
  <2>1. /\ m[i] \in Seq(Fit)
        /\ \A x \in Modes : NetMessage(x, m[i]) = NetChanges(x, m[i])
        /\ NetChanges(n, SubSeq(s, 1, e[i])) = NetChanges(NetChanges(n, SubSeq(s, 1, e[i - 1])), m[i])
        /\ \A k \in 1..Len(m[i]) : \E j \in 1..Len(s) : m[i][k] = s[j]
        /\ SubSeq(s, 1, e[i - 1]) \in Seq(Fit) /\ SubSeq(s, 1, e[i]) \in Seq(Fit)
    BY <1>1, Piece
  <2>2. NetChanges(n, SubSeq(s, 1, e[i - 1])) \in Modes /\ NetChanges(n, SubSeq(s, 1, e[i])) \in Modes
    BY <2>1, NetChangesType
  <2> HIDE DEF m
  <2> QED
    BY <2>1, <2>2
<1>5. ASSUME NEW i \in 1..Len(m), NEW a \in 1..(i - 1), NEW k \in 1..Len(m[a]), m[a][k] = Deopping, l # "bot"
      PROVE  \A j \in 1..Len(m[i]) : m[i][j].mode # l
  <2> SUFFICES ASSUME NEW j \in 1..Len(m[i]), m[i][j].mode = l PROVE FALSE
    OBVIOUS
  <2>1. i \in DOMAIN m /\ a \in DOMAIN m /\ a < i /\ k \in DOMAIN m[a] /\ j \in DOMAIN m[i] /\ l \in AnyMode
    <3>1. a \in 1..Len(m) /\ a < i
      BY <1>2
    <3>2. m[i] \in Seq(Fit) /\ m[a] \in Seq(Fit) /\ m \in Seq(Seq(Fit))
      BY <1>2, <1>4, <3>1
    <3> HIDE DEF m
    <3> QED
      BY <1>5, <3>1, <3>2 DEF Viewed
  <2> HIDE DEF m
  <2>2. l \in Refused(m)
    BY <1>5, <2>1 DEF Refused, Deopping
  <2> QED
    BY <2>2 DEF m
<1> HIDE DEF m, w
<1> DEFINE J(i) == \/ Bot \in h[i].ops /\ h[i] = w(i)
                   \/ /\ Bot \notin h[i].ops /\ Bot \notin w(i).ops /\ Left(i)
                      /\ View(h[i], l) = View(w(i), l)
           S == {i \in 0..Len(m) : J(i)}
<1>6. 0 \in S
  BY <1>2, <1>3 DEF w
<1>7. ASSUME NEW i \in 1..Len(m), i - 1 \in S PROVE i \in S
  <2>1. i \in 0..Len(m) /\ i - 1 \in 0..Len(m) /\ J(i - 1) /\ h[i - 1] \in Modes /\ h[i] = TakesOfBot(h[i - 1], m[i])
    <3>1. i \in 0..Len(m) /\ i - 1 \in 0..Len(m)
      BY <1>2
    <3>2. J(i - 1)
      <4> HIDE DEF J
      <4> QED
        BY <1>7
    <3> HIDE DEF J
    <3> QED
      BY <1>3, <3>1, <3>2
  <2>2. Left(i - 1) => Left(i)
    <3>1. 1..(i - 1) \subseteq 1..i
      BY <1>2
    <3> QED
      BY <3>1
  <2> HIDE DEF Left
  <2>3. CASE Bot \in h[i - 1].ops
    <3>1. h[i - 1] = w(i - 1)
      BY <2>1, <2>3
    <3>2. h[i] = w(i)
      BY <1>4, <2>1, <2>3, <3>1 DEF TakesOfBot
    <3>3. CASE Bot \in h[i].ops
      BY <2>1, <3>2, <3>3
    <3>4. CASE Bot \notin h[i].ops
      <4>1. \E k \in 1..Len(m[i]) : m[i][k] = Deopping
        <5> SUFFICES ASSUME \A k \in 1..Len(m[i]) : m[i][k] # Deopping PROVE FALSE
          OBVIOUS
        <5>1. \A k \in 1..Len(m[i]) : m[i][k] # Deopping /\ m[i][k] # Opping
          BY <1>4
        <5>2. Bot \in NetChanges(w(i - 1), m[i]).ops <=> Bot \in w(i - 1).ops
          BY <1>4, <5>1, BotStaysOp
        <5> QED
          BY <1>4, <2>3, <3>1, <3>2, <3>4, <5>2
      <4>2. Left(i)
        <5>1. i \in 1..i
          BY <1>2
        <5> QED
          BY <4>1, <5>1 DEF Left
      <4> QED
        BY <2>1, <3>2, <3>4, <4>2
    <3> QED
      BY <3>3, <3>4
  <2>4. CASE Bot \notin h[i - 1].ops
    <3>1. h[i] = h[i - 1] /\ Bot \notin w(i - 1).ops /\ Left(i - 1) /\ View(h[i - 1], l) = View(w(i - 1), l)
      BY <2>1, <2>4 DEF TakesOfBot
    <3>2. Bot \notin w(i).ops
      BY <1>4, <3>1, BotStaysOut
    <3>3. View(h[i], l) = View(w(i), l)
      <4>1. CASE l = "bot"
        BY <2>4, <3>1, <3>2, <4>1 DEF View, Plain
      <4>2. CASE l # "bot"
        <5>1. \A j \in 1..Len(m[i]) : m[i][j].mode # l
          BY <1>5, <3>1, <4>2 DEF Left
        <5>2. \A j \in 1..Len(m[i]) : ~NetTouches(m[i][j], l)
          BY <4>2, <5>1 DEF NetTouches
        <5>3. View(NetChanges(w(i - 1), m[i]), l) = View(w(i - 1), l)
          BY <1>4, <5>2, NetChangesSpare
        <5> QED
          BY <1>4, <3>1, <5>3
      <4> QED
        BY <4>1, <4>2
    <3> QED
      BY <2>1, <2>2, <2>4, <3>1, <3>2, <3>3
  <2> QED
    BY <2>3, <2>4
<1> HIDE DEF J
<1>8. \A i \in 0..Len(m) : i \in S
  <2> HIDE DEF S
  <2> QED
    BY <1>2, <1>6, <1>7, Reaches
<1>9. J(Len(m))
  BY <1>2, <1>8
<1>10. w(Len(m)) = NetChanges(n, s)
  BY <1>2 DEF w
<1> QED
  BY <1>3, <1>9, <1>10 DEF J, m

-----------------------------------------------------------------------------
(* The bans of the network.                                                *)

(* The network never has a ban twice.                                      *)
Thin(n) == n.bans \in [Mask -> 0..1]

(* A second +b of a mask is no change, and takes away none.                *)
LEMMA NetChangeThin == ASSUME NEW n \in Modes, Thin(n), NEW c \in Fit PROVE Thin(NetChange(n, c))
<1>0. "b" \in Viewed /\ \A x : View(x, "b") = x.bans
  BY DEF Viewed, AnyMode, Listed, View, Plain
<1>1. CASE c.mode # "b"
  <2>1. View(NetChange(n, c), "b") = View(n, "b")
    BY <1>0, <1>1, NetUntouched
  <2> QED
    BY <1>0, <2>1 DEF Thin
<1>2. CASE c.mode = "b"
  <2>1. CASE Ignored(n, c)
    BY <2>1, NetChangeIs
  <2>2. CASE ~Ignored(n, c)
    <3>1. c \in Whole /\ NetChange(n, c) = OnChange(n, c)
      BY <1>2, <2>2, NetChangeIs
    <3>2. NetChange(n, c).bans = Banned(n.bans, c)
      BY <1>2, <3>1, Effects
    <3>3. Banned(n.bans, c) \in [Mask -> 0..1]
      BY DEF Thin, Banned
    <3> QED
      BY <3>2, <3>3 DEF Thin
  <2> QED
    BY <2>1, <2>2
<1> QED
  BY <1>1, <1>2

LEMMA NetChangesThin == ASSUME NEW n \in Modes, Thin(n), NEW s \in Seq(Fit) PROVE Thin(NetChanges(n, s))
<1>1. PICK h \in [0..Len(s) -> Modes] :
               /\ h[0] = n
               /\ \A i \in 1..Len(s) : h[i] = NetChange(h[i - 1], s[i])
               /\ NetChanges(n, s) = h[Len(s)]
  BY NetChangesTrace
<1> DEFINE S == {i \in 0..Len(s) : Thin(h[i])}
<1>2. Len(s) \in Nat /\ 0 \in S
  BY <1>1
<1>3. ASSUME NEW i \in 1..Len(s), i - 1 \in S PROVE i \in S
  <2>1. i \in 0..Len(s) /\ s[i] \in Fit /\ h[i - 1] \in Modes /\ Thin(h[i - 1])
    BY <1>3
  <2> QED
    BY <1>1, <2>1, NetChangeThin
<1> HIDE DEF S
<1>4. \A i \in 0..Len(s) : i \in S
  BY <1>2, <1>3, Reaches
<1>5. Len(s) \in S
  BY <1>2, <1>4
<1> QED
  BY <1>1, <1>5 DEF S

LEMMA NetMessageThin == ASSUME NEW n \in Modes, Thin(n), NEW s \in Seq(Fit) PROVE Thin(NetMessage(n, s))
<1>1. PICK h \in [0..Len(s) -> Acc] :
               /\ h[0] = [modes |-> n, args |-> 0]
               /\ \A i \in 1..Len(s) : h[i] = NetNext(h[i - 1], s[i])
               /\ NetMessage(n, s) = h[Len(s)].modes
  BY NetMessageTrace
<1> DEFINE S == {i \in 0..Len(s) : Thin(h[i].modes)}
<1>2. Len(s) \in Nat /\ 0 \in S
  BY <1>1
<1>3. ASSUME NEW i \in 1..Len(s), i - 1 \in S PROVE i \in S
  <2>1. i \in 0..Len(s) /\ s[i] \in Fit /\ h[i - 1] \in Acc /\ Thin(h[i - 1].modes)
    BY <1>3
  <2>2. h[i - 1].modes \in Modes /\ DOMAIN h[i - 1] = {"modes", "args"}
    BY <2>1 DEF Acc
  <2>3. Thin(NetChange(h[i - 1].modes, s[i]))
    BY <2>1, <2>2, NetChangeThin
  <2>4. h[i].modes \in {h[i - 1].modes, NetChange(h[i - 1].modes, s[i])}
    <3> DEFINE a == h[i - 1]
               d == s[i]
    <3>1. NetNext(a, d).modes \in {a.modes, NetChange(a.modes, d)}
      <4>1. DOMAIN a = {"modes", "args"}
        BY <2>2
      <4> HIDE DEF a, d
      <4> QED
        BY <4>1 DEF NetNext
    <3> QED
      BY <1>1, <3>1
  <2> QED
    BY <2>1, <2>3, <2>4
<1> HIDE DEF S
<1>4. \A i \in 0..Len(s) : i \in S
  BY <1>2, <1>3, Reaches
<1>5. Len(s) \in S
  BY <1>2, <1>4
<1> QED
  BY <1>1, <1>5 DEF S

(* So much for what a bot writes, of which some is not taken.              *)
LEMMA BotWritesType ==
    ASSUME NEW n \in Modes, Thin(n), NEW m \in Seq(Seq(Fit))
    PROVE  NetTakes(n, FALSE, m) \in Modes /\ Thin(NetTakes(n, FALSE, m))
<1>1. PICK h \in [0..Len(m) -> Modes] :
               /\ h[0] = n
               /\ \A i \in 1..Len(m) : h[i] = TakesOfBot(h[i - 1], m[i])
               /\ NetTakes(n, FALSE, m) = h[Len(m)]
  BY BotWritesTrace
<1> DEFINE S == {i \in 0..Len(m) : Thin(h[i])}
<1>2. Len(m) \in Nat /\ 0 \in S
  BY <1>1
<1>3. ASSUME NEW i \in 1..Len(m), i - 1 \in S PROVE i \in S
  <2>1. i \in 0..Len(m) /\ m[i] \in Seq(Fit) /\ h[i - 1] \in Modes /\ Thin(h[i - 1])
    BY <1>3
  <2> QED
    BY <1>1, <2>1, NetMessageThin DEF TakesOfBot
<1> HIDE DEF S
<1>4. \A i \in 0..Len(m) : i \in S
  BY <1>2, <1>3, Reaches
<1>5. Len(m) \in S /\ h[Len(m)] \in Modes
  BY <1>2, <1>4
<1> QED
  BY <1>1, <1>5 DEF S

(* A message, or three of them, of a bot that is operator before each.     *)
LEMMA BotWritesFew ==
    ASSUME NEW n \in Modes, NEW a \in Seq(Fit), NEW b \in Seq(Fit), NEW c \in Seq(Fit)
    PROVE  /\ NetTakes(n, FALSE, <<>>) = n
           /\ NetTakes(n, FALSE, <<a>>) = TakesOfBot(n, a)
           /\ NetTakes(n, FALSE, <<a, b, c>>) = TakesOfBot(TakesOfBot(TakesOfBot(n, a), b), c)
<1>1. ASSUME NEW m \in Seq(Seq(Fit)), Len(m) = 0 PROVE NetTakes(n, FALSE, m) = n
  <2>1. PICK h \in [0..Len(m) -> Modes] : h[0] = n /\ NetTakes(n, FALSE, m) = h[Len(m)]
    BY BotWritesTrace
  <2> QED
    BY <1>1, <2>1
<1>2. ASSUME NEW m \in Seq(Seq(Fit)), Len(m) = 1 PROVE NetTakes(n, FALSE, m) = TakesOfBot(n, m[1])
  <2>1. PICK h \in [0..Len(m) -> Modes] :
               /\ h[0] = n
               /\ \A i \in 1..Len(m) : h[i] = TakesOfBot(h[i - 1], m[i])
               /\ NetTakes(n, FALSE, m) = h[Len(m)]
    BY BotWritesTrace
  <2>2. 1 \in 1..Len(m) /\ 1 - 1 = 0
    BY <1>2
  <2>3. h[1] = TakesOfBot(h[0], m[1])
    BY <2>1, <2>2
  <2> QED
    BY <1>2, <2>1, <2>3
<1>3. ASSUME NEW m \in Seq(Seq(Fit)), Len(m) = 3
      PROVE  NetTakes(n, FALSE, m) = TakesOfBot(TakesOfBot(TakesOfBot(n, m[1]), m[2]), m[3])
  <2>1. PICK h \in [0..Len(m) -> Modes] :
               /\ h[0] = n
               /\ \A i \in 1..Len(m) : h[i] = TakesOfBot(h[i - 1], m[i])
               /\ NetTakes(n, FALSE, m) = h[Len(m)]
    BY BotWritesTrace
  <2>2. 1 \in 1..Len(m) /\ 1 - 1 = 0 /\ 2 \in 1..Len(m) /\ 2 - 1 = 1 /\ 3 \in 1..Len(m) /\ 3 - 1 = 2
    BY <1>3
  <2>3. h[1] = TakesOfBot(h[0], m[1]) /\ h[2] = TakesOfBot(h[1], m[2]) /\ h[3] = TakesOfBot(h[2], m[3])
    BY <2>1, <2>2
  <2> QED
    BY <1>3, <2>1, <2>3
<1>4. <<>> \in Seq(Seq(Fit)) /\ Len(<<>>) = 0
  OBVIOUS
<1>5. <<a>> \in Seq(Seq(Fit)) /\ Len(<<a>>) = 1 /\ <<a>>[1] = a
  OBVIOUS
<1>6. <<a, b, c>> \in Seq(Seq(Fit)) /\ Len(<<a, b, c>>) = 3 /\ <<a, b, c>>[1] = a
      /\ <<a, b, c>>[2] = b /\ <<a, b, c>>[3] = c
  OBVIOUS
<1>7. NetTakes(n, FALSE, <<>>) = n
  BY <1>1, <1>4
<1>8. NetTakes(n, FALSE, <<a>>) = TakesOfBot(n, a)
  BY <1>2, <1>5
<1> DEFINE m == <<a, b, c>>
<1>9. NetTakes(n, FALSE, m) = TakesOfBot(TakesOfBot(TakesOfBot(n, a), b), c)
  <2>1. m \in Seq(Seq(Fit)) /\ Len(m) = 3 /\ m[1] = a /\ m[2] = b /\ m[3] = c
    BY <1>6
  <2> HIDE DEF m
  <2>2. NetTakes(n, FALSE, m) = TakesOfBot(TakesOfBot(TakesOfBot(n, m[1]), m[2]), m[3])
    BY <1>3, <2>1
  <2> QED
    BY <2>1, <2>2
<1> QED
  BY <1>7, <1>8, <1>9

-----------------------------------------------------------------------------
(* The invariant.                                                          *)

(* What every step keeps: the table and the network agree but for S, the   *)
(* op of the bot included; a key the table holds is one.                   *)
Keyful(t) == None \notin View(t, "k")
Agree(t, n, S) == \A l \in Viewed \ S : View(t, l) = View(n, l)
Sound(t, n, S) ==
    /\ t \in Modes /\ n \in Modes /\ Thin(n) /\ Keyful(t)
    /\ S \subseteq AnyMode /\ Agree(t, n, S)

MInv == scene \in Scenes /\ Sound(table, net, spoiled)

(* What there is to say of the modes that are asked for by name.           *)
LEMMA ViewedAre ==
    /\ "bot" \in Viewed /\ "bot" \notin AnyMode /\ "k" \in Viewed /\ "b" \in Viewed /\ "k" \in AnyMode
    /\ \A x : View(x, "bot") = x.ops \cap {Bot} /\ View(x, "b") = x.bans
    /\ \A x : View(x, "o") = x.ops /\ View(x, "v") = x.voices
    /\ \A x : View(x, "k") = IF "k" \in x.on THEN {x.arg["k"]} ELSE {}
  BY DEF Viewed, AnyMode, Plain, Keyed, Listed, View

(* Here and there the bot has op, or here and there it has not.            *)
LEMMA BotsAgree ==
    ASSUME NEW t, NEW n, NEW S, Sound(t, n, S)
    PROVE  Bot \in t.ops <=> Bot \in n.ops
<1>1. "bot" \in Viewed \ S
  BY ViewedAre DEF Sound
<1>2. View(t, "bot") = View(n, "bot")
  BY <1>1 DEF Sound, Agree
<1> QED
  BY <1>2, ViewedAre

(* What is not spoiled is the same.                                        *)
LEMMA SoundSynced ==
    ASSUME NEW t, NEW n, NEW S, Sound(t, n, S), NEW l \in AnyMode \ S
    PROVE  Same(t, n, l)
<1>1. l \in Viewed \ S
  BY DEF Viewed
<1>2. View(t, l) = View(n, l) /\ t \in Modes /\ n \in Modes
  BY <1>1 DEF Sound, Agree
<1> QED
  BY <1>2, SameView

(* A user is opped or taken off here and there.                            *)
LEMMA OppedSound ==
    ASSUME NEW t, NEW n, NEW S, Sound(t, n, S), NEW u \in User
    PROVE  Sound(Opped(t, u), Opped(n, u), S)
<1>1. t \in Modes /\ n \in Modes /\ S \subseteq AnyMode
  BY DEF Sound
<1>2. \A x \in Modes : Opped(x, u) \in Modes /\ Opped(x, u).ops = x.ops \cup {u} /\ Opped(x, u).bans = x.bans
  BY DEF Modes, Opped
<1>3. ASSUME NEW x \in Modes, NEW l \in Viewed, l # "o", l # "bot" PROVE View(Opped(x, u), l) = View(x, l)
  BY <1>3 DEF Modes, Opped, View
<1>4. ASSUME NEW l \in Viewed, View(t, l) = View(n, l) PROVE View(Opped(t, u), l) = View(Opped(n, u), l)
  <2>1. CASE l = "o"
    <3>1. t.ops = n.ops
      BY <1>4, <2>1 DEF View, Plain
    <3>2. Opped(t, u).ops = Opped(n, u).ops
      BY <1>1, <1>2, <3>1
    <3> QED
      BY <2>1, <3>2 DEF View, Plain
  <2>2. CASE l = "bot"
    <3>1. t.ops \cap {Bot} = n.ops \cap {Bot}
      BY <1>4, <2>2, ViewedAre
    <3>2. (t.ops \cup {u}) \cap {Bot} = (n.ops \cup {u}) \cap {Bot}
      BY <3>1
    <3> QED
      BY <1>1, <1>2, <2>2, <3>2, ViewedAre
  <2>3. CASE l # "o" /\ l # "bot"
    BY <1>1, <1>3, <1>4, <2>3
  <2> QED
    BY <2>1, <2>2, <2>3
<1>5. View(Opped(t, u), "k") = View(t, "k")
  BY <1>1, <1>3, ViewedAre
<1> QED
  BY <1>1, <1>2, <1>4, <1>5 DEF Sound, Agree, Keyful, Thin

LEMMA WithoutSound ==
    ASSUME NEW t, NEW n, NEW S, Sound(t, n, S), NEW u
    PROVE  Sound(WithoutUser(t, u), WithoutUser(n, u), S)
<1>1. t \in Modes /\ n \in Modes /\ S \subseteq AnyMode
  BY DEF Sound
<1>2. \A x \in Modes : /\ WithoutUser(x, u) \in Modes /\ WithoutUser(x, u).ops = x.ops \ {u}
                       /\ WithoutUser(x, u).voices = x.voices \ {u}
                       /\ WithoutUser(x, u).bans = x.bans
  BY DEF Modes, WithoutUser
<1>3. ASSUME NEW x \in Modes, NEW l \in Viewed, l \notin {"o", "v", "bot"}
      PROVE  View(WithoutUser(x, u), l) = View(x, l)
  BY <1>3 DEF Modes, WithoutUser, View
<1>4. ASSUME NEW l \in Viewed, View(t, l) = View(n, l)
      PROVE  View(WithoutUser(t, u), l) = View(WithoutUser(n, u), l)
  <2>1. CASE l = "o"
    <3>1. t.ops = n.ops
      BY <1>4, <2>1 DEF View, Plain
    <3>2. WithoutUser(t, u).ops = WithoutUser(n, u).ops
      BY <1>1, <1>2, <3>1
    <3> QED
      BY <2>1, <3>2 DEF View, Plain
  <2>4. CASE l = "v"
    <3>1. t.voices = n.voices
      BY <1>4, <2>4 DEF View, Plain
    <3>2. WithoutUser(t, u).voices = WithoutUser(n, u).voices
      BY <1>1, <1>2, <3>1
    <3> QED
      BY <2>4, <3>2 DEF View, Plain
  <2>2. CASE l = "bot"
    <3>1. t.ops \cap {Bot} = n.ops \cap {Bot}
      BY <1>4, <2>2, ViewedAre
    <3>2. (t.ops \ {u}) \cap {Bot} = (n.ops \ {u}) \cap {Bot}
      BY <3>1
    <3>3. WithoutUser(t, u).ops \cap {Bot} = WithoutUser(n, u).ops \cap {Bot}
      BY <1>1, <1>2, <3>2
    <3> QED
      BY <2>2, <3>3, ViewedAre
  <2>3. CASE l \notin {"o", "v", "bot"}
    BY <1>1, <1>3, <1>4, <2>3
  <2> QED
    BY <2>1, <2>2, <2>3, <2>4
<1>5. View(WithoutUser(t, u), "k") = View(t, "k")
  BY <1>1, <1>3, ViewedAre
<1> QED
  BY <1>1, <1>2, <1>4, <1>5 DEF Sound, Agree, Keyful, Thin

(* The bot joins for a call and parts again.                               *)
LEMMA HereSound ==
    ASSUME NEW t, NEW n, NEW S, Sound(t, n, S)
    PROVE  /\ Sound(Here(t), Here(n), S) /\ Sound(Gone(t), Gone(n), S)
           /\ (OnChannel => Bot \in t.ops) => Bot \in Here(t).ops /\ Bot \in Here(n).ops
<1>1. Sound(Opped(t, Bot), Opped(n, Bot), S) /\ Sound(WithoutUser(t, Bot), WithoutUser(n, Bot), S)
  BY OppedSound, WithoutSound DEF User
<1>2. Sound(Here(t), Here(n), S) /\ Sound(Gone(t), Gone(n), S)
  BY <1>1 DEF Here, Gone
<1>3. ASSUME OnChannel => Bot \in t.ops PROVE Bot \in Here(t).ops
  <2>1. t \in Modes
    BY DEF Sound
  <2>2. CASE ~OnChannel
    BY <2>1, <2>2 DEF Here, Opped, Modes
  <2>3. CASE OnChannel
    BY <1>3, <2>3 DEF Here
  <2> QED
    BY <2>2, <2>3
<1>4. Bot \in Here(t).ops <=> Bot \in Here(n).ops
  BY <1>2, BotsAgree
<1> QED
  BY <1>2, <1>3, <1>4

(* A key that is set by a change with an argument is one.                  *)
LEMMA OnChangeKeyful ==
    ASSUME NEW t \in Modes, Keyful(t), NEW c \in Whole
    PROVE  Keyful(OnChange(t, c))
<1>1. CASE ~Touches(c, "k")
  BY <1>1, Untouched, ViewedAre DEF Keyful
<1>2. CASE c.mode = "k"
  <2>1. c.arg # None
    BY <1>2 DEF Whole, NeedsArgument, Keyed
  <2>2. OnChange(t, c) = OnModeK(t, c)
    BY <1>2 DEF OnChange, Plain
  <2>3. "k" \in OnModeK(t, c).on => OnModeK(t, c).arg["k"] = c.arg
    BY DEF OnModeK, Present, Absent, Modes, Keyed, Plain
  <2> QED
    BY <2>1, <2>2, <2>3, ViewedAre DEF Keyful
<1>3. CASE c.mode = "A" /\ ~c.plus
  <2>1. OnChange(t, c) = OnModeA(t, c)
    BY <1>3 DEF OnChange, Plain
  <2>2. "k" \notin OnModeA(t, c).on
    BY <1>3 DEF OnModeA, Modes
  <2> QED
    BY <2>1, <2>2, ViewedAre DEF Keyful
<1> QED
  BY <1>1, <1>2, <1>3 DEF Touches

(* What comes from the scene.                                              *)
LEMMA Inputs ==
    ASSUME scene \in Scenes
    PROVE  /\ AnyChange \subseteq Fit
           /\ scene.clients \subseteq Client /\ scene.modes \subseteq AnyMode
<1>1. scene.clients \subseteq Client /\ scene.modes \subseteq AnyMode
  <2>1. scene \in [modes : SUBSET (Plain \cup Keyed \cup Listed), clients : SUBSET Client]
    BY ModesAssumption
  <2> QED
    BY <2>1 DEF AnyMode
<1>2. ASSUME NEW c \in AnyChange PROVE c \in Fit
  <2>1. PICK l \in scene.modes : c \in [plus : BOOLEAN, mode : {l}, arg : Arguments(l)]
    BY DEF AnyChange
  <2>2. l \in Plain \cup Keyed \cup Listed
    BY <1>1 DEF AnyMode
  <2>3. c = [plus |-> c.plus, mode |-> l, arg |-> c.arg] /\ c.plus \in BOOLEAN /\ c.mode = l /\ c.arg \in Arguments(l)
    BY <2>1
  <2>4. CASE l \in Plain
    BY <2>3, <2>4 DEF Fit, Change, Arguments, Plain, Keyed, Listed, Argument
  <2>5. CASE l \in Keyed
    BY <2>3, <2>5 DEF Fit, Change, Arguments, Plain, Keyed, Listed, Argument
  <2>6. CASE l \in {"o", "v"}
    BY <1>1, <2>3, <2>6 DEF Fit, Change, Arguments, Plain, Keyed, Listed, Argument, User
  <2>7. CASE l = "b"
    BY <2>3, <2>7 DEF Fit, Change, Arguments, Plain, Keyed, Listed, Argument
  <2> QED
    BY <2>2, <2>4, <2>5, <2>6, <2>7 DEF Listed
<1> QED
  BY <1>1, <1>2

-----------------------------------------------------------------------------
(* Calls that make their changes as they are.                              *)

LEMMA OnChangesKeyful ==
    ASSUME NEW t \in Modes, Keyful(t), NEW s \in Seq(Whole)
    PROVE  Keyful(OnChanges(t, s))
<1>1. PICK h \in [0..Len(s) -> Modes] :
               /\ h[0] = t
               /\ \A i \in 1..Len(s) : h[i] = OnChange(h[i - 1], s[i])
               /\ OnChanges(t, s) = h[Len(s)]
  BY OnChangesTrace
<1> DEFINE S == {i \in 0..Len(s) : Keyful(h[i])}
<1>2. Len(s) \in Nat /\ 0 \in S
  BY <1>1
<1>3. ASSUME NEW i \in 1..Len(s), i - 1 \in S PROVE i \in S
  <2>1. i \in 0..Len(s) /\ s[i] \in Whole /\ h[i - 1] \in Modes /\ Keyful(h[i - 1])
    BY <1>3
  <2> QED
    BY <1>1, <2>1, OnChangeKeyful
<1> HIDE DEF S
<1>4. \A i \in 0..Len(s) : i \in S
  BY <1>2, <1>3, Reaches
<1>5. Len(s) \in S
  BY <1>2, <1>4
<1> QED
  BY <1>1, <1>5 DEF S

(* What the bot has written agrees with a table that has the changes made. *)
LEMMA Written ==
    ASSUME NEW t, NEW n \in Modes, Thin(n), Bot \in n.ops, NEW s \in Seq(Fit),
           \A i \in 1..Len(s) : s[i] # Opping,
           t \in Modes, Keyful(t),
           NEW S \in SUBSET AnyMode, Refused(Chunks(s)) \subseteq S,
           \A l \in Viewed \ S : View(t, l) = View(NetChanges(n, s), l)
    PROVE  Sound(t, NetTakes(n, FALSE, Chunks(s)), S)
<1>1. Chunks(s) \in Seq(Seq(Fit))
  BY ChunksAre
<1>2. NetTakes(n, FALSE, Chunks(s)) \in Modes /\ Thin(NetTakes(n, FALSE, Chunks(s)))
  BY <1>1, BotWritesType
<1>3. ASSUME NEW l \in Viewed \ S PROVE View(t, l) = View(NetTakes(n, FALSE, Chunks(s)), l)
  <2>1. l \in Viewed /\ l \notin Refused(Chunks(s)) /\ View(t, l) = View(NetChanges(n, s), l)
    OBVIOUS
  <2>2. View(NetTakes(n, FALSE, Chunks(s)), l) = View(NetChanges(n, s), l)
    BY <2>1, BotMayWrite
  <2> QED
    BY <2>1, <2>2
<1> QED
  BY <1>2, <1>3 DEF Sound, Agree

(* Nothing is refused to a bot that does not take its own op.              *)
LEMMA NothingRefused ==
    ASSUME NEW s \in Seq(Fit), \A i \in 1..Len(s) : s[i] # Deopping
    PROVE  Refused(Chunks(s)) = {}
<1> SUFFICES ASSUME NEW l \in Refused(Chunks(s)) PROVE FALSE
  OBVIOUS
<1> DEFINE m == Chunks(s)
<1>1. PICK i \in DOMAIN m : \E k \in DOMAIN m[i] : m[i][k] = Deopping
  <2> HIDE DEF m
  <2>1. l \in Refused(m)
    BY DEF m
  <2> QED
    BY <2>1 DEF Refused, Deopping
<1>2. m \in Seq(Seq(Fit)) /\ \E e : Ends(s, m, e)
  BY ChunksAre
<1>3. i \in 1..Len(m) /\ m[i] \in Seq(Fit)
  <2> HIDE DEF m
  <2> QED
    BY <1>2
<1>4. PICK k \in 1..Len(m[i]) : m[i][k] = Deopping
  <2> HIDE DEF m
  <2> QED
    BY <1>1, <1>3
<1>5. \E j \in 1..Len(s) : m[i][k] = s[j]
  BY <1>2, <1>3, Piece
<1> QED
  BY <1>4, <1>5

(* A call that makes its changes as they are, in the table and by          *)
(* messages.                                                               *)
LEMMA PerformSound ==
    ASSUME MInv, NEW s \in Seq(Whole), Perform(s),
           \A i \in 1..Len(s) : s[i].mode \in Listed /\ s[i] # Opping /\ s[i] # Deopping
    PROVE  MInv'
<1> DEFINE t == Here(table)
           n == Here(net)
<1>1. Sound(table, net, spoiled) /\ scene \in Scenes
  BY DEF MInv
<1>2. Sound(t, n, spoiled) /\ Bot \in n.ops
  BY <1>1, HereSound DEF Perform, MayAct
<1>3. s \in Seq(Fit)
  BY DEF Whole
<1> HIDE DEF t, n
<1>4. t \in Modes /\ n \in Modes /\ Thin(n) /\ Keyful(t) /\ spoiled \in SUBSET AnyMode
      /\ \A l \in Viewed \ spoiled : View(t, l) = View(n, l)
  BY <1>2 DEF Sound, Agree
<1>5. OnChanges(t, s) \in Modes /\ Keyful(OnChanges(t, s))
  BY <1>4, OnChangesType, OnChangesKeyful
<1>6. Refused(Chunks(s)) \subseteq spoiled
  BY <1>3, NothingRefused
<1>7. ASSUME NEW l \in Viewed \ spoiled PROVE View(OnChanges(t, s), l) = View(NetChanges(n, s), l)
  <2>1. \A i \in 1..Len(s) : /\ ~(s[i].mode = "A" /\ ~s[i].plus /\ l \in {"A", "k"})
                             /\ ~(s[i].mode = l /\ l \in {"k", "A", "U"} /\ s[i].plus)
    BY DEF Listed
  <2> QED
    BY <1>4, <2>1, AgreeAll
<1>8. Sound(OnChanges(t, s), NetTakes(n, FALSE, Chunks(s)), spoiled)
  BY <1>2, <1>3, <1>4, <1>5, <1>6, <1>7, Written
<1>9. Sound(Gone(OnChanges(t, s)), Gone(NetTakes(n, FALSE, Chunks(s))), spoiled)
  BY <1>8, HereSound
<1>10. table' = Gone(OnChanges(t, s)) /\ net' = Gone(NetTakes(n, FALSE, Chunks(s)))
       /\ scene' = scene /\ spoiled' = spoiled
  BY DEF Perform, t, n
<1>11. Sound(table', net', spoiled')
  BY <1>9, <1>10
<1> QED
  BY <1>1, <1>10, <1>11 DEF MInv

(* A list of a finite set has its members, each once.                      *)
LEMMA AllOf ==
    ASSUME NEW S, IsFiniteSet(S)
    PROVE  /\ SetToSeq(S) \in Seq(S)
           /\ \A x \in S : \E i \in 1..Len(SetToSeq(S)) : SetToSeq(S)[i] = x
           /\ \A i, j \in 1..Len(SetToSeq(S)) : SetToSeq(S)[i] = SetToSeq(S)[j] => i = j
<1>1. Cardinality(S) \in Nat /\ ExistsBijection(1..Cardinality(S), S)
  BY FS_CardinalityType
<1>2. PICK f \in [1..Cardinality(S) -> S] : /\ \A a, b \in 1..Cardinality(S) : f[a] = f[b] => a = b
                                            /\ \A x \in S : \E a \in 1..Cardinality(S) : f[a] = x
  BY <1>1 DEF ExistsBijection, Bijection, Injection, Surjection, IsInjective
<1>3. IsInjective(f)
  BY <1>2 DEF IsInjective
<1> DEFINE g == SetToSeq(S)
<1>4. g \in [1..Cardinality(S) -> S] /\ IsInjective(g)
  BY <1>3 DEF SetToSeq
<1> HIDE DEF g
<1>5. \A x \in S : \E i \in 1..Cardinality(S) : g[i] = x
  <2>1. IsFiniteSet(1..Cardinality(S)) /\ Cardinality(1..Cardinality(S)) = Cardinality(S)
    BY <1>1, FS_Interval
  <2>2. g \in Injection(1..Cardinality(S), S)
    BY <1>4 DEF Injection, IsInjective
  <2>3. g \in Surjection(1..Cardinality(S), S)
    BY <2>1, <2>2, FS_Injection
  <2> QED
    BY <2>3 DEF Surjection
<1>6. Len(g) = Cardinality(S) /\ g \in Seq(S)
  BY <1>1, <1>4
<1>7. \A i, j \in 1..Len(g) : g[i] = g[j] => i = j
  BY <1>4, <1>6 DEF IsInjective
<1> QED
  BY <1>5, <1>6, <1>7 DEF g

(* ChangesOf() gives changes of the kind asked for.                        *)
LEMMA ChangesAre ==
    ASSUME NEW plus, NEW mode, NEW args, IsFiniteSet(args), NEW X,
           \A a \in args : Change1(plus, mode, a) \in X
    PROVE  ChangesOf(plus, mode, args) \in Seq(X)
<1> DEFINE q == SetToSeq(args)
<1>1. q \in Seq(args)
  BY AllOf
<1> HIDE DEF q
<1>2. \A i \in DOMAIN q : Change1(plus, mode, q[i]) \in X
  BY <1>1
<1>3. [i \in DOMAIN q |-> Change1(plus, mode, q[i])] \in Seq(X)
  <2>1. DOMAIN q = 1..Len(q) /\ Len(q) \in Nat
    BY <1>1
  <2> HIDE DEF Change1
  <2> QED
    BY <1>2, <2>1
<1> QED
  BY <1>3 DEF ChangesOf, q

(* The changes of Op(), Ban() and the others.                              *)
Usual == {c \in Whole : c.mode \in Listed /\ c # Opping /\ c # Deopping}

(* A call of them, none of which is about the op of the bot:               *)
LEMMA UsualSound ==
    ASSUME MInv, NEW plus \in BOOLEAN, NEW mode, NEW args, Perform(ChangesOf(plus, mode, args)),
           \/ mode \in {"o", "v"} /\ args \in SUBSET Client
           \/ mode = "b" /\ args \in SUBSET Mask
    PROVE  MInv'
<1>1. IsFiniteSet(args)
  BY FS_Subset, ModesAssumption
<1>2. ASSUME NEW a \in args PROVE Change1(plus, mode, a) \in Usual
  <2>1. CASE mode \in {"o", "v"} /\ args \in SUBSET Client
    <3>1. a \in Client /\ a # Bot /\ a # None
      BY <2>1, ModesAssumption DEF User
    <3> QED
      BY <2>1, <3>1 DEF Usual, Change1, Opping, Deopping, Whole, Fit, Change, NeedsArgument,
                        Listed, Keyed, Plain, Argument, User
  <2>2. CASE mode = "b" /\ args \in SUBSET Mask
    <3>1. a \in Mask /\ a # None
      BY <2>2, ModesAssumption
    <3> QED
      BY <2>2, <3>1 DEF Usual, Change1, Opping, Deopping, Whole, Fit, Change, NeedsArgument,
                        Listed, Keyed, Plain, Argument
  <2> QED
    BY <2>1, <2>2
<1>3. ChangesOf(plus, mode, args) \in Seq(Usual)
  BY <1>1, <1>2, ChangesAre
<1> DEFINE s == ChangesOf(plus, mode, args)
<1>4. s \in Seq(Usual) /\ Perform(s)
  BY <1>3
<1> HIDE DEF s
<1>5. s \in Seq(Whole)
  BY <1>4 DEF Usual
<1>6. \A i \in 1..Len(s) : s[i].mode \in Listed /\ s[i] # Opping /\ s[i] # Deopping
  BY <1>4 DEF Usual
<1> QED
  BY <1>4, <1>5, <1>6, PerformSound

(* Op(), DeOp(), Voice(), DeVoice() and Ban(),                             *)
LEMMA OpSound ==
    ASSUME MInv, NEW users \in SUBSET scene.clients,
           Op(users) \/ DeOp(users) \/ Voice(users) \/ DeVoice(users) \/ Ban(users)
    PROVE  MInv'
<1>1. users \in SUBSET Client
  BY Inputs DEF MInv
<1>2. CASE Op(users)
  BY <1>1, <1>2, UsualSound DEF Op
<1>3. CASE DeOp(users)
  BY <1>1, <1>3, UsualSound DEF DeOp
<1>4. CASE Voice(users)
  BY <1>1, <1>4, UsualSound DEF Voice
<1>5. CASE DeVoice(users)
  BY <1>1, <1>5, UsualSound DEF DeVoice
<1>6. CASE Ban(users)
  <2>1. {BanOf[n] : n \in (users \cap members) \ Service} \in SUBSET Mask
    BY <1>1, ModesAssumption
  <2> QED
    BY <1>6, <2>1, UsualSound DEF Ban
<1> QED
  BY <1>2, <1>3, <1>4, <1>5, <1>6

(* UnBan() of one mask                                                     *)
LEMMA UnBanSound ==
    ASSUME MInv, NEW mask \in Mask, UnBan(mask)
    PROVE  MInv'
<1> DEFINE c == Change1(FALSE, "b", mask)
           s == <<c>>
<1>1. c \in Whole /\ c.mode \in Listed /\ c # Opping /\ c # Deopping
  BY ModesAssumption DEF Change1, Opping, Deopping, Whole, Fit, Change, NeedsArgument,
                         Listed, Keyed, Plain, Argument
<1> HIDE DEF c
<1>2. s \in Seq(Whole) /\ \A i \in 1..Len(s) : s[i] = c
  BY <1>1
<1>3. Perform(s)
  BY DEF UnBan, c
<1> HIDE DEF s
<1> QED
  BY <1>1, <1>2, <1>3, PerformSound

(* and of many.                                                            *)
LEMMA UnBansSound ==
    ASSUME MInv, NEW masks \in SUBSET Mask, UnBans(masks)
    PROVE  MInv'
  BY UsualSound DEF UnBans

(* Topic() and a user that goes.                                           *)
LEMMA OppingIs ==
    ASSUME NEW t \in Modes, NEW u \in User
    PROVE  /\ Change1(TRUE, "o", u) \in Whole
           /\ OnChange(t, Change1(TRUE, "o", u)) = Opped(t, u)
           /\ NetChange(t, Change1(TRUE, "o", u)) = Opped(t, u)
<1> DEFINE c == Change1(TRUE, "o", u)
<1>1. c.plus = TRUE /\ c.mode = "o" /\ c.arg = u /\ u # None
  BY ModesAssumption DEF Change1
<1>2. c \in Whole
  BY <1>1 DEF Change1, Whole, Fit, Change, NeedsArgument, Listed, Keyed, Plain, Argument
<1> HIDE DEF c
<1>3. OnChange(t, c) = Opped(t, u)
  BY <1>1 DEF OnChange, OnModeO, Opped, Plain
<1>4. NetChange(t, c) = OnChange(t, c)
  BY <1>1 DEF NetChange
<1> QED
  BY <1>2, <1>3, <1>4 DEF c

(* Topic(), for which the server ops the bot.                              *)
LEMMA TopicSound == ASSUME MInv, Topic PROVE MInv'
<1> DEFINE c == Change1(TRUE, "o", Bot)
<1>1. Sound(table, net, spoiled) /\ scene \in Scenes
  BY DEF MInv
<1>2. c \in Whole /\ c \in Fit /\ net \in Modes
  BY <1>1, OppingIs DEF Sound, Whole, User
<1>3. NetChange(net, c) = Opped(net, Bot)
  BY <1>2, OppingIs DEF User
<1> HIDE DEF c
<1> DEFINE a == <<c>>
           m == <<a>>
<1>4. a \in Seq(Fit) /\ Len(a) =< MaxModes /\ NetChanges(net, a) = NetChange(net, c)
  <2>1. Len(a) = 1 /\ a \in Seq(Fit) /\ 1 =< MaxModes
    BY <1>2, ModesAssumption
  <2> QED
    BY <1>2, <2>1, NetChangesFew
<1>5. m \in Seq(Seq(Fit)) /\ Len(m) = 1 /\ m[1] = a
  BY <1>4
<1> HIDE DEF a
<1>6. NetTakes(net, TRUE, m) = NetMessage(net, a)
  <2> HIDE DEF m
  <2>1. PICK h \in [0..Len(m) -> Modes] :
               /\ h[0] = net
               /\ \A i \in 1..Len(m) : h[i] = NetMessage(h[i - 1], m[i])
               /\ NetTakes(net, TRUE, m) = h[Len(m)]
    BY <1>2, <1>5, ServerWritesTrace
  <2>2. 1 \in 1..Len(m) /\ 1 - 1 = 0
    BY <1>5
  <2>3. h[1] = NetMessage(h[0], m[1])
    BY <2>1, <2>2
  <2> QED
    BY <1>5, <2>1, <2>3
<1>7. NetMessage(net, a) = NetChanges(net, a)
  BY <1>2, <1>4, MessageShort
<1>8. net' = Opped(net, Bot) /\ table' = Opped(table, Bot) /\ scene' = scene /\ spoiled' = spoiled
  BY <1>3, <1>4, <1>6, <1>7 DEF Topic, m, a, c
<1>9. Sound(table', net', spoiled')
  <2>1. Sound(Opped(table, Bot), Opped(net, Bot), spoiled)
    BY <1>1, OppedSound DEF User
  <2> QED
    BY <1>8, <2>1
<1> QED
  BY <1>1, <1>8, <1>9 DEF MInv

(* Somebody leaves.                                                        *)
LEMMA LeaveSound == ASSUME MInv, NEW n, Leave(n) PROVE MInv'
<1>1. Sound(WithoutUser(table, n), WithoutUser(net, n), spoiled)
  BY WithoutSound DEF MInv
<1> QED
  BY <1>1 DEF MInv, Leave

(* ClearMode() of a server or an IRC operator, and the message CM.         *)
LEMMA ClearedIs ==
    ASSUME NEW x \in Modes, NEW letters \in SUBSET AnyMode
    PROVE  /\ Cleared(x, letters) \in Modes
           /\ Cleared(x, letters).on = x.on \ letters
           /\ Cleared(x, letters).arg = [l \in Keyed |-> IF l \in letters THEN None ELSE x.arg[l]]
           /\ Cleared(x, letters).ops = IF "o" \in letters THEN {} ELSE x.ops
           /\ Cleared(x, letters).voices = IF "v" \in letters THEN {} ELSE x.voices
           /\ Cleared(x, letters).bans = IF "b" \in letters THEN [m \in Mask |-> 0] ELSE x.bans
<1> DEFINE F == [l \in Keyed |-> IF l \in letters THEN None ELSE x.arg[l]]
           A == IF "o" \in letters THEN {} ELSE x.ops
           B == IF "v" \in letters THEN {} ELSE x.voices
           Z == IF "b" \in letters THEN [m \in Mask |-> 0] ELSE x.bans
<1>1. /\ x.on \in SUBSET (Plain \cup Keyed) /\ x.arg \in [Keyed -> Value \cup {None}]
      /\ x.ops \in SUBSET User /\ x.voices \in SUBSET User /\ x.bans \in [Mask -> 0..MaxCopies]
  BY DEF Modes
<1>2. /\ F \in [Keyed -> Value \cup {None}] /\ A \in SUBSET User /\ B \in SUBSET User
      /\ Z \in [Mask -> 0..MaxCopies] /\ x.on \ letters \in SUBSET (Plain \cup Keyed)
  <2>1. [m \in Mask |-> 0] \in [Mask -> 0..MaxCopies]
    BY DEF MaxCopies
  <2>2. Z \in [Mask -> 0..MaxCopies]
    BY <1>1, <2>1
  <2>3. F \in [Keyed -> Value \cup {None}]
    BY <1>1
  <2> QED
    BY <1>1, <2>2, <2>3
<1>3. Cleared(x, letters) = [x EXCEPT !.on = @ \ letters, !.arg = F, !.ops = A, !.voices = B, !.bans = Z]
  BY DEF Cleared, NoModes
<1> HIDE DEF F, A, B, Z
<1>4. Cleared(x, letters) = [on |-> x.on \ letters, arg |-> F, ops |-> A, voices |-> B, bans |-> Z]
  BY <1>3 DEF Modes
<1>5. Cleared(x, letters) \in Modes
  BY <1>2, <1>4 DEF Modes
<1> QED
  BY <1>4, <1>5 DEF F, A, B, Z

(* What is cleared is empty, the rest as before; without any op the bot    *)
(* has none.                                                               *)
LEMMA ClearedView ==
    ASSUME NEW x \in Modes, NEW letters \in SUBSET AnyMode, NEW l \in Viewed
    PROVE  View(Cleared(x, letters), l) =
               IF l \notin letters /\ ~(l = "bot" /\ "o" \in letters) THEN View(x, l)
               ELSE IF l = "b" THEN [m \in Mask |-> 0] ELSE {}
<1>1. CASE l = "o"
  BY ClearedIs, <1>1 DEF View, Plain
<1>2. CASE l = "bot"
  BY ClearedIs, <1>2 DEF View, Plain, AnyMode, Keyed, Listed
<1>3. CASE l = "v"
  BY ClearedIs, <1>3 DEF View, Plain
<1>4. CASE l = "b"
  BY ClearedIs, <1>4 DEF View, Plain
<1>5. CASE l \in Plain
  <2>1. \A y : View(y, l) = y.on \cap {l}
    BY <1>5 DEF View, Plain
  <2>5. Cleared(x, letters).on = x.on \ letters
    BY ClearedIs, ZenonT(30)
  <2>2. View(Cleared(x, letters), l) = (x.on \ letters) \cap {l} /\ View(x, l) = x.on \cap {l}
    BY <2>5, <2>1
  <2>3. (x.on \ letters) \cap {l} = IF l \in letters THEN {} ELSE x.on \cap {l}
    OBVIOUS
  <2>4. l # "bot" /\ l # "b"
    BY <1>5 DEF Plain
  <2> QED
    BY <2>2, <2>3, <2>4
<1>6. CASE l \in Keyed
  <2>1. \A y : View(y, l) = IF l \in y.on THEN {y.arg[l]} ELSE {}
    BY <1>6 DEF View, Plain, Keyed
  <2>3. /\ Cleared(x, letters).on = x.on \ letters
        /\ Cleared(x, letters).arg = [i \in Keyed |-> IF i \in letters THEN None ELSE x.arg[i]]
    BY ClearedIs
  <2>2. /\ Cleared(x, letters).on = x.on \ letters
        /\ Cleared(x, letters).arg[l] = (IF l \in letters THEN None ELSE x.arg[l])
    BY <2>3, <1>6
  <2>4. l # "bot" /\ l # "b"
    BY <1>6 DEF Keyed
  <2> QED
    BY <2>1, <2>2, <2>4
<1> QED
  BY <1>1, <1>2, <1>3, <1>4, <1>5, <1>6 DEF Viewed, AnyMode, Listed

(* What is cleared here and there is right again.                          *)
LEMMA ClearedSound ==
    ASSUME NEW t, NEW n, NEW S, Sound(t, n, S), NEW letters \in SUBSET AnyMode
    PROVE  Sound(Cleared(t, letters), Cleared(n, letters), S \ letters)
<1>1. t \in Modes /\ n \in Modes /\ S \subseteq AnyMode /\ Thin(n)
  BY DEF Sound
<1>3. Thin(Cleared(n, letters))
  <2>1. [m \in Mask |-> 0] \in [Mask -> 0..1]
    OBVIOUS
  <2>2. Cleared(n, letters).bans \in {n.bans, [m \in Mask |-> 0]}
    BY <1>1, ClearedIs
  <2> QED
    BY <1>1, <2>1, <2>2 DEF Thin
<1>5. ASSUME NEW l \in Viewed \ (S \ letters) PROVE View(Cleared(t, letters), l) = View(Cleared(n, letters), l)
  <2>3. l \in Viewed
    OBVIOUS
  <2>4. ASSUME NEW x \in {t, n}
        PROVE  View(Cleared(x, letters), l) =
                   IF l \notin letters /\ ~(l = "bot" /\ "o" \in letters) THEN View(x, l)
                   ELSE IF l = "b" THEN [m \in Mask |-> 0] ELSE {}
    <3>1. x \in Modes
      BY <1>1
    <3> QED
      BY <2>3, <3>1, ClearedView
  <2>1. CASE l \in letters
    BY <2>4, <2>1
  <2>2. CASE l \notin letters
    <3>1. View(t, l) = View(n, l)
      BY <2>2 DEF Sound, Agree
    <3> QED
      BY <2>4, <2>2, <3>1
  <2> QED
    BY <2>1, <2>2
<1>6. Keyful(Cleared(t, letters))
  <2>2. "k" \in Viewed /\ "k" # "bot" /\ "k" # "b"
    BY ViewedAre
  <2>3. View(Cleared(t, letters), "k") =
            IF "k" \notin letters /\ ~("k" = "bot" /\ "o" \in letters) THEN View(t, "k")
            ELSE IF "k" = "b" THEN [m \in Mask |-> 0] ELSE {}
    BY <1>1, <2>2, ClearedView
  <2>1. View(Cleared(t, letters), "k") \in {{}, View(t, "k")}
    BY <2>2, <2>3
  <2> QED
    BY <2>1 DEF Keyful, Sound
<1> QED
  BY <1>1, ClearedIs, <1>3, <1>5, <1>6 DEF Sound, Agree

(* ClearMode() and the message CM.                                         *)
LEMMA ClearModeSound ==
    ASSUME MInv, NEW letters \in SUBSET AnyMode, ClearMode(letters) \/ msg_CM(letters)
    PROVE  MInv'
<1>1. Sound(Cleared(table, letters), Cleared(net, letters), spoiled \ letters)
  BY ClearedSound DEF MInv
<1> QED
  BY <1>1 DEF MInv, ClearMode, msg_CM

-----------------------------------------------------------------------------
(* Changes that take modes away.                                           *)

(* A call that fails spoils what it has changed.                           *)
LEMMA DifferSound ==
    ASSUME NEW t, NEW n, NEW S, Sound(t, n, S), NEW u \in Modes, Keyful(u),
           View(u, "bot") = View(t, "bot")
    PROVE  Sound(u, n, S \cup Differ(t, u))
<1>1. t \in Modes /\ n \in Modes /\ S \subseteq AnyMode
  BY DEF Sound
<1>2. ASSUME NEW l \in Viewed \ (S \cup Differ(t, u)) PROVE View(u, l) = View(n, l)
  <2>1. View(t, l) = View(n, l)
    BY DEF Sound, Agree
  <2>2. CASE l = "bot"
    BY <2>1, <2>2
  <2>3. CASE l # "bot"
    <3>1. l \in AnyMode /\ Same(t, u, l)
      BY <2>3 DEF Viewed, Differ
    <3>2. View(t, l) = View(u, l)
      BY <1>1, <3>1, SameView
    <3> QED
      BY <2>1, <3>2
  <2> QED
    BY <2>2, <2>3
<1>3. S \cup Differ(t, u) \subseteq AnyMode
  BY <1>1 DEF Differ
<1> QED
  BY <1>2, <1>3 DEF Sound, Agree

(* Changes that take modes away.                                           *)
LEMMA MinusOne ==
    ASSUME NEW n \in Modes, NEW c \in Fit, ~c.plus, c.mode \in {"t", "k", "l"}, NEW l \in Viewed
    PROVE  /\ View(NetChange(n, c), l) \in {{}, View(n, l)}
           /\ c \in Whole /\ c.mode = l => View(NetChange(n, c), l) = {}
<1>1. CASE c.mode # l
  <2>1. View(NetChange(n, c), l) = View(n, l)
    BY <1>1, NetUntouched
  <2> QED
    BY <1>1, <2>1
<1>2. CASE c.mode = l /\ c \notin Whole
  <2>1. NetChange(n, c) = n
    BY <1>2, NetChangeIs
  <2> QED
    BY <1>2, <2>1
<1>3. CASE c.mode = l /\ c \in Whole
  <2>1. ~Ignored(n, c)
    BY <1>3 DEF Ignored, Whole
  <2>2. NetChange(n, c) = OnChange(n, c)
    BY <1>3, <2>1, NetChangeIs
  <2>3. DOMAIN n = {"on", "arg", "ops", "voices", "bans"} /\ n.on \in SUBSET (Plain \cup Keyed)
    BY DEF Modes
  <2>4. l \notin OnChange(n, c).on
    BY <1>3, <2>3 DEF OnChange, OnMode, OnModeK, OnModeL, Absent, Plain
  <2>5. View(OnChange(n, c), l) = {}
    BY <1>3, <2>4 DEF View, Plain
  <2> QED
    BY <2>2, <2>5
<1> QED
  BY <1>1, <1>2, <1>3

(* After changes that all take away, what has been named is gone.          *)
LEMMA MinusAll ==
    ASSUME NEW n \in Modes, NEW s \in Seq(Fit), NEW l \in Viewed,
           \A i \in 1..Len(s) : ~s[i].plus /\ s[i].mode \in {"t", "k", "l"}
    PROVE  /\ View(NetChanges(n, s), l) \in {{}, View(n, l)}
           /\ (\E i \in 1..Len(s) : s[i].mode = l /\ s[i] \in Whole) => View(NetChanges(n, s), l) = {}
<1>1. PICK h \in [0..Len(s) -> Modes] :
               /\ h[0] = n
               /\ \A i \in 1..Len(s) : h[i] = NetChange(h[i - 1], s[i])
               /\ NetChanges(n, s) = h[Len(s)]
  BY NetChangesTrace
<1> DEFINE Gone1(i) == \E j \in 1..i : s[j].mode = l /\ s[j] \in Whole
<1> DEFINE S == {i \in 0..Len(s) : /\ View(h[i], l) \in {{}, View(n, l)}
                                   /\ Gone1(i) => View(h[i], l) = {}}
<1>2. Len(s) \in Nat /\ 0 \in S
  BY <1>1
<1>3. ASSUME NEW i \in 1..Len(s), i - 1 \in S PROVE i \in S
  <2>1. i - 1 \in 0..Len(s) /\ i \in 0..Len(s) /\ s[i] \in Fit /\ h[i - 1] \in Modes
    BY <1>2
  <2>2. h[i] = NetChange(h[i - 1], s[i])
    BY <1>1
  <2>3. /\ View(h[i], l) \in {{}, View(h[i - 1], l)}
        /\ s[i] \in Whole /\ s[i].mode = l => View(h[i], l) = {}
    BY <2>1, <2>2, MinusOne
  <2>4. View(h[i - 1], l) \in {{}, View(n, l)} /\ (Gone1(i - 1) => View(h[i - 1], l) = {})
    BY <1>3
  <2>5. Gone1(i) => Gone1(i - 1) \/ (s[i].mode = l /\ s[i] \in Whole)
    BY <2>1
  <2> HIDE DEF Gone1
  <2> QED
    BY <2>1, <2>3, <2>4, <2>5
<1> HIDE DEF S
<1>4. \A i \in 0..Len(s) : i \in S
  BY <1>2, <1>3, Reaches
<1>5. Len(s) \in S
  BY <1>2, <1>4
<1> QED
  BY <1>1, <1>5 DEF S

(* ClearMode() by a bot that is no IRC operator.                           *)
LEMMA ClearModeByMSound ==
    ASSUME MInv, NEW letters \in SUBSET {"t", "k", "l"}, ClearModeByM(letters)
    PROVE  MInv'
<1> DEFINE list == SetToSeq(letters)
           key(m) == IF m = "k" /\ "k" \in table.on THEN table.arg["k"] ELSE None
           minus == [i \in DOMAIN list |-> Change1(FALSE, list[i], key(list[i]))]
<1>1. Sound(table, net, spoiled) /\ scene \in Scenes /\ table \in Modes /\ net \in Modes /\ Keyful(table)
      /\ spoiled \subseteq AnyMode /\ Thin(net)
  BY DEF MInv, Sound
<1>2. /\ table' = Cleared(table, letters) /\ net' = NetTakes(net, FALSE, <<minus>>)
      /\ spoiled' = spoiled \cup (IF Bot \in table.ops THEN {} ELSE Differ(table, table'))
      /\ scene' = scene
  BY DEF ClearModeByM
<1>3. letters \in SUBSET AnyMode /\ IsFiniteSet(letters)
  <2>1. IsFiniteSet({"t", "k", "l"})
    <3>1. {"t", "k", "l"} = (({} \cup {"t"}) \cup {"k"}) \cup {"l"}
      OBVIOUS
    <3> QED
      <4>1. IsFiniteSet({} \cup {"t"})
        BY FS_EmptySet, FS_AddElement
      <4>2. IsFiniteSet(({} \cup {"t"}) \cup {"k"})
        BY <4>1, FS_AddElement
      <4>3. IsFiniteSet((({} \cup {"t"}) \cup {"k"}) \cup {"l"})
        BY <4>2, FS_AddElement
      <4> QED
        BY <3>1, <4>3
  <2>2. IsFiniteSet(letters)
    BY <2>1, FS_Subset
  <2> QED
    BY <2>2 DEF AnyMode, Plain, Keyed
<1>4. /\ list \in Seq(letters)
      /\ \A x \in letters : \E i \in 1..Len(list) : list[i] = x
      /\ \A i, j \in 1..Len(list) : list[i] = list[j] => i = j
  BY <1>3, AllOf
<1>5. "k" \in table.on => table.arg["k"] \in Value /\ table.arg["k"] # None
  BY <1>1, ViewedAre DEF Keyful, Modes, Keyed
<1> HIDE DEF list
<1>6. DOMAIN list = 1..Len(list) /\ Len(list) \in Nat /\ \A i \in 1..Len(list) : list[i] \in letters
  BY <1>4
<1>7. /\ minus \in Seq(Fit) /\ Len(minus) = Len(list)
      /\ \A i \in 1..Len(list) : ~minus[i].plus /\ minus[i].mode = list[i] /\ minus[i].arg = key(list[i])
  <2>1. \A i \in 1..Len(list) : Change1(FALSE, list[i], key(list[i])) \in Fit
    <3> SUFFICES ASSUME NEW i \in 1..Len(list) PROVE Change1(FALSE, list[i], key(list[i])) \in Fit
      OBVIOUS
    <3>2. list[i] \in {"t", "k", "l"}
      BY <1>6
    <3>1. key(list[i]) \in Value \cup {None}
      BY <1>5
    <3> HIDE DEF key
    <3> QED
      BY <3>1, <3>2 DEF Change1, Fit, Change, Plain, Keyed, Listed, Argument
  <2> HIDE DEF key
  <2>2. minus = [i \in 1..Len(list) |-> Change1(FALSE, list[i], key(list[i]))]
    BY <1>6
  <2>3. \A i \in 1..Len(list) : minus[i] = Change1(FALSE, list[i], key(list[i]))
    BY <2>2
  <2>4. minus \in Seq(Fit) /\ Len(minus) = Len(list)
    <3>1. minus \in [1..Len(list) -> Fit]
      <4> HIDE DEF Change1, minus
      <4>1. DOMAIN minus = 1..Len(list) /\ minus = [i \in 1..Len(list) |-> minus[i]]
        BY <2>2
      <4>2. \A i \in 1..Len(list) : minus[i] \in Fit
        BY <2>1, <2>3
      <4> QED
        BY <4>1, <4>2
    <3> HIDE DEF minus
    <3> QED
      BY <1>6, <3>1
  <2> QED
    BY <2>3, <2>4 DEF Change1
<1> HIDE DEF minus
<1>8. NetTakes(net, FALSE, <<minus>>) = TakesOfBot(net, minus)
  BY <1>1, <1>7, BotWritesFew
<1>9. Bot \in table.ops <=> Bot \in net.ops
  BY <1>1, BotsAgree
<1>10. Cleared(table, letters) \in Modes /\ Cleared(table, letters).ops = table.ops
  <2>1. table \in Modes /\ letters \in SUBSET AnyMode /\ "o" \notin letters
    BY <1>1, <1>3
  <2>2. /\ Cleared(table, letters) \in Modes
        /\ Cleared(table, letters).ops = (IF "o" \in letters THEN {} ELSE table.ops)
    BY <2>1, ClearedIs
  <2> QED
    BY <2>1, <2>2
<1>11. ASSUME NEW l \in Viewed PROVE View(Cleared(table, letters), l) = IF l \in letters THEN {} ELSE View(table, l)
  <2>1. View(Cleared(table, letters), l) =
               IF l \notin letters /\ ~(l = "bot" /\ "o" \in letters) THEN View(table, l)
               ELSE IF l = "b" THEN [m \in Mask |-> 0] ELSE {}
    <3>1. table \in Modes /\ letters \in SUBSET AnyMode
      BY <1>1, <1>3
    <3> QED
      BY <3>1, ClearedView
  <2>2. "o" \notin letters /\ "b" \notin letters
    OBVIOUS
  <2> QED
    BY <2>1, <2>2
<1>12. Keyful(Cleared(table, letters))
  <2>1. View(Cleared(table, letters), "k") = IF "k" \in letters THEN {} ELSE View(table, "k")
    BY <1>11, ViewedAre
  <2> QED
    BY <1>1, <2>1 DEF Keyful
<1>13. CASE Bot \notin table.ops
  <2>1. net' = net
    BY <1>2, <1>8, <1>9, <1>13 DEF TakesOfBot
  <2>2. View(Cleared(table, letters), "bot") = View(table, "bot")
    BY <1>10, ViewedAre
  <2>3. Sound(Cleared(table, letters), net, spoiled \cup Differ(table, Cleared(table, letters)))
    BY <1>1, <1>10, <1>12, <2>2, DifferSound
  <2> QED
    BY <1>1, <1>2, <1>13, <2>1, <2>3 DEF MInv
<1>14. CASE Bot \in table.ops
  <2>1. NetMessage(net, minus) = NetChanges(net, minus)
    <3>1. \E j \in Nat : \A i \in 1..Len(list) : i # j => list[i] # "k"
      <4>1. CASE \E j \in 1..Len(list) : list[j] = "k"
        <5>1. PICK j \in 1..Len(list) : list[j] = "k"
          BY <4>1
        <5>2. \A i \in 1..Len(list) : list[i] = list[j] => i = j
          BY <1>4, <5>1
        <5>3. j \in Nat
          BY <1>6, <5>1
        <5> QED
          BY <5>1, <5>2, <5>3
      <4>2. CASE ~\E j \in 1..Len(list) : list[j] = "k"
        BY <1>6, <4>2
      <4> QED
        BY <4>1, <4>2
    <3>2. PICK j \in Nat : \A i \in 1..Len(list) : i # j => list[i] # "k"
      BY <3>1
    <3>3. \A i \in 1..Len(minus) : i # j => minus[i].arg = None
      BY <1>7, <3>2
    <3> QED
      BY <1>1, <1>7, <3>3, MessageOfOne
  <2>2. net' = NetChanges(net, minus) /\ spoiled' = spoiled
    BY <1>2, <1>8, <1>9, <1>14, <2>1 DEF TakesOfBot
  <2>3. NetChanges(net, minus) \in Modes /\ Thin(NetChanges(net, minus))
    BY <1>1, <1>7, NetChangesType, NetChangesThin
  <2>4. ASSUME NEW l \in Viewed \ spoiled PROVE View(Cleared(table, letters), l) = View(NetChanges(net, minus), l)
    <3>1. View(table, l) = View(net, l)
      BY <1>1 DEF Sound, Agree
    <3>2. l \in Viewed /\ \A i \in 1..Len(minus) : ~minus[i].plus /\ minus[i].mode \in {"t", "k", "l"}
      BY <1>6, <1>7
    <3>3. /\ View(NetChanges(net, minus), l) \in {{}, View(net, l)}
          /\ (\E i \in 1..Len(minus) : minus[i].mode = l /\ minus[i] \in Whole)
                => View(NetChanges(net, minus), l) = {}
      BY <1>1, <1>7, <3>2, MinusAll
    <3>4. CASE l \notin letters
      <4>1. \A i \in 1..Len(minus) : ~NetTouches(minus[i], l)
        BY <1>6, <1>7, <3>4 DEF NetTouches
      <4>2. View(NetChanges(net, minus), l) = View(net, l)
        BY <1>1, <1>7, <3>2, <4>1, NetChangesSpare
      <4> QED
        BY <1>11, <3>1, <3>2, <3>4, <4>2
    <3>5. CASE l \in letters
      <4>1. PICK i \in 1..Len(minus) : minus[i].mode = l /\ minus[i].arg = key(l)
        BY <1>4, <1>7, <3>5
      <4>2. CASE minus[i] \in Whole
        BY <1>11, <3>2, <3>3, <3>5, <4>1, <4>2
      <4>3. CASE minus[i] \notin Whole
        <5>1. minus[i] \in Fit /\ ~minus[i].plus
          BY <1>7
        <5>2. l = "k" /\ key(l) = None
          <6> HIDE DEF key
          <6> QED
            BY <3>5, <4>1, <4>3, <5>1 DEF Whole, NeedsArgument, Listed, Keyed
        <5>3. "k" \notin table.on
          BY <1>5, <5>2
        <5>4. View(net, l) = {}
          BY <3>1, <5>2, <5>3, ViewedAre
        <5> QED
          BY <1>11, <3>2, <3>3, <3>5, <5>4
      <4> QED
        BY <4>2, <4>3
    <3> QED
      BY <3>4, <3>5
  <2>5. Sound(Cleared(table, letters), NetChanges(net, minus), spoiled)
    BY <1>1, <1>10, <1>12, <2>3, <2>4 DEF Sound, Agree
  <2> QED
    BY <1>1, <1>2, <2>2, <2>5 DEF MInv
<1> QED
  BY <1>13, <1>14

-----------------------------------------------------------------------------
(* Messages.                                                               *)

Settled(c) == {c.mode} \cap (Plain \cup {"k", "l"})

(* A change the network has made: what is set or cleared is right again.   *)
LEMMA StepSound ==
    ASSUME NEW t, NEW n, NEW S, Sound(t, n, S), NEW c \in Fit,
           NetChange(n, c) # n, ~(c.mode = "A" /\ ~c.plus)
    PROVE  /\ c \in Whole
           /\ Sound(OnChange(t, c), NetChange(n, c), S \ Settled(c))
<1>1. t \in Modes /\ n \in Modes /\ S \subseteq AnyMode /\ Thin(n) /\ Keyful(t)
  BY DEF Sound
<1>2. ~Ignored(n, c) /\ c \in Whole
  BY <1>1, NetChangeIs
<1>3. /\ OnChange(t, c) \in Modes /\ NetChange(n, c) \in Modes
      /\ Thin(NetChange(n, c)) /\ Keyful(OnChange(t, c))
  BY <1>1, <1>2, OnChangeType, NetChangeType, NetChangeThin, OnChangeKeyful
<1>4. ASSUME NEW l \in Viewed \ (S \ Settled(c)) PROVE View(OnChange(t, c), l) = View(NetChange(n, c), l)
  <2>1. CASE l \in Settled(c)
    <3>1. l = c.mode /\ c.mode \in Plain \cup {"k", "l", "U"}
      BY <2>1 DEF Settled
    <3>2. ~(c.mode \in {"k", "U"} /\ c.plus /\ c.mode \in n.on)
      BY <1>2 DEF Ignored
    <3>3. View(OnChange(t, c), c.mode) = View(NetChange(n, c), c.mode)
      BY <1>1, <1>2, <3>1, <3>2, Settles
    <3> QED
      BY <3>1, <3>3
  <2>2. CASE l \notin Settled(c)
    <3>1. l \in Viewed /\ View(t, l) = View(n, l)
      BY <2>2 DEF Sound, Agree
    <3>2. ~(c.mode = l /\ l \in {"k", "A", "U"} /\ c.plus /\ l \in n.on)
      BY <1>2 DEF Ignored
    <3> QED
      BY <1>1, <1>2, <3>1, <3>2, Agrees
  <2> QED
    BY <2>1, <2>2
<1>5. S \ Settled(c) \subseteq AnyMode
  BY <1>1
<1> QED
  BY <1>2, <1>3, <1>4, <1>5 DEF Sound, Agree

(* Lists of one and of two.                                                *)
LEMMA FirstOfTwo ==
    ASSUME NEW A, NEW x \in Seq(A), NEW z \in Seq(A), Len(x) = 1, Len(z) = 2, z[1] = x[1]
    PROVE  SubSeq(z, 1, 1) = x
<1>1. \A i \in 1..1 : z[i] \in A
  OBVIOUS
<1>2. /\ SubSeq(z, 1, 1) \in Seq(A)
      /\ Len(SubSeq(z, 1, 1)) = IF 1 <= 1 THEN 1 - 1 + 1 ELSE 0
      /\ \A i \in 1 .. 1 - 1 + 1 : SubSeq(z, 1, 1)[i] = z[1 + i - 1]
  BY <1>1, SubSeqProperties
<1> DEFINE w == SubSeq(z, 1, 1)
<1> HIDE DEF w
<1>3. w \in Seq(A) /\ Len(w) = 1 /\ \A i \in 1..1 : w[i] = z[1 + i - 1]
  BY <1>2 DEF w
<1>4. w[1] = x[1]
  BY <1>3
<1>5. \A i \in 1..Len(w) : w[i] = x[i]
  BY <1>3, <1>4
<1>6. w = x
  BY <1>3, <1>5, SeqEqual
<1> QED
  BY <1>6 DEF w

(* Lists of none, one and two changes.                                     *)
LEMMA PairIs ==
    ASSUME NEW A, NEW c \in A, NEW d \in A
    PROVE  /\ <<c>> \in Seq(A) /\ <<d>> \in Seq(A) /\ <<>> \in Seq(A) /\ <<c, d>> \in Seq(A)
           /\ DOMAIN <<>> = {} /\ DOMAIN <<c>> = {1} /\ DOMAIN <<c, d>> = {1, 2}
           /\ <<c>>[1] = c /\ <<c, d>>[1] = c /\ <<c, d>>[2] = d
           /\ <<c>> \o <<d>> = <<c, d>> /\ <<>> \o <<c>> = <<c>>
           /\ SubSeq(<<c>>, 1, 0) = <<>> /\ SubSeq(<<c, d>>, 1, 0) = <<>> /\ SubSeq(<<c, d>>, 1, 1) = <<c>>
<1> DEFINE x == <<c>>
           y == <<d>>
           z == <<c, d>>
<1>1. /\ x \in Seq(A) /\ y \in Seq(A) /\ <<>> \in Seq(A) /\ z \in Seq(A)
      /\ Len(x) = 1 /\ Len(y) = 1 /\ Len(z) = 2 /\ x[1] = c /\ y[1] = d /\ z[1] = c /\ z[2] = d
  OBVIOUS
<1>2. DOMAIN <<>> = {} /\ DOMAIN x = {1} /\ DOMAIN z = {1, 2}
  <2>1. DOMAIN x = 1..1 /\ DOMAIN z = 1..2
    OBVIOUS
  <2>2. 1..1 = {1} /\ 1..2 = {1, 2}
    OBVIOUS
  <2> HIDE DEF x, z
  <2> QED
    BY <2>1, <2>2
<1> HIDE DEF x, y, z
<1>3. x \o y = z
  <2>1. /\ x \o y \in Seq(A) /\ Len(x \o y) = Len(x) + Len(y)
        /\ \A i \in 1 .. Len(x) + Len(y) : (x \o y)[i] = IF i <= Len(x) THEN x[i] ELSE y[i - Len(x)]
    BY <1>1, ConcatProperties
  <2> DEFINE w == x \o y
  <2> HIDE DEF w
  <2>2. w \in Seq(A) /\ Len(w) = 2 /\ \A i \in 1..2 : w[i] = IF i <= 1 THEN x[i] ELSE y[i - 1]
    BY <1>1, <2>1 DEF w
  <2>3. w[1] = c /\ w[2] = d
    BY <1>1, <2>2
  <2>4. \A i \in 1..Len(w) : w[i] = z[i]
    BY <1>1, <2>2, <2>3
  <2>5. w = z
    BY <1>1, <2>2, <2>4, SeqEqual
  <2> QED
    BY <2>5 DEF w
<1>4. <<>> \o x = x
  BY <1>1, ConcatEmptySeq
<1>5. SubSeq(x, 1, 0) = <<>> /\ SubSeq(z, 1, 0) = <<>>
  BY SubSeqEmpty
<1>6. SubSeq(z, 1, 1) = x
  BY <1>1, FirstOfTwo
<1> QED
  BY <1>1, <1>2, <1>3, <1>4, <1>5, <1>6 DEF x, y, z

(* The message M, of one change or two that each have an effect.           *)
LEMMA NetModeSound ==
    ASSUME MInv, NEW changes \in Some, NetMode(changes)
    PROVE  MInv'
<1>1. Sound(table, net, spoiled) /\ scene \in Scenes /\ AnyChange \subseteq Fit
      /\ table \in Modes /\ net \in Modes
  BY Inputs DEF MInv, Sound
<1>2. /\ \A i \in DOMAIN changes :
            Effective(NetChanges(net, SubSeq(changes, 1, i - 1)), changes[i])
      /\ net' = NetChanges(net, changes) /\ table' = OnChanges(table, changes)
      /\ spoiled' = spoiled \ Heals(changes) /\ scene' = scene
  BY DEF NetMode, msg_M
<1>3. CASE \E c \in AnyChange : changes = <<c>>
  <2>1. PICK c \in AnyChange : changes = <<c>>
    BY <1>3
  <2>2. c \in Fit
    BY <1>1
  <2>3. /\ Len(changes) = 1 /\ DOMAIN changes = {1} /\ changes[1] = c /\ SubSeq(changes, 1, 1 - 1) = <<>>
    BY <2>1
  <2>4. Effective(NetChanges(net, <<>>), c)
    BY <1>2, <2>3
  <2>5. NetChanges(net, <<>>) = net /\ NetChanges(net, changes) = NetChange(net, c)
    BY <1>1, <2>1, <2>2, NetChangesFew
  <2>6. NetChange(net, c) # net /\ ~(c.mode = "A" /\ ~c.plus)
    BY <2>4, <2>5 DEF Effective
  <2>7. c \in Whole /\ Sound(OnChange(table, c), NetChange(net, c), spoiled \ Settled(c))
    BY <1>1, <2>2, <2>6, StepSound
  <2>8. OnChanges(table, changes) = OnChange(table, c)
    BY <1>1, <2>1, <2>7, OnChangesFew
  <2>9. Heals(changes) = Settled(c)
    <3>1. {changes[i].mode : i \in DOMAIN changes} = {c.mode}
      BY <2>3
    <3> QED
      BY <3>1 DEF Heals, Settled
  <2> QED
    BY <1>1, <1>2, <2>5, <2>7, <2>8, <2>9 DEF MInv
<1>4. CASE \E c, d \in AnyChange : changes = <<c, d>>
  <2>1. PICK c \in AnyChange, d \in AnyChange : changes = <<c, d>>
    BY <1>4
  <2>2. c \in Fit /\ d \in Fit
    BY <1>1
  <2>3. /\ DOMAIN changes = {1, 2} /\ changes[1] = c /\ changes[2] = d
        /\ SubSeq(changes, 1, 1 - 1) = <<>> /\ SubSeq(changes, 1, 2 - 1) = <<c>>
    <3>1. 1 - 1 = 0 /\ 2 - 1 = 1
      OBVIOUS
    <3>2. /\ DOMAIN <<c, d>> = {1, 2} /\ <<c, d>>[1] = c /\ <<c, d>>[2] = d
      <4>1. DOMAIN <<c, d>> = 1..2 /\ <<c, d>>[1] = c /\ <<c, d>>[2] = d
        OBVIOUS
      <4>2. 1..2 = {1, 2}
        OBVIOUS
      <4> DEFINE z == <<c, d>>
      <4> HIDE DEF z
      <4>3. DOMAIN z = 1..2 /\ z[1] = c /\ z[2] = d
        BY <4>1 DEF z
      <4> QED
        BY <4>2, <4>3 DEF z
    <3>3. SubSeq(<<c, d>>, 1, 0) = <<>>
      BY SubSeqEmpty
    <3>4. SubSeq(<<c, d>>, 1, 1) = <<c>>
      <4> DEFINE x == <<c>>
                 z == <<c, d>>
      <4>1. x \in Seq(Fit) /\ z \in Seq(Fit) /\ Len(x) = 1 /\ Len(z) = 2 /\ z[1] = x[1]
        BY <2>2
      <4> HIDE DEF x, z
      <4>2. SubSeq(z, 1, 1) = x
        BY <4>1, FirstOfTwo
      <4> QED
        BY <4>2 DEF x, z
    <3> QED
      BY <2>1, <3>1, <3>2, <3>3, <3>4
  <2>4. Effective(NetChanges(net, <<>>), c) /\ Effective(NetChanges(net, <<c>>), d)
    BY <1>2, <2>3
  <2>5. NetChanges(net, <<>>) = net /\ NetChanges(net, <<c>>) = NetChange(net, c)
    BY <1>1, <2>2, NetChangesFew
  <2>6. NetChange(net, c) # net /\ ~(c.mode = "A" /\ ~c.plus)
    BY <2>4, <2>5 DEF Effective
  <2>7. c \in Whole /\ Sound(OnChange(table, c), NetChange(net, c), spoiled \ Settled(c))
    BY <1>1, <2>2, <2>6, StepSound
  <2> DEFINE t1 == OnChange(table, c)
             n1 == NetChange(net, c)
             S1 == spoiled \ Settled(c)
  <2>8. NetChange(n1, d) # n1 /\ ~(d.mode = "A" /\ ~d.plus)
    BY <2>4, <2>5 DEF Effective
  <2>9. Sound(t1, n1, S1) /\ t1 \in Modes /\ n1 \in Modes
    BY <2>7 DEF Sound
  <2>10. d \in Whole /\ Sound(OnChange(t1, d), NetChange(n1, d), S1 \ Settled(d))
    <3> HIDE DEF t1, n1, S1
    <3> QED
      BY <2>2, <2>8, <2>9, StepSound
  <2>11. <<c>> \o <<d>> = changes /\ <<c>> \in Seq(Fit) /\ <<d>> \in Seq(Fit)
         /\ <<c>> \in Seq(Whole) /\ <<d>> \in Seq(Whole)
    BY <2>1, <2>2, <2>7, <2>10, PairIs
  <2>12. NetChanges(net, changes) = NetChange(n1, d)
    <3>1. NetChanges(net, changes) = NetChanges(NetChanges(net, <<c>>), <<d>>)
      BY <1>1, <2>11, NetChangesJoined
    <3>2. NetChanges(n1, <<d>>) = NetChange(n1, d)
      BY <2>2, <2>9, NetChangesFew
    <3> QED
      BY <2>5, <3>1, <3>2
  <2>13. OnChanges(table, changes) = OnChange(t1, d)
    <3>1. OnChanges(table, changes) = OnChanges(OnChanges(table, <<c>>), <<d>>)
      BY <1>1, <2>11, OnChangesJoined
    <3>2. OnChanges(t1, <<d>>) = OnChange(t1, d)
      BY <2>9, <2>10, OnChangesFew
    <3>3. OnChanges(table, <<c>>) = t1
      BY <1>1, <2>7, OnChangesFew
    <3> QED
      BY <3>1, <3>2, <3>3
  <2>14. spoiled \ Heals(changes) = S1 \ Settled(d)
    <3>1. {changes[i].mode : i \in DOMAIN changes} = {c.mode, d.mode}
      BY <2>3
    <3> QED
      BY <3>1 DEF Heals, Settled
  <2>15. Sound(table', net', spoiled')
    BY <1>2, <2>10, <2>12, <2>13, <2>14
  <2> QED
    BY <1>1, <1>2, <2>15 DEF MInv
<1> QED
  BY <1>3, <1>4 DEF Some

(* More may be spoiled than is.                                            *)
LEMMA SoundMore ==
    ASSUME NEW t, NEW n, NEW S, Sound(t, n, S), NEW R \in SUBSET AnyMode, S \subseteq R
    PROVE  Sound(t, n, R)
  BY DEF Sound, Agree

LEMMA NoModesType == NoModes \in Modes
  BY DEF NoModes, Modes, MaxCopies, Keyed

(* A channel that is new is the same here and there.                       *)
LEMMA NoModesSound == Sound(NoModes, NoModes, {})
<1>1. NoModes \in Modes
  BY NoModesType
<1>2. Thin(NoModes)
  BY DEF NoModes, Thin
<1>3. View(NoModes, "k") = {}
  BY ViewedAre DEF NoModes
<1> QED
  BY <1>1, <1>2, <1>3 DEF Sound, Agree, Keyful

(* The message B: a server links with the channel, of the same age or      *)
(* older.                                                                  *)
LEMMA msg_BSound ==
    ASSUME MInv, NEW older \in BOOLEAN, NEW op \in BOOLEAN, NEW changes \in Additions,
           NEW user \in scene.clients, msg_B(older, changes, user, op)
    PROVE  MInv'
<1> DEFINE t == IF older THEN RemoveAllBans(RemoveAllModes(table)) ELSE table
           n == IF older THEN NoModes ELSE net
           S == IF older THEN {} ELSE spoiled
           o == Change1(TRUE, "o", user)
           users == IF op THEN <<o>> ELSE <<>>
<1>1. Sound(table, net, spoiled) /\ scene \in Scenes /\ AnyChange \subseteq Fit /\ user \in User
  BY Inputs DEF MInv, User
<1>2. /\ \A i \in DOMAIN changes :
            /\ changes[i].plus
            /\ NetChange(NetChanges(n, SubSeq(changes, 1, i - 1)), changes[i])
                 # NetChanges(n, SubSeq(changes, 1, i - 1))
      /\ table' = OnChanges(OnChanges(t, changes), users)
      /\ net' = NetChanges(n, changes \o users)
      /\ spoiled' = S /\ scene' = scene
  BY DEF msg_B
<1>3. Sound(t, n, S) /\ t \in Modes /\ n \in Modes
  <2>1. RemoveAllBans(RemoveAllModes(table)) = NoModes
    <3>1. RemoveAllModes(table) = [NoModes EXCEPT !.bans = table.bans]
      BY DEF RemoveAllModes
    <3> QED
      BY <3>1 DEF RemoveAllBans, NoModes
  <2>2. Sound(t, n, S)
    BY <1>1, <2>1, NoModesSound
  <2> QED
    BY <2>2 DEF Sound
<1> HIDE DEF t, n, S
<1>4. o \in Whole /\ o \in Fit /\ \A x \in Modes : OnChange(x, o) = Opped(x, user) /\ NetChange(x, o) = Opped(x, user)
  <2>1. o \in Whole
    BY <1>1, NoModesType, OppingIs
  <2>2. \A x \in Modes : OnChange(x, o) = Opped(x, user) /\ NetChange(x, o) = Opped(x, user)
    BY <1>1, OppingIs
  <2> QED
    BY <2>1, <2>2 DEF Whole
<1> HIDE DEF o
<1>5. users \in Seq(Fit) /\ users \in Seq(Whole)
  BY <1>4
<1>6. ASSUME NEW x, NEW m, NEW R, Sound(x, m, R) PROVE Sound(OnChanges(x, users), NetChanges(m, users), R)
  <2>1. x \in Modes /\ m \in Modes
    BY <1>6 DEF Sound
  <2>2. Sound(Opped(x, user), Opped(m, user), R)
    BY <1>1, <1>6, OppedSound
  <2>3. CASE op
    <3>1. OnChanges(x, <<o>>) = Opped(x, user) /\ NetChanges(m, <<o>>) = Opped(m, user)
      BY <1>4, <2>1, OnChangesFew, NetChangesFew
    <3> QED
      BY <2>2, <2>3, <3>1
  <2>4. CASE ~op
    <3>1. OnChanges(x, <<>>) = x /\ NetChanges(m, <<>>) = m
      BY <1>4, <2>1, OnChangesFew, NetChangesFew
    <3> QED
      BY <1>6, <2>4, <3>1
  <2> QED
    BY <2>3, <2>4
<1> HIDE DEF users
<1>7. changes \in Seq(Fit) /\ changes \in Seq(Whole)
      /\ \E R : R \subseteq S /\ Sound(OnChanges(t, changes), NetChanges(n, changes), R)
  <2>1. CASE changes = <<>>
    <3>1. OnChanges(t, changes) = t /\ NetChanges(n, changes) = n
      BY <1>3, <1>4, <2>1, OnChangesFew, NetChangesFew
    <3> QED
      BY <1>3, <2>1, <3>1
  <2>2. CASE changes # <<>>
    <3>1. PICK c \in AnyChange : changes = <<c>>
      BY <2>2 DEF Additions
    <3>2. c \in Fit /\ DOMAIN changes = {1} /\ changes[1] = c /\ SubSeq(changes, 1, 1 - 1) = <<>>
      BY <1>1, <3>1
    <3>3. NetChanges(n, <<>>) = n /\ NetChanges(n, changes) = NetChange(n, c)
      BY <1>3, <3>1, <3>2, NetChangesFew
    <3>4. c.plus /\ NetChange(n, c) # n
      BY <1>2, <3>2, <3>3
    <3>5. c \in Whole /\ Sound(OnChange(t, c), NetChange(n, c), S \ Settled(c))
      BY <1>3, <3>2, <3>4, StepSound
    <3>6. OnChanges(t, changes) = OnChange(t, c)
      BY <1>3, <3>1, <3>5, OnChangesFew
    <3>7. changes \in Seq(Fit) /\ changes \in Seq(Whole)
      BY <3>1, <3>2, <3>5
    <3> QED
      BY <3>3, <3>5, <3>6, <3>7
  <2> QED
    BY <2>1, <2>2
<1>8. PICK R : R \subseteq S /\ Sound(OnChanges(t, changes), NetChanges(n, changes), R)
  BY <1>7
<1>9. Sound(OnChanges(OnChanges(t, changes), users), NetChanges(NetChanges(n, changes), users), R)
  BY <1>6, <1>8
<1>10. NetChanges(n, changes \o users) = NetChanges(NetChanges(n, changes), users)
  BY <1>3, <1>5, <1>7, NetChangesJoined
<1>11. Sound(table', net', R)
  BY <1>2, <1>9, <1>10
<1>12. Sound(table', net', spoiled')
  <2>1. S \in SUBSET AnyMode
    BY <1>3 DEF Sound
  <2> QED
    BY <1>2, <1>8, <1>11, <2>1, SoundMore
<1> QED
  BY <1>1, <1>2, <1>12 DEF MInv

-----------------------------------------------------------------------------
(* JoinChannel().                                                          *)

(* One message and two are three.                                          *)
LEMMA OneAndTwo ==
    ASSUME NEW A, NEW x \in Seq(A), NEW y \in Seq(A), NEW z \in Seq(A),
           Len(x) = 1, Len(y) = 2, Len(z) = 3, z[1] = x[1], z[2] = y[1], z[3] = y[2]
    PROVE  x \o y = z
<1>1. /\ x \o y \in Seq(A) /\ Len(x \o y) = Len(x) + Len(y)
      /\ \A i \in 1 .. Len(x) + Len(y) : (x \o y)[i] = IF i <= Len(x) THEN x[i] ELSE y[i - Len(x)]
  BY ConcatProperties
<1> DEFINE w == x \o y
<1> HIDE DEF w
<1>2. w \in Seq(A) /\ Len(w) = 3 /\ \A i \in 1..3 : w[i] = IF i <= 1 THEN x[i] ELSE y[i - 1]
  BY <1>1 DEF w
<1>3. w[1] = z[1] /\ w[2] = z[2] /\ w[3] = z[3]
  BY <1>2
<1>4. \A i \in 1..Len(w) : w[i] = z[i]
  <2>1. 1..Len(w) = {1, 2, 3}
    BY <1>2
  <2> QED
    BY <1>3, <2>1
<1>5. w = z
  BY <1>2, <1>4, SeqEqual
<1> QED
  BY <1>5 DEF w

(* A change of a flag, a key or a limit leaves the op of a user alone.     *)
LEMMA OppedAfter ==
    ASSUME NEW t \in Modes, NEW c \in Whole, c.mode \in {"t", "k", "l"}, NEW u
    PROVE  OnChange(Opped(t, u), c) = Opped(OnChange(t, c), u)
<1>1. DOMAIN t = {"on", "arg", "ops", "voices", "bans"}
      /\ t = [on |-> t.on, arg |-> t.arg, ops |-> t.ops, voices |-> t.voices, bans |-> t.bans]
  BY DEF Modes
<1>2. CASE c.mode = "t"
  BY <1>1, <1>2 DEF OnChange, OnMode, Opped, Plain
<1>3. CASE c.mode = "k"
  BY <1>1, <1>3, ZenonT(30) DEF OnChange, OnModeK, Present, Absent, Opped, Plain
<1>4. CASE c.mode = "l"
  BY <1>1, <1>4, ZenonT(30) DEF OnChange, OnModeL, Present, Absent, Opped, Plain
<1> QED
  BY <1>2, <1>3, <1>4

(* What a message of one change, of a mode that is no op, does.            *)
LEMMA OneWritten ==
    ASSUME NEW n \in Modes, Bot \in n.ops, NEW c \in Fit, c.mode \in {"t", "k", "l"}
    PROVE  /\ <<c>> \in Seq(Fit)
           /\ TakesOfBot(n, <<c>>) = NetChange(n, c)
           /\ NetChange(n, c) \in Modes /\ Bot \in NetChange(n, c).ops
<1> DEFINE a == <<c>>
<1>1. a \in Seq(Fit) /\ Len(a) = 1
  OBVIOUS
<1>2. NetChanges(n, a) = NetChange(n, c)
  BY NetChangesFew
<1> HIDE DEF a
<1>3. NetMessage(n, a) = NetChanges(n, a)
  BY <1>1, ModesAssumption, MessageShort, SMTT(30)
<1>4. View(NetChange(n, c), "bot") = View(n, "bot")
  BY ViewedAre, NetUntouched
<1>5. Bot \in NetChange(n, c).ops
  BY <1>4, ViewedAre
<1>6. NetChange(n, c) \in Modes
  BY NetChangeType
<1> QED
  BY <1>1, <1>2, <1>3, <1>5, <1>6 DEF TakesOfBot, a

(* What a bot writes in three messages.                                    *)
LEMMA BotWritesThree ==
    ASSUME NEW n \in Modes, NEW m \in Seq(Seq(Fit)), Len(m) = 3
    PROVE  NetTakes(n, FALSE, m) = TakesOfBot(TakesOfBot(TakesOfBot(n, m[1]), m[2]), m[3])
<1>1. PICK h \in [0..Len(m) -> Modes] :
               /\ h[0] = n
               /\ \A i \in 1..Len(m) : h[i] = TakesOfBot(h[i - 1], m[i])
               /\ NetTakes(n, FALSE, m) = h[Len(m)]
  BY BotWritesTrace
<1>2. h[1] = TakesOfBot(h[1 - 1], m[1]) /\ h[2] = TakesOfBot(h[2 - 1], m[2])
      /\ h[3] = TakesOfBot(h[3 - 1], m[3])
  BY <1>1
<1>3. 1 - 1 = 0 /\ 2 - 1 = 1 /\ 3 - 1 = 2
  OBVIOUS
<1> QED
  BY <1>1, <1>2, <1>3

(* JoinChannel() of one change that the network takes or has made.         *)
LEMMA JoinOne ==
    ASSUME NEW t, NEW n, NEW S, Sound(t, n, S), Bot \in n.ops, NEW c \in Whole,
           c.plus, c.mode \in {"t", "k", "l"},
           c.mode = "k" /\ "k" \in t.on => c.arg = t.arg["k"]
    PROVE  Sound(OnChange(t, c), NetChange(n, c), S)
<1>1. t \in Modes /\ n \in Modes /\ S \subseteq AnyMode /\ Thin(n) /\ Keyful(t) /\ c \in Fit
  BY DEF Sound, Whole
<1>2. /\ OnChange(t, c) \in Modes /\ NetChange(n, c) \in Modes
      /\ Thin(NetChange(n, c)) /\ Keyful(OnChange(t, c))
  BY <1>1, OnChangeType, NetChangeType, NetChangeThin, OnChangeKeyful
<1>3. ASSUME NEW l \in Viewed \ S PROVE View(OnChange(t, c), l) = View(NetChange(n, c), l)
  <2>1. l \in Viewed /\ View(t, l) = View(n, l)
    BY DEF Sound, Agree
  <2>2. CASE c.mode = l /\ l = "k" /\ l \in n.on
    <3>1. NetChange(n, c) = n
      BY <1>1, <2>2, NetChangeIs DEF Ignored
    <3>2. "k" \in t.on /\ View(n, "k") = {n.arg["k"]} /\ View(t, "k") = View(n, "k")
      BY <2>1, <2>2, ViewedAre
    <3>3. View(t, "k") = {c.arg}
      BY <2>2, <3>2, ViewedAre
    <3>4. OnChange(t, c) = Present(t, "k", c.arg)
      BY <2>2 DEF OnChange, OnModeK, Plain
    <3>5. "k" \in Present(t, "k", c.arg).on /\ Present(t, "k", c.arg).arg["k"] = c.arg
      BY <1>1 DEF Present, Modes, Keyed
    <3>6. View(OnChange(t, c), "k") = {c.arg}
      BY <3>4, <3>5, ViewedAre
    <3> QED
      BY <2>2, <3>1, <3>2, <3>3, <3>6
  <2>3. CASE ~(c.mode = l /\ l = "k" /\ l \in n.on)
    BY <1>1, <2>1, <2>3, Agrees
  <2> QED
    BY <2>2, <2>3
<1> QED
  BY <1>1, <1>2, <1>3 DEF Sound, Agree

(* The key that is there goes, and the new one comes.                      *)
LEMMA JoinOther ==
    ASSUME NEW t, NEW n, NEW S, Sound(t, n, S), Bot \in n.ops, NEW c \in Whole,
           c.plus, c.mode = "k", NEW d \in Whole, ~d.plus, d.mode = "k"
    PROVE  Sound(OnChange(t, c), NetChange(NetChange(NetChange(n, c), d), c), S)
<1>1. t \in Modes /\ n \in Modes /\ S \subseteq AnyMode /\ Thin(n) /\ Keyful(t) /\ c \in Fit /\ d \in Fit
  BY DEF Sound, Whole
<1> DEFINE n1 == NetChange(n, c)
           n2 == NetChange(n1, d)
           n3 == NetChange(n2, c)
<1>2. n1 \in Modes /\ Thin(n1)
  BY <1>1, NetChangeType, NetChangeThin
<1>3. \A l \in Viewed : l # "k" => View(n1, l) = View(n, l)
  BY <1>1, NetUntouched
<1> HIDE DEF n1
<1>4. n2 \in Modes /\ Thin(n2)
  BY <1>1, <1>2, NetChangeType, NetChangeThin
<1>5. \A l \in Viewed : l # "k" => View(n2, l) = View(n1, l)
  BY <1>1, <1>2, NetUntouched
<1>6. View(n2, "k") = {}
  BY <1>1, <1>2, ViewedAre, MinusOne
<1> HIDE DEF n2
<1>7. n3 \in Modes /\ Thin(n3)
  BY <1>1, <1>4, NetChangeType, NetChangeThin
<1>8. \A l \in Viewed : l # "k" => View(n3, l) = View(n2, l)
  BY <1>1, <1>4, NetUntouched
<1>9. View(OnChange(t, c), "k") = View(n3, "k")
  <2>1. "k" \notin n2.on
    BY <1>6, ViewedAre
  <2>2. View(OnChange(t, c), c.mode) = View(NetChange(n2, c), c.mode)
    BY <1>1, <1>4, <2>1, Settles
  <2> QED
    BY <2>2
<1> HIDE DEF n3
<1>10. OnChange(t, c) \in Modes /\ Keyful(OnChange(t, c))
  BY <1>1, OnChangeType, OnChangeKeyful
<1>11. ASSUME NEW l \in Viewed \ S PROVE View(OnChange(t, c), l) = View(n3, l)
  <2>1. CASE l = "k"
    BY <1>9, <2>1
  <2>2. CASE l # "k"
    <3>1. l \in Viewed /\ View(t, l) = View(n, l)
      BY DEF Sound, Agree
    <3>2. View(OnChange(t, c), l) = View(t, l)
      <4>1. ~Touches(c, l)
        BY <2>2 DEF Touches
      <4> QED
        BY <1>1, <3>1, <4>1, Untouched
    <3>3. View(n3, l) = View(n, l)
      BY <1>3, <1>5, <1>8, <2>2, <3>1
    <3> QED
      BY <3>1, <3>2, <3>3
  <2> QED
    BY <2>1, <2>2
<1>12. Sound(OnChange(t, c), n3, S)
  BY <1>1, <1>7, <1>10, <1>11 DEF Sound, Agree
<1> QED
  BY <1>12 DEF n3, n2, n1

(* JoinChannel() with no mode or one, for a key that is not that of the    *)
(* channel in three messages.                                              *)
LEMMA JoinSound ==
    ASSUME MInv, NEW changes \in Additions, JoinChannel(changes),
           \A i \in DOMAIN changes : changes[i].mode \in Plain \cup {"k", "l"},
           \A i \in DOMAIN changes : NeedsArgument(changes[i]) => changes[i].arg # None
    PROVE  MInv'
<1> DEFINE t == Opped(table, Bot)
           n == Opped(net, Bot)
<1>1. Sound(table, net, spoiled) /\ scene \in Scenes /\ AnyChange \subseteq Fit
      /\ table \in Modes /\ net \in Modes
  BY Inputs DEF MInv, Sound
<1>2. Sound(t, n, spoiled) /\ t \in Modes /\ n \in Modes /\ Bot \in n.ops
  <2>1. Sound(t, n, spoiled)
    BY <1>1, OppedSound DEF User
  <2>2. Bot \in n.ops
    BY <1>1 DEF Opped, Modes
  <2> QED
    BY <2>1, <2>2 DEF Sound
<1>3. /\ table' = Opped(OnChanges(table, changes), Bot)
      /\ net' = NetTakes(n, FALSE, <<changes>> \o JoinKey(changes))
      /\ spoiled' = spoiled /\ scene' = scene
  BY DEF JoinChannel
<1>4. t.on = table.on /\ t.arg = table.arg
  BY <1>1 DEF Opped, Modes
<1>5. CASE changes = <<>>
  <2>1. DOMAIN changes = {}
    BY <1>5
  <2>2. JoinKey(changes) = <<>>
    <3>1. {changes[i].arg : i \in {j \in DOMAIN changes : changes[j].mode = "k"}} = {}
      BY <2>1
    <3> QED
      BY <3>1 DEF JoinKey
  <2>3. changes \in Seq(Fit) /\ Len(changes) = 0 /\ OnChanges(table, changes) = table
    <3>1. Change1(TRUE, "o", Bot) \in Whole
      BY <1>1, OppingIs DEF User
    <3>2. OnChanges(table, <<>>) = table
      BY <1>1, <3>1, OnChangesFew
    <3> QED
      BY <1>5, <3>2
  <2> HIDE DEF t, n
  <2>4. <<changes>> \o <<>> = <<changes>> /\ changes \in Seq(Fit)
    BY <2>3, ConcatEmptySeq
  <2>5. NetTakes(n, FALSE, <<changes>>) = TakesOfBot(n, changes)
    BY <1>2, <2>4, BotWritesFew
  <2>6. NetMessage(n, changes) = NetChanges(n, changes)
    <3>1. Len(changes) =< MaxModes
      BY <2>3, ModesAssumption
    <3> QED
      BY <1>2, <2>3, <3>1, MessageShort
  <2>7. NetChanges(n, changes) = n
    <3>1. PICK h \in [0..Len(changes) -> Modes] : h[0] = n /\ NetChanges(n, changes) = h[Len(changes)]
      BY <1>2, <2>3, NetChangesTrace, ZenonT(30)
    <3> QED
      BY <2>3, <3>1
  <2>8. table' = t /\ net' = n
    BY <1>2, <1>3, <2>2, <2>3, <2>4, <2>5, <2>6, <2>7 DEF TakesOfBot, t
  <2> QED
    BY <1>1, <1>2, <1>3, <2>8 DEF MInv
<1>6. CASE changes # <<>>
  <2>1. PICK c \in AnyChange : changes = <<c>> /\ c.plus
    BY <1>6 DEF Additions
  <2>2. c \in Fit /\ DOMAIN changes = {1} /\ changes[1] = c
    BY <1>1, <2>1
  <2>3. c \in Whole /\ c.mode \in {"t", "k", "l"}
    BY <2>2 DEF Whole, Plain
  <2>4. table' = OnChange(t, c)
    <3>1. OnChanges(table, changes) = OnChange(table, c)
      BY <1>1, <2>1, <2>3, OnChangesFew
    <3> QED
      BY <1>1, <1>3, <2>3, <3>1, OppedAfter
  <2>5. <<c>> \in Seq(Fit) /\ TakesOfBot(n, <<c>>) = NetChange(n, c)
        /\ NetChange(n, c) \in Modes /\ Bot \in NetChange(n, c).ops
    BY <1>2, <2>2, <2>3, OneWritten
  <2> DEFINE keys == {changes[i].arg : i \in {j \in DOMAIN changes : changes[j].mode = "k"}}
  <2>6. keys = IF c.mode = "k" THEN {c.arg} ELSE {}
    BY <2>2
  <2>7. JoinKey(changes) =
            IF "k" \in table.on /\ \E key \in keys : key # table.arg["k"]
            THEN LET key == CHOOSE k \in keys : TRUE IN
                 <<<<Change1(FALSE, "k", table.arg["k"])>>, <<Change1(TRUE, "k", key)>>>>
            ELSE <<>>
    BY DEF JoinKey
  <2> HIDE DEF t, n, keys
  <2>8. CASE ~("k" \in table.on /\ \E key \in keys : key # table.arg["k"])
    <3>1. JoinKey(changes) = <<>>
      BY <2>7, <2>8
    <3>2. <<changes>> \o <<>> = <<changes>>
      BY <2>1, <2>5, ConcatEmptySeq
    <3>3. net' = TakesOfBot(n, <<c>>)
      <4> DEFINE a == <<c>>
      <4>1. a \in Seq(Fit) /\ net' = NetTakes(n, FALSE, <<a>>)
        BY <1>3, <2>1, <2>5, <3>1, <3>2
      <4> HIDE DEF a
      <4>2. NetTakes(n, FALSE, <<a>>) = TakesOfBot(n, a)
        BY <1>2, <4>1, BotWritesFew
      <4> QED
        BY <4>1, <4>2 DEF a
    <3>4. c.mode = "k" /\ "k" \in t.on => c.arg = t.arg["k"]
      BY <1>4, <2>6, <2>8
    <3>5. Sound(OnChange(t, c), NetChange(n, c), spoiled)
      BY <1>2, <2>1, <2>3, <3>4, JoinOne
    <3> QED
      BY <1>1, <1>3, <2>4, <2>5, <3>3, <3>5 DEF MInv
  <2>9. CASE "k" \in table.on /\ \E key \in keys : key # table.arg["k"]
    <3> DEFINE d == Change1(FALSE, "k", table.arg["k"])
               e == Change1(TRUE, "k", c.arg)
               m == <<<<c>>, <<d>>, <<e>>>>
    <3>1. c.mode = "k" /\ (CHOOSE k \in keys : TRUE) = c.arg
      BY <2>6, <2>9
    <3>2. JoinKey(changes) = <<<<d>>, <<e>>>>
      BY <2>7, <2>9, <3>1
    <3>3. e = c
      BY <2>1, <2>2, <3>1 DEF Change1, Fit, Change
    <3>4. d \in Whole /\ ~d.plus /\ d.mode = "k"
      <4>1. table.arg["k"] \in Value /\ table.arg["k"] # None
        BY <1>1, <2>9, ViewedAre DEF Sound, Keyful, Modes, Keyed
      <4> QED
        BY <4>1 DEF Change1, Whole, Fit, Change, Plain, Keyed, Listed, Argument
    <3> HIDE DEF d, e
    <3>5. d \in Fit
      BY <3>4 DEF Whole
    <3>6. <<c>> \in Seq(Fit) /\ <<d>> \in Seq(Fit) /\ <<e>> \in Seq(Fit)
      BY <2>2, <3>3, <3>5
    <3>7. <<changes>> \o JoinKey(changes) = m
      <4> DEFINE x == <<<<c>>>>
                 y == <<<<d>>, <<e>>>>
      <4>1. /\ x \in Seq(Seq(Fit)) /\ y \in Seq(Seq(Fit)) /\ m \in Seq(Seq(Fit))
            /\ Len(x) = 1 /\ Len(y) = 2 /\ Len(m) = 3 /\ m[1] = x[1] /\ m[2] = y[1] /\ m[3] = y[2]
        BY <3>6
      <4>2. <<changes>> = x /\ JoinKey(changes) = y
        BY <2>1, <3>2
      <4> HIDE DEF x, y, m
      <4>3. x \o y = m
        BY <4>1, OneAndTwo
      <4> QED
        BY <4>2, <4>3
    <3>8. NetTakes(n, FALSE, m) = TakesOfBot(TakesOfBot(TakesOfBot(n, <<c>>), <<d>>), <<e>>)
      <4> DEFINE a1 == <<c>>
                 a2 == <<d>>
                 a3 == <<e>>
      <4>1. a1 \in Seq(Fit) /\ a2 \in Seq(Fit) /\ a3 \in Seq(Fit) /\ m = <<a1, a2, a3>>
        BY <3>6
      <4> HIDE DEF a1, a2, a3, m
      <4>3. m \in Seq(Seq(Fit)) /\ Len(m) = 3 /\ m[1] = a1 /\ m[2] = a2 /\ m[3] = a3
        BY <4>1
      <4>2. NetTakes(n, FALSE, m) = TakesOfBot(TakesOfBot(TakesOfBot(n, a1), a2), a3)
        BY <1>2, <4>3, BotWritesThree
      <4> QED
        BY <4>1, <4>2 DEF a1, a2, a3
    <3> HIDE DEF m
    <3> DEFINE n1 == NetChange(n, c)
               n2 == NetChange(n1, d)
    <3>9. TakesOfBot(n1, <<d>>) = n2 /\ n2 \in Modes /\ Bot \in n2.ops
      BY <2>5, <3>4, <3>5, OneWritten
    <3> HIDE DEF n2
    <3>10. TakesOfBot(n2, <<c>>) = NetChange(n2, c)
      BY <2>2, <2>3, <3>9, OneWritten
    <3>11. net' = NetChange(n2, c)
      BY <1>3, <2>5, <3>3, <3>7, <3>8, <3>9, <3>10
    <3>12. Sound(OnChange(t, c), NetChange(NetChange(NetChange(n, c), d), c), spoiled)
      BY <1>2, <2>1, <2>3, <3>1, <3>4, JoinOther
    <3> QED
      BY <1>1, <1>3, <2>4, <3>11, <3>12 DEF MInv, n2
  <2> QED
    BY <2>8, <2>9
<1> QED
  BY <1>5, <1>6

(* Somebody joins.                                                         *)
LEMMA NetJoinSound == ASSUME MInv, NEW n, NetJoin(n) PROVE MInv'
  BY DEF MInv, NetJoin

-----------------------------------------------------------------------------
(* Mode(): two ways for a change to take effect.                           *)

(* A list with one more at the end.                                        *)
LEMMA Added ==
    ASSUME NEW A, NEW s \in Seq(A), NEW c \in A
    PROVE  /\ Append(s, c) \in Seq(A) /\ Len(Append(s, c)) = Len(s) + 1
           /\ \A i \in 1..Len(s) : Append(s, c)[i] = s[i]
           /\ Append(s, c)[Len(s) + 1] = c
           /\ Append(s, c) = s \o <<c>> /\ <<c>> \in Seq(A)
<1>1. <<c>> \in Seq(A)
  OBVIOUS
<1> QED
  BY <1>1, AppendProperties, AppendIsConcat

LEMMA OnChangesAdded ==
    ASSUME NEW t \in Modes, NEW s \in Seq(Whole), NEW c \in Whole
    PROVE  OnChanges(t, Append(s, c)) = OnChange(OnChanges(t, s), c)
<1>1. Append(s, c) = s \o <<c>> /\ <<c>> \in Seq(Whole)
  BY Added
<1>2. OnChanges(t, s \o <<c>>) = OnChanges(OnChanges(t, s), <<c>>)
  BY <1>1, OnChangesJoined
<1>3. OnChanges(t, s) \in Modes
  BY OnChangesType
<1> QED
  BY <1>1, <1>2, <1>3, OnChangesFew

LEMMA NetChangesAdded ==
    ASSUME NEW n \in Modes, NEW s \in Seq(Fit), NEW c \in Fit
    PROVE  NetChanges(n, Append(s, c)) = NetChange(NetChanges(n, s), c)
<1>1. Append(s, c) = s \o <<c>> /\ <<c>> \in Seq(Fit)
  BY Added
<1>2. NetChanges(n, s \o <<c>>) = NetChanges(NetChanges(n, s), <<c>>)
  BY <1>1, NetChangesJoined
<1>3. NetChanges(n, s) \in Modes
  BY NetChangesType
<1> QED
  BY <1>1, <1>2, <1>3, NetChangesFew

(* A change of a mode with a value may be made before those of the other   *)
(* modes.                                                                  *)
LEMMA Commutes ==
    ASSUME NEW t \in Modes, NEW s \in Seq(Whole), NEW c \in Whole, NEW l \in Viewed,
           \A i \in 1..Len(s) : s[i].mode \in Plain \cup Listed, c.mode \in Keyed
    PROVE  View(OnChanges(OnChange(t, c), s), l) = View(OnChange(OnChanges(t, s), c), l)
<1>1. OnChange(t, c) \in Modes /\ OnChanges(t, s) \in Modes
  BY OnChangeType, OnChangesType
<1>2. CASE l \in Keyed
  <2>1. \A i \in 1..Len(s) : ~Touches(s[i], l)
    BY <1>2 DEF Touches, Plain, Listed, Keyed
  <2>2. View(OnChanges(OnChange(t, c), s), l) = View(OnChange(t, c), l) /\ View(OnChanges(t, s), l) = View(t, l)
    BY <1>1, <2>1, OnChangesSpare
  <2>3. View(OnChange(OnChanges(t, s), c), l) = View(OnChange(t, c), l)
    BY <1>1, <2>2, OnMoves
  <2> QED
    BY <2>2, <2>3
<1>3. CASE l \notin Keyed
  <2>1. ~Touches(c, l)
    BY <1>3 DEF Touches, Keyed
  <2>2. View(OnChange(t, c), l) = View(t, l) /\ View(OnChange(OnChanges(t, s), c), l) = View(OnChanges(t, s), l)
    BY <1>1, <2>1, Untouched
  <2>3. View(OnChanges(OnChange(t, c), s), l) = View(OnChanges(t, s), l)
    BY <1>1, <2>2, OnChangesMove
  <2> QED
    BY <2>2, <2>3
<1> QED
  BY <1>2, <1>3

(* What holds while changes are read for xServer::Mode(): tb is the table, *)
(* raw what will be written, late what is still to be made.                *)
Has(raw, l) == \E i \in 1..Len(raw) : raw[i].mode = l

Formed(t, tb, raw, late) ==
    /\ tb \in Modes /\ Keyful(tb) /\ raw \in Seq(Whole) /\ late \in Seq(Whole)
    /\ \A i \in 1..Len(late) : late[i].mode \in Plain \cup Listed
    /\ tb.ops = t.ops
    /\ Bot \in t.ops => \A i \in 1..Len(raw) : raw[i] # Opping

(* A mode the table and the network agreed on, or one of which a change    *)
(* will be written that does not depend on what there was.                 *)
Right(S, raw, l) ==
    /\ l \notin SpoiledByA(raw)
    /\ l \notin S \/ (l \in Plain \cup {"l"} /\ Has(raw, l))

Matches(n, S, tb, raw, late) ==
    \A l \in Viewed : Right(S, raw, l) => View(OnChanges(tb, late), l) = View(NetChanges(n, raw), l)

(* What is right after one more change was right before or is settled by   *)
(* it.                                                                     *)
LEMMA RightBefore ==
    ASSUME NEW S, NEW raw \in Seq(Whole), NEW c \in Whole, NEW l, Right(S, Append(raw, c), l)
    PROVE  /\ Right(S, raw, l) \/ (l \in Plain \cup {"l"} /\ c.mode = l)
           /\ ~(c.mode = "A" /\ ~c.plus /\ l \in {"A", "k"})
<1> DEFINE a == Append(raw, c)
<1>1. /\ Len(a) = Len(raw) + 1 /\ Len(raw) \in Nat /\ a[Len(raw) + 1] = c
      /\ \A i \in 1..Len(raw) : a[i] = raw[i]
      /\ DOMAIN a = 1..Len(a) /\ DOMAIN raw = 1..Len(raw)
  BY Added
<1> HIDE DEF a
<1>2. Has(a, l) => Has(raw, l) \/ c.mode = l
  <2> SUFFICES ASSUME NEW i \in 1..Len(a), a[i].mode = l PROVE Has(raw, l) \/ c.mode = l
    BY DEF Has
  <2>1. i \in 1..Len(raw) \/ i = Len(raw) + 1
    BY <1>1
  <2> QED
    BY <1>1, <2>1 DEF Has
<1>3. SpoiledByA(raw) \subseteq SpoiledByA(a)
  BY <1>1 DEF SpoiledByA
<1>4. c.mode = "A" /\ ~c.plus => SpoiledByA(a) = {"A", "k"}
  <2>1. Len(raw) + 1 \in DOMAIN a
    BY <1>1
  <2> QED
    BY <1>1, <2>1 DEF SpoiledByA
<1>5. Right(S, a, l)
  BY DEF a
<1> QED
  BY <1>2, <1>3, <1>4, <1>5 DEF Right

(* A change that takes effect later: last in the table, last on the        *)
(* network.                                                                *)
LEMMA LaterMatches ==
    ASSUME NEW n \in Modes, NEW S, NEW t, NEW tb, NEW raw, NEW late, Formed(t, tb, raw, late),
           Matches(n, S, tb, raw, late), NEW c \in Whole, c.mode \in Plain \cup Listed
    PROVE  Matches(n, S, tb, Append(raw, c), Append(late, c))
<1>1. tb \in Modes /\ raw \in Seq(Whole) /\ raw \in Seq(Fit) /\ late \in Seq(Whole) /\ c \in Fit
  BY DEF Formed, Whole
<1> DEFINE T == OnChanges(tb, late)
           N == NetChanges(n, raw)
<1>2. T \in Modes /\ N \in Modes
  BY <1>1, OnChangesType, NetChangesType
<1>3. OnChanges(tb, Append(late, c)) = OnChange(T, c) /\ NetChanges(n, Append(raw, c)) = NetChange(N, c)
  BY <1>1, OnChangesAdded, NetChangesAdded
<1>4. ASSUME NEW l \in Viewed, Right(S, Append(raw, c), l) PROVE View(OnChange(T, c), l) = View(NetChange(N, c), l)
  <2>1. /\ Right(S, raw, l) \/ (l \in Plain \cup {"l"} /\ c.mode = l)
        /\ ~(c.mode = "A" /\ ~c.plus /\ l \in {"A", "k"})
    BY <1>1, <1>4, RightBefore
  <2>2. CASE Right(S, raw, l)
    <3>1. View(T, l) = View(N, l)
      BY <2>2 DEF Matches
    <3>2. c.mode \notin {"k", "A", "U"}
      BY DEF Plain, Listed
    <3> HIDE DEF T, N
    <3> QED
      BY <1>2, <2>1, <3>1, <3>2, Agrees
  <2>3. CASE l \in Plain \cup {"l"} /\ c.mode = l
    <3>1. c.mode \notin {"k", "U"} /\ c.mode \in Plain \cup {"k", "l", "U"}
      BY <2>3 DEF Plain
    <3> HIDE DEF T, N
    <3>2. View(OnChange(T, c), c.mode) = View(NetChange(N, c), c.mode)
      BY <1>2, <3>1, Settles
    <3> QED
      BY <2>3, <3>2
  <2> QED
    BY <2>1, <2>2, <2>3
<1> QED
  BY <1>3, <1>4 DEF Matches

(* A change that takes effect at once: before those that wait, which are   *)
(* of other modes.                                                         *)
LEMMA AtOnceMatches ==
    ASSUME NEW n \in Modes, NEW S, NEW t, NEW tb, NEW raw, NEW late, Formed(t, tb, raw, late),
           Matches(n, S, tb, raw, late), NEW c \in Whole, c.mode \in Keyed,
           c.mode # "l" /\ c.plus => c.mode \notin tb.on
    PROVE  Matches(n, S, OnChange(tb, c), Append(raw, c), late)
<1>1. tb \in Modes /\ raw \in Seq(Whole) /\ raw \in Seq(Fit) /\ late \in Seq(Whole) /\ c \in Fit
      /\ \A i \in 1..Len(late) : late[i].mode \in Plain \cup Listed
  BY DEF Formed, Whole
<1> DEFINE T == OnChanges(tb, late)
           N == NetChanges(n, raw)
<1>2. T \in Modes /\ N \in Modes
  BY <1>1, OnChangesType, NetChangesType
<1>3. NetChanges(n, Append(raw, c)) = NetChange(N, c)
  BY <1>1, NetChangesAdded
<1>5. ASSUME NEW l \in Viewed PROVE View(OnChanges(OnChange(tb, c), late), l) = View(OnChange(T, c), l)
  BY <1>1, Commutes
<1>4. ASSUME NEW l \in Viewed, Right(S, Append(raw, c), l) PROVE View(OnChange(T, c), l) = View(NetChange(N, c), l)
  <2>1. /\ Right(S, raw, l) \/ (l \in Plain \cup {"l"} /\ c.mode = l)
        /\ ~(c.mode = "A" /\ ~c.plus /\ l \in {"A", "k"})
    BY <1>1, <1>4, RightBefore
  <2>2. CASE Right(S, raw, l)
    <3>1. View(T, l) = View(N, l)
      BY <2>2 DEF Matches
    <3>2. ~(c.mode = l /\ l \in {"k", "A", "U"} /\ c.plus /\ l \in N.on)
      <4> SUFFICES ASSUME c.mode = l, l \in {"k", "A", "U"}, c.plus PROVE l \notin N.on
        OBVIOUS
      <4>1. l \notin tb.on /\ l \in Keyed
        BY DEF Keyed
      <4>2. \A i \in 1..Len(late) : ~Touches(late[i], l)
        BY <1>1, <4>1 DEF Touches, Plain, Listed, Keyed
      <4>3. View(T, l) = View(tb, l)
        BY <1>1, <4>2, OnChangesSpare
      <4> HIDE DEF T, N
      <4>4. \A x : View(x, l) = IF l \in x.on THEN {x.arg[l]} ELSE {}
        BY <4>1 DEF View, Plain, Keyed
      <4> QED
        BY <3>1, <4>1, <4>3, <4>4
    <3> HIDE DEF T, N
    <3> QED
      BY <1>2, <2>1, <3>1, <3>2, Agrees
  <2>3. CASE l \in Plain \cup {"l"} /\ c.mode = l
    <3>1. c.mode \notin {"k", "U"} /\ c.mode \in Plain \cup {"k", "l", "U"}
      BY <2>3 DEF Plain
    <3> HIDE DEF T, N
    <3>2. View(OnChange(T, c), c.mode) = View(NetChange(N, c), c.mode)
      BY <1>2, <3>1, Settles
    <3> QED
      BY <2>3, <3>2
  <2> QED
    BY <2>1, <2>2, <2>3
<1> QED
  BY <1>3, <1>4, <1>5 DEF Matches

-----------------------------------------------------------------------------
(* Mode(): its parser.                                                     *)

(* The states of the parser when the changes are taken from X and U are    *)
(* the users.                                                              *)
PState(X, U) == [table : Modes, users : {U}, raw : Seq(X \cap Whole), late : Seq(X \cap Whole),
                 failed : BOOLEAN]

(* What one change does to the parser.                                     *)
Skips(p, c, q) ==
    /\ q.table = p.table /\ q.raw = p.raw /\ q.late = p.late
    /\ \/ q.failed
       \/ c.mode \notin Plain \cup {"l", "b"} /\ (c.mode = "k" => ~c.plus /\ "k" \notin p.table.on)
AtOnce(p, c, q) ==
    /\ c \in Whole /\ c.mode \in Keyed /\ (c.mode # "l" /\ c.plus => c.mode \notin p.table.on)
    /\ q.table = OnChange(p.table, c) /\ q.raw = Append(p.raw, c) /\ q.late = p.late
Later(p, c, q) ==
    /\ c \in Whole /\ c.mode \in Plain \cup Listed
    /\ c.mode = "o" => c.plus # (c.arg \in p.table.ops)
    /\ q.table = p.table /\ q.raw = Append(p.raw, c) /\ q.late = Append(p.late, c)

(* The parser passes over a change, makes it at once or keeps it for       *)
(* later.                                                                  *)
LEMMA ParseIs ==
    ASSUME NEW X \in SUBSET Fit, NEW U, NEW p \in PState(X, U), NEW c \in X
    PROVE  /\ Parse(p, c) \in PState(X, U)
           /\ Skips(p, c, Parse(p, c)) \/ AtOnce(p, c, Parse(p, c)) \/ Later(p, c, Parse(p, c))
           /\ ~Parse(p, c).failed => ~p.failed
<1>1. /\ p.table \in Modes /\ p.raw \in Seq(X \cap Whole) /\ p.late \in Seq(X \cap Whole)
      /\ p.failed \in BOOLEAN /\ p.users = U
      /\ DOMAIN p = {"table", "users", "raw", "late", "failed"}
      /\ p = [table |-> p.table, users |-> p.users, raw |-> p.raw, late |-> p.late, failed |-> p.failed]
  BY DEF PState
<1>2. c \in Fit /\ c.plus \in BOOLEAN /\ c.mode \in Plain \cup Keyed \cup Listed
  BY DEF Fit, Change
<1>3. ASSUME c \in Whole PROVE /\ Append(p.raw, c) \in Seq(X \cap Whole)
                               /\ Append(p.late, c) \in Seq(X \cap Whole)
                               /\ OnChange(p.table, c) \in Modes
  BY <1>1, <1>3, OnChangeType
<1> DEFINE q == Parse(p, c)
<1>4. CASE p.failed
  <2>1. q = p
    BY <1>4 DEF Parse
  <2> QED
    BY <1>1, <1>4, <2>1 DEF Skips
<1>5. CASE ~p.failed /\ NeedsArgument(c) /\ c.arg = None
  <2>1. q = [p EXCEPT !.failed = TRUE]
    BY <1>5 DEF Parse
  <2>2. q = [table |-> p.table, users |-> U, raw |-> p.raw, late |-> p.late, failed |-> TRUE]
    BY <1>1, <2>1
  <2> QED
    BY <1>1, <1>5, <2>2 DEF Skips, PState
<1>6. CASE ~p.failed /\ ~(NeedsArgument(c) /\ c.arg = None)
  <2>1. c \in Whole
    BY <1>2, <1>6 DEF Whole
  <2>2. CASE c.mode \in {"k", "A", "U"}
    <3>1. q = ParseKeyed(p, c)
      BY <1>6, <2>2 DEF Parse
    <3>2. CASE c.mode \in p.table.on /\ c.plus
      <4>1. q = [table |-> p.table, users |-> U, raw |-> p.raw, late |-> p.late, failed |-> TRUE]
        BY <1>1, <3>1, <3>2 DEF ParseKeyed
      <4> QED
        BY <1>1, <1>6, <4>1 DEF Skips, PState
    <3>3. CASE (c.mode \in p.table.on) # c.plus
      <4>1. q = [p EXCEPT !.table = OnChange(@, c), !.raw = Append(@, c)]
        BY <1>2, <3>1, <3>3 DEF ParseKeyed
      <4>2. q = [table |-> OnChange(p.table, c), users |-> U, raw |-> Append(p.raw, c), late |-> p.late, failed |-> FALSE]
        BY <1>1, <1>6, <4>1
      <4>3. q \in PState(X, U)
        BY <1>1, <1>3, <2>1, <4>2 DEF PState
      <4>4. c.plus => c.mode \notin p.table.on
        BY <1>2, <3>3
      <4>5. AtOnce(p, c, q)
        BY <2>1, <2>2, <4>2, <4>4 DEF AtOnce, Keyed
      <4> QED
        BY <1>6, <4>3, <4>5
    <3>4. CASE c.mode \notin p.table.on /\ ~c.plus
      <4>1. q = p
        BY <3>1, <3>4 DEF ParseKeyed
      <4>2. c.mode \notin Plain \cup {"l", "b"}
        BY <2>2 DEF Plain
      <4> QED
        BY <1>1, <1>6, <2>2, <3>4, <4>1, <4>2 DEF Skips
    <3> QED
      BY <1>2, <3>2, <3>3, <3>4
  <2>3. CASE c.mode = "l"
    <3>1. q = [p EXCEPT !.table = OnModeL(@, c), !.raw = Append(@, c)]
      BY <1>6, <2>3 DEF Parse, ParseLimit
    <3>2. OnModeL(p.table, c) = OnChange(p.table, c)
      BY <2>3 DEF OnChange, Plain
    <3>3. q = [table |-> OnChange(p.table, c), users |-> U, raw |-> Append(p.raw, c), late |-> p.late, failed |-> FALSE]
      BY <1>1, <1>6, <3>1, <3>2
    <3>4. q \in PState(X, U)
      BY <1>1, <1>3, <2>1, <3>3 DEF PState
    <3> QED
      BY <1>6, <2>1, <2>3, <3>3, <3>4 DEF AtOnce, Keyed
  <2>4. CASE c.mode \in {"o", "v"}
    <3>1. q = ParseUser(p, c)
      BY <1>6, <2>4 DEF Parse
    <3>2. CASE c.arg \notin p.users
      <4>1. q = [table |-> p.table, users |-> U, raw |-> p.raw, late |-> p.late, failed |-> TRUE]
        BY <1>1, <3>1, <3>2 DEF ParseUser
      <4> QED
        BY <1>1, <1>6, <4>1 DEF Skips, PState
    <3>3. CASE c.arg \in p.users /\ c.plus = (c.arg \in (IF c.mode = "o" THEN p.table.ops ELSE p.table.voices))
      <4>1. q = p
        BY <3>1, <3>3 DEF ParseUser
      <4>2. c.mode \notin Plain \cup {"l", "b", "k"}
        BY <2>4 DEF Plain
      <4> QED
        BY <1>1, <1>6, <4>1, <4>2 DEF Skips
    <3>4. CASE c.arg \in p.users /\ c.plus # (c.arg \in (IF c.mode = "o" THEN p.table.ops ELSE p.table.voices))
      <4>1. q = [p EXCEPT !.late = Append(@, c), !.raw = Append(@, c)]
        BY <3>1, <3>4 DEF ParseUser
      <4>2. q = [table |-> p.table, users |-> U, raw |-> Append(p.raw, c), late |-> Append(p.late, c), failed |-> FALSE]
        BY <1>1, <1>6, <4>1
      <4>3. q \in PState(X, U)
        BY <1>1, <1>3, <2>1, <4>2 DEF PState
      <4>4. c.mode = "o" => c.plus # (c.arg \in p.table.ops)
        BY <3>4
      <4>5. Later(p, c, q)
        BY <2>1, <2>4, <4>2, <4>4 DEF Later, Listed
      <4> QED
        BY <1>6, <4>3, <4>5
    <3> QED
      BY <3>2, <3>3, <3>4
  <2>5. CASE c.mode \in Plain \cup {"b"}
    <3>1. q = [p EXCEPT !.late = Append(@, c), !.raw = Append(@, c)]
      BY <1>6, <2>5 DEF Parse, ParseOther, Plain
    <3>2. q = [table |-> p.table, users |-> U, raw |-> Append(p.raw, c), late |-> Append(p.late, c), failed |-> FALSE]
      BY <1>1, <1>6, <3>1
    <3>3. q \in PState(X, U)
      BY <1>1, <1>3, <2>1, <3>2 DEF PState
    <3>4. c.mode # "o" /\ c.mode \in Plain \cup Listed
      BY <2>5 DEF Plain, Listed
    <3> QED
      BY <1>6, <2>1, <3>2, <3>3, <3>4 DEF Later
  <2> QED
    BY <1>2, <2>2, <2>3, <2>4, <2>5 DEF Keyed, Listed
<1> QED
  BY <1>1, <1>4, <1>5, <1>6

(* The parser, change after change.                                        *)
LEMMA ParsedTrace ==
    ASSUME NEW t \in Modes, NEW U, NEW X \in SUBSET Fit, NEW s \in Seq(X)
    PROVE  \E h \in [0..Len(s) -> PState(X, U)] :
               /\ h[0] = Parsing(t, U)
               /\ \A i \in 1..Len(s) : h[i] = Parse(h[i - 1], s[i])
               /\ Parsed(t, U, s) = h[Len(s)]
<1> DEFINE n == Len(s)
<1> DEFINE G == [i \in 1..n |-> [x \in PState(X, U) |-> Parse(x, s[i])]]
<1>1. n \in Nat /\ \A i \in 1..n : s[i] \in X
  OBVIOUS
<1>2. Parsing(t, U) \in PState(X, U)
  BY DEF PState, Parsing
<1>3. G \in [1..n -> [PState(X, U) -> PState(X, U)]]
  <2> SUFFICES ASSUME NEW i \in 1..n PROVE [x \in PState(X, U) |-> Parse(x, s[i])] \in [PState(X, U) -> PState(X, U)]
    OBVIOUS
  <2>1. \A x \in PState(X, U) : Parse(x, s[i]) \in PState(X, U)
    BY <1>1, ParseIs
  <2> QED
    BY <2>1
<1>4. PICK g : Run(n, PState(X, U), Parsing(t, U), G, g)
  <2> HIDE DEF G, n
  <2> QED
    BY <1>1, <1>2, <1>3, Runs
<1>5. \A i \in 1..n : g[i - 1] \in PState(X, U) /\ g[i] = Parse(g[i - 1], s[i])
  <2> SUFFICES ASSUME NEW i \in 1..n PROVE g[i - 1] \in PState(X, U) /\ g[i] = Parse(g[i - 1], s[i])
    OBVIOUS
  <2>1. i - 1 \in 0..n
    OBVIOUS
  <2>2. g[i - 1] \in PState(X, U) /\ g[i] = G[i][g[i - 1]]
    BY <1>4, <2>1 DEF Run
  <2> QED
    BY <2>2
<1>6. g = [i \in 0..n |-> IF i = 0 THEN Parsing(t, U) ELSE Parse(g[i - 1], s[i])]
  <2>1. \A i \in 0..n : i # 0 => i \in 1..n
    OBVIOUS
  <2> HIDE DEF n
  <2> QED
    BY <1>4, <1>5, <2>1 DEF Run
<1> HIDE DEF G
<1> DEFINE f == CHOOSE f : f = [i \in 0..n |-> IF i = 0 THEN Parsing(t, U) ELSE Parse(f[i - 1], s[i])]
<1>7. Parsed(t, U, s) = f[n]
  BY DEF Parsed
<1>8. f = [i \in 0..n |-> IF i = 0 THEN Parsing(t, U) ELSE Parse(f[i - 1], s[i])]
  <2> HIDE DEF n
  <2> QED
    BY <1>6
<1> HIDE DEF f, n
<1>9. f[0] = Parsing(t, U) /\ \A i \in 1..n : f[i] = Parse(f[i - 1], s[i])
  <2>1. 0 \in 0..n /\ \A i \in 1..n : i \in 0..n /\ i # 0
    BY <1>1
  <2> QED
    BY <1>8, <2>1
<1>10. \A i \in 0..n : f[i] \in PState(X, U)
  <2> DEFINE S == {j \in 0..n : f[j] \in PState(X, U) }
  <2>1. 0 \in S
    BY <1>1, <1>2, <1>9
  <2>2. ASSUME NEW i \in 1..n, i - 1 \in S PROVE i \in S
    <3>1. f[i - 1] \in PState(X, U) /\ f[i] = Parse(f[i - 1], s[i]) /\ s[i] \in X
      BY <1>1, <1>9, <2>2
    <3>2. f[i] \in PState(X, U)
      BY <3>1, ParseIs
    <3>3. i \in 0..n
      BY <1>1
    <3> QED
      BY <3>2, <3>3
  <2> HIDE DEF S
  <2>3. \A i \in 0..n : i \in S
    BY <1>1, <2>1, <2>2, Reaches
  <2> QED
    BY <2>3 DEF S
<1>11. f \in [0..n -> PState(X, U)]
  BY <1>8, <1>10
<1> QED
  BY <1>7, <1>9, <1>11 DEF n

(* The bans of the table are those of the network where they were the same *)
(* or where a change is written of a ban that is not there twice.          *)
Meets(t, n, raw, m) ==
    \/ t.bans[m] = n.bans[m]
    \/ \E i \in 1..Len(raw) : raw[i].mode = "b" /\ raw[i].arg = m /\ (raw[i].plus \/ t.bans[m] = 0)

BansMeet(t, n, raw, T, N) ==
    \A m \in Mask : /\ Meets(t, n, raw, m) => T[m] = N[m]
                    /\ t.bans[m] = 0 => T[m] \in {0, N[m]}

(* What meets after one more change met before or meets by it.             *)
LEMMA MeetsBefore ==
    ASSUME NEW t, NEW n, NEW raw \in Seq(Whole), NEW c \in Whole, NEW m, Meets(t, n, Append(raw, c), m)
    PROVE  Meets(t, n, raw, m) \/ (c.mode = "b" /\ c.arg = m /\ (c.plus \/ t.bans[m] = 0))
<1> DEFINE a == Append(raw, c)
<1>1. /\ Len(a) = Len(raw) + 1 /\ Len(raw) \in Nat /\ a[Len(raw) + 1] = c
      /\ \A i \in 1..Len(raw) : a[i] = raw[i]
  BY Added
<1> HIDE DEF a
<1>2. CASE t.bans[m] = n.bans[m]
  BY <1>2 DEF Meets
<1>3. CASE t.bans[m] # n.bans[m]
  <2>1. PICK i \in 1..Len(a) : a[i].mode = "b" /\ a[i].arg = m /\ (a[i].plus \/ t.bans[m] = 0)
    BY <1>3 DEF Meets, a
  <2>2. i \in 1..Len(raw) \/ i = Len(raw) + 1
    BY <1>1
  <2> QED
    BY <1>1, <2>1, <2>2 DEF Meets
<1> QED
  BY <1>2, <1>3

(* A change brings the bans it is about together and keeps the others so.  *)
LEMMA BansMove ==
    ASSUME NEW t, NEW n, NEW raw \in Seq(Whole), NEW c \in Whole,
           NEW T \in Modes, NEW N \in Modes, Thin(N), BansMeet(t, n, raw, T.bans, N.bans)
    PROVE  BansMeet(t, n, Append(raw, c), OnChange(T, c).bans, NetChange(N, c).bans)
<1>1. CASE c.mode # "b"
  <2>1. c \in Fit /\ ~Touches(c, "b") /\ "b" \in Viewed
    BY <1>1, ViewedAre DEF Touches, Whole
  <2>2. View(OnChange(T, c), "b") = View(T, "b") /\ View(NetChange(N, c), "b") = View(N, "b")
    BY <1>1, <2>1, Untouched, NetUntouched
  <2>3. OnChange(T, c).bans = T.bans /\ NetChange(N, c).bans = N.bans
    BY <2>2, ViewedAre
  <2>4. \A m \in Mask : Meets(t, n, Append(raw, c), m) => Meets(t, n, raw, m)
    BY <1>1, MeetsBefore
  <2> QED
    BY <2>3, <2>4 DEF BansMeet
<1>2. CASE c.mode = "b"
  <2> DEFINE x == T.bans
             y == N.bans
  <2>1. c \in Fit /\ c.plus \in BOOLEAN /\ c.arg \in Mask
    BY <1>2, ModesAssumption DEF Whole, Fit, Change, NeedsArgument, Listed, Keyed
  <2>2. NetChange(N, c) = OnChange(N, c)
    BY <1>2, <2>1, NetChangeIs DEF Ignored, Whole
  <2>3. OnChange(T, c).bans = Banned(x, c) /\ OnChange(N, c).bans = Banned(y, c)
    BY <1>2, Effects
  <2>4. x \in [Mask -> 0..MaxCopies] /\ y \in [Mask -> 0..1]
    BY DEF Modes, Thin
  <2> HIDE DEF x, y
  <2>5. ASSUME NEW m \in Mask
        PROVE  /\ Meets(t, n, Append(raw, c), m) => Banned(x, c)[m] = Banned(y, c)[m]
               /\ t.bans[m] = 0 => Banned(x, c)[m] \in {0, Banned(y, c)[m]}
    <3>1. /\ Meets(t, n, raw, m) => x[m] = y[m]
          /\ t.bans[m] = 0 => x[m] \in {0, y[m]}
      BY DEF BansMeet, x, y
    <3>2. x[m] \in 0..MaxCopies /\ y[m] \in 0..1 /\ x[m] \in Nat
      BY <2>4 DEF MaxCopies
    <3>3. Meets(t, n, Append(raw, c), m) => Meets(t, n, raw, m) \/ (c.arg = m /\ (c.plus \/ t.bans[m] = 0))
      BY MeetsBefore
    <3>4. CASE c.plus
      <4>1. \A f : Banned(f, c)[m] = IF m = c.arg THEN 1 ELSE IF <<c.arg, m>> \in Covers THEN 0 ELSE f[m]
        BY <3>4 DEF Banned
      <4> QED
        BY <3>1, <3>3, <4>1
    <3>5. CASE ~c.plus
      <4>1. \A f : Banned(f, c)[m] = IF m = c.arg /\ f[m] > 0 THEN f[m] - 1 ELSE f[m]
        BY <3>5 DEF Banned
      <4>2. CASE m # c.arg
        BY <3>1, <3>3, <4>1, <4>2
      <4>3. CASE m = c.arg
        <5>1. Banned(y, c)[m] = 0
          BY <3>2, <4>1, <4>3
        <5>2. Banned(x, c)[m] = IF x[m] > 0 THEN x[m] - 1 ELSE 0
          BY <3>2, <4>1, <4>3
        <5>3. x[m] \in {0, y[m]} => Banned(x, c)[m] = 0
          BY <3>2, <5>2
        <5>4. Meets(t, n, Append(raw, c), m) => x[m] \in {0, y[m]}
          BY <3>1, <3>3, <3>5
        <5> QED
          BY <3>1, <5>1, <5>3, <5>4
      <4> QED
        BY <4>2, <4>3
    <3> QED
      BY <2>1, <3>4, <3>5
  <2> QED
    BY <2>2, <2>3, <2>5 DEF BansMeet
<1> QED
  BY <1>1, <1>2

PInv(t, n, S, p) ==
    /\ Formed(t, p.table, p.raw, p.late)
    /\ Matches(n, S, p.table, p.raw, p.late)
    /\ BansMeet(t, n, p.raw, OnChanges(p.table, p.late).bans, NetChanges(n, p.raw).bans)

(* Before the first change nothing has been done.                          *)
LEMMA NothingYet ==
    ASSUME NEW t \in Modes
    PROVE  OnChanges(t, <<>>) = t /\ NetChanges(t, <<>>) = t
<1>1. Change1(TRUE, "o", Bot) \in Whole /\ Change1(TRUE, "o", Bot) \in Fit
  BY OppingIs DEF User, Whole
<1> QED
  BY <1>1, OnChangesFew, NetChangesFew

(* This holds when the parser starts                                       *)
LEMMA ParsingHolds ==
    ASSUME NEW t \in Modes, Keyful(t), NEW n \in Modes, NEW S, Agree(t, n, S), NEW U
    PROVE  PInv(t, n, S, Parsing(t, U))
<1> DEFINE p == Parsing(t, U)
           e == <<>>
<1>1. p.table = t /\ p.raw = e /\ p.late = e
  BY DEF Parsing
<1>2. e \in Seq(Whole) /\ Len(e) = 0 /\ DOMAIN e = {}
  OBVIOUS
<1>3. OnChanges(t, e) = t /\ NetChanges(n, e) = n
  BY NothingYet
<1> HIDE DEF p, e
<1>4. Formed(t, t, e, e)
  BY <1>2 DEF Formed
<1>5. Matches(n, S, t, e, e)
  <2>1. \A l : Right(S, e, l) => l \notin S
    BY <1>2 DEF Right, Has
  <2> QED
    BY <1>3, <2>1 DEF Matches, Agree
<1>6. BansMeet(t, n, e, t.bans, n.bans)
  BY <1>2 DEF BansMeet, Meets
<1> QED
  BY <1>1, <1>3, <1>4, <1>5, <1>6 DEF PInv, p

(* and after each change.                                                  *)
LEMMA ParseHolds ==
    ASSUME NEW X \in SUBSET Fit, NEW U, NEW p \in PState(X, U), NEW c \in X,
           NEW t \in Modes, NEW n \in Modes, Thin(n), NEW S, PInv(t, n, S, p)
    PROVE  PInv(t, n, S, Parse(p, c))
<1> DEFINE q == Parse(p, c)
           tb == p.table
           raw == p.raw
           late == p.late
           T == OnChanges(tb, late)
           N == NetChanges(n, raw)
<1>1. /\ Formed(t, tb, raw, late) /\ Matches(n, S, tb, raw, late) /\ BansMeet(t, n, raw, T.bans, N.bans)
  BY DEF PInv
<1>2. Skips(p, c, q) \/ AtOnce(p, c, q) \/ Later(p, c, q)
  BY ParseIs
<1> SUFFICES PInv(t, n, S, q)
  OBVIOUS
<1> HIDE DEF q
<1>3. CASE Skips(p, c, q)
  <2>1. q.table = p.table /\ q.raw = p.raw /\ q.late = p.late
    BY <1>3 DEF Skips
  <2>2. PInv(t, n, S, p)
    OBVIOUS
  <2> QED
    BY <2>1, <2>2 DEF PInv
<1> HIDE DEF tb, raw, late
<1>4. /\ tb \in Modes /\ Keyful(tb) /\ raw \in Seq(Whole) /\ raw \in Seq(Fit) /\ late \in Seq(Whole)
      /\ \A i \in 1..Len(late) : late[i].mode \in Plain \cup Listed
      /\ tb.ops = t.ops /\ (Bot \in t.ops => \A i \in 1..Len(raw) : raw[i] # Opping)
  BY <1>1 DEF Formed, Whole
<1>5. T \in Modes /\ N \in Modes /\ Thin(N)
  BY <1>4, OnChangesType, NetChangesType, NetChangesThin
<1>6. ASSUME c \in Whole, Bot \in t.ops => c # Opping
      PROVE  /\ Append(raw, c) \in Seq(Whole)
             /\ Bot \in t.ops => \A i \in 1..Len(Append(raw, c)) : Append(raw, c)[i] # Opping
             /\ NetChanges(n, Append(raw, c)) = NetChange(N, c)
  <2> DEFINE a == Append(raw, c)
  <2>1. /\ a \in Seq(Whole) /\ Len(a) = Len(raw) + 1 /\ a[Len(raw) + 1] = c
        /\ \A i \in 1..Len(raw) : a[i] = raw[i]
    BY <1>4, <1>6, Added
  <2> HIDE DEF a
  <2>2. ASSUME Bot \in t.ops, NEW i \in 1..Len(a) PROVE a[i] # Opping
    <3>1. i \in 1..Len(raw) \/ i = Len(raw) + 1
      BY <1>4, <2>1
    <3> QED
      BY <1>4, <1>6, <2>1, <2>2, <3>1
  <2>3. NetChanges(n, Append(raw, c)) = NetChange(N, c)
    BY <1>4, <1>6, NetChangesAdded DEF Whole
  <2> QED
    BY <2>1, <2>2, <2>3 DEF a
<1>7. CASE AtOnce(p, c, q)
  <2>1. /\ c \in Whole /\ c.mode \in Keyed /\ (c.mode # "l" /\ c.plus => c.mode \notin tb.on)
        /\ q.table = OnChange(tb, c) /\ q.raw = Append(raw, c) /\ q.late = late
    BY <1>7 DEF AtOnce, tb, raw, late
  <2>2. c # Opping
    BY <2>1 DEF Opping, Change1, Keyed
  <2>3. Matches(n, S, q.table, q.raw, q.late)
    BY <1>1, <2>1, AtOnceMatches
  <2>4. OnChange(tb, c) \in Modes /\ Keyful(OnChange(tb, c))
    BY <1>4, <2>1, OnChangeType, OnChangeKeyful
  <2>5. OnChange(tb, c).ops = tb.ops
    <3>1. ~Touches(c, "o") /\ "o" \in Viewed
      BY <2>1 DEF Touches, Keyed, Viewed, AnyMode, Listed
    <3>2. View(OnChange(tb, c), "o") = View(tb, "o")
      BY <1>4, <2>1, <3>1, Untouched
    <3> QED
      BY <3>2 DEF View, Plain
  <2>6. Formed(t, q.table, q.raw, q.late)
    BY <1>4, <1>6, <2>1, <2>2, <2>4, <2>5 DEF Formed
  <2>7. OnChanges(q.table, q.late).bans = OnChange(T, c).bans
    <3>1. View(OnChanges(OnChange(tb, c), late), "b") = View(OnChange(T, c), "b")
      BY <1>4, <2>1, ViewedAre, Commutes
    <3> QED
      BY <2>1, <3>1, ViewedAre
  <2>8. BansMeet(t, n, Append(raw, c), OnChange(T, c).bans, NetChange(N, c).bans)
    <3> HIDE DEF T, N
    <3> QED
      BY <1>1, <1>4, <1>5, <2>1, BansMove
  <2>9. BansMeet(t, n, q.raw, OnChanges(q.table, q.late).bans, NetChanges(n, q.raw).bans)
    BY <1>6, <2>1, <2>2, <2>7, <2>8
  <2> QED
    BY <2>3, <2>6, <2>9 DEF PInv
<1>8. CASE Later(p, c, q)
  <2>1. /\ c \in Whole /\ c.mode \in Plain \cup Listed /\ (c.mode = "o" => c.plus # (c.arg \in tb.ops))
        /\ q.table = tb /\ q.raw = Append(raw, c) /\ q.late = Append(late, c)
    BY <1>8 DEF Later, tb, raw, late
  <2>2. Bot \in t.ops => c # Opping
    <3> SUFFICES ASSUME Bot \in t.ops, c = Opping PROVE FALSE
      OBVIOUS
    <3>1. c.mode = "o" /\ c.arg = Bot /\ c.plus = TRUE
      BY DEF Opping, Change1
    <3>2. c.plus # (Bot \in tb.ops)
      BY <2>1, <3>1
    <3>3. Bot \in tb.ops
      BY <1>4
    <3> QED
      BY <3>1, <3>2, <3>3
  <2>3. Matches(n, S, q.table, q.raw, q.late)
    BY <1>1, <2>1, LaterMatches
  <2>4. q.late \in Seq(Whole) /\ \A i \in 1..Len(q.late) : q.late[i].mode \in Plain \cup Listed
    <3> DEFINE a == Append(late, c)
    <3>1. /\ a \in Seq(Whole) /\ Len(a) = Len(late) + 1 /\ a[Len(late) + 1] = c
          /\ \A i \in 1..Len(late) : a[i] = late[i]
      BY <1>4, <2>1, Added
    <3> HIDE DEF a
    <3>2. ASSUME NEW i \in 1..Len(a) PROVE a[i].mode \in Plain \cup Listed
      <4>1. i \in 1..Len(late) \/ i = Len(late) + 1
        BY <1>4, <3>1
      <4> QED
        BY <1>4, <2>1, <3>1, <4>1
    <3> QED
      BY <2>1, <3>1, <3>2 DEF a
  <2>6. Formed(t, q.table, q.raw, q.late)
    BY <1>4, <1>6, <2>1, <2>2, <2>4 DEF Formed
  <2>7. OnChanges(q.table, q.late) = OnChange(T, c)
    BY <1>4, <2>1, OnChangesAdded
  <2>8. BansMeet(t, n, Append(raw, c), OnChange(T, c).bans, NetChange(N, c).bans)
    <3> HIDE DEF T, N
    <3> QED
      BY <1>1, <1>4, <1>5, <2>1, BansMove
  <2>9. BansMeet(t, n, q.raw, OnChanges(q.table, q.late).bans, NetChanges(n, q.raw).bans)
    BY <1>6, <2>1, <2>2, <2>7, <2>8
  <2> QED
    BY <2>3, <2>6, <2>9 DEF PInv
<1> QED
  BY <1>2, <1>3, <1>7, <1>8

(* What has been read when the end is reached.                             *)
LEMMA ParsedHolds ==
    ASSUME NEW t \in Modes, Keyful(t), NEW n \in Modes, Thin(n), NEW S, Agree(t, n, S),
           NEW U, NEW X \in SUBSET Fit, NEW s \in Seq(X)
    PROVE  Parsed(t, U, s) \in PState(X, U) /\ PInv(t, n, S, Parsed(t, U, s))
<1>1. PICK h \in [0..Len(s) -> PState(X, U)] :
               /\ h[0] = Parsing(t, U)
               /\ \A i \in 1..Len(s) : h[i] = Parse(h[i - 1], s[i])
               /\ Parsed(t, U, s) = h[Len(s)]
  BY ParsedTrace, SMTT(30)
<1> DEFINE J == {i \in 0..Len(s) : PInv(t, n, S, h[i])}
<1>2. Len(s) \in Nat /\ 0 \in J
  BY <1>1, ParsingHolds
<1>3. ASSUME NEW i \in 1..Len(s), i - 1 \in J PROVE i \in J
  <2>1. i - 1 \in 0..Len(s) /\ i \in 0..Len(s) /\ s[i] \in X /\ h[i - 1] \in PState(X, U)
        /\ PInv(t, n, S, h[i - 1])
    BY <1>3
  <2>2. PInv(t, n, S, Parse(h[i - 1], s[i]))
    BY <2>1, ParseHolds
  <2> QED
    BY <1>1, <2>1, <2>2
<1> HIDE DEF J
<1>4. \A i \in 0..Len(s) : i \in J
  BY <1>2, <1>3, Reaches
<1>5. Len(s) \in J /\ Len(s) \in 0..Len(s)
  BY <1>2, <1>4
<1> QED
  BY <1>1, <1>5 DEF J

-----------------------------------------------------------------------------
(* Mode(): its calls.                                                      *)

(* A call of Mode() that has been read.                                    *)
LEMMA ReadSound ==
    ASSUME NEW t, NEW n, NEW S, Sound(t, n, S), NEW U, NEW s \in Seq(Fit), NEW p, p = Parsed(t, U, s)
    PROVE  /\ Sound(p.table, n, S \cup Differ(t, p.table))
           /\ Sound(OnChanges(p.table, p.late), NetChanges(n, p.raw), S \cup SpoiledByA(p.raw))
           /\ Bot \in t.ops => Sound(OnChanges(p.table, p.late), NetTakes(n, FALSE, Chunks(p.raw)),
                                     S \cup (SpoiledByA(p.raw) \cup Refused(Chunks(p.raw))))
           /\ p.raw \in Seq(Fit)
<1>1. t \in Modes /\ n \in Modes /\ Thin(n) /\ Keyful(t) /\ S \subseteq AnyMode /\ Agree(t, n, S)
  BY DEF Sound
<1>2. PInv(t, n, S, p)
  BY <1>1, ParsedHolds
<1>3. /\ p.table \in Modes /\ Keyful(p.table) /\ p.raw \in Seq(Whole) /\ p.late \in Seq(Whole)
      /\ p.table.ops = t.ops /\ (Bot \in t.ops => \A i \in 1..Len(p.raw) : p.raw[i] # Opping)
      /\ p.raw \in Seq(Fit)
  BY <1>2 DEF PInv, Formed, Whole
<1>4. Sound(p.table, n, S \cup Differ(t, p.table))
  <2>1. View(p.table, "bot") = View(t, "bot")
    BY <1>3, ViewedAre
  <2> QED
    BY <1>3, <2>1, DifferSound
<1> DEFINE T == OnChanges(p.table, p.late)
           N == NetChanges(n, p.raw)
           R == S \cup SpoiledByA(p.raw)
<1>5. T \in Modes /\ Keyful(T) /\ N \in Modes /\ Thin(N)
  BY <1>1, <1>3, OnChangesType, OnChangesKeyful, NetChangesType, NetChangesThin
<1>6. ASSUME NEW l \in Viewed \ R PROVE View(T, l) = View(N, l)
  BY <1>2, <1>6 DEF PInv, Matches, Right
<1>7. R \subseteq AnyMode
  BY <1>1 DEF SpoiledByA, AnyMode, Keyed
<1>8. Sound(T, N, R)
  <2> HIDE DEF T, N, R
  <2> QED
    BY <1>5, <1>6, <1>7 DEF Sound, Agree
<1>9. ASSUME Bot \in t.ops
      PROVE  Sound(T, NetTakes(n, FALSE, Chunks(p.raw)), S \cup (SpoiledByA(p.raw) \cup Refused(Chunks(p.raw))))
  <2> DEFINE Q == S \cup (SpoiledByA(p.raw) \cup Refused(Chunks(p.raw)))
  <2>1. Bot \in n.ops
    BY <1>9, BotsAgree
  <2>2. Q \in SUBSET AnyMode /\ Refused(Chunks(p.raw)) \subseteq Q /\ R \subseteq Q
    BY <1>7 DEF Refused
  <2>3. \A l \in Viewed \ Q : View(T, l) = View(NetChanges(n, p.raw), l)
    BY <1>6, <2>2
  <2> HIDE DEF Q, T
  <2>4. Sound(T, NetTakes(n, FALSE, Chunks(p.raw)), Q)
    BY <1>1, <1>3, <1>5, <1>9, <2>1, <2>2, <2>3, Written
  <2> QED
    BY <2>4 DEF Q
<1> QED
  BY <1>3, <1>4, <1>8, <1>9

(* Nothing is written.                                                     *)
LEMMA NothingWritten ==
    ASSUME NEW n \in Modes
    PROVE  NetTakes(n, TRUE, <<>>) = n /\ NetTakes(n, FALSE, <<>>) = n
<1> DEFINE e == <<>>
<1>1. e \in Seq(Seq(Fit)) /\ Len(e) = 0 /\ e \in Seq(Fit)
  OBVIOUS
<1> HIDE DEF e
<1>2. PICK h \in [0..Len(e) -> Modes] : h[0] = n /\ NetTakes(n, TRUE, e) = h[Len(e)]
  BY <1>1, ServerWritesTrace, ZenonT(30)
<1>3. PICK g \in [0..Len(e) -> Modes] : g[0] = n /\ NetTakes(n, FALSE, e) = g[Len(e)]
  BY <1>1, BotWritesTrace
<1> QED
  BY <1>1, <1>2, <1>3 DEF e

(* The lists of changes of the calls.                                      *)
LEMMA SomeAre == ASSUME scene \in Scenes, NEW s \in Some PROVE s \in Seq(Fit)
<1>1. AnyChange \subseteq Fit
  BY Inputs
<1>2. CASE \E c \in AnyChange : s = <<c>>
  <2>1. PICK c \in AnyChange : s = <<c>>
    BY <1>2
  <2>2. c \in Fit
    BY <1>1
  <2> QED
    BY <2>1, <2>2
<1>3. CASE \E c, d \in AnyChange : s = <<c, d>>
  <2>1. PICK c \in AnyChange, d \in AnyChange : s = <<c, d>>
    BY <1>3
  <2>2. c \in Fit /\ d \in Fit
    BY <1>1
  <2> QED
    BY <2>1, <2>2
<1> QED
  BY <1>2, <1>3 DEF Some

(* A mode that is set with a value is the only one to change.              *)
LEMMA PresentView ==
    ASSUME NEW n \in Modes, NEW l \in Viewed, NEW m \in Keyed, NEW v \in Value \cup {None}
    PROVE  /\ View(Present(n, m, v), l) = IF l = m THEN {v} ELSE View(n, l)
           /\ Present(n, m, v) \in Modes
<1>1. DOMAIN n = {"on", "arg", "ops", "voices", "bans"} /\ n.arg \in [Keyed -> Value \cup {None}]
      /\ n.on \in SUBSET (Plain \cup Keyed)
  BY DEF Modes
<1>2. Present(n, m, v) \in Modes
  BY DEF Modes, Present
<1> DEFINE u == Present(n, m, v)
<1>3. /\ u.on = n.on \cup {m} /\ u.arg = [n.arg EXCEPT ![m] = v]
      /\ u.ops = n.ops /\ u.voices = n.voices /\ u.bans = n.bans
  BY <1>1 DEF Present
<1>4. u.arg[m] = v /\ \A k \in Keyed : k # m => u.arg[k] = n.arg[k]
  BY <1>1, <1>3
<1> HIDE DEF u
<1> SUFFICES View(u, l) = IF l = m THEN {v} ELSE View(n, l)
  BY <1>2 DEF u
<1>5. CASE l \in Keyed
  <2>1. \A x : View(x, l) = IF l \in x.on THEN {x.arg[l]} ELSE {}
    BY <1>5 DEF View, Plain, Keyed
  <2> QED
    BY <1>3, <1>4, <1>5, <2>1
<1>6. CASE l \in Plain
  <2>1. \A x : View(x, l) = x.on \cap {l}
    BY <1>6 DEF View, Plain
  <2>2. l # m
    BY <1>6 DEF Plain, Keyed
  <2> QED
    BY <1>3, <2>1, <2>2
<1>7. CASE l \in Listed \cup {"bot"}
  <2>1. l # m
    BY <1>7 DEF Listed, Keyed
  <2>2. View(u, l) = View(n, l)
    BY <1>3, <1>7 DEF View, Plain, Listed
  <2> QED
    BY <2>1, <2>2
<1> QED
  BY <1>5, <1>6, <1>7 DEF Viewed, AnyMode

(* A limit may be missing in the table if l is spoiled.                    *)
LEMMA NoLimitSound ==
    ASSUME NEW t, NEW n, NEW S, Sound(t, n, S)
    PROVE  Sound(Present(t, "l", None), n, S \cup {"l"})
<1>1. t \in Modes /\ S \subseteq AnyMode /\ "l" \in Keyed /\ "k" \in Viewed /\ "l" \in AnyMode
  BY DEF Sound, Viewed, AnyMode, Keyed
<1>2. ASSUME NEW l \in Viewed PROVE
          /\ Present(t, "l", None) \in Modes
          /\ l # "l" => View(Present(t, "l", None), l) = View(t, l)
  BY <1>1, PresentView
<1>3. Present(t, "l", None) \in Modes /\ Keyful(Present(t, "l", None))
  BY <1>1, <1>2 DEF Keyful, Sound
<1>4. S \cup {"l"} \subseteq AnyMode
  BY <1>1
<1>5. ASSUME NEW l \in Viewed \ (S \cup {"l"}) PROVE View(Present(t, "l", None), l) = View(n, l)
  BY <1>2 DEF Sound, Agree
<1> QED
  BY <1>3, <1>4, <1>5 DEF Sound, Agree

(* The network may be without what was written if those modes are spoiled. *)
LEMMA LostSound ==
    ASSUME NEW t, NEW n, NEW m, NEW S, Sound(t, m, S), n \in Modes, Thin(n),
           NEW R \in SUBSET AnyMode, \A l \in Viewed \ R : View(m, l) = View(n, l)
    PROVE  Sound(t, n, S \cup R)
<1>1. S \cup R \subseteq AnyMode
  BY DEF Sound
<1>2. ASSUME NEW l \in Viewed \ (S \cup R) PROVE View(t, l) = View(n, l)
  <2>1. View(t, l) = View(m, l) /\ View(m, l) = View(n, l)
    BY DEF Sound, Agree
  <2> QED
    BY <2>1
<1> QED
  BY <1>1, <1>2 DEF Sound, Agree

(* From n to w only modes change that are in S or touched by s.            *)
Spares(s, n, w, S) ==
    \A l \in Viewed \ S : (\A i \in 1..Len(s) : ~NetTouches(s[i], l)) => View(w, l) = View(n, l)

(* What is asked of Mode() of the server, by itself or by the bot, which   *)
(* may not be operator or may take its own op.                             *)
LEMMA ServerModeSound ==
    ASSUME NEW t, NEW n, NEW S, Sound(t, n, S), NEW s \in Seq(Fit), NEW asServer \in BOOLEAN,
           NEW r, r = ServerMode(t, s, asServer)
    PROVE  /\ Sound(r.table, NetTakes(n, asServer, r.written), S \cup r.spoils)
           /\ Spares(s, n, NetTakes(n, asServer, r.written), r.spoils)
<1> DEFINE U == IF asServer THEN members ELSE members \cup {Bot}
           p == Parsed(t, U, s)
           by == IF asServer THEN {} ELSE Refused(Chunks(p.raw))
<1>1. r = IF ~asServer /\ Bot \notin t.ops
          THEN [table |-> t, written |-> <<>>, spoils |-> {}, ok |-> FALSE]
          ELSE IF p.failed
          THEN [table |-> p.table, written |-> <<>>, spoils |-> Differ(t, p.table), ok |-> FALSE]
          ELSE [table |-> OnChanges(p.table, p.late), written |-> Chunks(p.raw),
                spoils |-> SpoiledByA(p.raw) \cup by, ok |-> TRUE]
  BY DEF ServerMode
<1>2. /\ Sound(p.table, n, S \cup Differ(t, p.table))
      /\ Sound(OnChanges(p.table, p.late), NetChanges(n, p.raw), S \cup SpoiledByA(p.raw))
      /\ Bot \in t.ops => Sound(OnChanges(p.table, p.late), NetTakes(n, FALSE, Chunks(p.raw)),
                                S \cup (SpoiledByA(p.raw) \cup Refused(Chunks(p.raw))))
      /\ p.raw \in Seq(Fit)
  BY ReadSound
<1>3. n \in Modes /\ t \in Modes /\ NetTakes(n, asServer, <<>>) = n
  BY NothingWritten DEF Sound
<1>4. /\ Bot \in t.ops => \A i \in 1..Len(p.raw) : p.raw[i] # Opping
      /\ \A l \in Viewed : (\A i \in 1..Len(s) : ~NetTouches(s[i], l))
                              => \A i \in 1..Len(p.raw) : ~NetTouches(p.raw[i], l)
  <2>1. PInv(t, n, S, p)
    BY ParsedHolds DEF Sound
  <2>2. Bot \in t.ops => \A i \in 1..Len(p.raw) : p.raw[i] # Opping
    BY <2>1 DEF PInv, Formed
  <2> DEFINE X == {s[i] : i \in 1..Len(s)}
  <2>3. X \in SUBSET Fit /\ s \in Seq(X)
    <3>1. s = [i \in 1..Len(s) |-> s[i]] /\ Len(s) \in Nat
      OBVIOUS
    <3> QED
      BY <3>1
  <2> HIDE DEF X, U
  <2>4. PICK h \in [0..Len(s) -> PState(X, U)] : p = h[Len(s)]
    BY <1>3, <2>3, ParsedTrace
  <2>5. Len(s) \in 0..Len(s)
    OBVIOUS
  <2>6. p \in PState(X, U)
    BY <2>4, <2>5
  <2> HIDE DEF p
  <2>7. p.raw \in Seq(X \cap Whole)
    BY <2>6 DEF PState
  <2>8. \A i \in 1..Len(p.raw) : \E j \in 1..Len(s) : p.raw[i] = s[j]
    BY <2>7 DEF X
  <2> QED
    BY <2>2, <2>8
<1>5. CASE ~asServer /\ Bot \notin t.ops
  <2>1. r.table = t /\ r.written = <<>> /\ r.spoils = {}
    BY <1>1, <1>5
  <2>2. S \cup r.spoils = S
    BY <2>1
  <2> QED
    BY <1>3, <2>1, <2>2 DEF Spares
<1>6. CASE (asServer \/ Bot \in t.ops) /\ p.failed
  <2> HIDE DEF p
  <2>1. r.table = p.table /\ r.written = <<>> /\ r.spoils = Differ(t, p.table)
    BY <1>1, <1>6
  <2> QED
    BY <1>2, <1>3, <2>1 DEF Spares
<1>7. CASE (asServer \/ Bot \in t.ops) /\ ~p.failed
  <2> HIDE DEF p
  <2>1. /\ r.table = OnChanges(p.table, p.late) /\ r.written = Chunks(p.raw)
        /\ r.spoils = SpoiledByA(p.raw) \cup by
    BY <1>1, <1>7
  <2>2. ASSUME NEW l \in Viewed, \A i \in 1..Len(s) : ~NetTouches(s[i], l)
        PROVE  View(NetChanges(n, p.raw), l) = View(n, l)
    BY <1>2, <1>3, <1>4, <2>2, NetChangesSpare
  <2>3. CASE asServer
    <3>1. NetTakes(n, TRUE, Chunks(p.raw)) = NetChanges(n, p.raw) /\ r.spoils = SpoiledByA(p.raw)
      BY <1>2, <1>3, <2>1, <2>3, ServersMayWrite
    <3> QED
      BY <1>2, <2>1, <2>2, <2>3, <3>1 DEF Spares
  <2>4. CASE ~asServer
    <3>1. r.spoils = SpoiledByA(p.raw) \cup Refused(Chunks(p.raw)) /\ Bot \in n.ops /\ asServer = FALSE
      BY <1>7, <2>1, <2>4, BotsAgree
    <3>2. ASSUME NEW l \in Viewed \ r.spoils, \A i \in 1..Len(s) : ~NetTouches(s[i], l)
          PROVE  View(NetTakes(n, FALSE, Chunks(p.raw)), l) = View(n, l)
      <4>1. l \in Viewed /\ l \notin Refused(Chunks(p.raw))
        BY <3>1, <3>2
      <4>2. \A i \in 1..Len(p.raw) : p.raw[i] # Opping
        BY <1>4, <1>7, <2>4
      <4>3. View(NetTakes(n, FALSE, Chunks(p.raw)), l) = View(NetChanges(n, p.raw), l)
        BY <1>2, <1>3, <3>1, <4>1, <4>2, BotMayWrite
      <4> QED
        BY <2>2, <3>2, <4>3
    <3>3. Sound(r.table, NetTakes(n, FALSE, r.written), S \cup r.spoils)
      BY <1>2, <1>7, <2>1, <2>4, <3>1
    <3> QED
      BY <2>1, <3>1, <3>2, <3>3 DEF Spares
  <2> QED
    BY <2>3, <2>4
<1> QED
  BY <1>5, <1>6, <1>7

(* Mode()                                                                  *)
LEMMA ModeSound ==
    ASSUME MInv, NEW changes \in Some, NEW asServer \in BOOLEAN, Mode(changes, asServer)
    PROVE  MInv'
<1> DEFINE t == IF asServer THEN table ELSE Here(table)
           n == IF asServer THEN net ELSE Here(net)
           r == ServerMode(t, changes, asServer)
           m == NetTakes(n, asServer, r.written)
<1>1. Sound(t, n, spoiled) /\ scene \in Scenes /\ changes \in Seq(Fit)
  BY SomeAre, HereSound DEF MInv
<1>2. /\ table' = IF asServer THEN r.table ELSE Gone(r.table)
      /\ net' = IF asServer THEN m ELSE Gone(m)
      /\ spoiled' = spoiled \cup r.spoils /\ scene' = scene
  BY DEF Mode
<1> HIDE DEF t, n
<1>3. Sound(r.table, m, spoiled \cup r.spoils)
  BY <1>1, ServerModeSound
<1> HIDE DEF r, m
<1>4. Sound(Gone(r.table), Gone(m), spoiled \cup r.spoils)
  BY <1>3, HereSound
<1> QED
  BY <1>1, <1>2, <1>3, <1>4 DEF MInv

(* and Mode() with a limit that is none.                                   *)
LEMMA ModeNoLimitSound ==
    ASSUME MInv, NEW rest \in AtMostOne, NEW before \in BOOLEAN, NEW asServer \in BOOLEAN,
           ModeNoLimit(rest, before, asServer)
    PROVE  MInv'
<1> DEFINE t == IF asServer THEN table ELSE Here(table)
           n == IF asServer THEN net ELSE Here(net)
           r == ServerMode(t, rest, asServer)
           w == NetTakes(n, asServer, r.written)
           lost == ~before /\ \E i \in DOMAIN rest : rest[i].arg # None
           m == IF lost THEN n ELSE w
           u == Present(r.table, "l", None)
           R == {rest[i].mode : i \in DOMAIN rest}
           S == spoiled \cup r.spoils \cup {"l"} \cup IF lost THEN R ELSE {}
<1>1. Sound(t, n, spoiled) /\ scene \in Scenes
  BY HereSound DEF MInv
<1>2. /\ table' = IF asServer THEN u ELSE Gone(u)
      /\ net' = IF asServer THEN m ELSE Gone(m)
      /\ spoiled' = S /\ scene' = scene
      /\ \A i \in DOMAIN rest : rest[i].mode = "o" => before \/ rest[i].arg # Bot
  BY DEF ModeNoLimit
<1>3. rest \in Seq(Fit) /\ DOMAIN rest = 1..Len(rest)
  <2>1. AnyChange \subseteq Fit
    BY <1>1, Inputs
  <2>2. CASE rest = <<>>
    BY <2>2
  <2>3. CASE \E c \in AnyChange : rest = <<c>>
    <3>1. PICK c \in AnyChange : rest = <<c>>
      BY <2>3
    <3>2. c \in Fit
      BY <2>1
    <3> QED
      BY <3>1, <3>2
  <2> QED
    BY <2>2, <2>3 DEF AtMostOne
<1>4. R \in SUBSET AnyMode
  <2>1. ASSUME NEW i \in DOMAIN rest PROVE rest[i].mode \in AnyMode
    <3>1. rest[i] \in Fit
      BY <1>3
    <3> QED
      BY <3>1 DEF Fit, Change, AnyMode
  <2> QED
    BY <2>1
<1> HIDE DEF t, n
<1>8. r = ServerMode(t, rest, asServer)
  OBVIOUS
<1> HIDE DEF r
<1>5. /\ Sound(r.table, w, spoiled \cup r.spoils)
      /\ Spares(rest, n, w, r.spoils)
  BY <1>1, <1>3, <1>8, ServerModeSound
<1> HIDE DEF w
<1>6. CASE ~lost
  <2>1. m = w /\ S = (spoiled \cup r.spoils) \cup {"l"}
    BY <1>6
  <2>2. Sound(u, m, S)
    BY <1>5, <2>1, NoLimitSound
  <2> HIDE DEF u, m, S
  <2>3. Sound(Gone(u), Gone(m), S)
    BY <2>2, HereSound
  <2> QED
    BY <1>1, <1>2, <2>2, <2>3 DEF MInv
<1>7. CASE lost
  <2>1. m = n /\ S = (spoiled \cup r.spoils \cup (R \cup r.spoils)) \cup {"l"} /\ ~before
    BY <1>7
  <2>2. R \cup r.spoils \in SUBSET AnyMode
    BY <1>4, <1>5 DEF Sound
  <2>3. ASSUME NEW l \in Viewed \ (R \cup r.spoils) PROVE View(w, l) = View(n, l)
    <3>1. ASSUME NEW i \in 1..Len(rest) PROVE ~NetTouches(rest[i], l)
      BY <1>2, <1>3, <2>1 DEF NetTouches
    <3> QED
      BY <1>5, <3>1 DEF Spares
  <2>4. Sound(r.table, n, (spoiled \cup r.spoils) \cup (R \cup r.spoils))
    <3>1. n \in Modes /\ Thin(n)
      BY <1>1 DEF Sound
    <3> DEFINE Q == R \cup r.spoils
    <3> HIDE DEF R
    <3>2. Q \in SUBSET AnyMode /\ \A l \in Viewed \ Q : View(w, l) = View(n, l)
      BY <2>2, <2>3
    <3> HIDE DEF Q
    <3>3. Sound(r.table, n, (spoiled \cup r.spoils) \cup Q)
      BY <1>5, <3>1, <3>2, LostSound
    <3> QED
      BY <3>3 DEF Q
  <2>5. Sound(u, m, S)
    BY <2>1, <2>4, NoLimitSound
  <2> HIDE DEF u, m, S
  <2>6. Sound(Gone(u), Gone(m), S)
    BY <2>5, HereSound
  <2> QED
    BY <1>1, <1>2, <2>5, <2>6 DEF MInv
<1> QED
  BY <1>6, <1>7

-----------------------------------------------------------------------------
(* mod.cservice's MODE: what it reads.                                     *)

(* mod.cservice's MODE: the changes it passes on to Mode(), the states it  *)
(* is in while it reads, and what one change does.                         *)
Edits == {c \in Whole : c.mode \in {"t", "k", "l", "b"}}

RState == [table : Modes, list : Seq(Edits), limit : Value \cup {None}, key : Value \cup {None},
           unkey : BOOLEAN, plus : BOOLEAN, failed : BOOLEAN]

SameFields(q, r) == r.limit = q.limit /\ r.key = q.key /\ r.unkey = q.unkey
Listing(q, c, r) == c \in Edits /\ r.list = Append(q.list, c)

Passes(q, c, r) == r.table = q.table /\ r.list = q.list /\ SameFields(q, r)
Banning(q, c, r) ==
    /\ c.mode = "b" /\ Listing(q, c, r) /\ SameFields(q, r)
    /\ r.table = IF c.plus THEN SetBan(q.table, c.arg) ELSE RemoveBan(q.table, c.arg)
Keying(q, c, r) ==
    /\ c.mode = "k" /\ c.plus # ("k" \in q.table.on) /\ Listing(q, c, r)
    /\ r.table = q.table /\ r.limit = q.limit
    /\ c.plus => r.key = c.arg /\ r.unkey = q.unkey
    /\ ~c.plus => r.key = q.key /\ r.unkey = TRUE
Limiting(q, c, r) ==
    /\ c.mode = "l" /\ c.plus /\ c \in Whole
    /\ r.table = Present(q.table, "l", c.arg) /\ r.limit = c.arg
    /\ r.list = q.list /\ r.key = q.key /\ r.unkey = q.unkey
Unlimiting(q, c, r) ==
    /\ c.mode = "l" /\ ~c.plus /\ Listing(q, c, r) /\ SameFields(q, r)
    /\ r.table = [q.table EXCEPT !.on = @ \ {"l"}]
Flagging(q, c, r) ==
    /\ c.mode = "t" /\ Listing(q, c, r) /\ SameFields(q, r)
    /\ r.table = OnMode(q.table, c)

(* setBan() and removeBan() change the bans only.                          *)
LEMMA BanType ==
    ASSUME NEW t \in Modes, NEW m \in Mask
    PROVE  /\ SetBan(t, m) \in Modes /\ RemoveBan(t, m) \in Modes
           /\ SetBan(t, m).bans = [t.bans EXCEPT ![m] = IF @ < MaxCopies THEN @ + 1 ELSE @]
           /\ RemoveBan(t, m).bans = [t.bans EXCEPT ![m] = IF @ > 0 THEN @ - 1 ELSE @]
           /\ \A x \in {SetBan(t, m), RemoveBan(t, m)} :
                    x.on = t.on /\ x.arg = t.arg /\ x.ops = t.ops /\ x.voices = t.voices
<1>1. /\ t.on \in SUBSET (Plain \cup Keyed) /\ t.arg \in [Keyed -> Value \cup {None}]
      /\ t.ops \in SUBSET User /\ t.voices \in SUBSET User /\ t.bans \in [Mask -> 0..MaxCopies]
      /\ t = [on |-> t.on, arg |-> t.arg, ops |-> t.ops, voices |-> t.voices, bans |-> t.bans]
  BY DEF Modes
<1> DEFINE f == [t.bans EXCEPT ![m] = IF @ < MaxCopies THEN @ + 1 ELSE @]
           g == [t.bans EXCEPT ![m] = IF @ > 0 THEN @ - 1 ELSE @]
<1>2. f \in [Mask -> 0..MaxCopies] /\ g \in [Mask -> 0..MaxCopies]
  BY <1>1 DEF MaxCopies
<1>3. SetBan(t, m) = [t EXCEPT !.bans = f] /\ RemoveBan(t, m) = [t EXCEPT !.bans = g]
  BY DEF SetBan, RemoveBan
<1> HIDE DEF f, g
<1>4. /\ SetBan(t, m) = [on |-> t.on, arg |-> t.arg, ops |-> t.ops, voices |-> t.voices, bans |-> f]
      /\ RemoveBan(t, m) = [on |-> t.on, arg |-> t.arg, ops |-> t.ops, voices |-> t.voices, bans |-> g]
  BY <1>1, <1>3
<1> DEFINE a == SetBan(t, m)
           b == RemoveBan(t, m)
<1> HIDE DEF a, b
<1>5. /\ a = [on |-> t.on, arg |-> t.arg, ops |-> t.ops, voices |-> t.voices, bans |-> f]
      /\ b = [on |-> t.on, arg |-> t.arg, ops |-> t.ops, voices |-> t.voices, bans |-> g]
  BY <1>4 DEF a, b
<1>6. a \in Modes /\ b \in Modes
  BY <1>1, <1>2, <1>5 DEF Modes
<1>7. /\ a.bans = f /\ b.bans = g
      /\ \A x \in {a, b} : x.on = t.on /\ x.arg = t.arg /\ x.ops = t.ops /\ x.voices = t.voices
  BY <1>5
<1> QED
  BY <1>6, <1>7 DEF a, b, f, g

(* Reading a change of the command does one of six things.                 *)
LEMMA ReadIs ==
    ASSUME NEW q \in RState, NEW c \in Fit
    PROVE  LET r == Read(q, c) IN
           /\ r \in RState
           /\ \/ Passes(q, c, r) \/ Banning(q, c, r) \/ Keying(q, c, r)
              \/ Limiting(q, c, r) \/ Unlimiting(q, c, r) \/ Flagging(q, c, r)
<1> DEFINE r == Read(q, c)
           p == [q EXCEPT !.plus = c.plus]
<1>1. /\ q.table \in Modes /\ q.list \in Seq(Edits) /\ q.limit \in Value \cup {None}
      /\ q.key \in Value \cup {None} /\ q.unkey \in BOOLEAN /\ q.plus \in BOOLEAN /\ q.failed \in BOOLEAN
      /\ q = [table |-> q.table, list |-> q.list, limit |-> q.limit, key |-> q.key,
              unkey |-> q.unkey, plus |-> q.plus, failed |-> q.failed]
  BY DEF RState
<1>2. c \in Fit /\ c.plus \in BOOLEAN /\ c.mode \in Plain \cup Keyed \cup Listed
  BY DEF Fit, Change
<1>3. p = [table |-> q.table, list |-> q.list, limit |-> q.limit, key |-> q.key,
           unkey |-> q.unkey, plus |-> c.plus, failed |-> q.failed]
  BY <1>1
<1> HIDE DEF p
<1>4. CASE q.failed \/ c.mode \in {"o", "v", "A", "U"}
  <2>1. r = p
    BY <1>4 DEF Read, p
  <2>2. p \in RState
    BY <1>1, <1>2, <1>3 DEF RState
  <2>3. Passes(q, c, p)
    BY <1>3 DEF Passes, SameFields
  <2> QED
    BY <2>1, <2>2, <2>3
<1>5. CASE ~(q.failed \/ c.mode \in {"o", "v", "A", "U"}) /\ NeedsArgument(c) /\ c.arg = None
  <2>1. r = [q EXCEPT !.failed = TRUE]
    BY <1>5 DEF Read
  <2>2. r = [table |-> q.table, list |-> q.list, limit |-> q.limit, key |-> q.key,
             unkey |-> q.unkey, plus |-> q.plus, failed |-> TRUE]
    BY <1>1, <2>1
  <2> HIDE DEF r
  <2>3. r \in RState
    BY <1>1, <2>2 DEF RState
  <2>4. Passes(q, c, r)
    BY <2>2 DEF Passes, SameFields
  <2> QED
    BY <2>3, <2>4 DEF r
<1>6. CASE ~(q.failed \/ c.mode \in {"o", "v", "A", "U"}) /\ ~(NeedsArgument(c) /\ c.arg = None)
  <2>1. c \in Whole /\ c.mode \in {"t", "k", "l", "b"} /\ c \in Edits
    BY <1>2, <1>6 DEF Whole, Plain, Keyed, Listed, Edits
  <2>2. Append(q.list, c) \in Seq(Edits)
    BY <1>1, <2>1
  <2>3. c.mode \in {"k", "l"} => c.arg \in Value \cup {None}
    BY <1>2 DEF Fit, Keyed
  <2>4. CASE c.mode = "b"
    <3> DEFINE t == IF c.plus THEN SetBan(q.table, c.arg) ELSE RemoveBan(q.table, c.arg)
    <3>1. r = ReadBan(p, c)
      BY <1>6, <2>4 DEF Read, p
    <3>2. r = [p EXCEPT !.table = IF c.plus THEN SetBan(@, c.arg) ELSE RemoveBan(@, c.arg),
                        !.list = Append(@, c)]
      BY <3>1 DEF ReadBan
    <3>3. p.table = q.table
      BY <1>3
    <3>4. r = [p EXCEPT !.table = t, !.list = Append(@, c)]
      BY <3>2, <3>3
    <3>5. t \in Modes
      <4>1. c.arg \in Mask
        BY <2>1, <2>4, ModesAssumption DEF Whole, Fit, NeedsArgument, Listed, Keyed
      <4> QED
        BY <1>1, <4>1, BanType
    <3> HIDE DEF t, r
    <3>6. r = [table |-> t, list |-> Append(q.list, c), limit |-> q.limit, key |-> q.key,
               unkey |-> q.unkey, plus |-> c.plus, failed |-> q.failed]
      BY <1>3, <3>4
    <3>7. r \in RState
      BY <1>1, <1>2, <2>2, <3>5, <3>6 DEF RState
    <3>8. r.table = t /\ Listing(q, c, r) /\ SameFields(q, r)
      BY <2>1, <3>6 DEF Listing, SameFields
    <3>9. Banning(q, c, r)
      BY <2>4, <3>8 DEF Banning, t
    <3> QED
      BY <3>7, <3>9 DEF r
  <2>5. CASE c.mode = "k"
    <3>1. r = ReadKey(p, c)
      BY <1>6, <2>5 DEF Read, p, NeedsArgument, Keyed
    <3>2. p.table = q.table
      BY <1>3
    <3> HIDE DEF r
    <3>3. CASE c.plus = ("k" \in q.table.on)
      <4>1. r = p
        BY <3>1, <3>2, <3>3 DEF ReadKey
      <4>2. p \in RState
        BY <1>1, <1>2, <1>3 DEF RState
      <4>3. Passes(q, c, p)
        BY <1>3 DEF Passes, SameFields
      <4> QED
        BY <4>1, <4>2, <4>3 DEF r
    <3>4. CASE c.plus # ("k" \in q.table.on) /\ c.plus
      <4>1. r = [p EXCEPT !.key = c.arg, !.list = Append(@, c)]
        BY <3>1, <3>2, <3>4 DEF ReadKey
      <4>2. r = [table |-> q.table, list |-> Append(q.list, c), limit |-> q.limit, key |-> c.arg,
                 unkey |-> q.unkey, plus |-> c.plus, failed |-> q.failed]
        BY <1>3, <4>1
      <4>3. r \in RState
        BY <1>1, <1>2, <2>2, <2>3, <2>5, <4>2 DEF RState
      <4>4. r.table = q.table /\ r.limit = q.limit /\ r.key = c.arg /\ r.unkey = q.unkey /\ Listing(q, c, r)
        BY <2>1, <4>2 DEF Listing
      <4>5. Keying(q, c, r)
        BY <2>5, <3>4, <4>4 DEF Keying
      <4> QED
        BY <4>3, <4>5 DEF r
    <3>5. CASE c.plus # ("k" \in q.table.on) /\ ~c.plus /\ c.arg # q.table.arg["k"]
      <4>1. r = [p EXCEPT !.failed = TRUE]
        BY <3>1, <3>2, <3>5 DEF ReadKey
      <4>2. r = [table |-> q.table, list |-> q.list, limit |-> q.limit, key |-> q.key,
                 unkey |-> q.unkey, plus |-> c.plus, failed |-> TRUE]
        BY <1>3, <4>1
      <4>3. r \in RState
        BY <1>1, <1>2, <4>2 DEF RState
      <4>4. Passes(q, c, r)
        BY <4>2 DEF Passes, SameFields
      <4> QED
        BY <4>3, <4>4 DEF r
    <3>6. CASE c.plus # ("k" \in q.table.on) /\ ~c.plus /\ c.arg = q.table.arg["k"]
      <4>1. r = [p EXCEPT !.unkey = TRUE, !.list = Append(@, c)]
        BY <3>1, <3>2, <3>6 DEF ReadKey
      <4>2. r = [table |-> q.table, list |-> Append(q.list, c), limit |-> q.limit, key |-> q.key,
                 unkey |-> TRUE, plus |-> c.plus, failed |-> q.failed]
        BY <1>3, <4>1
      <4>3. r \in RState
        BY <1>1, <1>2, <2>2, <4>2 DEF RState
      <4>4. r.table = q.table /\ r.limit = q.limit /\ r.key = q.key /\ r.unkey = TRUE /\ Listing(q, c, r)
        BY <2>1, <4>2 DEF Listing
      <4>5. Keying(q, c, r)
        BY <2>5, <3>6, <4>4 DEF Keying
      <4> QED
        BY <4>3, <4>5 DEF r
    <3> QED
      BY <3>3, <3>4, <3>5, <3>6
  <2>6. CASE c.mode = "l" /\ c.plus
    <3>1. r = ReadLimit(p, c)
      BY <1>6, <2>6 DEF Read, p
    <3> HIDE DEF r
    <3>2. r = [p EXCEPT !.table = Present(@, "l", c.arg), !.limit = c.arg]
      BY <2>6, <3>1 DEF ReadLimit
    <3>3. r = [table |-> Present(q.table, "l", c.arg), list |-> q.list, limit |-> c.arg, key |-> q.key,
               unkey |-> q.unkey, plus |-> c.plus, failed |-> q.failed]
      BY <1>3, <3>2
    <3>4. c.arg \in Value
      BY <1>6, <2>3, <2>6 DEF NeedsArgument, Keyed
    <3>5. Present(q.table, "l", c.arg) \in Modes
      BY <1>1, <3>4, PresentView DEF Keyed, Viewed, AnyMode
    <3>6. r \in RState
      BY <1>1, <1>2, <3>3, <3>4, <3>5 DEF RState
    <3>7. Limiting(q, c, r)
      BY <2>1, <2>6, <3>3 DEF Limiting
    <3> QED
      BY <3>6, <3>7 DEF r
  <2>7. CASE c.mode = "l" /\ ~c.plus
    <3>1. r = ReadLimit(p, c)
      BY <1>6, <2>7 DEF Read, p
    <3> HIDE DEF r
    <3> DEFINE t == [q.table EXCEPT !.on = @ \ {"l"}]
    <3>2. r = [p EXCEPT !.table.on = @ \ {"l"}, !.list = Append(@, c)]
      BY <2>7, <3>1 DEF ReadLimit
    <3>3. r = [p EXCEPT !.table = t, !.list = Append(@, c)]
      BY <1>3, <3>2
    <3>4. t \in Modes
      BY <1>1 DEF Modes
    <3> HIDE DEF t
    <3>5. r = [table |-> t, list |-> Append(q.list, c), limit |-> q.limit, key |-> q.key,
               unkey |-> q.unkey, plus |-> c.plus, failed |-> q.failed]
      BY <1>3, <3>3
    <3>6. r \in RState
      BY <1>1, <1>2, <2>2, <3>4, <3>5 DEF RState
    <3>7. r.table = t /\ Listing(q, c, r) /\ SameFields(q, r)
      BY <2>1, <3>5 DEF Listing, SameFields
    <3>8. Unlimiting(q, c, r)
      BY <2>7, <3>7 DEF Unlimiting, t
    <3> QED
      BY <3>6, <3>8 DEF r
  <2>8. CASE c.mode = "t"
    <3>1. r = ReadPlain(p, c)
      BY <1>6, <2>8 DEF Read, p, NeedsArgument, Listed, Keyed
    <3> HIDE DEF r
    <3>2. r = [p EXCEPT !.table = OnMode(@, c), !.list = Append(@, c)]
      BY <3>1 DEF ReadPlain
    <3>4. OnMode(q.table, c) \in Modes
      BY <1>1, <2>8 DEF OnMode, Modes, Plain
    <3>5. r = [table |-> OnMode(q.table, c), list |-> Append(q.list, c), limit |-> q.limit, key |-> q.key,
               unkey |-> q.unkey, plus |-> c.plus, failed |-> q.failed]
      BY <1>3, <3>2
    <3>6. r \in RState
      BY <1>1, <1>2, <2>2, <3>4, <3>5 DEF RState
    <3>7. r.table = OnMode(q.table, c) /\ Listing(q, c, r) /\ SameFields(q, r)
      BY <2>1, <3>5 DEF Listing, SameFields
    <3>8. Flagging(q, c, r)
      BY <2>8, <3>7 DEF Flagging
    <3> QED
      BY <3>6, <3>8 DEF r
  <2> QED
    BY <2>1, <2>4, <2>5, <2>6, <2>7, <2>8
<1> QED
  BY <1>4, <1>5, <1>6

LEMMA ReadType == ASSUME NEW q \in RState, NEW c \in Fit PROVE Read(q, c) \in RState
  BY ReadIs

(* The command, change after change.                                       *)
LEMMA AllReadTrace ==
    ASSUME NEW t \in Modes, NEW s \in Seq(Fit)
    PROVE  \E h \in [0..Len(s) -> RState] :
               /\ h[0] = Reading(t)
               /\ \A i \in 1..Len(s) : h[i] = Read(h[i - 1], s[i])
               /\ AllRead(t, s) = h[Len(s)]
<1> DEFINE n == Len(s)
<1> DEFINE G == [i \in 1..n |-> [x \in RState |-> Read(x, s[i])]]
<1>1. n \in Nat /\ \A i \in 1..n : s[i] \in Fit
  OBVIOUS
<1>2. Reading(t) \in RState
  BY DEF RState, Reading
<1>3. G \in [1..n -> [RState -> RState]]
  <2> SUFFICES ASSUME NEW i \in 1..n PROVE [x \in RState |-> Read(x, s[i])] \in [RState -> RState]
    OBVIOUS
  <2>1. \A x \in RState : Read(x, s[i]) \in RState
    BY <1>1, ReadType
  <2> QED
    BY <2>1
<1>4. PICK g : Run(n, RState, Reading(t), G, g)
  <2> HIDE DEF G, n
  <2> QED
    BY <1>1, <1>2, <1>3, Runs
<1>5. \A i \in 1..n : g[i - 1] \in RState /\ g[i] = Read(g[i - 1], s[i])
  <2> SUFFICES ASSUME NEW i \in 1..n PROVE g[i - 1] \in RState /\ g[i] = Read(g[i - 1], s[i])
    OBVIOUS
  <2>1. i - 1 \in 0..n
    OBVIOUS
  <2>2. g[i - 1] \in RState /\ g[i] = G[i][g[i - 1]]
    BY <1>4, <2>1 DEF Run
  <2> QED
    BY <2>2
<1>6. g = [i \in 0..n |-> IF i = 0 THEN Reading(t) ELSE Read(g[i - 1], s[i])]
  <2>1. \A i \in 0..n : i # 0 => i \in 1..n
    OBVIOUS
  <2> HIDE DEF n
  <2> QED
    BY <1>4, <1>5, <2>1 DEF Run
<1> HIDE DEF G
<1> DEFINE f == CHOOSE f : f = [i \in 0..n |-> IF i = 0 THEN Reading(t) ELSE Read(f[i - 1], s[i])]
<1>7. AllRead(t, s) = f[n]
  BY DEF AllRead
<1>8. f = [i \in 0..n |-> IF i = 0 THEN Reading(t) ELSE Read(f[i - 1], s[i])]
  <2> HIDE DEF n
  <2> QED
    BY <1>6
<1> HIDE DEF f, n
<1>9. f[0] = Reading(t) /\ \A i \in 1..n : f[i] = Read(f[i - 1], s[i])
  <2>1. 0 \in 0..n /\ \A i \in 1..n : i \in 0..n /\ i # 0
    BY <1>1
  <2> QED
    BY <1>8, <2>1
<1>10. \A i \in 0..n : f[i] \in RState
  <2> DEFINE S == {j \in 0..n : f[j] \in RState }
  <2>1. 0 \in S
    BY <1>1, <1>2, <1>9
  <2>2. ASSUME NEW i \in 1..n, i - 1 \in S PROVE i \in S
    <3>1. f[i - 1] \in RState /\ f[i] = Read(f[i - 1], s[i]) /\ s[i] \in Fit
      BY <1>1, <1>9, <2>2
    <3>2. f[i] \in RState
      BY <3>1, ReadType
    <3>3. i \in 0..n
      BY <1>1
    <3> QED
      BY <3>2, <3>3
  <2> HIDE DEF S
  <2>3. \A i \in 0..n : i \in S
    BY <1>1, <2>1, <2>2, Reaches
  <2> QED
    BY <2>3 DEF S
<1>11. f \in [0..n -> RState]
  BY <1>8, <1>10
<1> QED
  BY <1>7, <1>9, <1>11 DEF n

-----------------------------------------------------------------------------
(* mod.cservice's MODE: the table while it reads.                          *)

(* What has been read so far, of a command that found table t: the table   *)
(* differs from t where a change is listed or the limit is kept aside.     *)
BanRead(t, q, m) ==
    \/ q.table.bans[m] = t.bans[m] \/ t.bans[m] > 1
    \/ \E i \in 1..Len(q.list) : /\ q.list[i].mode = "b" /\ q.list[i].arg = m
                                 /\ q.list[i].plus \/ q.table.bans[m] = 0

KeyRead(t, q) ==
    /\ \A i \in 1..Len(q.list) : q.list[i].mode = "k" => (q.list[i].plus <=> "k" \notin t.on)
    /\ q.key # None => /\ "k" \notin t.on
                       /\ \E i \in 1..Len(q.list) : q.list[i].mode = "k" /\ q.list[i].arg = q.key
    /\ q.unkey => "k" \in t.on /\ Has(q.list, "k")

RInv(t, q) ==
    /\ \A l \in Viewed \ {"t", "l", "b"} : View(q.table, l) = View(t, l)
    /\ View(q.table, "t") = View(t, "t") \/ Has(q.list, "t")
    /\ View(q.table, "l") = View(t, "l") \/ q.limit # None \/ Has(q.list, "l")
    /\ \A m \in Mask : BanRead(t, q, m)
    /\ KeyRead(t, q)

(* A list with one more change, and what it has.                           *)
LEMMA Grows ==
    ASSUME NEW q \in RState, NEW c \in Edits, NEW r, Listing(q, c, r)
    PROVE  /\ Len(q.list) \in Nat /\ Len(r.list) = Len(q.list) + 1
           /\ \A i \in 1..Len(q.list) : r.list[i] = q.list[i]
           /\ r.list[Len(q.list) + 1] = c
           /\ \A l : Has(q.list, l) => Has(r.list, l)
           /\ Has(r.list, c.mode)
<1>1. q.list \in Seq(Edits)
  BY DEF RState
<1>2. r.list = Append(q.list, c)
  BY DEF Listing
<1>3. /\ Len(q.list) \in Nat /\ Len(r.list) = Len(q.list) + 1
      /\ \A i \in 1..Len(q.list) : r.list[i] = q.list[i]
      /\ r.list[Len(q.list) + 1] = c
  BY <1>1, <1>2, Added
<1>4. \A l : Has(q.list, l) => Has(r.list, l)
  BY <1>3 DEF Has
<1>5. Has(r.list, c.mode)
  BY <1>3 DEF Has
<1> QED
  BY <1>3, <1>4, <1>5

(* A listed change that is not about the key, and leaves the key's fields. *)
LEMMA KeyReadStays ==
    ASSUME NEW t, NEW q \in RState, NEW c \in Edits, NEW r, Listing(q, c, r), c.mode # "k",
           r.key = q.key, r.unkey = q.unkey, KeyRead(t, q)
    PROVE  KeyRead(t, r)
<1>1. /\ Len(q.list) \in Nat /\ Len(r.list) = Len(q.list) + 1
      /\ \A i \in 1..Len(q.list) : r.list[i] = q.list[i]
      /\ r.list[Len(q.list) + 1] = c
      /\ Has(q.list, "k") => Has(r.list, "k")
  BY Grows, SMTT(30)
<1>2. \A i \in 1..Len(r.list) : i \in 1..Len(q.list) \/ i = Len(q.list) + 1
  BY <1>1
<1>3. \A i \in 1..Len(q.list) : i \in 1..Len(r.list)
  BY <1>1
<1>4. ASSUME NEW i \in 1..Len(r.list), r.list[i].mode = "k"
      PROVE  r.list[i].plus <=> "k" \notin t.on
  BY <1>1, <1>2, <1>4 DEF KeyRead
<1>5. ASSUME r.key # None
      PROVE  /\ "k" \notin t.on
             /\ \E i \in 1..Len(r.list) : r.list[i].mode = "k" /\ r.list[i].arg = r.key
  <2>1. PICK i \in 1..Len(q.list) : q.list[i].mode = "k" /\ q.list[i].arg = q.key
    BY <1>5 DEF KeyRead
  <2>2. "k" \notin t.on
    BY <1>5 DEF KeyRead
  <2>3. i \in 1..Len(r.list) /\ r.list[i].mode = "k" /\ r.list[i].arg = r.key
    BY <1>1, <1>3, <2>1
  <2> QED
    BY <2>2, <2>3
<1>6. r.unkey => "k" \in t.on /\ Has(r.list, "k")
  BY <1>1 DEF KeyRead
<1> QED
  BY <1>4, <1>5, <1>6 DEF KeyRead

(* A listed change that leaves a ban as it was.                            *)
LEMMA BanReadStays ==
    ASSUME NEW t, NEW q \in RState, NEW c \in Edits, NEW r, Listing(q, c, r), NEW m,
           r.table.bans[m] = q.table.bans[m], BanRead(t, q, m)
    PROVE  BanRead(t, r, m)
<1>1. /\ Len(q.list) \in Nat /\ Len(r.list) = Len(q.list) + 1
      /\ \A i \in 1..Len(q.list) : r.list[i] = q.list[i]
  BY Grows
<1>2. \A i \in 1..Len(q.list) : i \in 1..Len(r.list)
  BY <1>1
<1> QED
  BY <1>1, <1>2 DEF BanRead

(* Each of the six keeps the relation between the table and the list.      *)
LEMMA PassesKeeps ==
    ASSUME NEW t, NEW q, NEW c, NEW r, Passes(q, c, r), RInv(t, q)
    PROVE  RInv(t, r)
  BY DEF Passes, SameFields, RInv, BanRead, KeyRead

LEMMA KeyingKeeps ==
    ASSUME NEW t \in Modes, NEW q \in RState, NEW c, NEW r, Keying(q, c, r), RInv(t, q)
    PROVE  RInv(t, r)
<1>1. c \in Edits /\ Listing(q, c, r) /\ c.mode = "k" /\ r.table = q.table /\ r.limit = q.limit
      /\ q.table \in Modes
  BY DEF Keying, Listing, RState
<1>2. /\ Len(q.list) \in Nat /\ Len(r.list) = Len(q.list) + 1
      /\ \A i \in 1..Len(q.list) : r.list[i] = q.list[i]
      /\ r.list[Len(q.list) + 1] = c
      /\ \A l : Has(q.list, l) => Has(r.list, l)
      /\ Has(r.list, "k")
  BY <1>1, Grows
<1>3. "k" \in q.table.on <=> "k" \in t.on
  <2>1. View(q.table, "k") = View(t, "k")
    BY ViewedAre DEF RInv
  <2> QED
    BY <2>1, ViewedAre
<1>4. /\ \A l \in Viewed \ {"t", "l", "b"} : View(r.table, l) = View(t, l)
      /\ View(r.table, "t") = View(t, "t") \/ Has(r.list, "t")
      /\ View(r.table, "l") = View(t, "l") \/ r.limit # None \/ Has(r.list, "l")
  BY <1>1, <1>2 DEF RInv
<1>5. \A m \in Mask : BanRead(t, r, m)
  BY <1>1, BanReadStays DEF RInv
<1>6. \A i \in 1..Len(r.list) : i \in 1..Len(q.list) \/ i = Len(q.list) + 1
  BY <1>2
<1>7. \A i \in 1..Len(q.list) : i \in 1..Len(r.list)
  BY <1>2
<1>8. c.plus # ("k" \in q.table.on) /\ c.plus \in BOOLEAN
  BY <1>1 DEF Keying, Edits, Whole, Fit, Change
<1>9. c.plus <=> "k" \notin t.on
  BY <1>3, <1>8
<1>10. ASSUME NEW i \in 1..Len(r.list), r.list[i].mode = "k"
      PROVE  r.list[i].plus <=> "k" \notin t.on
  <2>1. CASE i \in 1..Len(q.list)
    BY <1>2, <1>10, <2>1 DEF RInv, KeyRead
  <2>2. CASE i = Len(q.list) + 1
    BY <1>2, <1>9, <2>2
  <2> QED
    BY <1>6, <2>1, <2>2
<1>11. CASE c.plus
  <2>1. r.key = c.arg /\ r.unkey = q.unkey
    BY <1>11 DEF Keying
  <2>2. Len(q.list) + 1 \in 1..Len(r.list)
    BY <1>2
  <2>3. "k" \notin t.on
    BY <1>9, <1>11
  <2>4. ~q.unkey
    BY <2>3 DEF RInv, KeyRead
  <2>5. \E i \in 1..Len(r.list) : r.list[i].mode = "k" /\ r.list[i].arg = r.key
    BY <1>1, <1>2, <2>1, <2>2
  <2>6. KeyRead(t, r)
    BY <1>10, <2>1, <2>3, <2>4, <2>5 DEF KeyRead
  <2> QED
    BY <1>4, <1>5, <2>6 DEF RInv
<1>12. CASE ~c.plus
  <2>1. r.key = q.key /\ r.unkey = TRUE
    BY <1>12 DEF Keying
  <2>2. "k" \in t.on
    BY <1>9, <1>12
  <2>3. r.key = None
    BY <2>1, <2>2 DEF RInv, KeyRead
  <2>4. KeyRead(t, r)
    BY <1>2, <1>10, <2>2, <2>3 DEF KeyRead
  <2> QED
    BY <1>4, <1>5, <2>4 DEF RInv
<1> QED
  BY <1>11, <1>12

LEMMA BanningKeeps ==
    ASSUME NEW t \in Modes, NEW q \in RState, NEW c, NEW r, Banning(q, c, r), RInv(t, q)
    PROVE  RInv(t, r)
<1>1. c \in Edits /\ Listing(q, c, r) /\ SameFields(q, r) /\ c.mode = "b" /\ q.table \in Modes
      /\ r.table = IF c.plus THEN SetBan(q.table, c.arg) ELSE RemoveBan(q.table, c.arg)
  BY DEF Banning, Listing, RState
<1>2. /\ Len(q.list) \in Nat /\ Len(r.list) = Len(q.list) + 1
      /\ \A i \in 1..Len(q.list) : r.list[i] = q.list[i]
      /\ r.list[Len(q.list) + 1] = c
      /\ \A l : Has(q.list, l) => Has(r.list, l)
  BY <1>1, Grows
<1>3. c.arg \in Mask
  BY <1>1, ModesAssumption DEF Edits, Whole, Fit, NeedsArgument, Listed, Keyed
<1>4. /\ SetBan(q.table, c.arg).bans = [q.table.bans EXCEPT ![c.arg] = IF @ < MaxCopies THEN @ + 1 ELSE @]
      /\ RemoveBan(q.table, c.arg).bans = [q.table.bans EXCEPT ![c.arg] = IF @ > 0 THEN @ - 1 ELSE @]
      /\ \A x \in {SetBan(q.table, c.arg), RemoveBan(q.table, c.arg)} :
             x.on = q.table.on /\ x.arg = q.table.arg /\ x.ops = q.table.ops /\ x.voices = q.table.voices
  BY <1>1, <1>3, BanType
<1>5. /\ r.table.on = q.table.on /\ r.table.arg = q.table.arg /\ r.table.ops = q.table.ops
      /\ r.table.voices = q.table.voices
  BY <1>1, <1>4
<1>6. \A l \in Viewed \ {"b"} : View(r.table, l) = View(q.table, l)
  BY <1>5 DEF View, Plain
<1>7. /\ \A l \in Viewed \ {"t", "l", "b"} : View(r.table, l) = View(t, l)
      /\ View(r.table, "t") = View(t, "t") \/ Has(r.list, "t")
      /\ View(r.table, "l") = View(t, "l") \/ r.limit # None \/ Has(r.list, "l")
  <2>1. "t" \in Viewed \ {"b"} /\ "l" \in Viewed \ {"b"}
    BY DEF Viewed, AnyMode, Plain, Keyed
  <2> QED
    BY <1>1, <1>2, <1>6, <2>1 DEF RInv, SameFields
<1>8. KeyRead(t, r)
  <2>1. c.mode # "k"
    BY <1>1
  <2> QED
    BY <1>1, <2>1, KeyReadStays DEF SameFields, RInv
<1>9. ASSUME NEW m \in Mask PROVE BanRead(t, r, m)
  <2>1. BanRead(t, q, m) /\ t.bans[m] \in Nat /\ q.table.bans[m] \in Nat
    BY <1>1 DEF RInv, Modes, MaxCopies
  <2>2. \A i \in 1..Len(q.list) : i \in 1..Len(r.list)
    BY <1>2
  <2>3. Len(q.list) + 1 \in 1..Len(r.list)
    BY <1>2
  <2>4. q.table.bans \in [Mask -> 0..MaxCopies]
    BY <1>1 DEF Modes
  <2>5. CASE m # c.arg
    <3>1. r.table.bans[m] = q.table.bans[m]
      BY <1>1, <1>3, <1>4, <2>4, <2>5
    <3> QED
      BY <1>1, <2>1, <3>1, BanReadStays
  <2>6. CASE m = c.arg /\ c.plus
    BY <1>1, <1>2, <2>3, <2>6 DEF BanRead
  <2>7. CASE m = c.arg /\ ~c.plus
    <3>1. r.table.bans = [q.table.bans EXCEPT ![c.arg] = IF @ > 0 THEN @ - 1 ELSE @]
      BY <1>1, <1>4, <2>7
    <3>2. r.table.bans[m] = IF q.table.bans[m] > 0 THEN q.table.bans[m] - 1 ELSE q.table.bans[m]
      BY <1>3, <2>4, <2>7, <3>1
    <3>3. CASE \E i \in 1..Len(q.list) : q.list[i].mode = "b" /\ q.list[i].arg = m /\ q.list[i].plus
      BY <1>2, <2>2, <3>3 DEF BanRead
    <3>4. CASE r.table.bans[m] = 0
      BY <1>1, <1>2, <2>3, <2>7, <3>4 DEF BanRead
    <3>5. CASE t.bans[m] > 1
      BY <3>5 DEF BanRead
    <3>6. CASE q.table.bans[m] = t.bans[m] /\ ~(t.bans[m] > 1)
      <4>1. r.table.bans[m] = 0
        BY <2>1, <3>2, <3>6
      <4> QED
        BY <3>4, <4>1
    <3>7. CASE q.table.bans[m] = 0
      <4>1. r.table.bans[m] = 0
        BY <3>2, <3>7
      <4> QED
        BY <3>4, <4>1
    <3> QED
      BY <2>1, <3>3, <3>5, <3>6, <3>7 DEF BanRead
  <2> QED
    BY <2>5, <2>6, <2>7
<1> QED
  BY <1>7, <1>8, <1>9 DEF RInv

(* A step about one of the modes t and l, after which the bans are as      *)
(* before and a change of that mode is listed or the limit kept.           *)
LEMMA FlagKeeps ==
    ASSUME NEW t \in Modes, NEW q \in RState, NEW c \in Edits, NEW r, Listing(q, c, r), SameFields(q, r),
           c.mode \in {"t", "l"}, r.table.bans = q.table.bans, RInv(t, q),
           \A l \in Viewed : l # c.mode => View(r.table, l) = View(q.table, l)
    PROVE  RInv(t, r)
<1>1. /\ \A l : Has(q.list, l) => Has(r.list, l)
      /\ Has(r.list, c.mode)
  BY Grows
<1>2. "t" \in Viewed /\ "l" \in Viewed
  BY DEF Viewed, AnyMode, Plain, Keyed
<1>3. \A m \in Mask : BanRead(t, r, m)
  BY BanReadStays DEF RInv
<1>4. KeyRead(t, r)
  BY KeyReadStays DEF RInv, SameFields
<1>5. \A l \in Viewed \ {"t", "l", "b"} : View(r.table, l) = View(t, l)
  BY DEF RInv
<1>6. View(r.table, "t") = View(t, "t") \/ Has(r.list, "t")
  BY <1>1, <1>2 DEF RInv
<1>7. View(r.table, "l") = View(t, "l") \/ r.limit # None \/ Has(r.list, "l")
  BY <1>1, <1>2 DEF RInv, SameFields
<1> QED
  BY <1>3, <1>4, <1>5, <1>6, <1>7 DEF RInv

LEMMA FlaggingKeeps ==
    ASSUME NEW t \in Modes, NEW q \in RState, NEW c, NEW r, Flagging(q, c, r), RInv(t, q)
    PROVE  RInv(t, r)
<1>1. c \in Edits /\ c \in Whole /\ Listing(q, c, r) /\ SameFields(q, r) /\ c.mode = "t"
      /\ r.table = OnMode(q.table, c) /\ q.table \in Modes
  BY DEF Flagging, Listing, RState, Edits
<1>2. OnMode(q.table, c) = OnChange(q.table, c)
  BY <1>1 DEF OnChange, Plain
<1>3. \A l \in Viewed : l # c.mode => View(r.table, l) = View(q.table, l)
  <2> SUFFICES ASSUME NEW l \in Viewed, l # c.mode PROVE View(r.table, l) = View(q.table, l)
    OBVIOUS
  <2>1. ~Touches(c, l)
    BY <1>1 DEF Touches
  <2> QED
    BY <1>1, <1>2, <2>1, Untouched
<1>4. r.table.bans = q.table.bans
  BY <1>1, <1>3, ViewedAre
<1>5. c.mode \in {"t", "l"}
  BY <1>1
<1> QED
  BY <1>1, <1>3, <1>4, <1>5, FlagKeeps

LEMMA UnlimitingKeeps ==
    ASSUME NEW t \in Modes, NEW q \in RState, NEW c, NEW r, Unlimiting(q, c, r), RInv(t, q)
    PROVE  RInv(t, r)
<1>1. c \in Edits /\ Listing(q, c, r) /\ SameFields(q, r) /\ c.mode = "l"
      /\ r.table = [q.table EXCEPT !.on = @ \ {"l"}] /\ q.table \in Modes
  BY DEF Unlimiting, Listing, RState
<1> DEFINE u == r.table
           x == q.table
<1>2. /\ u.on = x.on \ {"l"} /\ u.arg = x.arg /\ u.ops = x.ops /\ u.voices = x.voices /\ u.bans = x.bans
  BY <1>1 DEF Modes
<1> HIDE DEF u, x
<1>3. \A l \in Viewed : l # c.mode => View(u, l) = View(x, l)
  <2> SUFFICES ASSUME NEW l \in Viewed, l # "l" PROVE View(u, l) = View(x, l)
    BY <1>1
  <2>1. l \in u.on <=> l \in x.on
    BY <1>2
  <2>2. u.on \cap {l} = x.on \cap {l}
    BY <1>2
  <2> QED
    BY <1>2, <2>1, <2>2 DEF View, Plain
<1>4. c.mode \in {"t", "l"}
  BY <1>1
<1>5. /\ r.table.bans = q.table.bans
      /\ \A l \in Viewed : l # c.mode => View(r.table, l) = View(q.table, l)
  BY <1>2, <1>3 DEF u, x
<1>6. c \in Edits /\ Listing(q, c, r) /\ SameFields(q, r)
  BY <1>1
<1> QED
  BY <1>4, <1>5, <1>6, FlagKeeps

LEMMA LimitingKeeps ==
    ASSUME NEW t \in Modes, NEW q \in RState, NEW c, NEW r, Limiting(q, c, r), RInv(t, q)
    PROVE  RInv(t, r)
<1>1. c \in Whole /\ c.mode = "l" /\ c.plus /\ r.limit = c.arg /\ r.list = q.list /\ q.table \in Modes
      /\ r.table = Present(q.table, "l", c.arg) /\ r.key = q.key /\ r.unkey = q.unkey
  BY DEF Limiting, RState
<1>2. c.arg \in Value /\ c.arg # None
  BY <1>1 DEF Whole, Fit, NeedsArgument, Keyed
<1>3. "l" \in Keyed
  BY DEF Keyed
<1>4. \A l \in Viewed : l # "l" => View(r.table, l) = View(q.table, l)
  <2> SUFFICES ASSUME NEW l \in Viewed, l # "l" PROVE View(r.table, l) = View(q.table, l)
    OBVIOUS
  <2>1. View(Present(q.table, "l", c.arg), l) = IF l = "l" THEN {c.arg} ELSE View(q.table, l)
    BY <1>1, <1>2, <1>3, PresentView
  <2> QED
    BY <1>1, <2>1
<1>5. r.table.bans = q.table.bans
  BY <1>4, ViewedAre
<1>6. \A m \in Mask : BanRead(t, r, m)
  BY <1>1, <1>5 DEF RInv, BanRead
<1>7. KeyRead(t, r)
  BY <1>1 DEF RInv, KeyRead
<1>8. "t" \in Viewed
  BY DEF Viewed, AnyMode, Plain
<1>9. /\ \A l \in Viewed \ {"t", "l", "b"} : View(r.table, l) = View(t, l)
      /\ View(r.table, "t") = View(t, "t") \/ Has(r.list, "t")
  BY <1>1, <1>4, <1>8 DEF RInv
<1> QED
  BY <1>1, <1>2, <1>6, <1>7, <1>9 DEF RInv

(* So does the step,                                                       *)
LEMMA ReadKeeps ==
    ASSUME NEW t \in Modes, NEW q \in RState, NEW c \in Fit, RInv(t, q)
    PROVE  RInv(t, Read(q, c))
<1> DEFINE r == Read(q, c)
<1>1. \/ Passes(q, c, r) \/ Banning(q, c, r) \/ Keying(q, c, r)
      \/ Limiting(q, c, r) \/ Unlimiting(q, c, r) \/ Flagging(q, c, r)
  BY ReadIs
<1> HIDE DEF r
<1>2. RInv(t, r)
  BY <1>1, PassesKeeps, BanningKeeps, KeyingKeeps, LimitingKeeps, UnlimitingKeeps, FlaggingKeeps
<1> QED
  BY <1>2 DEF r

(* and it holds when all has been read.                                    *)
LEMMA AllReadHolds ==
    ASSUME NEW t \in Modes, NEW s \in Seq(Fit)
    PROVE  AllRead(t, s) \in RState /\ RInv(t, AllRead(t, s))
<1>1. PICK h \in [0..Len(s) -> RState] :
          /\ h[0] = Reading(t)
          /\ \A i \in 1..Len(s) : h[i] = Read(h[i - 1], s[i])
          /\ AllRead(t, s) = h[Len(s)]
  BY AllReadTrace
<1>2. Len(s) \in Nat /\ \A i \in 1..Len(s) : s[i] \in Fit
  OBVIOUS
<1> DEFINE S == {i \in 0..Len(s) : RInv(t, h[i])}
<1>3. 0 \in S
  <2> DEFINE q == Reading(t)
  <2>1. q.table = t /\ q.list = <<>> /\ q.key = None /\ q.unkey = FALSE
    BY DEF Reading
  <2>2. Len(q.list) = 0
    BY <2>1
  <2> HIDE DEF q
  <2>3. KeyRead(t, q)
    BY <2>1, <2>2 DEF KeyRead
  <2>4. \A m \in Mask : BanRead(t, q, m)
    BY <2>1 DEF BanRead
  <2>5. RInv(t, q)
    BY <2>1, <2>3, <2>4 DEF RInv
  <2> QED
    BY <1>1, <1>2, <2>5 DEF q
<1>4. ASSUME NEW i \in 1..Len(s), i - 1 \in S PROVE i \in S
  <2>1. i - 1 \in 0..Len(s) /\ i \in 0..Len(s)
    BY <1>2
  <2>2. h[i - 1] \in RState /\ RInv(t, h[i - 1]) /\ h[i] = Read(h[i - 1], s[i]) /\ s[i] \in Fit
    BY <1>1, <1>2, <1>4, <2>1
  <2>3. RInv(t, h[i])
    BY <2>2, ReadKeeps
  <2> QED
    BY <2>1, <2>3
<1> HIDE DEF S
<1>5. Len(s) \in S
  <2>1. \A i \in 0..Len(s) : i \in S
    BY <1>2, <1>3, <1>4, Reaches
  <2> QED
    BY <1>2, <2>1
<1>6. h[Len(s)] \in RState
  BY <1>1, <1>2
<1> QED
  BY <1>1, <1>5, <1>6 DEF S

-----------------------------------------------------------------------------
(* mod.cservice's MODE: what Mode() makes of its changes.                  *)

(* What has become of the first i of the changes passed on to Mode(), by a *)
(* command that found table t, if Mode() has not failed.                   *)
Passed(t, s, i, p) ==
    p.failed \/ \A j \in 1..i :
        /\ s[j].mode \in {"t", "l", "b"} => \E x \in 1..Len(p.raw) : p.raw[x] = s[j]
        /\ s[j].mode = "k" => View(p.table, "k") = IF s[j].plus THEN {s[j].arg} ELSE {}

(* A change of the key gives the key or takes it.                          *)
LEMMA KeyChanged ==
    ASSUME NEW t \in Modes, NEW c \in Whole, c.mode = "k"
    PROVE  View(OnChange(t, c), "k") = IF c.plus THEN {c.arg} ELSE {}
<1>1. "k" \in Viewed /\ "k" \in Keyed
  BY DEF Viewed, AnyMode, Keyed
<1>2. OnChange(t, c) = IF c.plus THEN Present(t, "k", c.arg) ELSE Absent(t, "k")
  BY DEF OnChange, OnModeK, Plain
<1>3. c.arg \in Value
  BY DEF Whole, Fit, NeedsArgument, Keyed
<1>4. View(Present(t, "k", c.arg), "k") = {c.arg}
  BY <1>1, <1>3, PresentView
<1>5. View(Absent(t, "k"), "k") = {}
  BY <1>1, AbsentView
<1> QED
  BY <1>2, <1>4, <1>5

(* The parser keeps a flag, limit or ban it is given, and the key in the   *)
(* table is that of the last change of it: a second +k fails.              *)
LEMMA PassedOn ==
    ASSUME NEW t, NEW s \in Seq(Edits),
           \A j \in 1..Len(s) : s[j].mode = "k" => (s[j].plus <=> "k" \notin t.on),
           NEW U, NEW i \in 1..Len(s), NEW p \in PState(Edits, U), Passed(t, s, i - 1, p)
    PROVE  Passed(t, s, i, Parse(p, s[i]))
<1> DEFINE c == s[i]
           q == Parse(p, c)
<1>1. /\ c \in Edits /\ Edits \in SUBSET Fit /\ c.mode \in {"t", "k", "l", "b"} /\ c.plus \in BOOLEAN
      /\ Len(s) \in Nat
  BY DEF Edits, Whole, Fit, Change
<1>2. /\ q \in PState(Edits, U)
      /\ Skips(p, c, q) \/ AtOnce(p, c, q) \/ Later(p, c, q)
      /\ ~q.failed => ~p.failed
  <2> HIDE DEF c
  <2> QED
    BY <1>1, ParseIs
<1>3. p.table \in Modes /\ p.raw \in Seq(Edits \cap Whole)
  BY DEF PState
<1>4. \A j \in 1..i : j \in 1..(i - 1) \/ j = i
  OBVIOUS
<1>5. s[i] = c
  OBVIOUS
<1>6. c.mode = "k" => (c.plus <=> "k" \notin t.on)
  OBVIOUS
<1> HIDE DEF c, q
<1> SUFFICES ASSUME ~q.failed PROVE Passed(t, s, i, q)
  BY DEF Passed, c, q
<1> SUFFICES ASSUME NEW j \in 1..i
             PROVE  /\ s[j].mode \in {"t", "l", "b"} => \E x \in 1..Len(q.raw) : q.raw[x] = s[j]
                    /\ s[j].mode = "k" => View(q.table, "k") = IF s[j].plus THEN {s[j].arg} ELSE {}
  BY DEF Passed
<1>7. CASE Skips(p, c, q)
  <2>1. q.table = p.table /\ q.raw = p.raw
    BY <1>7 DEF Skips
  <2>2. c.mode = "k" /\ ~c.plus /\ "k" \notin p.table.on
    BY <1>1, <1>7 DEF Skips, Plain
  <2>3. CASE j \in 1..(i - 1)
    BY <1>2, <2>1, <2>3 DEF Passed
  <2>4. CASE j = i
    <3>1. View(p.table, "k") = {}
      BY <2>2, ViewedAre
    <3> QED
      BY <1>5, <2>1, <2>2, <2>4, <3>1
  <2> QED
    BY <1>4, <2>3, <2>4
<1>8. CASE AtOnce(p, c, q)
  <2>1. /\ c \in Whole /\ q.table = OnChange(p.table, c) /\ q.raw = Append(p.raw, c)
        /\ c.mode = "k" /\ c.plus => "k" \notin p.table.on
    BY <1>8 DEF AtOnce
  <2>2. /\ \A x \in 1..Len(p.raw) : x \in 1..Len(q.raw) /\ q.raw[x] = p.raw[x]
        /\ Len(p.raw) + 1 \in 1..Len(q.raw) /\ q.raw[Len(p.raw) + 1] = c
    BY <1>1, <1>3, <2>1
  <2>3. CASE j = i
    <3>1. c.mode = "k" => View(q.table, "k") = IF c.plus THEN {c.arg} ELSE {}
      BY <1>3, <2>1, KeyChanged
    <3> QED
      BY <1>5, <2>2, <2>3, <3>1
  <2>4. CASE j \in 1..(i - 1)
    <3>1. s[j].mode \in {"t", "l", "b"} => \E x \in 1..Len(q.raw) : q.raw[x] = s[j]
      BY <1>2, <2>2, <2>4 DEF Passed
    <3>2. ASSUME s[j].mode = "k" PROVE View(q.table, "k") = IF s[j].plus THEN {s[j].arg} ELSE {}
      <4>1. View(p.table, "k") = IF s[j].plus THEN {s[j].arg} ELSE {}
        BY <1>2, <2>4, <3>2 DEF Passed
      <4>2. s[j].plus <=> "k" \notin t.on
        <5>1. j \in 1..Len(s)
          BY <1>1
        <5> QED
          BY <3>2, <5>1
      <4>3. CASE c.mode = "k"
        <5>1. s[j].plus <=> c.plus
          BY <1>6, <4>2, <4>3
        <5>2. ~c.plus
          <6> SUFFICES ASSUME c.plus PROVE FALSE
            OBVIOUS
          <6>1. View(p.table, "k") = {}
            BY <2>1, <4>3, ViewedAre
          <6> QED
            BY <4>1, <5>1, <6>1
        <5>3. View(q.table, "k") = {}
          BY <1>3, <2>1, <4>3, <5>2, KeyChanged
        <5> QED
          BY <5>1, <5>2, <5>3
      <4>4. CASE c.mode # "k"
        <5>1. ~Touches(c, "k")
          BY <1>1, <4>4 DEF Touches
        <5>2. View(q.table, "k") = View(p.table, "k")
          BY <1>3, <2>1, <5>1, Untouched, ViewedAre
        <5> QED
          BY <4>1, <5>2
      <4> QED
        BY <4>3, <4>4
    <3> QED
      BY <3>1, <3>2
  <2> QED
    BY <1>4, <2>3, <2>4
<1>9. CASE Later(p, c, q)
  <2>1. q.table = p.table /\ q.raw = Append(p.raw, c) /\ c.mode # "k"
    BY <1>9 DEF Later, Plain, Listed
  <2>2. /\ \A x \in 1..Len(p.raw) : x \in 1..Len(q.raw) /\ q.raw[x] = p.raw[x]
        /\ Len(p.raw) + 1 \in 1..Len(q.raw) /\ q.raw[Len(p.raw) + 1] = c
    <3>1. c \in Whole
      BY <1>9 DEF Later
    <3> QED
      BY <1>1, <1>3, <2>1, <3>1
  <2>3. CASE j = i
    BY <1>5, <2>1, <2>2, <2>3
  <2>4. CASE j \in 1..(i - 1)
    BY <1>2, <2>1, <2>2, <2>4, ZenonT(30) DEF Passed
  <2> QED
    BY <1>4, <2>3, <2>4
<1> QED
  BY <1>2, <1>7, <1>8, <1>9

(* The parser on the changes of the command.                               *)
LEMMA EditsTrace ==
    ASSUME NEW t \in Modes, NEW U, NEW s \in Seq(Edits)
    PROVE  \E h \in [0..Len(s) -> PState(Edits, U)] :
               /\ h[0] = Parsing(t, U)
               /\ \A i \in 1..Len(s) : h[i] = Parse(h[i - 1], s[i])
               /\ Parsed(t, U, s) = h[Len(s)]
<1> DEFINE X == Edits
<1>1. X \in SUBSET Fit /\ s \in Seq(X)
  BY DEF Edits, Whole
<1> HIDE DEF X
<1>2. \E h \in [0..Len(s) -> PState(X, U)] :
          /\ h[0] = Parsing(t, U)
          /\ \A i \in 1..Len(s) : h[i] = Parse(h[i - 1], s[i])
          /\ Parsed(t, U, s) = h[Len(s)]
  BY <1>1, ParsedTrace, SMTT(30)
<1> QED
  BY <1>2 DEF X

LEMMA AllPassed ==
    ASSUME NEW t, NEW u \in Modes, NEW s \in Seq(Edits), NEW U,
           \A j \in 1..Len(s) : s[j].mode = "k" => (s[j].plus <=> "k" \notin t.on)
    PROVE  Passed(t, s, Len(s), Parsed(u, U, s))
<1>1. Edits \in SUBSET Fit /\ Len(s) \in Nat
  BY DEF Edits, Whole
<1>2. PICK h \in [0..Len(s) -> PState(Edits, U)] :
          /\ h[0] = Parsing(u, U)
          /\ \A i \in 1..Len(s) : h[i] = Parse(h[i - 1], s[i])
          /\ Parsed(u, U, s) = h[Len(s)]
  BY EditsTrace
<1> DEFINE S == {i \in 0..Len(s) : Passed(t, s, i, h[i])}
<1>3. 0 \in S
  BY <1>1 DEF Passed
<1>4. ASSUME NEW i \in 1..Len(s), i - 1 \in S PROVE i \in S
  <2>1. i - 1 \in 0..Len(s) /\ i \in 0..Len(s)
    BY <1>1
  <2>2. h[i - 1] \in PState(Edits, U) /\ Passed(t, s, i - 1, h[i - 1]) /\ h[i] = Parse(h[i - 1], s[i])
    BY <1>2, <1>4, <2>1
  <2>3. Passed(t, s, i, h[i])
    BY <2>2, PassedOn
  <2> QED
    BY <2>1, <2>3
<1> HIDE DEF S
<1>5. Len(s) \in S
  <2>1. \A i \in 0..Len(s) : i \in S
    BY <1>1, <1>3, <1>4, Reaches
  <2> QED
    BY <1>1, <2>1
<1> QED
  BY <1>2, <1>5 DEF S

(* The key the command puts into the table at the end.                     *)
LEMMA KeyKeptIs ==
    ASSUME NEW q \in RState, NEW T \in Modes, Keyful(T)
    PROVE  /\ KeyKept(q, T) \in Modes /\ Keyful(KeyKept(q, T))
           /\ \A l \in Viewed : l # "k" => View(KeyKept(q, T), l) = View(T, l)
           /\ q.key # None => View(KeyKept(q, T), "k") = {q.key}
           /\ q.key = None /\ q.unkey => View(KeyKept(q, T), "k") = {}
           /\ q.key = None /\ ~q.unkey => View(KeyKept(q, T), "k") = View(T, "k")
<1>1. "k" \in Keyed /\ "k" \in Viewed /\ q.key \in Value \cup {None} /\ q.unkey \in BOOLEAN
  BY DEF Keyed, Viewed, AnyMode, RState
<1>2. CASE q.key # None
  <2>1. KeyKept(q, T) = Present(T, "k", q.key)
    BY <1>2 DEF KeyKept
  <2>2. q.key \in Value
    BY <1>1, <1>2
  <2>3. /\ Present(T, "k", q.key) \in Modes
        /\ \A l \in Viewed : View(Present(T, "k", q.key), l) = IF l = "k" THEN {q.key} ELSE View(T, l)
    <3> DEFINE v == q.key
               m == "k"
    <3>1. v \in Value /\ m \in Keyed /\ m \in Viewed
      BY <1>1, <2>2
    <3> HIDE DEF v, m
    <3>2. /\ Present(T, m, v) \in Modes
          /\ \A l \in Viewed : View(Present(T, m, v), l) = IF l = m THEN {v} ELSE View(T, l)
      BY <3>1, PresentView
    <3> QED
      BY <3>2 DEF v, m
  <2>4. View(Present(T, "k", q.key), "k") = {q.key}
    BY <1>1, <2>3
  <2> QED
    BY <1>2, <2>1, <2>3, <2>4 DEF Keyful
<1>3. CASE q.key = None /\ q.unkey
  <2>1. KeyKept(q, T) = Absent(T, "k")
    BY <1>3 DEF KeyKept
  <2>2. Absent(T, "k") \in Modes
    BY <1>1 DEF Absent, Modes
  <2>3. \A l \in Viewed : View(Absent(T, "k"), l) = IF l = "k" THEN {} ELSE View(T, l)
    BY <1>1, AbsentView
  <2>4. View(Absent(T, "k"), "k") = {}
    BY <1>1, <2>3
  <2> QED
    BY <1>3, <2>1, <2>2, <2>3, <2>4 DEF Keyful
<1>4. CASE q.key = None /\ ~q.unkey
  <2>1. KeyKept(q, T) = T
    BY <1>4 DEF KeyKept
  <2> QED
    BY <1>4, <2>1
<1> QED
  BY <1>1, <1>2, <1>3, <1>4

(* A list that is passed on keeps what was listed, and no key is added.    *)
Continues(q, s) ==
    /\ \A i \in 1..Len(q.list) : \E j \in 1..Len(s) : s[j] = q.list[i]
    /\ \A j \in 1..Len(s) : s[j].mode = "k" => \E i \in 1..Len(q.list) : q.list[i] = s[j]

(* None of the changes is about an op or about A: nothing of what the bot  *)
(* writes is refused or spoiled.                                           *)
LEMMA EditsAre ==
    ASSUME NEW raw \in Seq(Edits)
    PROVE  /\ raw \in Seq(Fit) /\ SpoiledByA(raw) = {} /\ Refused(Chunks(raw)) = {}
           /\ \A i \in 1..Len(raw) : raw[i] # Opping
<1>1. /\ \A i \in 1..Len(raw) : raw[i] \in Edits
      /\ DOMAIN raw = 1..Len(raw) /\ Edits \subseteq Fit
  BY DEF Edits, Whole
<1>2. \A c \in Edits : c # Opping /\ c # Deopping /\ c.mode # "A"
  BY DEF Edits, Opping, Deopping, Change1
<1>3. raw \in Seq(Fit)
  BY <1>1
<1>4. SpoiledByA(raw) = {}
  BY <1>1, <1>2 DEF SpoiledByA
<1>5. Refused(Chunks(raw)) = {}
  BY <1>1, <1>2, <1>3, NothingRefused
<1> QED
  BY <1>1, <1>2, <1>3, <1>4, <1>5

(* What holds of the parser, for these changes.                            *)
LEMMA EditsParsed ==
    ASSUME NEW t \in Modes, Keyful(t), NEW n \in Modes, Thin(n), NEW S, Agree(t, n, S),
           NEW U, NEW s \in Seq(Edits)
    PROVE  /\ Parsed(t, U, s) \in PState(Edits, U)
           /\ PInv(t, n, S, Parsed(t, U, s))
<1> DEFINE X == Edits
<1>1. X \in SUBSET Fit /\ s \in Seq(X)
  BY DEF Edits, Whole
<1> HIDE DEF X
<1>2. Parsed(t, U, s) \in PState(X, U) /\ PInv(t, n, S, Parsed(t, U, s))
  BY <1>1, ParsedHolds
<1> QED
  BY <1>2 DEF X

(* The changes of a MODE that Mode() makes.                                *)
LEMMA EditsSound ==
    ASSUME NEW t, NEW n, NEW S, Sound(t, n, S), Bot \in t.ops,
           NEW q \in RState, RInv(t, q), NEW s \in Seq(Edits), Continues(q, s),
           NEW U, NEW p, p = Parsed(q.table, U, s), ~p.failed,
           NEW T, T = KeyKept(q, OnChanges(p.table, p.late)),
           q.limit # None => Has(s, "l") \/ "l" \in S \/ View(T, "l") = View(t, "l")
    PROVE  Sound(T, NetTakes(n, FALSE, Chunks(p.raw)), S)
<1>1. /\ t \in Modes /\ n \in Modes /\ Thin(n) /\ Keyful(t) /\ S \subseteq AnyMode
      /\ q.table \in Modes /\ Len(q.list) \in Nat /\ Len(s) \in Nat
      /\ \A l \in Viewed \ S : View(t, l) = View(n, l)
  BY DEF Sound, RState, Agree
<1>2. /\ "bot" \in Viewed /\ "bot" \notin AnyMode /\ "k" \in Viewed /\ "b" \in Viewed /\ "l" \in Viewed
  BY ViewedAre DEF Viewed, AnyMode, Keyed
<1>3. \A l \in Viewed \ {"t", "l", "b"} : View(q.table, l) = View(t, l)
  BY DEF RInv
<1>4. Keyful(q.table) /\ Bot \in n.ops
  <2>1. View(q.table, "k") = View(t, "k")
    BY <1>2, <1>3
  <2> QED
    BY <1>1, <2>1, BotsAgree DEF Keyful
<1> DEFINE S2 == S \cup {l \in AnyMode : View(q.table, l) # View(n, l)}
           N == NetChanges(n, p.raw)
           T0 == OnChanges(p.table, p.late)
<1>5. Agree(q.table, n, S2)
  <2> SUFFICES ASSUME NEW l \in Viewed \ S2 PROVE View(q.table, l) = View(n, l)
    BY DEF Agree
  <2>1. CASE l \in AnyMode
    BY <2>1
  <2>2. CASE l = "bot"
    <3>1. View(q.table, "bot") = View(t, "bot")
      BY <1>2, <1>3
    <3>2. View(t, "bot") = View(n, "bot")
      BY <1>1, <1>2
    <3> QED
      BY <2>2, <3>1, <3>2
  <2> QED
    BY <2>1, <2>2 DEF Viewed
<1>6. p \in PState(Edits, U) /\ PInv(q.table, n, S2, p)
  <2> HIDE DEF S2
  <2> QED
    BY <1>1, <1>4, <1>5, EditsParsed
<1>7. /\ p.table \in Modes /\ Keyful(p.table) /\ p.late \in Seq(Whole) /\ p.raw \in Seq(Edits)
      /\ \A i \in 1..Len(p.late) : p.late[i].mode \in Plain \cup Listed
      /\ Matches(n, S2, p.table, p.raw, p.late)
      /\ BansMeet(q.table, n, p.raw, T0.bans, N.bans)
  <2> HIDE DEF S2
  <2>1. p.raw \in Seq(Edits)
    BY <1>6 DEF PState
  <2> QED
    BY <1>6, <2>1 DEF PInv, Formed
<1>8. /\ p.raw \in Seq(Fit) /\ SpoiledByA(p.raw) = {} /\ Refused(Chunks(p.raw)) = {}
      /\ \A i \in 1..Len(p.raw) : p.raw[i] # Opping
      /\ Len(p.raw) \in Nat
  BY <1>7, EditsAre
<1>9. T0 \in Modes /\ Keyful(T0) /\ N \in Modes
  BY <1>1, <1>7, <1>8, OnChangesType, OnChangesKeyful, NetChangesType
<1>10. /\ \A j \in 1..Len(s) : s[j].mode \in {"t", "l", "b"} => \E x \in 1..Len(p.raw) : p.raw[x] = s[j]
       /\ \A j \in 1..Len(s) : s[j].mode = "k" => View(p.table, "k") = IF s[j].plus THEN {s[j].arg} ELSE {}
  <2>1. \A j \in 1..Len(s) : s[j].mode = "k" => (s[j].plus <=> "k" \notin t.on)
    BY DEF Continues, RInv, KeyRead
  <2>2. Passed(t, s, Len(s), Parsed(q.table, U, s))
    BY <1>1, <2>1, AllPassed
  <2> QED
    BY <2>2 DEF Passed
<1> HIDE DEF T0, N, S2
<1>11. /\ T \in Modes /\ Keyful(T)
       /\ \A l \in Viewed : l # "k" => View(T, l) = View(T0, l)
       /\ q.key # None => View(T, "k") = {q.key}
       /\ q.key = None /\ q.unkey => View(T, "k") = {}
       /\ q.key = None /\ ~q.unkey => View(T, "k") = View(T0, "k")
  <2>1. T = KeyKept(q, T0)
    BY DEF T0
  <2> QED
    BY <1>9, <2>1, KeyKeptIs
<1>12. View(T0, "k") = View(p.table, "k")
  <2>1. \A i \in 1..Len(p.late) : ~Touches(p.late[i], "k")
    BY <1>7 DEF Touches, Plain, Listed
  <2> QED
    BY <1>2, <1>7, <2>1, OnChangesSpare DEF T0
<1>13. View(T, "k") = View(T0, "k")
  <2>1. CASE q.key # None
    <3>1. /\ "k" \notin t.on
          /\ \E i \in 1..Len(q.list) : q.list[i].mode = "k" /\ q.list[i].arg = q.key /\ q.list[i].plus
      BY <2>1 DEF RInv, KeyRead
    <3>2. PICK j \in 1..Len(s) : s[j].mode = "k" /\ s[j].arg = q.key /\ s[j].plus
      BY <3>1, SMTT(30) DEF Continues
    <3>3. View(p.table, "k") = {q.key}
      BY <1>10, <3>2
    <3> QED
      BY <1>11, <1>12, <2>1, <3>3
  <2>2. CASE q.key = None /\ q.unkey
    <3>1. /\ "k" \in t.on
          /\ \E i \in 1..Len(q.list) : q.list[i].mode = "k" /\ ~q.list[i].plus
      BY <2>2 DEF RInv, KeyRead, Has
    <3>2. PICK j \in 1..Len(s) : s[j].mode = "k" /\ ~s[j].plus
      BY <3>1 DEF Continues
    <3>3. View(p.table, "k") = {}
      BY <1>10, <3>2
    <3> QED
      BY <1>11, <1>12, <2>2, <3>3
  <2>3. CASE q.key = None /\ ~q.unkey
    BY <1>11, <2>3
  <2> QED
    BY <2>1, <2>2, <2>3
<1>14. \A l \in Viewed : View(T, l) = View(T0, l)
  BY <1>11, <1>13
<1>15. \A l \in Viewed : l \notin S2 \/ (l \in Plain \cup {"l"} /\ Has(p.raw, l)) => View(T, l) = View(N, l)
  BY <1>7, <1>8, <1>14 DEF Matches, Right, T0, N
<1>16. \A l \in Viewed \ S : View(q.table, l) = View(t, l) => l \notin S2
  <2> SUFFICES ASSUME NEW l \in Viewed \ S, View(q.table, l) = View(t, l) PROVE l \notin S2
    OBVIOUS
  <2>1. View(q.table, l) = View(n, l)
    BY <1>1
  <2> QED
    BY <2>1 DEF S2
<1>17. \A l \in {"t", "l", "b"} : Has(s, l) => Has(p.raw, l)
  BY <1>10 DEF Has
<1>18. \A l : Has(q.list, l) => Has(s, l)
  BY DEF Has, Continues
<1>19. ASSUME NEW l \in Viewed \ S PROVE View(T, l) = View(N, l)
  <2>1. CASE l \notin {"t", "l", "b"}
    BY <1>3, <1>15, <1>16, <2>1
  <2>2. CASE l = "t"
    <3>1. View(q.table, "t") = View(t, "t") \/ Has(p.raw, "t")
      BY <1>17, <1>18 DEF RInv
    <3>2. "t" \in Plain \cup {"l"}
      BY DEF Plain
    <3> QED
      BY <1>15, <1>16, <1>19, <2>2, <3>1, <3>2
  <2>3. CASE l = "l"
    <3>1. View(q.table, "l") = View(t, "l") \/ Has(p.raw, "l") \/ View(T, "l") = View(t, "l")
      BY <1>17, <1>18, <2>3 DEF RInv
    <3>2. CASE View(q.table, "l") = View(t, "l") \/ Has(p.raw, "l")
      <4>1. "l" \in Plain \cup {"l"}
        OBVIOUS
      <4> QED
        BY <1>15, <1>16, <1>19, <2>3, <3>2, <4>1
    <3>3. CASE ~Has(p.raw, "l") /\ View(T, "l") = View(t, "l")
      <4>1. \A i \in 1..Len(p.raw) : ~NetTouches(p.raw[i], "l")
        BY <3>3 DEF Has, NetTouches
      <4>2. View(N, "l") = View(n, "l")
        BY <1>1, <1>2, <1>8, <4>1, NetChangesSpare DEF N
      <4>3. View(t, "l") = View(n, "l")
        BY <1>1, <1>2, <2>3
      <4> QED
        BY <2>3, <3>3, <4>2, <4>3
    <3> QED
      BY <3>1, <3>2, <3>3
  <2>4. CASE l = "b"
    <3>1. t.bans = n.bans /\ View(T, "b") = T.bans /\ View(N, "b") = N.bans /\ View(T0, "b") = T0.bans
      <4>1. View(t, "b") = View(n, "b")
        BY <1>1, <1>2, <2>4
      <4> QED
        BY <4>1, ViewedAre
    <3>2. T0.bans \in [Mask -> 0..MaxCopies] /\ N.bans \in [Mask -> 0..MaxCopies]
      BY <1>9 DEF Modes
    <3>3. ASSUME NEW m \in Mask PROVE T0.bans[m] = N.bans[m]
      <4>1. ~(t.bans[m] > 1)
        BY <1>1, <3>1 DEF Thin
      <4>2. \/ q.table.bans[m] = n.bans[m]
            \/ \E i \in 1..Len(q.list) : /\ q.list[i].mode = "b" /\ q.list[i].arg = m
                                         /\ q.list[i].plus \/ q.table.bans[m] = 0
        BY <3>1, <4>1 DEF RInv, BanRead
      <4>3. \A i \in 1..Len(q.list) : q.list[i].mode = "b" =>
                \E x \in 1..Len(p.raw) : p.raw[x] = q.list[i]
        <5> SUFFICES ASSUME NEW i \in 1..Len(q.list), q.list[i].mode = "b"
                     PROVE  \E x \in 1..Len(p.raw) : p.raw[x] = q.list[i]
          OBVIOUS
        <5>1. PICK j \in 1..Len(s) : s[j] = q.list[i]
          BY DEF Continues
        <5>2. s[j].mode \in {"t", "l", "b"}
          BY <5>1
        <5> QED
          BY <1>10, <5>1, <5>2
      <4>4. Meets(q.table, n, p.raw, m)
        BY <4>2, <4>3 DEF Meets
      <4> QED
        BY <1>7, <4>4 DEF BansMeet
    <3>4. T0.bans = N.bans
      BY <3>2, <3>3
    <3> QED
      BY <1>2, <1>14, <2>4, <3>1, <3>4
  <2> QED
    BY <2>1, <2>2, <2>3, <2>4
<1> QED
  BY <1>1, <1>4, <1>8, <1>11, <1>19, Written DEF N

(* The limit is the last change of the command, or is not passed on.       *)
LEMMA LastOfMODE ==
    ASSUME NEW q \in RState, NEW last,
           \/ last = <<>>
           \/ q.limit # None /\ last = <<Change1(TRUE, "l", q.limit)>>
    PROVE  /\ q.list \o last \in Seq(Edits) /\ Continues(q, q.list \o last)
           /\ last # <<>> => Has(q.list \o last, "l")
<1>1. q.list \in Seq(Edits) /\ Len(q.list) \in Nat
  BY DEF RState
<1>2. CASE last = <<>>
  <2>1. q.list \o last = q.list
    BY <1>1, <1>2
  <2> QED
    BY <1>1, <1>2, <2>1 DEF Continues
<1>3. CASE q.limit # None /\ last = <<Change1(TRUE, "l", q.limit)>>
  <2> DEFINE c == Change1(TRUE, "l", q.limit)
             s == q.list \o last
  <2>1. c \in Edits /\ c.mode = "l"
    <3>1. q.limit \in Value
      BY <1>3 DEF RState
    <3> QED
      BY <1>3, <3>1 DEF Change1, Edits, Whole, Fit, Change, NeedsArgument, Plain, Keyed, Listed, Argument
  <2>2. last = <<c>>
    BY <1>3
  <2> HIDE DEF c
  <2>3. s = Append(q.list, c)
    BY <1>1, <2>1, <2>2, Added
  <2> HIDE DEF s
  <2>4. /\ s \in Seq(Edits) /\ Len(s) = Len(q.list) + 1 /\ s[Len(q.list) + 1] = c
        /\ \A i \in 1..Len(q.list) : s[i] = q.list[i]
    BY <1>1, <2>1, <2>3, Added
  <2>5. /\ \A i \in 1..Len(q.list) : i \in 1..Len(s)
        /\ \A i \in 1..Len(s) : i \in 1..Len(q.list) \/ i = Len(q.list) + 1
        /\ Len(q.list) + 1 \in 1..Len(s)
    BY <1>1, <2>4
  <2>6. ASSUME NEW j \in 1..Len(s), s[j].mode = "k" PROVE \E i \in 1..Len(q.list) : q.list[i] = s[j]
    BY <2>1, <2>4, <2>5, <2>6
  <2>7. Continues(q, s)
    BY <2>4, <2>5, <2>6 DEF Continues
  <2>8. Has(s, "l")
    BY <2>1, <2>4, <2>5 DEF Has
  <2> QED
    BY <2>4, <2>7, <2>8 DEF s
<1> QED
  BY <1>2, <1>3

-----------------------------------------------------------------------------
(* Every step, and the theorem.                                            *)

(* The command MODE: it fails when it is read, is refused, fails in        *)
(* Mode(), or makes its changes, of which a limit may have been left out.  *)
LEMMA MODESound ==
    ASSUME MInv, NEW changes \in Some \cup {<<>>}, NEW signed \in BOOLEAN, NEW zero \in BOOLEAN,
           MODECommand(changes, signed, zero)
    PROVE  MInv'
<1> DEFINE q == AllRead(table, changes)
           made == ~q.failed /\ (zero \/ Wanted(q, signed))
           last == IF q.plus /\ q.limit # None THEN <<Change1(TRUE, "l", q.limit)>> ELSE <<>>
           s == q.list \o last
           U == members \cup {Bot}
           p == Parsed(q.table, U, s)
           r == ServerMode(q.table, s, FALSE)
           t == IF made THEN KeyKept(q, r.table) ELSE q.table
           m == IF made THEN NetTakes(net, FALSE, r.written) ELSE net
           more == IF ~made \/ ~r.ok THEN Differ(table, t)
                   ELSE IF q.limit # None /\ last = <<>> THEN Differ(table, t) \cap {"l"}
                   ELSE {}
<1>1. /\ Sound(table, net, spoiled) /\ scene \in Scenes /\ changes \in Seq(Fit)
      /\ table \in Modes /\ net \in Modes /\ Keyful(table) /\ Thin(net) /\ spoiled \subseteq AnyMode
  <2>1. <<>> \in Seq(Fit)
    OBVIOUS
  <2> QED
    BY <2>1, SomeAre DEF MInv, Sound
<1>2. /\ table' = (IF zero THEN Present(t, "l", None) ELSE t) /\ net' = m
      /\ spoiled' = spoiled \cup more \cup (IF zero THEN {"l"} ELSE {}) /\ scene' = scene
  BY DEF MODECommand
<1>17. m = IF made THEN NetTakes(net, FALSE, r.written) ELSE net
  OBVIOUS
<1> DEFINE Done == Sound(t, m, spoiled \cup more)
<1>18. ASSUME Done PROVE MInv'
  <2> HIDE DEF t, m, more
  <2>1. CASE zero
    <3>1. Sound(Present(t, "l", None), m, (spoiled \cup more) \cup {"l"})
      BY <1>18, NoLimitSound
    <3> QED
      BY <1>1, <1>2, <2>1, <3>1 DEF MInv
  <2>2. CASE ~zero
    <3>1. spoiled' = spoiled \cup more
      BY <1>2, <2>2
    <3> QED
      BY <1>1, <1>2, <1>18, <2>2, <3>1 DEF MInv
  <2> QED
    BY <2>1, <2>2
<1>3. r = IF Bot \notin q.table.ops
          THEN [table |-> q.table, written |-> <<>>, spoils |-> {}, ok |-> FALSE]
          ELSE IF p.failed
          THEN [table |-> p.table, written |-> <<>>, spoils |-> Differ(q.table, p.table), ok |-> FALSE]
          ELSE [table |-> OnChanges(p.table, p.late), written |-> Chunks(p.raw),
                spoils |-> SpoiledByA(p.raw) \cup Refused(Chunks(p.raw)), ok |-> TRUE]
  BY DEF ServerMode
<1>4. t = IF made THEN KeyKept(q, r.table) ELSE q.table
  OBVIOUS
<1>5. more = IF ~made \/ ~r.ok THEN Differ(table, t)
             ELSE IF q.limit # None /\ last = <<>> THEN Differ(table, t) \cap {"l"}
             ELSE {}
  OBVIOUS
<1>6. p = Parsed(q.table, U, s)
  OBVIOUS
<1> HIDE DEF t, m, more, r, p, U
<1>7. q \in RState /\ RInv(table, q)
  BY <1>1, AllReadHolds
<1>8. last = <<>> \/ (q.limit # None /\ last = <<Change1(TRUE, "l", q.limit)>>)
  OBVIOUS
<1> HIDE DEF q, last, made
<1>9. s \in Seq(Edits) /\ Continues(q, s) /\ (last # <<>> => Has(s, "l"))
  BY <1>7, <1>8, LastOfMODE
<1> HIDE DEF s
<1>10. /\ q.table \in Modes /\ Keyful(q.table) /\ View(q.table, "bot") = View(table, "bot")
       /\ Bot \in q.table.ops <=> Bot \in table.ops
  <2>1. View(q.table, "k") = View(table, "k") /\ View(q.table, "bot") = View(table, "bot")
    BY <1>7, ViewedAre DEF RInv
  <2>2. q.table.ops \cap {Bot} = table.ops \cap {Bot}
    BY <2>1, ViewedAre
  <2> QED
    BY <1>1, <1>7, <2>1, <2>2 DEF RState, Keyful
<1>11. NetTakes(net, FALSE, <<>>) = net
  BY <1>1, NothingWritten
<1> SUFFICES Done
  BY <1>18
<1>12. CASE ~made
  <2>1. t = q.table /\ m = net /\ more = Differ(table, t)
    BY <1>4, <1>5, <1>12, <1>17
  <2>2. Sound(t, net, spoiled \cup Differ(table, t))
    BY <1>1, <1>10, <2>1, DifferSound
  <2> QED
    BY <2>1, <2>2
<1>13. ASSUME made, ~r.ok, r.written = <<>>, r.table \in Modes, Keyful(r.table),
              View(r.table, "bot") = View(table, "bot")
       PROVE  Done
  <2>1. t = KeyKept(q, r.table) /\ m = net /\ more = Differ(table, t)
    BY <1>4, <1>5, <1>11, <1>13, <1>17
  <2>2. t \in Modes /\ Keyful(t) /\ View(t, "bot") = View(table, "bot")
    BY <1>7, <1>13, <2>1, KeyKeptIs, ViewedAre
  <2>3. Sound(t, net, spoiled \cup Differ(table, t))
    BY <1>1, <2>2, DifferSound
  <2> QED
    BY <2>1, <2>3
<1>14. CASE made /\ Bot \notin q.table.ops
  <2>1. r.table = q.table /\ r.written = <<>> /\ ~r.ok
    BY <1>3, <1>14
  <2> QED
    BY <1>10, <1>13, <1>14, <2>1
<1>15. CASE made /\ Bot \in q.table.ops /\ p.failed
  <2>1. r.table = p.table /\ r.written = <<>> /\ ~r.ok
    BY <1>3, <1>15
  <2>2. Formed(q.table, p.table, p.raw, p.late)
    <3>1. Agree(q.table, net, Viewed)
      BY DEF Agree
    <3>2. PInv(q.table, net, Viewed, p)
      BY <1>1, <1>6, <1>9, <1>10, <3>1, EditsParsed
    <3> QED
      BY <3>2 DEF PInv
  <2>3. p.table \in Modes /\ Keyful(p.table) /\ p.table.ops = q.table.ops
    BY <2>2 DEF Formed
  <2>4. View(p.table, "bot") = View(table, "bot")
    BY <1>10, <2>3, ViewedAre
  <2> QED
    BY <1>13, <1>15, <2>1, <2>3, <2>4
<1>16. CASE made /\ Bot \in q.table.ops /\ ~p.failed
  <2>1. r.table = OnChanges(p.table, p.late) /\ r.written = Chunks(p.raw) /\ r.ok
    BY <1>3, <1>16
  <2>2. t = KeyKept(q, OnChanges(p.table, p.late)) /\ m = NetTakes(net, FALSE, Chunks(p.raw))
    BY <1>4, <1>16, <1>17, <2>1
  <2>3. Bot \in table.ops /\ ~p.failed
    BY <1>10, <1>16
  <2>4. CASE q.limit # None /\ last = <<>>
    <3>1. more = Differ(table, t) \cap {"l"}
      BY <1>5, <1>16, <2>1, <2>4
    <3> DEFINE S == spoiled \cup more
    <3>2. Sound(table, net, S) /\ "l" \in AnyMode
      <4>1. "l" \in AnyMode
        BY DEF AnyMode, Keyed
      <4>2. S \in SUBSET AnyMode /\ spoiled \subseteq S
        BY <1>1, <3>1, <4>1
      <4> HIDE DEF S
      <4> QED
        BY <1>1, <4>1, <4>2, SoundMore
    <3>3. t \in Modes
      <4>1. PInv(q.table, net, Viewed, p)
        <5>1. Agree(q.table, net, Viewed)
          BY DEF Agree
        <5> QED
          BY <1>1, <1>6, <1>9, <1>10, <5>1, EditsParsed
      <4>2. OnChanges(p.table, p.late) \in Modes /\ Keyful(OnChanges(p.table, p.late))
        BY <4>1, OnChangesType, OnChangesKeyful DEF PInv, Formed
      <4> QED
        BY <1>7, <2>2, <4>2, KeyKeptIs
    <3>4. "l" \in S \/ View(t, "l") = View(table, "l")
      <4>1. CASE "l" \in Differ(table, t)
        BY <3>1, <4>1
      <4>2. CASE "l" \notin Differ(table, t)
        <5>1. Same(table, t, "l")
          BY <3>2, <4>2 DEF Differ
        <5> QED
          BY <1>1, <3>2, <3>3, <5>1, SameView
      <4> QED
        BY <4>1, <4>2
    <3> HIDE DEF S
    <3>5. Sound(t, NetTakes(net, FALSE, Chunks(p.raw)), S)
      BY <1>6, <1>7, <1>9, <2>2, <2>3, <3>2, <3>4, EditsSound
    <3> QED
      BY <2>2, <3>5 DEF S
  <2>5. CASE ~(q.limit # None /\ last = <<>>)
    <3>1. more = {}
      BY <1>5, <1>16, <2>1, <2>5
    <3>2. q.limit # None => Has(s, "l")
      BY <1>9, <2>5
    <3>3. Sound(t, NetTakes(net, FALSE, Chunks(p.raw)), spoiled)
      BY <1>1, <1>6, <1>7, <1>9, <2>2, <2>3, <3>2, EditsSound
    <3>4. spoiled \cup more = spoiled
      BY <3>1
    <3> QED
      BY <2>2, <3>3, <3>4
  <2> QED
    BY <2>4, <2>5
<1> QED
  BY <1>12, <1>14, <1>15, <1>16

(* The invariant holds at the start                                        *)
LEMMA MInvInit == Init => MInv
<1> SUFFICES ASSUME Init PROVE MInv
  OBVIOUS
<1> DEFINE n == NoModes
<1>1. Sound(n, n, {}) /\ Bot \in User
  BY NoModesSound DEF User
<1>2. table = Opped(n, Bot) /\ net = table /\ spoiled = {} /\ scene \in Scenes
  <2>1. n.ops = {}
    BY DEF NoModes
  <2>2. [n EXCEPT !.ops = {Bot}] = [n EXCEPT !.ops = n.ops \cup {Bot}]
    BY <2>1
  <2> QED
    BY <2>2 DEF Init, Opped
<1> HIDE DEF n
<1>3. Sound(Opped(n, Bot), Opped(n, Bot), {})
  BY <1>1, OppedSound
<1> QED
  BY <1>2, <1>3 DEF MInv

(* and is kept by every call and message.                                  *)
LEMMA MInvStep == MInv /\ [Next]_vars => MInv'
<1> SUFFICES ASSUME MInv, [Next]_vars PROVE MInv'
  OBVIOUS
<1>1. scene \in Scenes /\ scene.clients \subseteq Client /\ scene.modes \subseteq AnyMode
  BY Inputs DEF MInv
<1>2. CASE Call
  <2>1. CASE \E users \in SUBSET scene.clients \ {{}} :
                 Op(users) \/ DeOp(users) \/ Voice(users) \/ DeVoice(users) \/ Ban(users)
    BY <2>1, OpSound
  <2>2. CASE \E m \in Mask : UnBan(m)
    BY <2>2, UnBanSound
  <2>3. CASE \E masks \in SUBSET Mask \ {{}} : UnBans(masks)
    BY <2>3, UnBansSound
  <2>4. CASE Topic
    BY <2>4, TopicSound
  <2>5. CASE \E changes \in Some, asServer \in BOOLEAN : Mode(changes, asServer)
    BY <2>5, ModeSound
  <2>6. CASE \E changes \in Some \cup {<<>>}, signed \in BOOLEAN,
                 zero \in {z \in BOOLEAN : z => "l" \in scene.modes} :
                 MODECommand(changes, signed, zero)
    BY <2>6, MODESound
  <2>11. CASE \E rest \in AtMostOne, before, asServer \in BOOLEAN : ModeNoLimit(rest, before, asServer)
    BY <2>11, ModeNoLimitSound
  <2>7. CASE \E letters \in SUBSET Clearable \ {{}} : ClearMode(letters)
    <3>1. PICK letters \in SUBSET Clearable : ClearMode(letters)
      BY <2>7
    <3>2. letters \in SUBSET AnyMode
      BY <1>1 DEF Clearable
    <3> QED
      BY <3>1, <3>2, ClearModeSound
  <2>8. CASE \E letters \in SUBSET (Clearable \cap (Plain \cup Keyed)) \ {{}} : ClearModeByM(letters)
    <3>1. PICK letters \in SUBSET (Clearable \cap (Plain \cup Keyed)) : ClearModeByM(letters)
      BY <2>8
    <3>2. letters \in SUBSET {"t", "k", "l"}
      BY DEF Clearable, Plain, Keyed
    <3> QED
      BY <3>1, <3>2, ClearModeByMSound
  <2>9. CASE \E changes \in Additions :
                 /\ \A i \in DOMAIN changes : changes[i].mode \in Plain \cup {"k", "l"}
                 /\ \A i \in DOMAIN changes : NeedsArgument(changes[i]) => changes[i].arg # None
                 /\ JoinChannel(changes)
    BY <2>9, JoinSound
  <2>10. CASE Leave(Bot)
    BY <2>10, LeaveSound
  <2> QED
    BY <1>2, <2>1, <2>2, <2>3, <2>4, <2>5, <2>6, <2>7, <2>8, <2>9, <2>10, <2>11 DEF Call
<1>3. CASE Message
  <2>1. CASE \E changes \in Some : NetMode(changes)
    BY <2>1, NetModeSound
  <2>2. CASE \E letters \in SUBSET Clearable \ {{}} : msg_CM(letters)
    <3>1. PICK letters \in SUBSET Clearable : msg_CM(letters)
      BY <2>2
    <3>2. letters \in SUBSET AnyMode
      BY <1>1 DEF Clearable
    <3> QED
      BY <3>1, <3>2, ClearModeSound
  <2>3. CASE \E older, op \in BOOLEAN, changes \in Additions, n \in scene.clients :
                 msg_B(older, changes, n, op)
    BY <2>3, msg_BSound
  <2>4. CASE \E n \in scene.clients : NetJoin(n) \/ Leave(n)
    BY <2>4, NetJoinSound, LeaveSound
  <2> QED
    BY <1>3, <2>1, <2>2, <2>3, <2>4 DEF Message
<1>4. CASE UNCHANGED vars
  BY <1>4 DEF vars, MInv, Sound, Agree
<1> QED
  BY <1>2, <1>3, <1>4 DEF Next

(* The table of this server holds what the network holds: every flag, key, *)
(* limit, operator, voice and ban, whatever calls and messages there have  *)
(* been, but for the modes a known defect has touched (ServerMode of       *)
(* xServer, MODE of mod.cservice, server.cc and MODECommand.cc).           *)
THEOREM SyncedHolds == Spec => []Synced
<1>1. MInv => Synced
  <2> SUFFICES ASSUME MInv, NEW l \in AnyMode \ spoiled PROVE Same(table, net, l)
    BY DEF Synced
  <2> QED
    BY SoundSynced DEF MInv
<1> QED
  BY <1>1, MInvInit, MInvStep, PTL DEF Spec
=============================================================================
