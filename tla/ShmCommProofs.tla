----------------------------- MODULE ShmCommProofs -----------------------------
(***************************************************************************)
(* PduDefinition for any files, and ShmComm for any instances, configs and *)
(* number of registrations: a load leaves what the file means, the maps of *)
(* an instance agree and an event is dispatched to its owner.              *)
(***************************************************************************)
EXTENDS ShmComm, FiniteSetTheorems, SequenceTheorems, WellFoundedInduction,
        NaturalsInduction, TLAPS

(* Induction on numbers with the property as a set, which needs no         *)
(* operator for a parameter; and what it gives: least and greatest         *)
(* elements, and functions by recursion.                                   *)
LEMMA LeastNat ==
  ASSUME NEW T, T \subseteq Nat, T # {}
  PROVE \E x \in T : \A y \in T : x <= y
<1> DEFINE R == {ss \in Nat \X Nat : ss[1] < ss[2]}
<1>1. IsWellFoundedOn(OpToRel(<, Nat), Nat)
  BY NatLessThanWellFounded
<1>2. OpToRel(<, Nat) = R
  BY DEF OpToRel
<1>3. IsWellFoundedOn(R, Nat)
  BY <1>1, <1>2
<1> HIDE DEF R
<1>4. \E x \in T : \A y \in T : ~(<<y, x>> \in R)
  BY <1>3, WFMin
<1>5. \A x \in Nat, y \in Nat : <<y, x>> \in R <=> y < x
  BY DEF R
<1>6. PICK x \in T : \A y \in T : ~(<<y, x>> \in R)
  BY <1>4
<1>7. ASSUME NEW y \in T PROVE x <= y
  <2>1. x \in Nat /\ y \in Nat /\ ~(y < x)
    BY <1>5, <1>6
  <2> QED BY <2>1
<1> QED BY <1>7

(* A set of numbers with 0 that is closed under + 1 has all of them.       *)
LEMMA Induction ==
  ASSUME NEW P, 0 \in P, \A n \in Nat : n \in P => n + 1 \in P
  PROVE  Nat \subseteq P
<1> DEFINE T == {n \in Nat : n \notin P}
<1> SUFFICES ASSUME T # {} PROVE FALSE
  OBVIOUS
<1>1. PICK x \in T : \A y \in T : x <= y
  <2>1. T \subseteq Nat
    OBVIOUS
  <2> HIDE DEF T
  <2> QED BY <2>1, LeastNat
<1>2. x \in Nat /\ x # 0 /\ x - 1 \in Nat /\ x - 1 \notin T
  BY <1>1
<1>3. x - 1 \in P /\ (x - 1) + 1 = x
  BY <1>2
<1> QED BY <1>1, <1>2, <1>3

(* g is computed by recursion from s0, with the step E.                    *)
Recursion(g, N, S, s0, E) ==
    /\ g \in [0 .. N -> S]
    /\ g[0] = s0
    /\ \A i \in 1 .. N : g[i] = E[<<g[i - 1], i>>]

(* Such a function exists, so a recursive definition that has its form is  *)
(* one.                                                                    *)
LEMMA RecursionExists ==
  ASSUME NEW N \in Nat, NEW S, NEW s0 \in S, NEW E \in [S \X (1 .. N) -> S]
  PROVE  \E g : Recursion(g, N, S, s0, E)
<1> DEFINE Starts(g, n) == /\ g \in [0 .. n -> S]
                           /\ g[0] = s0
                           /\ \A i \in 1 .. n : g[i] = E[<<g[i - 1], i>>]
           P == {n \in Nat : n <= N => \E g : Starts(g, n)}
<1>1. 0 \in P
  <2>1. Starts([i \in 0 .. 0 |-> s0], 0)
    OBVIOUS
  <2> QED BY <2>1
<1>2. ASSUME NEW n \in Nat, n \in P
      PROVE  n + 1 \in P
  <2> SUFFICES ASSUME n + 1 <= N PROVE \E g : Starts(g, n + 1)
    OBVIOUS
  <2>1. PICK h : Starts(h, n)
    BY <1>2
  <2> DEFINE g == [i \in 0 .. n + 1 |-> IF i = n + 1 THEN E[<<h[n], n + 1>>] ELSE h[i]]
  <2>2. h[n] \in S /\ E[<<h[n], n + 1>>] \in S
    BY <2>1
  <2>3. g \in [0 .. n + 1 -> S]
    BY <2>1, <2>2
  <2>4. g[0] = s0
    BY <2>1
  <2>5. ASSUME NEW i \in 1 .. n + 1
        PROVE  g[i] = E[<<g[i - 1], i>>]
    <3>1. i - 1 \in 0 .. n /\ g[i - 1] = h[i - 1]
      OBVIOUS
    <3>2. CASE i = n + 1
      <4>1. g[i] = E[<<h[n], n + 1>>]
        BY <3>2
      <4>2. i - 1 = n /\ g[i - 1] = h[n]
        BY <3>1, <3>2
      <4> HIDE DEF g
      <4> QED BY <3>2, <4>1, <4>2
    <3>3. CASE i # n + 1
      BY <2>1, <3>1, <3>3
    <3> QED BY <3>2, <3>3
  <2> HIDE DEF g
  <2> QED BY <2>3, <2>4, <2>5
<1>3. \E g : Starts(g, N)
  <2>1. Nat \subseteq P
    <3> HIDE DEF P
    <3> QED BY <1>1, <1>2, Induction
  <2>2. N \in P
    <3> HIDE DEF P
    <3> QED BY <2>1
  <2> HIDE DEF Starts
  <2> QED BY <2>2
<1> QED BY <1>3 DEF Recursion

(* A set of numbers with a bound has a greatest element.                   *)
LEMMA GreatestNat ==
  ASSUME NEW n \in Nat, NEW T, T \subseteq 0 .. n, T # {}
  PROVE  \E x \in T : \A y \in T : x >= y
<1> DEFINE U == {n - x : x \in T}
<1>1. U \subseteq Nat /\ U # {}
  <2>1. ASSUME NEW x \in T PROVE n - x \in Nat
    <3>1. x \in 0 .. n
      OBVIOUS
    <3> QED BY <3>1
  <2> QED BY <2>1
<1>2. PICK u \in U : \A v \in U : u <= v
  <2> HIDE DEF U
  <2> QED BY <1>1, LeastNat
<1>3. PICK x \in T : u = n - x
  BY <1>2
<1>4. ASSUME NEW y \in T PROVE x >= y
  <2>1. n - y \in U
    OBVIOUS
  <2>2. u <= n - y
    BY <1>2, <2>1
  <2>3. x \in 0 .. n /\ y \in 0 .. n
    OBVIOUS
  <2> QED BY <1>3, <2>2, <2>3
<1> QED BY <1>4

(* What Min and Max of the community modules choose.                       *)
LEMMA MinIsLeast ==
  ASSUME NEW T, T \subseteq Nat, T # {}
  PROVE  Min(T) \in T /\ \A y \in T : Min(T) <= y
BY LeastNat DEF Min

(* Likewise.                                                               *)
LEMMA MaxIsGreatest ==
  ASSUME NEW n \in Nat, NEW T, T \subseteq 0 .. n, T # {}
  PROVE  Max(T) \in T /\ \A y \in T : Max(T) >= y
BY GreatestNat DEF Max

(* FlattenSeq, which LegacyItems and CompactItems are built from, is a     *)
(* recursive function: by induction it gives a sequence of what its parts  *)
(* have.                                                                   *)
LEMMA FlattenType ==
  ASSUME NEW S, NEW q \in Seq(Seq(S))
  PROVE  FlattenSeq(q) \in Seq(S)
<1>1. CASE Len(q) = 0
  BY <1>1, EmptySeq DEF FlattenSeq
<1>2. CASE Len(q) # 0
  <2> DEFINE N == Len(q)
             flatten[i \in 1 .. N] == IF i = 1 THEN q[i] ELSE flatten[i - 1] \o q[i]
             E == [p \in Seq(S) \X (1 .. N) |-> IF p[2] = 1 THEN q[p[2]] ELSE p[1] \o q[p[2]]]
  <2>1. N \in Nat /\ N > 0 /\ \A i \in 1 .. N : q[i] \in Seq(S)
    BY <1>2, LenProperties, ElementOfSeq
  <2>2. FlattenSeq(q) = flatten[N]
    BY <1>2 DEF FlattenSeq
  <2> HIDE DEF N
  <2>3. E \in [Seq(S) \X (1 .. N) -> Seq(S)]
    BY <2>1, ConcatProperties
  <2>4. PICK g : Recursion(g, N, Seq(S), <<>>, E)
    <3> HIDE DEF E, flatten
    <3>1. <<>> \in Seq(S)
      BY EmptySeq
    <3> QED BY <2>1, <2>3, <3>1, RecursionExists
  <2>5. ASSUME NEW i \in 1 .. N
        PROVE  g[i] = IF i = 1 THEN q[i] ELSE g[i - 1] \o q[i]
    <3> HIDE DEF flatten, E
    <3>1. i \in 0 .. N /\ i # 0 /\ i - 1 \in 0 .. N
      BY <2>1
    <3>2. g[i] = E[<<g[i - 1], i>>]
      BY <2>4 DEF Recursion
    <3>3. <<g[i - 1], i>> \in Seq(S) \X (1 .. N)
      BY <2>4, <3>1 DEF Recursion
    <3>4. E[<<g[i - 1], i>>] = IF i = 1 THEN q[i] ELSE g[i - 1] \o q[i]
      BY <3>3 DEF E
    <3> QED BY <3>2, <3>4
  <2> DEFINE h == [i \in 1 .. N |-> g[i]]
  <2>6. flatten = [i \in 1 .. N |-> IF i = 1 THEN q[i] ELSE flatten[i - 1] \o q[i]]
    <3>1. h = [i \in 1 .. N |-> IF i = 1 THEN q[i] ELSE h[i - 1] \o q[i]]
      <4> HIDE DEF flatten, E
      <4>1. ASSUME NEW i \in 1 .. N, i # 1 PROVE h[i - 1] = g[i - 1]
        <5>1. i - 1 \in 1 .. N
          BY <2>1, <4>1
        <5> QED BY <5>1
      <4> QED BY <2>5, <4>1
    <3> HIDE DEF h
    <3> QED BY <3>1
  <2> HIDE DEF flatten, E, h
  <2> DEFINE P == {n \in Nat : n + 1 <= N => flatten[n + 1] \in Seq(S)}
  <2>7. 0 \in P
    BY <2>1, <2>6
  <2>8. ASSUME NEW n \in Nat, n \in P
        PROVE  n + 1 \in P
    <3> SUFFICES ASSUME n + 2 <= N PROVE flatten[n + 2] \in Seq(S)
      OBVIOUS
    <3>1. flatten[n + 2] = flatten[n + 1] \o q[n + 2]
      <4>1. n + 2 \in 1 .. N /\ n + 2 # 1 /\ (n + 2) - 1 = n + 1
        BY <2>1
      <4> QED BY <2>6, <4>1
    <3>2. flatten[n + 1] \in Seq(S) /\ q[n + 2] \in Seq(S)
      BY <2>1, <2>8
    <3> QED BY <3>1, <3>2, ConcatProperties
  <2>9. N - 1 \in P
    <3> HIDE DEF P
    <3>1. Nat \subseteq P
      BY <2>7, <2>8, Induction
    <3> QED BY <2>1, <3>1
  <2> QED BY <2>1, <2>2, <2>9
<1> QED BY <1>1, <1>2
-----------------------------------------------------------------------------
(* PduDefinition: items of a file, and the states of the loop over them.   *)
ItemRecords == [robot : Robots, list : {"readers", "writers", "set"}, entry : EntryRecords]
AllItems == ItemRecords \cup {[list |-> "bad"]}

(* A list of a robot's definitions, as items.                              *)
LEMMA ListedType ==
  ASSUME NEW robot \in Robots, NEW list \in {"readers", "writers", "set"},
         NEW defs \in Seq(EntryRecords)
  PROVE  Listed(robot, list, defs)
            \in Seq(ItemRecords)
<1>1. DOMAIN defs = 1 .. Len(defs) /\ Len(defs) \in Nat
      /\ \A i \in 1 .. Len(defs) : defs[i] \in EntryRecords
  BY LenProperties, ElementOfSeq
<1> QED BY <1>1, IsASeq DEF Listed, ItemRecords

(* What the loops of load_legacy_ and load_compact_ come across is of a    *)
(* robot and has a definition, or it ends the loop.                        *)
LEMMA ItemsType == ASSUME NEW f \in Files PROVE Items(f) \in Seq(AllItems)
<1>0. BadItem \in Seq(AllItems)
  BY DEF BadItem, AllItems
<1>1. ASSUME NEW s \in Seq(ItemRecords) PROVE s \in Seq(AllItems)
  BY SeqDef DEF AllItems
<1>2. CASE f.layout = "legacy" /\ f.robots \in Seq(LegacyRobots)
  <2> DEFINE r == f.robots
             q == [i \in DOMAIN r |-> Listed(r[i].name, "readers", r[i].readers)
                                        \o Listed(r[i].name, "writers", r[i].writers)]
  <2>1. DOMAIN r = 1 .. Len(r) /\ Len(r) \in Nat /\ \A i \in DOMAIN r : r[i] \in LegacyRobots
    BY <1>2, LenProperties, ElementOfSeq
  <2> HIDE DEF r
  <2>2. ASSUME NEW i \in DOMAIN r PROVE q[i] \in Seq(AllItems)
    <3>1. /\ Listed(r[i].name, "readers", r[i].readers) \in Seq(AllItems)
          /\ Listed(r[i].name, "writers", r[i].writers) \in Seq(AllItems)
      BY <1>1, <2>1, ListedType DEF LegacyRobots
    <3> QED BY <3>1, ConcatProperties
  <2>3. q \in Seq(Seq(AllItems))
    <3>1. q \in [1 .. Len(r) -> Seq(AllItems)]
      BY <2>1, <2>2
    <3> HIDE DEF q
    <3> QED BY <2>1, <3>1, SeqDef
  <2>4. Items(f) = FlattenSeq(q)
    BY <1>2 DEF Items, LegacyItems, r
  <2> HIDE DEF q
  <2> QED BY <2>3, <2>4, FlattenType
<1>3. CASE /\ f.layout = "compact"
           /\ f.robots \in Seq(CompactRobots) /\ f.paths \in Seq(DefinitionSets)
  <2> DEFINE r == f.robots
             p == f.paths
             q == [i \in DOMAIN r |->
                     IF SetsOf(f, r[i].set) = {} THEN BadItem
                     ELSE Listed(r[i].name, "set", FirstSet(f, r[i].set).defs)]
  <2>1. DOMAIN r = 1 .. Len(r) /\ Len(r) \in Nat /\ \A i \in DOMAIN r : r[i] \in CompactRobots
    BY <1>3, LenProperties, ElementOfSeq
  <2>2. DOMAIN p = 1 .. Len(p) /\ Len(p) \in Nat /\ \A i \in DOMAIN p : p[i] \in DefinitionSets
    BY <1>3, LenProperties, ElementOfSeq
  <2>3. ASSUME NEW id, SetsOf(f, id) # {} PROVE FirstSet(f, id) \in DefinitionSets
    <3>1. SetsOf(f, id) \subseteq DOMAIN p /\ SetsOf(f, id) \subseteq Nat
      BY <2>2 DEF SetsOf
    <3>2. \E i \in SetsOf(f, id) : \A j \in SetsOf(f, id) : i <= j
      BY <2>3, <3>1, LeastNat
    <3> QED BY <2>2, <3>1, <3>2 DEF FirstSet
  <2> HIDE DEF r, p
  <2>4. ASSUME NEW i \in DOMAIN r PROVE q[i] \in Seq(AllItems)
    <3>1. CASE SetsOf(f, r[i].set) # {}
      <4>1. r[i].name \in Robots /\ FirstSet(f, r[i].set).defs \in Seq(EntryRecords)
        BY <2>1, <2>3, <3>1 DEF CompactRobots, DefinitionSets
      <4>2. Listed(r[i].name, "set", FirstSet(f, r[i].set).defs) \in Seq(AllItems)
        BY <1>1, <4>1, ListedType
      <4> QED BY <3>1, <4>2
    <3> QED BY <1>0, <3>1
  <2>5. q \in Seq(Seq(AllItems))
    <3>1. q \in [1 .. Len(r) -> Seq(AllItems)]
      BY <2>1, <2>4
    <3> HIDE DEF q
    <3> QED BY <2>1, <3>1, SeqDef
  <2>6. Items(f) = IF ~SetsReadable(f) THEN BadItem ELSE FlattenSeq(q)
    BY <1>3 DEF Items, CompactItems, r
  <2> HIDE DEF q
  <2> QED BY <1>0, <2>5, <2>6, FlattenType
<1>4. CASE f.layout = "unreadable"
  BY <1>0, <1>4 DEF Items
<1> QED BY <1>2, <1>3, <1>4, DefinitionAssumption

(* Maps of definitions as load leaves them, and whether it went on.        *)
Tables == UNION {[K -> EntryRecords] : K \in SUBSET (Robots \X Names)}
LoadStates == [ok : BOOLEAN, table : Tables]

(* Load starts from the empty map.                                         *)
LEMMA EmptyTable == [ok |-> TRUE, table |-> <<>>] \in LoadStates
<1>1. <<>> \in [{} -> EntryRecords] /\ {} \in SUBSET (Robots \X Names)
  OBVIOUS
<1>2. <<>> \in Tables
  BY <1>1 DEF Tables
<1> QED BY <1>2 DEF LoadStates

(* The three ways an item can go.                                          *)
LEMMA LoadItemCases ==
  ASSUME NEW pdus \in LoadStates, NEW item \in AllItems
  PROVE  /\ ~pdus.ok => LoadItem(pdus, item) = pdus
         /\ pdus.ok /\ item.list = "bad" => LoadItem(pdus, item) = [pdus EXCEPT !.ok = FALSE]
         /\ pdus.ok /\ item.list # "bad" =>
              LoadItem(pdus, item) =
                IF Skipped(pdus.table, item) THEN pdus
                ELSE IF ~item.entry.whole THEN [pdus EXCEPT !.ok = FALSE]
                ELSE [pdus EXCEPT !.table = Put(pdus.table, item)]
<1>1. CASE ~pdus.ok
  BY <1>1, Zenon DEF LoadItem
<1>2. CASE pdus.ok /\ item.list = "bad"
  BY <1>2, Zenon DEF LoadItem
<1>3. CASE pdus.ok /\ item.list # "bad"
  BY <1>3, Zenon DEF LoadItem
<1> QED BY <1>1, <1>2, <1>3

(* One more entry in the map: it replaces that of its key.                 *)
LEMMA PutEntry ==
  ASSUME NEW table \in Tables, NEW item \in ItemRecords
  PROVE  LET new == Put(table, item)
         IN  /\ new \in Tables
             /\ DOMAIN new = DOMAIN table \cup {Key(item)}
             /\ new[Key(item)] = item.entry
             /\ \A k \in DOMAIN table : k # Key(item) => new[k] = table[k]
<1>1. PICK K \in SUBSET (Robots \X Names) : table \in [K -> EntryRecords]
  BY DEF Tables
<1>2. Key(item) \in Robots \X Names /\ item.entry \in EntryRecords
  BY DEF Key, ItemRecords, EntryRecords
<1> DEFINE new == Put(table, item)
           k0 == Key(item)
<1>3. new = [k \in K \cup {k0} |-> IF k = k0 THEN item.entry ELSE table[k]]
  BY <1>1 DEF Put
<1> HIDE DEF new, k0
<1>4. new \in [K \cup {k0} -> EntryRecords] /\ K \cup {k0} \in SUBSET (Robots \X Names)
  BY <1>1, <1>2, <1>3 DEF k0
<1>5. new \in Tables
  BY <1>4 DEF Tables
<1>6. /\ DOMAIN new = DOMAIN table \cup {k0}
      /\ new[k0] = item.entry
      /\ \A k \in DOMAIN table : k # k0 => new[k] = table[k]
  BY <1>1, <1>3
<1> QED BY <1>5, <1>6 DEF new, k0

(* One item keeps the map a map of definitions.                            *)
LEMMA LoadItemType ==
  ASSUME NEW pdus \in LoadStates, NEW item \in AllItems
  PROVE  LoadItem(pdus, item) \in LoadStates
<1>1. CASE item.list = "bad" \/ ~pdus.ok
  BY <1>1, LoadItemCases DEF LoadStates
<1>2. CASE item.list # "bad" /\ pdus.ok
  <2>1. item \in ItemRecords
    BY <1>2 DEF AllItems
  <2>2. Put(pdus.table, item) \in Tables
    <3>1. pdus.table \in Tables
      BY DEF LoadStates
    <3> QED BY <2>1, <3>1, PutEntry
  <2> DEFINE new == Put(pdus.table, item)
  <2>3. [pdus EXCEPT !.table = new] \in LoadStates
    <3> HIDE DEF new
    <3> QED BY <2>2 DEF LoadStates, new
  <2>4. [pdus EXCEPT !.ok = FALSE] \in LoadStates
    BY DEF LoadStates
  <2>5. \/ LoadItem(pdus, item) = pdus
        \/ LoadItem(pdus, item) = [pdus EXCEPT !.table = new]
        \/ LoadItem(pdus, item) = [pdus EXCEPT !.ok = FALSE]
    BY <1>2, LoadItemCases, Zenon
  <2> QED BY <2>3, <2>4, <2>5
<1> QED BY <1>1, <1>2

(* The states of the loop over the items of a file.                        *)
Loading(after, items) ==
    /\ after \in [0 .. Len(items) -> LoadStates]
    /\ after[0] = [ok |-> TRUE, table |-> <<>>]
    /\ \A i \in 1 .. Len(items) : after[i] = LoadItem(after[i - 1], items[i])

(* Load is the last state of its loop.                                     *)
LEMMA LoadIsRecursive ==
  ASSUME NEW f \in Files
  PROVE  \E after : Loading(after, Items(f)) /\ Load(f) = after[Len(Items(f))]
<1> DEFINE items == Items(f)
           N == Len(items)
           start == [ok |-> TRUE, table |-> <<>>]
           after[i \in 0 .. Len(items)] ==
               IF i = 0 THEN [ok |-> TRUE, table |-> <<>>]
               ELSE LoadItem(after[i - 1], items[i])
           E == [p \in LoadStates \X (1 .. N) |-> LoadItem(p[1], items[p[2]])]
<1>1. Load(f) = after[N]
  BY DEF Load
<1>2. N \in Nat /\ \A i \in 1 .. N : items[i] \in AllItems
  BY ItemsType, LenProperties, ElementOfSeq
<1> HIDE DEF items
<1>3. E \in [LoadStates \X (1 .. N) -> LoadStates]
  BY <1>2, LoadItemType
<1>4. PICK g : Recursion(g, N, LoadStates, start, E)
  <2> HIDE DEF E, N, after
  <2>1. start \in LoadStates
    BY EmptyTable
  <2> HIDE DEF start
  <2> QED BY <1>2, <1>3, <2>1, RecursionExists
<1>5. ASSUME NEW i \in 1 .. N
      PROVE  g[i] = LoadItem(g[i - 1], items[i])
  <2> HIDE DEF after, E
  <2>1. i - 1 \in 0 .. N
    BY <1>2
  <2>2. <<g[i - 1], i>> \in LoadStates \X (1 .. N)
    BY <1>4, <2>1 DEF Recursion
  <2>3. E[<<g[i - 1], i>>] = LoadItem(g[i - 1], items[i])
    BY <2>2 DEF E
  <2> QED BY <1>4, <2>3 DEF Recursion
<1>6. g = [i \in 0 .. Len(items) |-> IF i = 0 THEN [ok |-> TRUE, table |-> <<>>]
                                     ELSE LoadItem(g[i - 1], items[i])]
  <2> HIDE DEF after, E
  <2>1. DOMAIN g = 0 .. N /\ g[0] = start /\ g = [i \in 0 .. N |-> g[i]]
    BY <1>4 DEF Recursion
  <2>2. \A i \in 0 .. N : i # 0 => i \in 1 .. N
    BY <1>2
  <2> QED BY <1>5, <2>1, <2>2
<1>7. after = [i \in 0 .. Len(items) |-> IF i = 0 THEN [ok |-> TRUE, table |-> <<>>]
                                         ELSE LoadItem(after[i - 1], items[i])]
  <2> HIDE DEF E
  <2> QED BY <1>6
<1> HIDE DEF after, E
<1>8. /\ after[0] = start
      /\ \A i \in 1 .. N : after[i] = LoadItem(after[i - 1], items[i])
  <2>1. \A i \in 1 .. N : i \in 0 .. N /\ i # 0
    BY <1>2
  <2>2. 0 \in 0 .. N
    BY <1>2
  <2>3. after[0] = start
    BY <1>7, <2>2
  <2>4. ASSUME NEW i \in 1 .. N
        PROVE  after[i] = LoadItem(after[i - 1], items[i])
    <3>1. i \in 0 .. Len(items) /\ i # 0
      BY <2>1
    <3> QED BY <1>7, <3>1, Zenon
  <2> QED BY <2>3, <2>4
<1>9. after \in [0 .. N -> LoadStates]
  <2> DEFINE P == {n \in Nat : n <= N => after[n] \in LoadStates}
  <2>1. 0 \in P
    BY <1>8, EmptyTable
  <2>2. ASSUME NEW n \in Nat, n \in P PROVE n + 1 \in P
    <3> SUFFICES ASSUME n + 1 <= N PROVE after[n + 1] \in LoadStates
      OBVIOUS
    <3>1. n + 1 \in 1 .. N /\ (n + 1) - 1 = n /\ after[n] \in LoadStates
      BY <1>2, <2>2
    <3>2. after[n + 1] = LoadItem(after[n], items[n + 1])
      BY <1>8, <3>1
    <3> QED BY <1>2, <3>1, <3>2, LoadItemType
  <2>3. Nat \subseteq P
    <3> HIDE DEF P
    <3> QED BY <2>1, <2>2, Induction
  <2>4. \A n \in 0 .. N : after[n] \in LoadStates
    BY <1>2, <2>3
  <2>5. after = [n \in 0 .. N |-> after[n]]
    BY <1>7
  <2> QED BY <2>4, <2>5
<1> QED BY <1>1, <1>8, <1>9 DEF Loading, items

(* What load leaves behind has the types of a file's entries.              *)
LEMMA LoadType == ASSUME NEW f \in Files PROVE Load(f) \in LoadStates
<1>1. PICK after : Loading(after, Items(f)) /\ Load(f) = after[Len(Items(f))]
  BY LoadIsRecursive
<1>2. Len(Items(f)) \in Nat
  BY ItemsType, LenProperties
<1> QED BY <1>1, <1>2 DEF Loading
-----------------------------------------------------------------------------
(* Of the first n items: those of a key in some lists, and the entry that  *)
(* Meant would choose.                                                     *)
Upto(items, n, k, lists) ==
    {i \in 1 .. n : items[i].list \in lists /\ Key(items[i]) = k}

Chosen(items, n, k, e) ==
    LET first == Upto(items, n, k, {"readers", "set"})
        second == Upto(items, n, k, {"writers"})
    IN  \/ \E m \in first : e = items[m].entry /\ \A j \in first : j <= m
        \/ /\ first = {}
           /\ \E m \in second : e = items[m].entry /\ \A j \in second : m <= j

(* The invariant of the loop.  While all went well, the map has the keys   *)
(* of the items so far and for each the entry Meant chooses of them.       *)
AllChosen(items, n, pdus) ==
    /\ \A i \in 1 .. n : items[i].list # "bad"
    /\ DOMAIN pdus.table = {Key(items[i]) : i \in 1 .. n}
    /\ \A k \in DOMAIN pdus.table : Chosen(items, n, k, pdus.table[k])

AllListed(items, n, pdus) ==
    \A k \in DOMAIN pdus.table :
        /\ pdus.table[k].whole
        /\ \E i \in Upto(items, n, k, {"readers", "writers", "set"}) :
              pdus.table[k] = items[i].entry

LoadedSoFar(items, n, pdus) ==
    AllListed(items, n, pdus) /\ (pdus.ok => AllChosen(items, n, pdus))

(* The next item, seen from the items so far.                              *)
LEMMA OneMore == ASSUME NEW n \in Nat
                 PROVE  1 .. n + 1 = (1 .. n) \cup {n + 1} /\ n + 1 \notin 1 .. n
OBVIOUS

(* An item that is not of the key changes nothing for it.                  *)
LEMMA ChosenOther ==
  ASSUME NEW items, NEW n \in Nat, NEW k, NEW e, Chosen(items, n, k, e),
         Key(items[n + 1]) # k
  PROVE  Chosen(items, n + 1, k, e)
<1>1. \A lists : Upto(items, n + 1, k, lists) = Upto(items, n, k, lists)
  BY OneMore DEF Upto
<1> QED BY <1>1 DEF Chosen

(* A reader, or an entry of a set, is chosen whatever was before it.       *)
LEMMA ChosenReader ==
  ASSUME NEW items, NEW n \in Nat, items[n + 1].list \in {"readers", "set"}
  PROVE  Chosen(items, n + 1, Key(items[n + 1]), items[n + 1].entry)
<1> DEFINE k == Key(items[n + 1])
           R == {"readers", "set"}
           first == Upto(items, n + 1, k, R)
<1>1. n + 1 \in first
  <2>1. items[n + 1].list \in R
    OBVIOUS
  <2> HIDE DEF R, k
  <2> QED BY <2>1, OneMore DEF Upto, k
<1>2. \A j \in first : j <= n + 1
  BY DEF Upto
<1> QED BY <1>1, <1>2 DEF Chosen

(* The first writer of a key that was not there is chosen.                 *)
LEMMA ChosenWriter ==
  ASSUME NEW items, NEW n \in Nat, items[n + 1].list = "writers",
         \A i \in 1 .. n : Key(items[i]) # Key(items[n + 1])
  PROVE  Chosen(items, n + 1, Key(items[n + 1]), items[n + 1].entry)
<1> DEFINE k == Key(items[n + 1])
<1>1. \A lists : Upto(items, n, k, lists) = {}
  BY DEF Upto
<1> DEFINE
           R == {"readers", "set"}
           W == {"writers"}
<1>2. items[n + 1].list \notin R /\ items[n + 1].list \in W
  OBVIOUS
<1> HIDE DEF R, W, k
<1>3. Upto(items, n + 1, k, R) = {}
  BY <1>1, <1>2, OneMore DEF Upto
<1>4. Upto(items, n + 1, k, W) = {n + 1}
  BY <1>1, <1>2, OneMore DEF Upto, k
<1> QED BY <1>3, <1>4 DEF Chosen, R, W, k

(* A writer of a key that was there does not change the choice.            *)
LEMMA ChosenSkipped ==
  ASSUME NEW items, NEW n \in Nat, NEW k, NEW e, Chosen(items, n, k, e),
         items[n + 1].list = "writers"
  PROVE  Chosen(items, n + 1, k, e)
<1>1. Upto(items, n + 1, k, {"readers", "set"}) = Upto(items, n, k, {"readers", "set"})
  <2>1. items[n + 1].list \notin {"readers", "set"}
    OBVIOUS
  <2> HIDE DEF Upto
  <2> QED BY <2>1, OneMore DEF Upto
<1> DEFINE W == {"writers"}
<1>2. \/ Upto(items, n + 1, k, W) = Upto(items, n, k, W)
      \/ Upto(items, n + 1, k, W) = Upto(items, n, k, W) \cup {n + 1}
  <2> HIDE DEF W
  <2> QED BY OneMore DEF Upto
<1>3. \A m \in Upto(items, n, k, {"writers"}) : m <= n + 1
  BY DEF Upto
<1> QED BY <1>1, <1>2, <1>3 DEF Chosen

(* One step of the loop keeps its invariant, in each of its five ways: an  *)
(* earlier error, a bad item, a writer that is skipped, an entry that is   *)
(* not whole, and an entry that is stored.                                 *)
LEMMA LoadItemKeeps ==
  ASSUME NEW items, NEW n \in Nat, NEW pdus \in LoadStates, items[n + 1] \in AllItems,
         LoadedSoFar(items, n, pdus)
  PROVE  LoadedSoFar(items, n + 1, LoadItem(pdus, items[n + 1]))
<1> DEFINE item == items[n + 1]
           new == LoadItem(pdus, item)
           all == {"readers", "writers", "set"}
<1>1. ASSUME NEW q, q.table = pdus.table
      PROVE  AllListed(items, n + 1, q)
  <2>1. \A k : Upto(items, n, k, all) \subseteq Upto(items, n + 1, k, all)
    BY DEF Upto
  <2> QED BY <1>1, <2>1 DEF LoadedSoFar, AllListed
<1>2. CASE ~pdus.ok
  <2>1. new = pdus
    BY <1>2, LoadItemCases
  <2> QED BY <1>1, <1>2, <2>1 DEF LoadedSoFar
<1>3. ASSUME new = [pdus EXCEPT !.ok = FALSE]
      PROVE  LoadedSoFar(items, n + 1, new)
  <2>1. ~new.ok /\ new.table = pdus.table
    BY <1>3 DEF LoadStates
  <2> HIDE DEF new
  <2> QED BY <1>1, <2>1 DEF LoadedSoFar
<1>4. CASE pdus.ok /\ item.list # "bad" /\ Skipped(pdus.table, item)
  <2>1. new = pdus
    BY <1>4, LoadItemCases
  <2>2. item.list = "writers" /\ Key(item) \in DOMAIN pdus.table
    BY <1>4 DEF Skipped
  <2>3. AllChosen(items, n, pdus)
    BY <1>4 DEF LoadedSoFar
  <2>4. \A i \in 1 .. n + 1 : i \in 1 .. n \/ i = n + 1
    OBVIOUS
  <2>5. \A i \in 1 .. n + 1 : items[i].list # "bad"
    BY <1>4, <2>3, <2>4 DEF AllChosen
  <2>6. DOMAIN pdus.table = {Key(items[i]) : i \in 1 .. n + 1}
    BY <2>2, <2>3, <2>4 DEF AllChosen
  <2>7. \A k \in DOMAIN pdus.table : Chosen(items, n + 1, k, pdus.table[k])
    BY <2>2, <2>3, ChosenSkipped DEF AllChosen
  <2> QED BY <1>1, <2>1, <2>5, <2>6, <2>7 DEF LoadedSoFar, AllChosen
<1>5. CASE pdus.ok /\ item.list # "bad" /\ ~Skipped(pdus.table, item) /\ item.entry.whole
  <2>0. item \in ItemRecords /\ pdus.table \in Tables
    BY <1>5 DEF AllItems, LoadStates
  <2> DEFINE table == Put(pdus.table, item)
  <2>1. new = [pdus EXCEPT !.table = table]
    BY <1>5, LoadItemCases
  <2>2. new.table = table /\ new.ok
    BY <1>5, <2>1 DEF LoadStates
  <2>3. /\ DOMAIN table = DOMAIN pdus.table \cup {Key(item)}
        /\ table[Key(item)] = item.entry
        /\ \A k \in DOMAIN pdus.table : k # Key(item) => table[k] = pdus.table[k]
    BY <2>0, PutEntry
  <2>4. AllChosen(items, n, pdus)
    BY <1>5 DEF LoadedSoFar
  <2>5. \A i \in 1 .. n + 1 : i \in 1 .. n \/ i = n + 1
    OBVIOUS
  <2>6. item.list \in all
    BY <2>0 DEF ItemRecords
  <2> HIDE DEF new, table
  <2>7. ASSUME NEW k \in DOMAIN table
        PROVE  /\ table[k].whole
               /\ \E i \in Upto(items, n + 1, k, all) : table[k] = items[i].entry
    <3>1. CASE k = Key(item)
      <4>1. n + 1 \in Upto(items, n + 1, k, all)
        BY <2>6, <3>1, OneMore DEF Upto
      <4> QED BY <1>5, <2>3, <3>1, <4>1
    <3>2. CASE k # Key(item)
      <4>1. k \in DOMAIN pdus.table /\ table[k] = pdus.table[k]
        BY <2>3, <2>7, <3>2
      <4>2. Upto(items, n, k, all) \subseteq Upto(items, n + 1, k, all)
        BY DEF Upto
      <4> QED BY <4>1, <4>2 DEF LoadedSoFar, AllListed
    <3> QED BY <3>1, <3>2
  <2>8. \A i \in 1 .. n + 1 : items[i].list # "bad"
    BY <1>5, <2>4, <2>5 DEF AllChosen
  <2>9. DOMAIN table = {Key(items[i]) : i \in 1 .. n + 1}
    <3>1. DOMAIN pdus.table = {Key(items[i]) : i \in 1 .. n}
      BY <2>4 DEF AllChosen
    <3>2. n + 1 \in 1 .. n + 1 /\ \A i \in 1 .. n : i \in 1 .. n + 1
      OBVIOUS
    <3> QED BY <2>3, <2>5, <3>1, <3>2
  <2>10. ASSUME NEW k \in DOMAIN table
         PROVE  Chosen(items, n + 1, k, table[k])
    <3>1. CASE k # Key(item)
      <4>1. k \in DOMAIN pdus.table /\ table[k] = pdus.table[k]
        BY <2>3, <2>10, <3>1
      <4> QED BY <2>4, <3>1, <4>1, ChosenOther DEF AllChosen
    <3>2. CASE k = Key(item) /\ item.list # "writers"
      BY <2>3, <2>6, <3>2, ChosenReader
    <3>3. CASE k = Key(item) /\ item.list = "writers"
      <4>1. Key(item) \notin DOMAIN pdus.table
        BY <1>5, <3>3 DEF Skipped
      <4>2. \A i \in 1 .. n : Key(items[i]) # Key(item)
        BY <2>4, <4>1 DEF AllChosen
      <4> QED BY <2>3, <3>3, <4>2, ChosenWriter
    <3> QED BY <3>1, <3>2, <3>3
  <2>11. AllListed(items, n + 1, new)
    BY <2>2, <2>7 DEF AllListed
  <2>12. AllChosen(items, n + 1, new)
    BY <2>2, <2>8, <2>9, <2>10 DEF AllChosen
  <2> QED BY <2>11, <2>12 DEF LoadedSoFar, new
<1>6. \/ ~pdus.ok
      \/ pdus.ok /\ item.list = "bad"
      \/ pdus.ok /\ item.list # "bad" /\ Skipped(pdus.table, item)
      \/ pdus.ok /\ item.list # "bad" /\ ~Skipped(pdus.table, item) /\ ~item.entry.whole
      \/ pdus.ok /\ item.list # "bad" /\ ~Skipped(pdus.table, item) /\ item.entry.whole
  BY Zenon
<1>7. CASE pdus.ok /\ item.list = "bad"
  <2>1. new = [pdus EXCEPT !.ok = FALSE]
    BY <1>7, LoadItemCases
  <2> QED BY <1>3, <2>1
<1>8. CASE pdus.ok /\ item.list # "bad" /\ ~Skipped(pdus.table, item) /\ ~item.entry.whole
  <2>1. new = [pdus EXCEPT !.ok = FALSE]
    BY <1>8, LoadItemCases, Zenon
  <2> QED BY <1>3, <2>1
<1> QED BY <1>2, <1>4, <1>5, <1>6, <1>7, <1>8

(* When the loop has ended, its invariant is what the file lists.          *)
LEMMA LoadEnds == ASSUME NEW f \in Files
                  PROVE  LoadedSoFar(Items(f), Len(Items(f)), Load(f))
<1> DEFINE items == Items(f)
           N == Len(items)
<1>1. PICK after : Loading(after, Items(f)) /\ Load(f) = after[Len(Items(f))]
  BY LoadIsRecursive
<1>2. N \in Nat /\ \A i \in 1 .. N : items[i] \in AllItems
  BY ItemsType, LenProperties, ElementOfSeq
<1>3. Loading(after, items) /\ Load(f) = after[N]
  BY <1>1
<1> HIDE DEF N, items
<1> DEFINE P == {n \in Nat : n <= N => LoadedSoFar(items, n, after[n])}
<1>4. 0 \in P
  <2>1. after[0] = [ok |-> TRUE, table |-> <<>>]
    BY <1>3 DEF Loading
  <2>2. DOMAIN after[0].table = {} /\ 1 .. 0 = {}
    BY <2>1
  <2> QED BY <2>2 DEF LoadedSoFar, AllListed, AllChosen
<1>5. ASSUME NEW n \in Nat, n \in P PROVE n + 1 \in P
  <2> SUFFICES ASSUME n + 1 <= N PROVE LoadedSoFar(items, n + 1, after[n + 1])
    OBVIOUS
  <2>1. n + 1 \in 1 .. N /\ n \in 0 .. N /\ (n + 1) - 1 = n
    BY <1>2
  <2>2. after[n] \in LoadStates /\ after[n + 1] = LoadItem(after[n], items[n + 1])
    BY <1>3, <2>1 DEF Loading, N
  <2>3. LoadedSoFar(items, n, after[n]) /\ items[n + 1] \in AllItems
    BY <1>2, <1>5, <2>1
  <2> QED BY <2>2, <2>3, LoadItemKeeps
<1>6. Nat \subseteq P
  <2> HIDE DEF P
  <2> QED BY <1>4, <1>5, Induction
<1>7. LoadedSoFar(items, N, Load(f))
  BY <1>2, <1>3, <1>6
<1> QED BY <1>7 DEF N, items

(* After load the map has what the file means for each robot and name it   *)
(* lists, whatever the order; after a load that failed, only what is       *)
(* listed (pdu_definition.cpp).                                            *)
THEOREM LoadCorrectness == LoadsAgree
<1> SUFFICES ASSUME NEW f \in Files PROVE LoadedAsListed(f)
  BY DEF LoadsAgree
<1> DEFINE items == Items(f)
           N == Len(items)
           pdus == Load(f)
<1>1. LoadedSoFar(items, N, pdus)
  BY LoadEnds
<1>2. N \in Nat /\ DOMAIN items = 1 .. N
      /\ \A i \in 1 .. N : items[i] \in AllItems
  BY ItemsType, LenProperties, ElementOfSeq
<1>3. \A k, lists : Candidates(f, k, lists) = Upto(items, N, k, lists)
  BY <1>2 DEF Candidates, Upto
<1>4. pdus \in LoadStates
  BY LoadType
<1> HIDE DEF items, N, pdus
<1>5. CASE ~pdus.ok
  BY <1>1, <1>3, <1>5 DEF LoadedAsListed, LoadedSoFar, AllListed, pdus, items
<1>6. CASE pdus.ok
  <2>1. AllChosen(items, N, pdus)
    BY <1>1, <1>6 DEF LoadedSoFar
  <2>2. AllKeys(f) = {Key(items[i]) : i \in 1 .. N}
    <3>1. ToSet(items) = {items[i] : i \in 1 .. N}
      BY <1>2 DEF ToSet
    <3> QED BY <2>1, <3>1 DEF AllKeys, AllChosen, items
  <2>3. ASSUME NEW k \in DOMAIN pdus.table
        PROVE  pdus.table[k] = Meant(f, k)
    <3> DEFINE first == Upto(items, N, k, {"readers", "set"})
               second == Upto(items, N, k, {"writers"})
    <3>1. Chosen(items, N, k, pdus.table[k])
      BY <2>1 DEF AllChosen
    <3>2. Meant(f, k) = items[IF first # {} THEN Max(first) ELSE Min(second)].entry
      BY <1>3 DEF Meant, items
    <3>3. first \subseteq 0 .. N /\ second \subseteq Nat
      BY <1>2 DEF Upto
    <3>4. \/ \E m \in first : pdus.table[k] = items[m].entry /\ \A j \in first : j <= m
          \/ /\ first = {}
             /\ \E m \in second : pdus.table[k] = items[m].entry /\ \A j \in second : m <= j
      BY <3>1 DEF Chosen
    <3> HIDE DEF first, second
    <3>5. CASE first # {}
      <4>1. PICK m \in first : pdus.table[k] = items[m].entry /\ \A j \in first : j <= m
        BY <3>4, <3>5
      <4>2. Max(first) \in first /\ \A j \in first : Max(first) >= j
        BY <1>2, <3>3, <3>5, MaxIsGreatest
      <4>3. m \in 0 .. N /\ Max(first) \in 0 .. N /\ Max(first) <= m /\ Max(first) >= m
        BY <3>3, <4>1, <4>2
      <4>4. Max(first) = m
        BY <1>2, <4>3
      <4> QED BY <3>2, <3>5, <4>1, <4>4
    <3>6. CASE first = {}
      <4>1. PICK m \in second : pdus.table[k] = items[m].entry /\ \A j \in second : m <= j
        BY <3>4, <3>6
      <4>2. Min(second) \in second /\ \A j \in second : Min(second) <= j
        BY <3>3, <4>1, MinIsLeast
      <4>3. m \in Nat /\ Min(second) \in Nat /\ Min(second) <= m /\ m <= Min(second)
        BY <3>3, <4>1, <4>2
      <4>4. Min(second) = m
        BY <4>3
      <4> QED BY <3>2, <3>6, <4>1, <4>4
    <3> QED BY <3>5, <3>6
  <2>4. DOMAIN pdus.table = AllKeys(f)
    BY <2>1, <2>2 DEF AllChosen
  <2>5. pdus.table = [k \in DOMAIN pdus.table |-> pdus.table[k]]
    BY <1>4 DEF LoadStates, Tables
  <2>6. pdus.table = [k \in AllKeys(f) |-> Meant(f, k)]
    BY <2>3, <2>4, <2>5
  <2> QED BY <1>6, <2>6 DEF LoadedAsListed, pdus
<1> QED BY <1>5, <1>6

(* A name leads to its channel and the channel back to the name, unless    *)
(* the file gives the channel to another name of the robot, too.           *)
THEOREM LookupCorrectness == LookupsAgree
<1> SUFFICES ASSUME NEW f \in Files, NEW k \in DOMAIN Load(f).table
             PROVE  LET table == Load(f).table
                        back == ByChannel(table, k[1], ByName(table, k[1], k[2]).channel)
                    IN  \/ back = table[k]
                        \/ \E j \in DOMAIN table \ {k} :
                              j[1] = k[1] /\ table[j].channel = table[k].channel
  BY DEF LookupsAgree, ChannelsInvert
<1> DEFINE table == Load(f).table
           found == OnChannel(table, k[1], table[k].channel)
<1>1. DOMAIN table \subseteq Robots \X Names
  BY LoadType DEF LoadStates, Tables
<1>2. k = <<k[1], k[2]>> /\ ByName(table, k[1], k[2]) = table[k]
  BY <1>1 DEF ByName
<1>3. k \in found /\ \A j \in found : /\ j \in DOMAIN table
                                       /\ j[1] = k[1] /\ table[j].channel = table[k].channel
  BY DEF OnChannel
<1>4. \E j \in found : \A i \in found : j[2] <= i[2]
  <2> DEFINE T == {j[2] : j \in found}
  <2>1. T \subseteq Nat /\ T # {}
    BY <1>1, <1>3, DefinitionAssumption
  <2>2. PICK x \in T : \A y \in T : x <= y
    <3> HIDE DEF T
    <3> QED BY <2>1, LeastNat
  <2> QED BY <2>2
<1> DEFINE j == CHOOSE j \in found : \A i \in found : j[2] <= i[2]
<1>5. j \in found
  BY <1>4
<1>6. ByChannel(table, k[1], ByName(table, k[1], k[2]).channel) = table[j]
  BY <1>2 DEF ByChannel
<1> HIDE DEF j
<1>7. j \in DOMAIN table /\ j[1] = k[1] /\ table[j].channel = table[k].channel
  BY <1>3, <1>5
<1> QED BY <1>6, <1>7
-----------------------------------------------------------------------------
(* The invariant of ShmComm, in two parts. The first needs nothing; the    *)
(* second needs that there is one poll instance at most, since each counts *)
(* its event numbers for itself, from 1 (comm_shm_poll.cpp:94), and the    *)
(* event map is one for the process: two poll instances break it, as the   *)
(* run ShmComm_dispatch shows.                                             *)
(* Of the definitions in use: each is of a robot, on a channel.            *)
DefInv == /\ DOMAIN pduDef \subseteq Robots \X Names
          /\ \A k \in DOMAIN pduDef : pduDef[k].channel \in Channels

(* Where the application thread is, and with whom.                         *)
CallInv ==
    /\ step # "idle" => target \in Insts /\ alive[target]
    /\ step \in {"register", "insert", "publish"} =>
          todo # <<>> /\ notify[target] # <<>>
    /\ step \in {"insert", "publish"} =>
          /\ newId \in Ids
          /\ [inst |-> target, key |-> Head(todo), id |-> newId] \in regs
    /\ step \in {"idle", "poll"} => fresh = {}

(* A dispatch holds a registration.                                        *)
HandlerTypes ==
    /\ handler.at # "idle" => handler.reg \in regs
    /\ handler.at \in {"handle", "find", "read", "callback"} => handler.inst \in Insts
    /\ handler.at \in {"read", "callback"} => handler.key \in Keys

(* close and the roll-back of post_start leave no number registered.       *)
NotifyInv == \A i \in Insts : notify[i] = <<>> => registered[i] = {}

(* The bound on writes is that on the writes to a channel.                 *)
WrittenInv == \A k \in Keys : written[k] <= writes

BaseInv == TypeOK /\ DefInv /\ CallInv /\ HandlerTypes /\ NotifyInv /\ WrittenInv

(* TypeOK in four parts, by what they are about.                           *)
InstTypes ==
    /\ process \in {"up", "freed", "torn"}
    /\ config \in Deployments
    /\ DOMAIN pduDef \subseteq Robots \X Names
    /\ alive \in [Insts -> BOOLEAN]
    /\ notify \in [Insts -> Seq(Keys)]
    /\ running \in [Insts -> BOOLEAN]
    /\ posted \in [Insts -> BOOLEAN]
    /\ leaked \in [Insts -> BOOLEAN]

MapTypes ==
    /\ eventMap \in [Ids -> Insts \cup {Nobody}]
    /\ keyMap \in [Insts -> [Ids -> Keys \cup {Nobody}]]
    /\ registered \in [Insts -> SUBSET Ids]

CallTypes ==
    /\ step \in {"idle", "register", "insert", "publish", "poll"}
    /\ target \in Insts \cup {Nobody}
    /\ todo \in Seq(Keys)
    /\ newId \in Ids \cup {0}
    /\ fresh \in SUBSET Ids
    /\ entries \in SUBSET Registrations

CoreTypes ==
    /\ handler \in Handlers
    /\ regs \in SUBSET Registrations
    /\ raised \in SUBSET regs
    /\ written \in [Keys -> 0 .. MaxWrites]
    /\ writes \in 0 .. MaxWrites
    /\ read \in [Insts -> [Keys -> 0 .. MaxWrites]]

(* At most one instance of the process polls.                              *)
OnePoll == \A i, j \in Insts :
              config[i].impl = "poll" /\ config[j].impl = "poll" => i = j

(* The core's numbers lead back to the instance and the key.               *)
RegsInv ==
    /\ IsFiniteSet(regs)
    /\ \A r \in regs : r.id <= Cardinality(regs) /\ config[r.inst].impl # "absent"
    /\ \A r, s \in regs : r.id = s.id => r = s
    /\ \A i \in Insts : alive[i] => config[i].impl # "absent"

(* All that the maps, post_start and a dispatch know of a number was       *)
(* registered with the core for that instance and that key.                *)
OwnsEvents ==
    \A i \in Insts, id \in Ids :
        eventMap[id] = i \/ id \in registered[i] =>
            \E k \in Keys : [inst |-> i, key |-> k, id |-> id] \in regs

OwnsKeys ==
    \A i \in Insts, id \in Ids :
        keyMap[i][id] # Nobody => [inst |-> i, key |-> keyMap[i][id], id |-> id] \in regs

OwnsFresh ==
    \A id \in fresh : \E k \in Keys : [inst |-> target, key |-> k, id |-> id] \in regs

OwnsHandler ==
    /\ handler.at \in {"handle", "find", "read", "callback"} =>
          handler.inst = handler.reg.inst
    /\ handler.at \in {"read", "callback"} => handler.key = handler.reg.key

(* What close and the roll-back rely on: the second half of MapsAgree.     *)
MapsMatch ==
    \A i \in Insts : ~leaked[i] =>
        /\ registered[i] = Mapped(i) \cup
             (IF step = "publish" /\ target = i THEN {newId} ELSE {})
        /\ \A id \in Ids : keyMap[i][id] # Nobody <=> id \in registered[i]

OwnInv == OnePoll /\ RegsInv /\ OwnsEvents /\ OwnsKeys /\ OwnsFresh /\ OwnsHandler /\ MapsMatch

ShmInv == BaseInv /\ (OnePoll => OwnInv)

(* What open put into recv_notify_keys_ comes from the loaded definitions. *)
NotifiedInv ==
    /\ pduDef = Load(PduFile).table
    /\ \A i \in Insts : \A j \in DOMAIN notify[i] :
          /\ j \in DOMAIN config[i].pdus
          /\ config[i].pdus[j] \in DOMAIN pduDef
          /\ notify[i][j] = <<config[i].pdus[j][1], pduDef[config[i].pdus[j]].channel>>
-----------------------------------------------------------------------------
(* The four parts are the whole.                                           *)
LEMMA TypesTogether == TypeOK <=> InstTypes /\ MapTypes /\ CallTypes /\ CoreTypes
BY DEF TypeOK, InstTypes, MapTypes, CallTypes, CoreTypes

(* Keys of a config's PDUs, up to the first that has none.                 *)
LEMMA ResolvedKeys ==
  ASSUME config \in Deployments, DefInv, NEW i \in Insts
  PROVE  /\ Resolved(i) \in Seq(Keys)
         /\ Len(Resolved(i)) \in Nat /\ Len(Resolved(i)) <= Len(config[i].pdus)
         /\ \A j \in 1 .. Len(Resolved(i)) :
              /\ j \in DOMAIN config[i].pdus
              /\ config[i].pdus[j] \in DOMAIN pduDef
              /\ Resolved(i)[j] =
                   <<config[i].pdus[j][1], pduDef[config[i].pdus[j]].channel>>
<1> DEFINE pdus == config[i].pdus
           I == {j \in 1 .. Len(pdus) : ~HasName(pduDef, pdus[j][1], pdus[j][2])}
           n == IF I = {} THEN Len(pdus) ELSE Min(I) - 1
<1>1. pdus \in Seq(Robots \X Names)
  <2>1. config \in [Insts -> Configs]
    BY ShmAssumption
  <2> QED BY <2>1 DEF Configs
<1>2. Len(pdus) \in Nat /\ DOMAIN pdus = 1 .. Len(pdus)
      /\ \A j \in 1 .. Len(pdus) : pdus[j] \in Robots \X Names
  BY <1>1, LenProperties, ElementOfSeq
<1>3. Resolved(i) = [j \in 1 .. n |-> <<pdus[j][1], ByName(pduDef, pdus[j][1], pdus[j][2]).channel>>]
  <2> DEFINE missing == SelectInSeq(pdus, LAMBDA p : ~HasName(pduDef, p[1], p[2]))
  <2>1. missing = IF I # {} THEN Min(I) ELSE 0
    BY DEF SelectInSeq
  <2>2. I # {} => Min(I) \in I /\ Min(I) # 0
    <3>1. I \subseteq Nat
      BY <1>2
    <3>2. 0 \notin I
      OBVIOUS
    <3> HIDE DEF I
    <3> QED BY <3>1, <3>2, MinIsLeast
  <2>3. n = IF missing = 0 THEN Len(pdus) ELSE missing - 1
    BY <2>1, <2>2
  <2> QED BY <2>3 DEF Resolved
<1>4. n \in Nat /\ n <= Len(pdus) /\ \A j \in 1 .. n : j \in 1 .. Len(pdus) /\ j \notin I
  <2>1. CASE I = {}
    BY <1>2, <2>1
  <2>2. CASE I # {}
    <3>1. I \subseteq Nat
      BY <1>2
    <3>2. Min(I) \in I /\ \A j \in I : Min(I) <= j
      <4> HIDE DEF I
      <4> QED BY <2>2, <3>1, MinIsLeast
    <3>3. Min(I) \in 1 .. Len(pdus) /\ n = Min(I) - 1
      BY <2>2, <3>2
    <3>4. \A j \in 1 .. n : j \notin I
      <4> HIDE DEF I
      <4> QED BY <1>2, <3>2, <3>3
    <3> HIDE DEF I, n, pdus
    <3> QED BY <1>2, <3>3, <3>4
  <2> QED BY <2>1, <2>2
<1>5. ASSUME NEW j \in 1 .. n
      PROVE  /\ j \in DOMAIN pdus /\ pdus[j] \in DOMAIN pduDef
             /\ ByName(pduDef, pdus[j][1], pdus[j][2]) = pduDef[pdus[j]]
             /\ <<pdus[j][1], pduDef[pdus[j]].channel>> \in Keys
  <2>1. j \in 1 .. Len(pdus) /\ j \notin I
    BY <1>4
  <2>2. pdus[j] \in Robots \X Names /\ pdus[j] = <<pdus[j][1], pdus[j][2]>>
    BY <1>2, <2>1
  <2>3. HasName(pduDef, pdus[j][1], pdus[j][2])
    BY <2>1
  <2> HIDE DEF pdus
  <2> QED BY <1>2, <2>1, <2>2, <2>3 DEF HasName, ByName, DefInv, Keys
<1> HIDE DEF n, pdus, I
<1>6. Resolved(i) = [j \in 1 .. n |-> <<pdus[j][1], pduDef[pdus[j]].channel>>]
  BY <1>3, <1>5
<1>7. Resolved(i) \in [1 .. n -> Keys]
  BY <1>5, <1>6
<1>8. Resolved(i) \in Seq(Keys) /\ Len(Resolved(i)) = n
  BY <1>4, <1>7, SeqDef, LenProperties
<1> QED BY <1>4, <1>5, <1>6, <1>8 DEF pdus

(* Steps keep the types of the instances.                                  *)
LEMMA InstTypesStep == BaseInv /\ [Next]_vars => InstTypes'
<1> SUFFICES ASSUME BaseInv, [Next]_vars PROVE InstTypes'
  OBVIOUS
<1>a. InstTypes /\ step \in {"idle", "register", "insert", "publish", "poll"}
      /\ (step # "idle" => target \in Insts)
  BY TypesTogether DEF BaseInv, CallTypes, CallInv
<1>1. ASSUME NEW i \in Insts, Open(i) PROVE InstTypes'
  <2>1. Resolved(i) \in Seq(Keys) /\ Len(Resolved(i)) \in Nat
    BY <1>a, ResolvedKeys DEF BaseInv, InstTypes
  <2>2. \A n \in 0 .. Len(Resolved(i)) : SubSeq(Resolved(i), 1, n) \in Seq(Keys)
    BY <2>1, SubSeqProperties
  <2>3. notify' \in [Insts -> Seq(Keys)]
    BY <1>a, <1>1, <2>2 DEF Open, InstTypes
  <2> QED BY <1>a, <1>1, <2>3
             DEF Open, Idle, Rest, vars, configVars, instVars, mapVars, callVars,
                 coreVars, InstTypes
<1>2. ASSUME NEW i \in Insts, Start(i) PROVE InstTypes'
  BY <1>a, <1>2
     DEF Start, Idle, Rest, vars, configVars, instVars, mapVars, callVars, coreVars,
         InstTypes
<1>3. ASSUME NEW i \in Insts, Stop(i) PROVE InstTypes'
  BY <1>a, <1>3
     DEF Stop, Idle, Rest, vars, configVars, instVars, mapVars, callVars, coreVars,
         InstTypes
<1>4. ASSUME NEW i \in Insts, Close(i) PROVE InstTypes'
  <2>1. notify' \in [Insts -> Seq(Keys)]
    BY <1>a, <1>4 DEF Close, Idle, Unregister, EraseOwn, Rest, InstTypes
  <2> QED BY <1>a, <1>4, <2>1
             DEF Close, Idle, Unregister, EraseOwn, Rest, vars, configVars, instVars,
                 mapVars, callVars, coreVars, InstTypes
<1>5. ASSUME NEW i \in Insts, Destroy(i) PROVE InstTypes'
  <2>1. notify' \in [Insts -> Seq(Keys)]
    BY <1>a, <1>5 DEF Destroy, Idle, Unregister, EraseOwn, Rest, InstTypes
  <2> QED BY <1>a, <1>5, <2>1
             DEF Destroy, Idle, Unregister, EraseOwn, Rest, vars, configVars, instVars,
                 mapVars, callVars, coreVars, InstTypes
<1>6. ASSUME NEW i \in Insts, PostStart(i) PROVE InstTypes'
  BY <1>a, <1>6
     DEF PostStart, Idle, Rest, vars, configVars, instVars, mapVars, callVars,
         coreVars, InstTypes
<1>7. CASE RegisterFails
  <2>1. (leaked[target] \/ registered[target] # fresh) \in BOOLEAN
    OBVIOUS
  <2>2. leaked' \in [Insts -> BOOLEAN]
    BY <1>a, <1>7, <2>1 DEF RegisterFails, InstTypes
  <2> QED BY <1>a, <1>7, <2>2
             DEF RegisterFails, Rest, vars, configVars, instVars, mapVars, callVars,
                 coreVars, InstTypes
<1>8. CASE InsertKey
  BY <1>a, <1>8
     DEF InsertKey, Remembered, vars, configVars, instVars, mapVars, callVars,
         coreVars, InstTypes
<1>9. CASE UsesFreed
  BY <1>a, <1>9
     DEF UsesFreed, vars, configVars, instVars, mapVars, callVars, coreVars, InstTypes
<1>10. CASE UNCHANGED <<process, configVars, instVars, leaked>>
  BY <1>a, <1>10 DEF vars, configVars, instVars, mapVars, callVars, coreVars, InstTypes
<1>11. \/ \E i \in Insts : Open(i) \/ Start(i) \/ Stop(i) \/ Close(i) \/ Destroy(i) \/ PostStart(i)
       \/ RegisterFails \/ InsertKey \/ UsesFreed
       \/ UNCHANGED <<process, configVars, instVars, leaked>>
  BY
     DEF Next, CallStep, HandlerStep, Poll, Idle, Entries, Rest, Register, Room,
         Publish, CheckEvent, Dispatch, NoHandler, PollReturns, CoreFires, Lookup,
         HandlerOnly, Handle, Held, FindKey, NativeRecv, ReadAndCall, ReadFails,
         CallbackReturns, Write, vars,
         configVars, instVars, mapVars, callVars, coreVars
<1> QED BY <1>1, <1>2, <1>3, <1>4, <1>5, <1>6, <1>7, <1>8, <1>9, <1>10, <1>11

(* Steps keep the types of the maps.                                       *)
LEMMA MapTypesStep == BaseInv /\ [Next]_vars => MapTypes'
<1> SUFFICES ASSUME BaseInv, [Next]_vars PROVE MapTypes'
  OBVIOUS
<1>a. MapTypes /\ CallTypes /\ CallInv
  BY TypesTogether DEF BaseInv
<1>1. ASSUME NEW i \in Insts, Close(i) PROVE MapTypes'
  <2>1. eventMap' \in [Ids -> Insts \cup {Nobody}]
    BY <1>a, <1>1 DEF Close, Idle, Unregister, EraseOwn, Rest, MapTypes
  <2>2. keyMap' \in [Insts -> [Ids -> Keys \cup {Nobody}]]
    BY <1>a, <1>1 DEF Close, Idle, Unregister, EraseOwn, Rest, MapTypes
  <2>3. registered' \in [Insts -> SUBSET Ids]
    BY <1>a, <1>1 DEF Close, Idle, Unregister, EraseOwn, Rest, MapTypes
  <2> QED BY <2>1, <2>2, <2>3 DEF MapTypes
<1>2. ASSUME NEW i \in Insts, Destroy(i) PROVE MapTypes'
  <2>1. eventMap' \in [Ids -> Insts \cup {Nobody}]
    BY <1>a, <1>2 DEF Destroy, Idle, Unregister, EraseOwn, Rest, MapTypes
  <2>2. keyMap' \in [Insts -> [Ids -> Keys \cup {Nobody}]]
    BY <1>a, <1>2 DEF Destroy, Idle, Unregister, EraseOwn, Rest, MapTypes
  <2>3. registered' \in [Insts -> SUBSET Ids]
    BY <1>a, <1>2 DEF Destroy, Idle, Unregister, EraseOwn, Rest, MapTypes
  <2> QED BY <2>1, <2>2, <2>3 DEF MapTypes
<1>3. CASE RegisterFails
  <2>1. eventMap' \in [Ids -> Insts \cup {Nobody}]
    BY <1>a, <1>3 DEF RegisterFails, Rest, MapTypes
  <2>2. target \in Insts
    BY <1>a, <1>3 DEF RegisterFails, Rest, CallInv
  <2>3. [id \in Ids |-> IF id \in fresh THEN Nobody ELSE keyMap[target][id]]
           \in [Ids -> Keys \cup {Nobody}]
    BY <1>a, <2>2 DEF MapTypes
  <2>4. keyMap' \in [Insts -> [Ids -> Keys \cup {Nobody}]]
    BY <1>a, <1>3, <2>3 DEF RegisterFails, Rest, MapTypes
  <2>5. registered' \in [Insts -> SUBSET Ids]
    BY <1>a, <1>3 DEF RegisterFails, Rest, MapTypes
  <2> QED BY <2>1, <2>4, <2>5 DEF MapTypes
<1>4. CASE InsertKey
  <2>1. target \in Insts /\ newId \in Ids /\ todo # <<>>
    BY <1>a, <1>4 DEF InsertKey, Remembered, CallInv
  <2>2. Head(todo) \in Keys
    BY <1>a, <2>1, HeadTailProperties DEF CallTypes
  <2>3. keyMap' \in [Insts -> [Ids -> Keys \cup {Nobody}]]
    BY <1>a, <1>4, <2>2 DEF InsertKey, Remembered, MapTypes
  <2>4. registered' \in [Insts -> SUBSET Ids]
    BY <1>a, <1>4, <2>1 DEF InsertKey, Remembered, MapTypes
  <2> QED BY <1>a, <1>4, <2>3, <2>4 DEF InsertKey, Remembered, MapTypes
<1>5. CASE Publish
  <2>1. target \in Insts
    BY <1>a, <1>5 DEF Publish, Rest, CallInv
  <2> QED BY <1>a, <1>5, <2>1
             DEF Publish, Rest, vars, configVars, instVars, mapVars, callVars,
                 coreVars, MapTypes
<1>6. CASE UNCHANGED mapVars
  BY <1>a, <1>6 DEF vars, configVars, instVars, mapVars, callVars, coreVars, MapTypes
<1>7. \/ \E i \in Insts : Close(i) \/ Destroy(i)
      \/ RegisterFails \/ InsertKey \/ Publish
      \/ UNCHANGED mapVars
  BY
     DEF Next, CallStep, HandlerStep, Open, Idle, Rest, Start, Stop, PostStart, Poll,
         Entries, Register, Room, CheckEvent, Dispatch, NoHandler, PollReturns,
         CoreFires, Lookup, HandlerOnly, Handle, Held, FindKey, NativeRecv, ReadAndCall,
         ReadFails,
         CallbackReturns, UsesFreed, Write, vars, configVars, instVars, mapVars,
         callVars, coreVars
<1> QED BY <1>1, <1>2, <1>3, <1>4, <1>5, <1>6, <1>7

(* Steps keep the types of the call that is under way.                     *)
LEMMA CallTypesStep == BaseInv /\ [Next]_vars => CallTypes'
<1> SUFFICES ASSUME BaseInv, [Next]_vars PROVE CallTypes'
  OBVIOUS
<1>a. CallTypes /\ CallInv
  BY TypesTogether DEF BaseInv
<1>1. ASSUME NEW i \in Insts, PostStart(i) PROVE CallTypes'
  <2>1. notify[i] \in Seq(Keys)
    BY DEF BaseInv, TypeOK
  <2> QED BY <1>a, <1>1, <2>1
             DEF PostStart, Idle, Rest, vars, configVars, instVars, mapVars, callVars,
                 coreVars, CallTypes
<1>2. ASSUME NEW i \in Insts, Poll(i) PROVE CallTypes'
  <2>1. Entries(i) \in SUBSET Registrations
    BY DEF BaseInv, TypeOK, Entries
  <2> QED BY <1>a, <1>2, <2>1
             DEF Poll, Rest, vars, configVars, instVars, mapVars, callVars, coreVars,
                 CallTypes
<1>3. CASE Register
  BY <1>a, <1>3
     DEF Register, Room, vars, configVars, instVars, mapVars, callVars, coreVars,
         CallTypes
<1>4. CASE RegisterFails
  <2>1. <<>> \in Seq(Keys)
    BY EmptySeq
  <2> QED BY <1>a, <1>4, <2>1
             DEF RegisterFails, Rest, vars, configVars, instVars, mapVars, callVars,
                 coreVars, CallTypes
<1>5. CASE InsertKey
  <2>1. newId \in Ids
    BY <1>a, <1>5 DEF InsertKey, Remembered, CallInv
  <2> QED BY <1>a, <1>5, <2>1
             DEF InsertKey, Remembered, vars, configVars, instVars, mapVars, callVars,
                 coreVars, CallTypes
<1>6. CASE Publish
  <2>1. todo # <<>>
    BY <1>a, <1>6 DEF Publish, Rest, CallInv
  <2>2. Tail(todo) \in Seq(Keys)
    BY <1>a, <2>1, HeadTailProperties DEF CallTypes
  <2> QED BY <1>a, <1>6, <2>2
             DEF Publish, Rest, vars, configVars, instVars, mapVars, callVars,
                 coreVars, CallTypes
<1>7. CASE CheckEvent
  <2>1. entries' \in SUBSET Registrations
    BY <1>a, <1>7 DEF CheckEvent, Dispatch, NoHandler, CallTypes
  <2> QED BY <1>a, <1>7, <2>1
             DEF CheckEvent, Dispatch, NoHandler, vars, configVars, instVars, mapVars,
                 callVars, coreVars, CallTypes
<1>8. CASE PollReturns
  BY <1>a, <1>8
     DEF PollReturns, Rest, vars, configVars, instVars, mapVars, callVars, coreVars,
         CallTypes
<1>9. CASE UNCHANGED callVars
  BY <1>a, <1>9 DEF vars, configVars, instVars, mapVars, callVars, coreVars, CallTypes
<1>10. \/ \E i \in Insts : PostStart(i) \/ Poll(i)
       \/ Register \/ RegisterFails \/ InsertKey \/ Publish \/ CheckEvent \/ PollReturns
       \/ UNCHANGED callVars
  BY
     DEF Next, CallStep, HandlerStep, Open, Idle, Rest, Start, Stop, Close, Unregister,
         EraseOwn, Destroy, CoreFires, Dispatch, NoHandler, Lookup, HandlerOnly,
         Handle, Held, FindKey, NativeRecv, ReadAndCall, ReadFails, CallbackReturns, UsesFreed,
         Write, vars,
         configVars, instVars, mapVars, callVars, coreVars
<1> QED BY <1>1, <1>2, <1>3, <1>4, <1>5, <1>6, <1>7, <1>8, <1>9, <1>10

(* Steps keep the types of the dispatch and of the core.                   *)
LEMMA CoreTypesStep == BaseInv /\ [Next]_vars => CoreTypes'
<1> SUFFICES ASSUME BaseInv, [Next]_vars PROVE CoreTypes'
  OBVIOUS
<1>a. CoreTypes /\ CallInv /\ HandlerTypes /\ WrittenInv
  BY TypesTogether DEF BaseInv
<1>b. handler \in Handlers => handler.at \in {"idle", "lookup", "handle", "find", "read", "callback"}
  BY DEF Handlers
<1>c. NoHandler \in Handlers
  BY DEF Handlers, NoHandler
<1>1. CASE Register
  <2>1. target \in Insts /\ todo # <<>> /\ todo \in Seq(Keys) /\ newId' \in Ids
    BY <1>1 DEF BaseInv, TypeOK, CallInv, Register, Room
  <2>2. Head(todo) \in Keys
    BY <2>1, HeadTailProperties
  <2>3. regs' \in SUBSET Registrations /\ regs \subseteq regs'
    BY <1>a, <1>1, <2>1, <2>2 DEF Register, Registrations, CoreTypes
  <2> QED BY <1>a, <1>1, <2>3 DEF Register, CoreTypes
<1>2. CASE CheckEvent
  <2>1. raised' \in SUBSET regs
    BY <1>a, <1>2 DEF CheckEvent, Dispatch, NoHandler, CoreTypes
  <2>2. handler' \in Handlers
    <3>1. PICK r \in entries : handler' = handler \/ handler' = [NoHandler EXCEPT !.at = "lookup", !.reg = r]
      BY <1>2 DEF CheckEvent, Dispatch
    <3>2. r \in Registrations
      BY <3>1 DEF BaseInv, TypeOK
    <3>3. [NoHandler EXCEPT !.at = "lookup", !.reg = r] \in Handlers
      BY <3>2 DEF NoHandler, Handlers
    <3> QED BY <1>a, <3>1, <3>3 DEF CoreTypes
  <2> QED BY <1>a, <1>2, <2>1, <2>2 DEF CheckEvent, CoreTypes
<1>3. CASE CoreFires
  <2>1. raised' \in SUBSET regs
    BY <1>a, <1>3 DEF CoreFires, Dispatch, NoHandler, CoreTypes
  <2>2. handler' \in Handlers
    <3>1. PICK r \in raised : handler' = [NoHandler EXCEPT !.at = "lookup", !.reg = r]
      BY <1>3 DEF CoreFires, Dispatch
    <3>2. r \in Registrations
      BY <1>a, <3>1 DEF CoreTypes
    <3>3. [NoHandler EXCEPT !.at = "lookup", !.reg = r] \in Handlers
      BY <3>2 DEF NoHandler, Handlers
    <3> QED BY <3>1, <3>3
  <2> QED BY <1>a, <1>3, <2>1, <2>2 DEF CoreFires, CoreTypes
<1>4. CASE Lookup
  <2>1. handler.reg \in Registrations /\ handler.reg.id \in Ids
    BY <1>a, <1>4 DEF Lookup, HandlerTypes, CoreTypes, Registrations
  <2>2. eventMap[handler.reg.id] \in Insts \cup {Nobody}
    BY <2>1 DEF BaseInv, TypeOK
  <2>3. handler' \in Handlers
    BY <1>a, <1>c, <1>4, <2>2 DEF Lookup, Handlers, CoreTypes
  <2> QED BY <1>a, <1>4, <2>3 DEF Lookup, HandlerOnly, coreVars, CoreTypes
<1>5. CASE Handle
  <2>1. handler' \in Handlers
    BY <1>a, <1>c, <1>5 DEF Handle, Handlers, CoreTypes
  <2> QED BY <1>a, <1>5, <2>1 DEF Handle, HandlerOnly, coreVars, CoreTypes
<1>6. CASE FindKey
  <2>1. handler.reg \in Registrations /\ handler.reg.id \in Ids /\ handler.inst \in Insts
    BY <1>a, <1>6 DEF FindKey, Held, HandlerTypes, CoreTypes, Registrations
  <2>2. keyMap[handler.inst][handler.reg.id] \in Keys \cup {Nobody}
    BY <2>1 DEF BaseInv, TypeOK
  <2>3. handler' \in Handlers
    BY <1>a, <1>c, <1>6, <2>2 DEF FindKey, Handlers, CoreTypes
  <2> QED BY <1>a, <1>6, <2>3 DEF FindKey, HandlerOnly, coreVars, CoreTypes
<1>7. CASE ReadAndCall \/ ReadFails
  <2>1. handler.inst \in Insts /\ handler.key \in Keys
    BY <1>a, <1>7 DEF NativeRecv, ReadAndCall, ReadFails, Held, HandlerTypes
  <2>2. written[handler.key] \in 0 .. MaxWrites
    BY <1>a, <2>1 DEF CoreTypes
  <2>3. read' \in [Insts -> [Keys -> 0 .. MaxWrites]]
    BY <1>a, <1>7, <2>1, <2>2 DEF NativeRecv, ReadAndCall, ReadFails, CoreTypes
  <2>4. handler' \in Handlers
    BY <1>a, <1>c, <1>7 DEF NativeRecv, ReadAndCall, ReadFails, Handlers, CoreTypes
  <2> QED BY <1>a, <1>7, <2>3, <2>4 DEF NativeRecv, ReadAndCall, ReadFails, HandlerOnly,
                                        coreVars, CoreTypes
<1>8. CASE CallbackReturns
  <2>1. handler' \in Handlers
    BY <1>c, <1>8 DEF CallbackReturns
  <2> QED BY <1>a, <1>8, <2>1 DEF CallbackReturns, HandlerOnly, coreVars, CoreTypes
<1>9. ASSUME NEW k \in Keys, Write(k) PROVE CoreTypes'
  <2>1. MaxWrites \in Nat
    BY ShmAssumption
  <2>2. writes' \in 0 .. MaxWrites
    BY <1>a, <1>9, <2>1 DEF Write, CoreTypes
  <2>3. written[k] \in Nat /\ written[k] <= writes /\ written[k] + 1 \in 0 .. MaxWrites
    BY <1>a, <1>9, <2>1 DEF Write, CoreTypes, WrittenInv
  <2>4. written' \in [Keys -> 0 .. MaxWrites]
    BY <1>a, <1>9, <2>3 DEF Write, CoreTypes
  <2>5. raised' \in SUBSET regs
    BY <1>a, <1>9 DEF Write, CoreTypes
  <2> QED BY <1>a, <1>9, <2>2, <2>4, <2>5 DEF Write, CoreTypes
<1>10. CASE UNCHANGED <<handler, coreVars, read>>
  BY <1>a, <1>10 DEF vars, configVars, instVars, mapVars, callVars, coreVars, CoreTypes
<1>11. \/ Register \/ CheckEvent \/ CoreFires \/ Lookup \/ Handle \/ FindKey \/ ReadAndCall \/ ReadFails
       \/ CallbackReturns
       \/ \E k \in Keys : Write(k)
       \/ UNCHANGED <<handler, coreVars, read>>
  BY
     DEF Next, CallStep, HandlerStep, Open, Idle, Rest, Start, Stop, Close, Unregister,
         EraseOwn, Destroy, PostStart, Poll, Entries, RegisterFails, InsertKey,
         Remembered, Publish, PollReturns, UsesFreed, vars, configVars, instVars,
         mapVars, callVars, coreVars
<1> QED BY <1>1, <1>2, <1>3, <1>4, <1>5, <1>6, <1>7, <1>8, <1>9, <1>10, <1>11

(* Steps keep what is known of the call that is under way.                 *)
LEMMA CallStepInv == BaseInv /\ [Next]_vars => CallInv'
<1> SUFFICES ASSUME BaseInv, [Next]_vars PROVE CallInv'
  OBVIOUS
<1>a. CallInv
  BY DEF BaseInv
<1>1. ASSUME NEW i \in Insts, Open(i) PROVE CallInv'
  <2>1. step' = "idle" /\ fresh' = fresh
    BY <1>1
       DEF Open, Idle, Rest, vars, configVars, instVars, mapVars, callVars, coreVars
  <2> QED BY <1>a, <1>1, <2>1 DEF CallInv, Open, Idle
<1>2. ASSUME NEW i \in Insts, Start(i) PROVE CallInv'
  <2>1. step' = "idle" /\ fresh' = fresh
    BY <1>2
       DEF Start, Idle, Rest, vars, configVars, instVars, mapVars, callVars, coreVars
  <2> QED BY <1>a, <1>2, <2>1 DEF CallInv, Start, Idle
<1>3. ASSUME NEW i \in Insts, Stop(i) PROVE CallInv'
  <2>1. step' = "idle" /\ fresh' = fresh
    BY <1>3
       DEF Stop, Idle, Rest, vars, configVars, instVars, mapVars, callVars, coreVars
  <2> QED BY <1>a, <1>3, <2>1 DEF CallInv, Stop, Idle
<1>4. ASSUME NEW i \in Insts, Close(i) PROVE CallInv'
  <2>1. step' = "idle" /\ fresh' = fresh
    BY <1>4
       DEF Close, Idle, Unregister, EraseOwn, Rest, vars, configVars, instVars,
           mapVars, callVars, coreVars
  <2> QED BY <1>a, <1>4, <2>1 DEF CallInv, Close, Idle
<1>5. ASSUME NEW i \in Insts, Destroy(i) PROVE CallInv'
  <2>1. step' = "idle" /\ fresh' = fresh
    BY <1>5
       DEF Destroy, Idle, Unregister, EraseOwn, Rest, vars, configVars, instVars,
           mapVars, callVars, coreVars
  <2> QED BY <1>a, <1>5, <2>1 DEF CallInv, Destroy, Idle
<1>6. ASSUME NEW i \in Insts, PostStart(i) PROVE CallInv'
  <2>1. i \in Insts /\ alive[i] /\ notify[i] # <<>>
    BY <1>6 DEF PostStart, Idle
  <2>2. /\ step' = "register" /\ target' = i /\ todo' = notify[i] /\ fresh' = {}
        /\ alive' = alive /\ notify' = notify
    BY <1>6 DEF PostStart
  <2> QED BY <2>1, <2>2 DEF CallInv
<1>7. ASSUME NEW i \in Insts, Poll(i) PROVE CallInv'
  <2>1. step' = "poll" /\ target' = i /\ fresh' = {} /\ alive' = alive /\ alive[i]
    BY <1>a, <1>7
       DEF Poll, Idle, vars, configVars, instVars, mapVars, callVars, coreVars, CallInv
  <2> QED BY <2>1 DEF CallInv
<1>8. CASE Register
  <2>1. newId' \in Ids
    BY <1>8 DEF Register, Room
  <2> QED BY <1>a, <1>8, <2>1
             DEF Register, vars, configVars, instVars, mapVars, callVars, coreVars,
                 CallInv
<1>9. CASE RegisterFails
  BY <1>a, <1>9
     DEF RegisterFails, Rest, vars, configVars, instVars, mapVars, callVars, coreVars,
         CallInv
<1>10. CASE InsertKey
  BY <1>a, <1>10
     DEF InsertKey, Remembered, vars, configVars, instVars, mapVars, callVars,
         coreVars, CallInv
<1>11. CASE Publish
  <2>1. todo # <<>> /\ todo \in Seq(Keys)
    BY <1>a, <1>11 DEF Publish, CallInv, BaseInv, TypeOK
  <2>2. Len(todo) # 1 => todo' # <<>>
    <3>1. Len(todo) \in Nat /\ Len(todo) # 0 /\ Len(Tail(todo)) = Len(todo) - 1
      BY <2>1, EmptySeq, LenProperties, HeadTailProperties
    <3>2. todo' = Tail(todo)
      BY <1>11 DEF Publish
    <3> QED BY <3>1, <3>2, EmptySeq
  <2>3. UNCHANGED <<alive, notify, regs>>
    BY <1>11 DEF Publish, vars, configVars, instVars, mapVars, callVars, coreVars, Rest
  <2>4. CASE Len(todo) = 1
    <3>1. step' = "idle" /\ fresh' = {}
      BY <1>11, <2>4 DEF Publish
    <3> QED BY <3>1 DEF CallInv
  <2>5. CASE Len(todo) # 1
    <3>1. step' = "register" /\ target' = target
      BY <1>11, <2>5 DEF Publish
    <3> QED BY <1>a, <1>11, <2>2, <2>3, <2>5, <3>1 DEF CallInv, Publish
  <2> QED BY <2>4, <2>5
<1>12. CASE CheckEvent
  BY <1>a, <1>12
     DEF CheckEvent, Dispatch, NoHandler, vars, configVars, instVars, mapVars,
         callVars, coreVars, CallInv
<1>13. CASE PollReturns
  BY <1>a, <1>13
     DEF PollReturns, Rest, vars, configVars, instVars, mapVars, callVars, coreVars,
         CallInv
<1>14. CASE UNCHANGED <<alive, notify, callVars, regs>>
  BY <1>a, <1>14 DEF vars, configVars, instVars, mapVars, callVars, coreVars, CallInv
<1>15. \/ \E i \in Insts : Open(i) \/ Start(i) \/ Stop(i) \/ Close(i) \/ Destroy(i) \/ PostStart(i) \/ Poll(i)
       \/ Register \/ RegisterFails \/ InsertKey \/ Publish \/ CheckEvent \/ PollReturns
       \/ UNCHANGED <<alive, notify, callVars, regs>>
  BY
     DEF Next, CallStep, HandlerStep, CoreFires, Dispatch, NoHandler, Lookup,
         HandlerOnly, Handle, Held, FindKey, NativeRecv, ReadAndCall, ReadFails,
         CallbackReturns, UsesFreed,
         Write, vars, configVars, instVars, mapVars, callVars, coreVars
<1> QED BY <1>1, <1>2, <1>3, <1>4, <1>5, <1>6, <1>7, <1>8, <1>9, <1>10, <1>11, <1>12,
           <1>13, <1>14, <1>15

(* A dispatch holds a registration, an instance and a key, at every step.  *)
LEMMA HandlerTypesStep == BaseInv /\ [Next]_vars => HandlerTypes'
<1> SUFFICES ASSUME BaseInv, [Next]_vars PROVE HandlerTypes'
  OBVIOUS
<1>a. HandlerTypes /\ CoreTypes
  BY TypesTogether DEF BaseInv
<1>1. CASE Register
  BY <1>a, <1>1
     DEF Register, Room, vars, configVars, instVars, mapVars, callVars, coreVars,
         HandlerTypes
<1>2. CASE CheckEvent
  <2>1. PICK r \in entries : handler' = handler \/ (r \in raised /\ handler' = [NoHandler EXCEPT !.at = "lookup", !.reg = r])
    BY <1>2 DEF CheckEvent, Dispatch
  <2>2. r \in raised => r \in regs
    BY <1>a DEF CoreTypes
  <2> QED BY <1>a, <1>2, <2>1, <2>2 DEF CheckEvent, NoHandler, HandlerTypes
<1>3. CASE CoreFires
  <2>1. PICK r \in raised : handler' = [NoHandler EXCEPT !.at = "lookup", !.reg = r]
    BY <1>3 DEF CoreFires, Dispatch
  <2>2. r \in regs
    BY <1>a DEF CoreTypes
  <2> QED BY <1>3, <2>1, <2>2 DEF CoreFires, NoHandler, HandlerTypes
<1>4. CASE Lookup
  <2>1. handler.reg \in regs /\ handler.reg.id \in Ids
    BY <1>a, <1>4 DEF Lookup, HandlerTypes, CoreTypes, Registrations
  <2>2. eventMap[handler.reg.id] \in Insts \cup {Nobody}
    BY <2>1 DEF BaseInv, TypeOK
  <2> QED BY <1>a, <1>4, <2>1, <2>2
             DEF Lookup, HandlerOnly, vars, configVars, instVars, mapVars, callVars,
                 coreVars, NoHandler, HandlerTypes, CoreTypes, Handlers
<1>5. CASE Handle
  <2> QED BY <1>a, <1>5
             DEF Handle, Held, NoHandler, HandlerOnly, vars, configVars, instVars,
                 mapVars, callVars, coreVars, HandlerTypes, CoreTypes, Handlers
<1>6. CASE FindKey
  <2>1. handler.reg \in regs /\ handler.reg.id \in Ids /\ handler.inst \in Insts
    BY <1>a, <1>6 DEF FindKey, Held, HandlerTypes, CoreTypes, Registrations
  <2>2. keyMap[handler.inst][handler.reg.id] \in Keys \cup {Nobody}
    BY <2>1 DEF BaseInv, TypeOK
  <2> QED BY <1>a, <1>6, <2>1, <2>2
             DEF FindKey, HandlerOnly, vars, configVars, instVars, mapVars, callVars,
                 coreVars, NoHandler, HandlerTypes, CoreTypes, Handlers
<1>7. CASE ReadAndCall \/ ReadFails
  <2> QED BY <1>a, <1>7
             DEF NativeRecv, ReadAndCall, ReadFails, Held, NoHandler, HandlerOnly, vars,
                 configVars, instVars, mapVars,
                 callVars, coreVars, HandlerTypes, CoreTypes, Handlers
<1>8. CASE CallbackReturns
  BY <1>a, <1>8
     DEF CallbackReturns, NoHandler, HandlerOnly, vars, configVars, instVars, mapVars,
         callVars, coreVars, HandlerTypes
<1>9. CASE UNCHANGED <<handler, regs>>
  BY <1>a, <1>9
     DEF vars, configVars, instVars, mapVars, callVars, coreVars, HandlerTypes
<1>10. \/ Register \/ CheckEvent \/ CoreFires \/ Lookup \/ Handle \/ FindKey \/ ReadAndCall \/ ReadFails
       \/ CallbackReturns
       \/ UNCHANGED <<handler, regs>>
  BY
     DEF Next, CallStep, HandlerStep, Open, Idle, Rest, Start, Stop, Close, Unregister,
         EraseOwn, Destroy, PostStart, Poll, Entries, RegisterFails, InsertKey,
         Remembered, Publish, PollReturns, UsesFreed, Write, vars, configVars,
         instVars, mapVars, callVars, coreVars
<1> QED BY <1>1, <1>2, <1>3, <1>4, <1>5, <1>6, <1>7, <1>8, <1>9, <1>10

(* Numbers are registered only while there are keys to notify of.          *)
LEMMA NotifyStep == BaseInv /\ [Next]_vars => NotifyInv'
<1> SUFFICES ASSUME BaseInv, [Next]_vars PROVE NotifyInv'
  OBVIOUS
<1>a. NotifyInv /\ InstTypes /\ MapTypes /\ CallInv
  BY TypesTogether DEF BaseInv
<1>1. ASSUME NEW i \in Insts, Open(i) PROVE NotifyInv'
  BY <1>a, <1>1
     DEF Open, Idle, Rest, vars, configVars, instVars, mapVars, callVars, coreVars,
         NotifyInv, InstTypes, MapTypes, CallInv
<1>2. ASSUME NEW i \in Insts, Close(i) PROVE NotifyInv'
  BY <1>a, <1>2
     DEF Close, Idle, Unregister, EraseOwn, Rest, vars, configVars, instVars, mapVars,
         callVars, coreVars, NotifyInv, InstTypes, MapTypes, CallInv
<1>3. ASSUME NEW i \in Insts, Destroy(i) PROVE NotifyInv'
  BY <1>a, <1>3
     DEF Destroy, Idle, Unregister, EraseOwn, Rest, vars, configVars, instVars,
         mapVars, callVars, coreVars, NotifyInv, InstTypes, MapTypes, CallInv
<1>4. CASE RegisterFails
  BY <1>a, <1>4
     DEF RegisterFails, Rest, vars, configVars, instVars, mapVars, callVars, coreVars,
         NotifyInv, InstTypes, MapTypes, CallInv
<1>5. CASE InsertKey
  BY <1>a, <1>5
     DEF InsertKey, Remembered, vars, configVars, instVars, mapVars, callVars,
         coreVars, NotifyInv, InstTypes, MapTypes, CallInv
<1>6. CASE UNCHANGED <<notify, registered>>
  BY <1>a, <1>6 DEF vars, configVars, instVars, mapVars, callVars, coreVars, NotifyInv
<1>7. \/ \E i \in Insts : Open(i) \/ Close(i) \/ Destroy(i)
      \/ RegisterFails \/ InsertKey
      \/ UNCHANGED <<notify, registered>>
  BY
     DEF Next, CallStep, HandlerStep, Start, Idle, Rest, Stop, PostStart, Poll,
         Entries, Register, Room, Publish, CheckEvent, Dispatch, NoHandler,
         PollReturns, CoreFires, Lookup, HandlerOnly, Handle, Held, FindKey,
         NativeRecv, ReadAndCall, ReadFails, CallbackReturns, UsesFreed, Write, vars,
         configVars, instVars,
         mapVars, callVars, coreVars
<1> QED BY <1>1, <1>2, <1>3, <1>4, <1>5, <1>6, <1>7

(* Configs and definitions do not change.                                  *)
LEMMA DefStep == BaseInv /\ [Next]_vars => DefInv' /\ config' = config /\ pduDef' = pduDef
<1> SUFFICES ASSUME BaseInv, [Next]_vars PROVE config' = config /\ pduDef' = pduDef
  BY DEF BaseInv, DefInv
<1> QED
  BY
     DEF Next, CallStep, HandlerStep, Open, Idle, Rest, Start, Stop, Close, Unregister,
         EraseOwn, Destroy, PostStart, Poll, Entries, Register, Room, RegisterFails,
         InsertKey, Remembered, Publish, CheckEvent, Dispatch, NoHandler, PollReturns,
         CoreFires, Lookup, HandlerOnly, Handle, Held, FindKey, NativeRecv, ReadAndCall,
         ReadFails,
         CallbackReturns, UsesFreed, Write, vars, configVars, instVars, mapVars,
         callVars, coreVars

(* A write counts for its channel and for the bound.                       *)
LEMMA WrittenStep == BaseInv /\ [Next]_vars => WrittenInv'
<1> SUFFICES ASSUME BaseInv, [Next]_vars PROVE WrittenInv'
  OBVIOUS
<1>a. WrittenInv /\ CoreTypes /\ MaxWrites \in Nat
  BY TypesTogether, ShmAssumption DEF BaseInv
<1>1. ASSUME NEW k \in Keys, Write(k) PROVE WrittenInv'
  <2>1. writes' = writes + 1 /\ written' = [written EXCEPT ![k] = @ + 1]
    BY <1>1 DEF Write
  <2> QED BY <1>a, <2>1 DEF WrittenInv, CoreTypes
<1>2. ASSUME UNCHANGED <<written, writes>> PROVE WrittenInv'
  BY <1>a, <1>2 DEF WrittenInv
<1>3. (\E k \in Keys : Write(k)) \/ UNCHANGED <<written, writes>>
  BY
     DEF Next, CallStep, HandlerStep, Open, Idle, Rest, Start, Stop, Close, Unregister,
         EraseOwn, Destroy, PostStart, Poll, Entries, Register, Room, RegisterFails,
         InsertKey, Remembered, Publish, CheckEvent, Dispatch, NoHandler, PollReturns,
         CoreFires, Lookup, HandlerOnly, Handle, Held, FindKey, NativeRecv, ReadAndCall,
         ReadFails,
         CallbackReturns, UsesFreed, vars, configVars, instVars, mapVars, callVars,
         coreVars
<1> QED BY <1>1, <1>2, <1>3

(* The first part is inductive.                                            *)
LEMMA BaseStep == BaseInv /\ [Next]_vars => BaseInv'
BY InstTypesStep, MapTypesStep, CallTypesStep, CoreTypesStep, TypesTogether,
   CallStepInv,
   HandlerTypesStep, NotifyStep, DefStep, WrittenStep DEF BaseInv, TypeOK, InstTypes, MapTypes,
                                                          CallTypes, CoreTypes

(* It holds initially: the definitions are those of the loaded file.       *)
LEMMA BaseInit == Init => BaseInv
<1> SUFFICES ASSUME Init PROVE BaseInv
  OBVIOUS
<1>1. PduFile \in Files /\ MaxWrites \in Nat
  BY ShmAssumption
<1>2. Load(PduFile).table \in Tables
  BY <1>1, LoadType DEF LoadStates
<1>3. DefInv
  BY <1>2 DEF Init, DefInv, Tables, EntryRecords
<1>4. <<>> \in Seq(Keys)
  BY EmptySeq
<1>5. TypeOK
  <2>1. InstTypes
    BY <1>3, <1>4 DEF Init, InstTypes, DefInv
  <2>2. MapTypes
    BY DEF Init, MapTypes
  <2>3. CallTypes
    BY <1>4 DEF Init, CallTypes
  <2>4. CoreTypes
    BY <1>1 DEF Init, CoreTypes, Handlers, NoHandler
  <2> QED BY <2>1, <2>2, <2>3, <2>4, TypesTogether
<1>6. CallInv /\ HandlerTypes /\ NotifyInv /\ WrittenInv
  BY DEF Init, CallInv, HandlerTypes, NotifyInv, WrittenInv, NoHandler
<1> QED BY <1>3, <1>5, <1>6 DEF BaseInv

(* A registration's number is new, or it repeats one that was there.       *)
LEMMA NewNumber ==
  ASSUME BaseInv, OwnInv, Register
  PROVE  \/ newId' = 1 + Cardinality(regs)
         \/ [inst |-> target, key |-> Head(todo), id |-> newId'] \in regs
<1> DEFINE k == Head(todo)
           known == {r \in regs : r.inst = target /\ r.key = k}
<1>1. target \in Insts /\ alive[target] /\ newId' = Number(target, k)
  BY DEF BaseInv, CallInv, Register
<1>2. config \in Deployments /\ config \in [Insts -> Configs] /\ regs \subseteq Registrations
  BY ShmAssumption DEF BaseInv, TypeOK
<1>3. CASE config[target].impl # "poll"
  BY <1>1, <1>3 DEF Number, CoreNumber
<1>4. CASE config[target].impl = "poll" /\ known = {}
  <2>1. \A r \in regs : r.inst = target
    <3> SUFFICES ASSUME NEW r \in regs PROVE r.inst = target
      OBVIOUS
    <3>1. r.inst \in Insts /\ config[r.inst].impl # "absent"
      BY <1>2 DEF OwnInv, RegsInv, Registrations
    <3>2. config[r.inst].impl # "callback"
      BY <1>1, <1>2, <1>4, <3>1, ShmAssumption
    <3>3. config[r.inst] \in Configs
      BY <1>2, <3>1
    <3>4. config[r.inst].impl = "poll"
      BY <3>1, <3>2, <3>3 DEF Configs
    <3> QED BY <1>1, <1>4, <3>1, <3>4 DEF OwnInv, OnePoll
  <2>2. {r \in regs : r.inst = target} = regs
    BY <2>1
  <2> QED BY <1>1, <1>4, <2>2 DEF Number, PollNumber
<1>5. CASE config[target].impl = "poll" /\ known # {}
  <2> DEFINE r == CHOOSE r \in known : TRUE
  <2>1. r \in known
    BY <1>5
  <2>2. newId' = r.id
    BY <1>1, <1>5 DEF Number, PollNumber
  <2> HIDE DEF r
  <2>3. r \in regs /\ r \in Registrations /\ r.inst = target /\ r.key = k
    BY <1>2, <2>1
  <2>4. r = [inst |-> target, key |-> k, id |-> newId']
    BY <2>2, <2>3 DEF Registrations
  <2> QED BY <2>3, <2>4
<1> QED BY <1>3, <1>4, <1>5

(* Numbers stay unique, and registrations are never taken back.            *)
LEMMA RegsStep == BaseInv /\ OwnInv /\ [Next]_vars => RegsInv' /\ regs \subseteq regs'
<1> SUFFICES ASSUME BaseInv, OwnInv, [Next]_vars PROVE RegsInv' /\ regs \subseteq regs'
  OBVIOUS
<1>1. RegsInv /\ config' = config /\ regs \subseteq Registrations /\ alive \in [Insts -> BOOLEAN]
  BY DefStep DEF OwnInv, BaseInv, TypeOK
<1>2. CASE Register
  <2> DEFINE r == [inst |-> target, key |-> Head(todo), id |-> newId']
  <2>1. regs' = regs \cup {r} /\ alive' = alive
    BY <1>2 DEF Register, instVars
  <2>2. CASE r \in regs
    <3>1. regs' = regs
      BY <2>1, <2>2
    <3> QED BY <1>1, <2>1, <3>1 DEF RegsInv
  <2>3. CASE r \notin regs
    <3>1. newId' = 1 + Cardinality(regs)
      BY <1>2, <2>3, NewNumber
    <3>2. IsFiniteSet(regs) /\ Cardinality(regs) \in Nat
      BY <1>1, FS_CardinalityType DEF RegsInv
    <3>3. IsFiniteSet(regs') /\ Cardinality(regs') = Cardinality(regs) + 1
      BY <2>1, <2>3, <3>2, FS_AddElement
    <3>4. config[target].impl # "absent"
      BY <1>1, <1>2 DEF BaseInv, CallInv, Register, RegsInv
    <3>5. \A s \in regs : s.id \in Nat /\ s.id <= Cardinality(regs)
      BY <1>1 DEF RegsInv, Registrations, Ids
    <3>6. r.id = 1 + Cardinality(regs) /\ r.inst = target
      BY <3>1
    <3> HIDE DEF r
    <3>7. \A s \in regs' : s \in regs \/ s = r
      BY <2>1
    <3>8. \A s \in regs' : s.id <= Cardinality(regs') /\ config[s.inst].impl # "absent"
      BY <1>1, <3>2, <3>3, <3>4, <3>5, <3>6, <3>7 DEF RegsInv
    <3>9. \A s, u \in regs' : s.id = u.id => s = u
      BY <1>1, <3>2, <3>5, <3>6, <3>7 DEF RegsInv
    <3> QED BY <1>1, <2>1, <3>3, <3>8, <3>9 DEF RegsInv
  <2> QED BY <2>1, <2>2, <2>3
<1>3. ASSUME NEW i \in Insts, Destroy(i) PROVE RegsInv' /\ regs \subseteq regs'
  <2>1. regs' = regs /\ alive' = [alive EXCEPT ![i] = FALSE]
    BY <1>3 DEF Destroy, Rest, coreVars
  <2> QED BY <1>1, <2>1 DEF RegsInv
<1>4. ASSUME UNCHANGED <<regs, alive>> PROVE RegsInv' /\ regs \subseteq regs'
  BY <1>1, <1>4 DEF RegsInv
<1>5. Register \/ (\E i \in Insts : Destroy(i)) \/ UNCHANGED <<regs, alive>>
  BY
     DEF Next, CallStep, HandlerStep, Open, Idle, Rest, Start, Stop, Close, Unregister,
         EraseOwn, PostStart, Poll, Entries, Room, RegisterFails, InsertKey,
         Remembered, Publish, CheckEvent, Dispatch, NoHandler, PollReturns, CoreFires,
         Lookup, HandlerOnly, Handle, Held, FindKey, NativeRecv, ReadAndCall, ReadFails,
         CallbackReturns,
         UsesFreed, Write, vars, configVars, instVars, mapVars, callVars, coreVars
<1> QED BY <1>2, <1>3, <1>4, <1>5

(* The event map and registered_event_ids_ know an instance's own numbers. *)
LEMMA OwnsEventsStep == BaseInv /\ OwnInv /\ [Next]_vars => OwnsEvents'
<1> SUFFICES ASSUME BaseInv, OwnInv, [Next]_vars PROVE OwnsEvents'
  OBVIOUS
<1>a. /\ regs \subseteq regs' /\ MapTypes /\ CallTypes /\ CallInv /\ HandlerTypes
      /\ Nobody \notin Insts \cup Keys /\ regs \subseteq Registrations
  BY RegsStep, TypesTogether, ShmAssumption DEF BaseInv, TypeOK
<1>b. OwnsEvents
  BY DEF OwnInv
<1>1. ASSUME NEW i \in Insts, Close(i) PROVE OwnsEvents'
  <2>1. /\ eventMap' = [id \in Ids |-> IF id \in registered[i] THEN Nobody ELSE eventMap[id]]
        /\ registered' = [registered EXCEPT ![i] = {}]
        /\ regs' = regs
    BY <1>1
       DEF Close, Idle, Unregister, EraseOwn, Rest, vars, configVars, instVars,
           mapVars, callVars, coreVars
  <2> QED BY <1>a, <1>b, <2>1 DEF OwnsEvents, MapTypes
<1>2. ASSUME NEW i \in Insts, Destroy(i) PROVE OwnsEvents'
  <2>1. /\ eventMap' = [id \in Ids |-> IF id \in registered[i] THEN Nobody ELSE eventMap[id]]
        /\ registered' = [registered EXCEPT ![i] = {}]
        /\ regs' = regs
    BY <1>2
       DEF Destroy, Idle, Unregister, EraseOwn, Rest, vars, configVars, instVars,
           mapVars, callVars, coreVars
  <2> QED BY <1>a, <1>b, <2>1 DEF OwnsEvents, MapTypes
<1>3. CASE RegisterFails
  <2>1. /\ eventMap' = [id \in Ids |-> IF id \in fresh THEN Nobody ELSE eventMap[id]]
        /\ registered' = [registered EXCEPT ![target] = {}]
        /\ regs' = regs
    BY <1>3
       DEF RegisterFails, Rest, vars, configVars, instVars, mapVars, callVars, coreVars
  <2> QED BY <1>a, <1>b, <2>1 DEF OwnsEvents, MapTypes
<1>4. CASE InsertKey
  <2>1. /\ registered' = [registered EXCEPT ![target] = registered[target] \cup {newId}]
        /\ eventMap' = eventMap /\ regs' = regs
    BY <1>4
       DEF InsertKey, Remembered, vars, configVars, instVars, mapVars, callVars,
           coreVars
  <2>2. /\ todo # <<>> /\ todo \in Seq(Keys)
        /\ [inst |-> target, key |-> Head(todo), id |-> newId] \in regs
    BY <1>a, <1>4 DEF InsertKey, CallInv, CallTypes
  <2>3. Head(todo) \in Keys
    BY <2>2, HeadTailProperties
  <2> QED BY <1>a, <1>b, <2>1, <2>2, <2>3 DEF OwnsEvents, MapTypes
<1>5. CASE Publish
  <2>1. /\ eventMap' = [eventMap EXCEPT ![newId] = target]
        /\ registered' = registered /\ regs' = regs
    BY <1>5 DEF Publish, Rest, vars, configVars, instVars, mapVars, callVars, coreVars
  <2>2. /\ todo # <<>> /\ todo \in Seq(Keys) /\ newId \in Ids
        /\ [inst |-> target, key |-> Head(todo), id |-> newId] \in regs
    BY <1>a, <1>5 DEF Publish, CallInv, CallTypes
  <2>3. Head(todo) \in Keys
    BY <2>2, HeadTailProperties
  <2> QED BY <1>a, <1>b, <2>1, <2>2, <2>3 DEF OwnsEvents, MapTypes
<1>6. CASE UNCHANGED <<eventMap, registered>>
  BY <1>a, <1>b, <1>6
     DEF vars, configVars, instVars, mapVars, callVars, coreVars, OwnsEvents
<1>7. \/ \E i \in Insts : Close(i) \/ Destroy(i)
      \/ RegisterFails \/ InsertKey \/ Publish
      \/ UNCHANGED <<eventMap, registered>>
  BY
     DEF Next, CallStep, HandlerStep, Open, Idle, Rest, Start, Stop, PostStart, Poll,
         Entries, Register, Room, CheckEvent, Dispatch, NoHandler, PollReturns,
         CoreFires, Lookup, HandlerOnly, Handle, Held, FindKey, NativeRecv, ReadAndCall,
         ReadFails,
         CallbackReturns, UsesFreed, Write, vars, configVars, instVars, mapVars,
         callVars, coreVars
<1> QED BY <1>1, <1>2, <1>3, <1>4, <1>5, <1>6, <1>7

(* The key map gives a number the key it was registered for.               *)
LEMMA OwnsKeysStep == BaseInv /\ OwnInv /\ [Next]_vars => OwnsKeys'
<1> SUFFICES ASSUME BaseInv, OwnInv, [Next]_vars PROVE OwnsKeys'
  OBVIOUS
<1>a. /\ regs \subseteq regs' /\ MapTypes /\ CallTypes /\ CallInv /\ HandlerTypes
      /\ Nobody \notin Insts \cup Keys /\ regs \subseteq Registrations
  BY RegsStep, TypesTogether, ShmAssumption DEF BaseInv, TypeOK
<1>b. OwnsKeys
  BY DEF OwnInv
<1>1. ASSUME NEW i \in Insts, Close(i) PROVE OwnsKeys'
  <2>1. keyMap' = [keyMap EXCEPT ![i] = [id \in Ids |-> Nobody]] /\ regs' = regs
    BY <1>1
       DEF Close, Idle, Unregister, EraseOwn, Rest, vars, configVars, instVars,
           mapVars, callVars, coreVars
  <2> QED BY <1>a, <1>b, <2>1 DEF OwnsKeys, MapTypes
<1>2. ASSUME NEW i \in Insts, Destroy(i) PROVE OwnsKeys'
  <2>1. keyMap' = [keyMap EXCEPT ![i] = [id \in Ids |-> Nobody]] /\ regs' = regs
    BY <1>2
       DEF Destroy, Idle, Unregister, EraseOwn, Rest, vars, configVars, instVars,
           mapVars, callVars, coreVars
  <2> QED BY <1>a, <1>b, <2>1 DEF OwnsKeys, MapTypes
<1>3. CASE RegisterFails
  <2>1. target \in Insts /\ regs' = regs
    BY <1>a, <1>3
       DEF RegisterFails, CallInv, vars, configVars, instVars, mapVars, callVars,
           coreVars, Rest
  <2>2. keyMap' = [keyMap EXCEPT ![target] =
                     [id \in Ids |-> IF id \in fresh THEN Nobody ELSE keyMap[target][id]]]
    BY <1>a, <1>3, <2>1 DEF RegisterFails, MapTypes
  <2> QED BY <1>a, <1>b, <2>1, <2>2 DEF OwnsKeys, MapTypes
<1>4. CASE InsertKey
  <2>1. keyMap' = [keyMap EXCEPT ![target][newId] = Head(todo)] /\ regs' = regs
    BY <1>4
       DEF InsertKey, Remembered, vars, configVars, instVars, mapVars, callVars,
           coreVars
  <2>2. /\ target \in Insts /\ newId \in Ids
        /\ [inst |-> target, key |-> Head(todo), id |-> newId] \in regs
    BY <1>a, <1>4 DEF InsertKey, CallInv
  <2> QED BY <1>a, <1>b, <2>1, <2>2 DEF OwnsKeys, MapTypes
<1>5. CASE UNCHANGED keyMap
  BY <1>a, <1>b, <1>5
     DEF vars, configVars, instVars, mapVars, callVars, coreVars, OwnsKeys
<1>6. \/ \E i \in Insts : Close(i) \/ Destroy(i)
      \/ RegisterFails \/ InsertKey
      \/ UNCHANGED keyMap
  BY
     DEF Next, CallStep, HandlerStep, Open, Idle, Rest, Start, Stop, PostStart, Poll,
         Entries, Register, Room, Publish, CheckEvent, Dispatch, NoHandler,
         PollReturns, CoreFires, Lookup, HandlerOnly, Handle, Held, FindKey,
         NativeRecv, ReadAndCall, ReadFails, CallbackReturns, UsesFreed, Write, vars,
         configVars, instVars,
         mapVars, callVars, coreVars
<1> QED BY <1>1, <1>2, <1>3, <1>4, <1>5, <1>6

(* post_start rolls back its own numbers only.                             *)
LEMMA OwnsFreshStep == BaseInv /\ OwnInv /\ [Next]_vars => OwnsFresh'
<1> SUFFICES ASSUME BaseInv, OwnInv, [Next]_vars PROVE OwnsFresh'
  OBVIOUS
<1>a. /\ regs \subseteq regs' /\ MapTypes /\ CallTypes /\ CallInv /\ HandlerTypes
      /\ Nobody \notin Insts \cup Keys /\ regs \subseteq Registrations
  BY RegsStep, TypesTogether, ShmAssumption DEF BaseInv, TypeOK
<1>b. OwnsFresh
  BY DEF OwnInv
<1>1. ASSUME NEW i \in Insts, PostStart(i) PROVE OwnsFresh'
  BY <1>a, <1>b, <1>1
     DEF PostStart, Idle, Rest, vars, configVars, instVars, mapVars, callVars,
         coreVars, OwnsFresh, MapTypes
<1>2. ASSUME NEW i \in Insts, Poll(i) PROVE OwnsFresh'
  <2>1. fresh' = {}
    BY <1>a, <1>2 DEF Poll, Idle, CallInv
  <2> QED BY <2>1 DEF OwnsFresh
<1>3. CASE Register
  <2>1. fresh' = fresh /\ target' = target
    BY <1>3 DEF Register
  <2> QED BY <1>a, <1>b, <2>1 DEF OwnsFresh
<1>4. CASE RegisterFails
  BY <1>a, <1>b, <1>4
     DEF RegisterFails, Rest, vars, configVars, instVars, mapVars, callVars, coreVars,
         OwnsFresh, MapTypes
<1>5. CASE InsertKey
  <2>1. fresh' = fresh \cup {newId} /\ regs' = regs /\ target' = target
    BY <1>5
       DEF InsertKey, Remembered, vars, configVars, instVars, mapVars, callVars,
           coreVars
  <2>2. /\ todo # <<>> /\ todo \in Seq(Keys)
        /\ [inst |-> target, key |-> Head(todo), id |-> newId] \in regs
    BY <1>a, <1>5 DEF InsertKey, CallInv, CallTypes
  <2>3. Head(todo) \in Keys
    BY <2>2, HeadTailProperties
  <2> QED BY <1>a, <1>b, <2>1, <2>2, <2>3 DEF OwnsFresh
<1>6. CASE Publish
  BY <1>a, <1>b, <1>6
     DEF Publish, Rest, vars, configVars, instVars, mapVars, callVars, coreVars,
         OwnsFresh, MapTypes
<1>7. CASE PollReturns
  <2>1. fresh' = {}
    BY <1>a, <1>7 DEF PollReturns, CallInv
  <2> QED BY <2>1 DEF OwnsFresh
<1>8. CASE UNCHANGED <<fresh, target>>
  BY <1>a, <1>b, <1>8
     DEF vars, configVars, instVars, mapVars, callVars, coreVars, OwnsFresh
<1>9. \/ \E i \in Insts : PostStart(i) \/ Poll(i)
      \/ Register \/ RegisterFails \/ InsertKey \/ Publish \/ PollReturns
      \/ UNCHANGED <<fresh, target>>
  BY
     DEF Next, CallStep, HandlerStep, Open, Idle, Rest, Start, Stop, Close, Unregister,
         EraseOwn, Destroy, CheckEvent, Dispatch, NoHandler, CoreFires, Lookup,
         HandlerOnly, Handle, Held, FindKey, NativeRecv, ReadAndCall, ReadFails,
         CallbackReturns, UsesFreed,
         Write, vars, configVars, instVars, mapVars, callVars, coreVars
<1> QED BY <1>1, <1>2, <1>3, <1>4, <1>5, <1>6, <1>7, <1>8, <1>9

(* The two look-ups of a dispatch find what was registered: by the         *)
(* uniqueness of numbers it does not matter what was closed, opened and    *)
(* registered since the event.                                             *)
LEMMA OwnsHandlerStep == BaseInv /\ OwnInv /\ [Next]_vars => OwnsHandler'
<1> SUFFICES ASSUME BaseInv, OwnInv, [Next]_vars PROVE OwnsHandler'
  OBVIOUS
<1>a. /\ regs \subseteq regs' /\ MapTypes /\ CallTypes /\ CallInv /\ HandlerTypes
      /\ Nobody \notin Insts \cup Keys /\ regs \subseteq Registrations
  BY RegsStep, TypesTogether, ShmAssumption DEF BaseInv, TypeOK
<1>b. OwnsHandler
  BY DEF OwnInv
<1>1. CASE CheckEvent
  <2>1. PICK r \in entries : handler' = handler \/ handler' = [NoHandler EXCEPT !.at = "lookup", !.reg = r]
    BY <1>1 DEF CheckEvent, Dispatch
  <2> QED BY <1>b, <2>1 DEF NoHandler, OwnsHandler
<1>2. CASE CoreFires
  <2>1. PICK r \in raised : handler' = [NoHandler EXCEPT !.at = "lookup", !.reg = r]
    BY <1>2 DEF CoreFires, Dispatch
  <2> QED BY <2>1 DEF NoHandler, OwnsHandler
<1>3. CASE Lookup
  <2> DEFINE i == eventMap[handler.reg.id]
  <2>1. handler.reg \in regs /\ handler.reg \in Registrations /\ handler.reg.id \in Ids
    BY <1>a, <1>3 DEF Lookup, HandlerTypes, Registrations
  <2>2. CASE i = Nobody
    <3>1. handler' = NoHandler
      BY <1>3, <2>2 DEF Lookup
    <3> QED BY <3>1 DEF OwnsHandler, NoHandler
  <2>3. CASE i # Nobody
    <3>1. i \in Insts
      BY <1>a, <2>1, <2>3 DEF MapTypes
    <3>2. PICK k \in Keys : [inst |-> i, key |-> k, id |-> handler.reg.id] \in regs
      BY <2>1, <3>1 DEF OwnInv, OwnsEvents
    <3>3. [inst |-> i, key |-> k, id |-> handler.reg.id] = handler.reg
      BY <2>1, <3>2 DEF OwnInv, RegsInv
    <3>4. i = handler.reg.inst
      BY <3>3
    <3>5. handler' = [handler EXCEPT !.at = "handle", !.inst = i] /\ handler \in Handlers
      BY <1>3, <2>3 DEF Lookup, BaseInv, TypeOK
    <3> HIDE DEF i
    <3>6. handler'.at = "handle" /\ handler'.inst = i /\ handler'.reg = handler.reg
      BY <3>5 DEF Handlers
    <3> QED BY <3>4, <3>6 DEF OwnsHandler
  <2> QED BY <2>2, <2>3
<1>4. CASE Handle
  <2>1. handler \in Handlers
    BY DEF BaseInv, TypeOK
  <2> QED BY <1>b, <1>4, <2>1 DEF Handle, Held, NoHandler, OwnsHandler, Handlers
<1>5. CASE FindKey
  <2> DEFINE k == keyMap[handler.inst][handler.reg.id]
  <2>1. /\ handler.reg \in regs /\ handler.reg.id \in Ids /\ handler.inst \in Insts
        /\ handler.inst = handler.reg.inst
    BY <1>a, <1>b, <1>5 DEF FindKey, Held, HandlerTypes, Registrations, OwnsHandler
  <2>2. CASE k = Nobody
    <3>1. handler' = NoHandler
      BY <1>5, <2>2 DEF FindKey
    <3> QED BY <3>1 DEF OwnsHandler, NoHandler
  <2>3. CASE k # Nobody
    <3>1. [inst |-> handler.inst, key |-> k, id |-> handler.reg.id] \in regs
      BY <2>1, <2>3 DEF OwnInv, OwnsKeys
    <3>2. [inst |-> handler.inst, key |-> k, id |-> handler.reg.id] = handler.reg
      BY <2>1, <3>1 DEF OwnInv, RegsInv
    <3>3. k = handler.reg.key
      BY <3>2
    <3>4. handler' = [handler EXCEPT !.at = "read", !.key = k] /\ handler \in Handlers
      BY <1>5, <2>3 DEF FindKey, BaseInv, TypeOK
    <3> HIDE DEF k
    <3>5. /\ handler'.at = "read" /\ handler'.inst = handler.inst
          /\ handler'.reg = handler.reg /\ handler'.key = k
      BY <3>4 DEF Handlers
    <3> QED BY <2>1, <3>3, <3>5 DEF OwnsHandler
  <2> QED BY <2>2, <2>3
<1>6. CASE ReadAndCall \/ ReadFails
  <2>1. handler \in Handlers
    BY DEF BaseInv, TypeOK
  <2> QED BY <1>b, <1>6, <2>1 DEF NativeRecv, ReadAndCall, ReadFails, Held, NoHandler,
                                  OwnsHandler, Handlers
<1>7. CASE CallbackReturns
  BY <1>a, <1>b, <1>7
     DEF CallbackReturns, NoHandler, HandlerOnly, vars, configVars, instVars, mapVars,
         callVars, coreVars, OwnsHandler, MapTypes
<1>8. CASE UNCHANGED handler
  BY <1>a, <1>b, <1>8
     DEF vars, configVars, instVars, mapVars, callVars, coreVars, OwnsHandler
<1>9. \/ CheckEvent \/ CoreFires \/ Lookup \/ Handle \/ FindKey \/ ReadAndCall \/ ReadFails
       \/ CallbackReturns
      \/ UNCHANGED handler
  BY
     DEF Next, CallStep, HandlerStep, Open, Idle, Rest, Start, Stop, Close, Unregister,
         EraseOwn, Destroy, PostStart, Poll, Entries, Register, Room, RegisterFails,
         InsertKey, Remembered, Publish, PollReturns, UsesFreed, Write, vars,
         configVars, instVars, mapVars, callVars, coreVars
<1> QED BY <1>1, <1>2, <1>3, <1>4, <1>5, <1>6, <1>7, <1>8, <1>9

(* An event number has one owner.                                          *)
LEMMA OneOwner ==
  ASSUME OwnInv, NEW i \in Insts, NEW j \in Insts, NEW k \in Keys, NEW l \in Keys, NEW id \in Ids,
         [inst |-> i, key |-> k, id |-> id] \in regs,
         [inst |-> j, key |-> l, id |-> id] \in regs
  PROVE  i = j
<1>1. [inst |-> i, key |-> k, id |-> id] = [inst |-> j, key |-> l, id |-> id]
  BY DEF OwnInv, RegsInv
<1> QED BY <1>1

(* What close does to the maps.                                            *)
LEMMA UnregisterMatch ==
  ASSUME BaseInv, OwnInv, NEW i \in Insts, Unregister(i),
         UNCHANGED <<step, target, newId, leaked>>, step = "idle"
  PROVE  MapsMatch'
<1>1. MapTypes /\ Nobody \notin Insts \cup Keys /\ MapsMatch
  BY TypesTogether, ShmAssumption DEF BaseInv, OwnInv
<1>2. /\ eventMap' = [id \in Ids |-> IF id \in registered[i] THEN Nobody ELSE eventMap[id]]
      /\ registered' = [registered EXCEPT ![i] = {}]
      /\ keyMap' = [keyMap EXCEPT ![i] = [id \in Ids |-> Nobody]]
  BY DEF Unregister, EraseOwn
<1>3. SUFFICES ASSUME NEW j \in Insts, ~leaked[j]
               PROVE  /\ registered'[j] = {id \in Ids : eventMap'[id] = j}
                      /\ \A id \in Ids : keyMap'[j][id] # Nobody <=> id \in registered'[j]
  BY DEF MapsMatch, Mapped
<1>4. /\ registered[j] = {id \in Ids : eventMap[id] = j}
      /\ \A id \in Ids : keyMap[j][id] # Nobody <=> id \in registered[j]
  BY <1>1, <1>3 DEF MapsMatch, Mapped
<1>5. CASE j = i
  BY <1>1, <1>2, <1>4, <1>5 DEF MapTypes
<1>6. CASE j # i
  <2>1. registered'[j] = registered[j] /\ keyMap'[j] = keyMap[j]
    BY <1>1, <1>2, <1>6 DEF MapTypes
  <2>2. ASSUME NEW id \in Ids, id \in registered[i], eventMap[id] = j PROVE FALSE
    <3>1. PICK k \in Keys : [inst |-> i, key |-> k, id |-> id] \in regs
      BY <2>2 DEF OwnInv, OwnsEvents
    <3>2. PICK l \in Keys : [inst |-> j, key |-> l, id |-> id] \in regs
      BY <2>2 DEF OwnInv, OwnsEvents
    <3> QED BY <1>6, <3>1, <3>2, OneOwner
  <2>3. \A id \in Ids : eventMap'[id] = j <=> eventMap[id] = j
    BY <1>1, <1>2, <2>2
  <2> QED BY <1>4, <2>1, <2>3
<1> QED BY <1>5, <1>6

(* A roll-back leaves the maps matching, unless it forgot older numbers.   *)
LEMMA RegisterFailsMatch ==
  ASSUME BaseInv, OwnInv, RegisterFails
  PROVE  MapsMatch'
<1> DEFINE i == target
<1>1. /\ MapTypes /\ CallTypes /\ Nobody \notin Insts \cup Keys /\ MapsMatch
      /\ i \in Insts /\ step = "register" /\ step' = "idle"
      /\ leaked \in [Insts -> BOOLEAN]
  BY TypesTogether, ShmAssumption DEF BaseInv, OwnInv, CallInv, RegisterFails, TypeOK
<1>2. /\ eventMap' = [id \in Ids |-> IF id \in fresh THEN Nobody ELSE eventMap[id]]
      /\ registered' = [registered EXCEPT ![i] = {}]
      /\ leaked' = [leaked EXCEPT ![i] = leaked[i] \/ registered[i] # fresh]
  BY DEF RegisterFails
<1>3. keyMap' = [keyMap EXCEPT ![i] = [id \in Ids |-> IF id \in fresh THEN Nobody ELSE keyMap[i][id]]]
  BY <1>1 DEF RegisterFails, MapTypes
<1>4. SUFFICES ASSUME NEW j \in Insts, ~leaked'[j]
               PROVE  /\ registered'[j] = {id \in Ids : eventMap'[id] = j}
                      /\ \A id \in Ids : keyMap'[j][id] # Nobody <=> id \in registered'[j]
  BY <1>1 DEF MapsMatch, Mapped
<1>5. ~leaked[j] /\ (j = i => registered[i] = fresh)
  BY <1>1, <1>2, <1>4
<1>6. /\ registered[j] = {id \in Ids : eventMap[id] = j}
      /\ \A id \in Ids : keyMap[j][id] # Nobody <=> id \in registered[j]
  BY <1>1, <1>5 DEF MapsMatch, Mapped
<1> HIDE DEF i
<1>7. CASE j = i
  <2>1. registered[i] = fresh
    BY <1>5, <1>7
  <2>2. registered'[j] = {}
    BY <1>1, <1>2, <1>7 DEF MapTypes
  <2>3. ASSUME NEW id \in Ids
        PROVE  eventMap'[id] # j /\ keyMap'[j][id] = Nobody
    <3>1. eventMap'[id] = IF id \in fresh THEN Nobody ELSE eventMap[id]
      BY <1>2
    <3>2. keyMap'[j][id] = IF id \in fresh THEN Nobody ELSE keyMap[j][id]
      BY <1>1, <1>3, <1>7 DEF MapTypes
    <3> QED BY <1>1, <1>6, <1>7, <2>1, <3>1, <3>2
  <2> QED BY <2>2, <2>3
<1>8. CASE j # i
  <2>1. registered'[j] = registered[j] /\ keyMap'[j] = keyMap[j]
    BY <1>1, <1>2, <1>3, <1>8 DEF MapTypes
  <2>2. ASSUME NEW id \in Ids, id \in fresh, eventMap[id] = j PROVE FALSE
    <3>1. PICK k \in Keys : [inst |-> i, key |-> k, id |-> id] \in regs
      BY <2>2 DEF OwnInv, OwnsFresh, i
    <3>2. PICK l \in Keys : [inst |-> j, key |-> l, id |-> id] \in regs
      BY <2>2 DEF OwnInv, OwnsEvents
    <3> QED BY <1>1, <1>8, <3>1, <3>2, OneOwner
  <2>3. \A id \in Ids : eventMap'[id] = j <=> eventMap[id] = j
    BY <1>1, <1>2, <2>2
  <2> QED BY <1>6, <2>1, <2>3
<1> QED BY <1>7, <1>8

(* Between the insertions the number is registered but not yet mapped.     *)
LEMMA InsertKeyMatch ==
  ASSUME BaseInv, OwnInv, InsertKey
  PROVE  MapsMatch'
<1>1. /\ MapTypes /\ CallTypes /\ Nobody \notin Insts \cup Keys /\ MapsMatch
      /\ target \in Insts /\ step = "insert" /\ step' = "publish" /\ newId \in Ids
      /\ UNCHANGED <<eventMap, leaked, target, newId>>
  BY TypesTogether, ShmAssumption
     DEF BaseInv, OwnInv, CallInv, InsertKey, instVars
<1>2. Head(todo) \in Keys
  <2>1. todo # <<>> /\ todo \in Seq(Keys)
    BY <1>1 DEF BaseInv, CallInv, CallTypes
  <2> QED BY <2>1, HeadTailProperties
<1>3. /\ registered' = [registered EXCEPT ![target] = registered[target] \cup {newId}]
      /\ keyMap' = [keyMap EXCEPT ![target][newId] = Head(todo)]
  BY DEF InsertKey, Remembered
<1>4. SUFFICES ASSUME NEW j \in Insts, ~leaked[j]
               PROVE  /\ registered'[j] = {id \in Ids : eventMap[id] = j} \cup
                                             (IF target = j THEN {newId} ELSE {})
                      /\ \A id \in Ids : keyMap'[j][id] # Nobody <=> id \in registered'[j]
  BY <1>1 DEF MapsMatch, Mapped
<1>5. /\ registered[j] = {id \in Ids : eventMap[id] = j}
      /\ \A id \in Ids : keyMap[j][id] # Nobody <=> id \in registered[j]
  BY <1>1, <1>4 DEF MapsMatch, Mapped
<1>6. CASE j = target
  BY <1>1, <1>2, <1>3, <1>5, <1>6 DEF MapTypes
<1>7. CASE j # target
  BY <1>1, <1>3, <1>5, <1>7 DEF MapTypes
<1> QED BY <1>6, <1>7

(* The event map gets the number of its instance.                          *)
LEMMA PublishMatch ==
  ASSUME BaseInv, OwnInv, Publish
  PROVE  MapsMatch'
<1>1. /\ MapTypes /\ CallTypes /\ Nobody \notin Insts \cup Keys /\ MapsMatch
      /\ target \in Insts /\ step = "publish" /\ step' # "publish" /\ newId \in Ids
      /\ UNCHANGED <<registered, keyMap, leaked>>
      /\ eventMap' = [eventMap EXCEPT ![newId] = target]
  BY TypesTogether, ShmAssumption
     DEF BaseInv, OwnInv, CallInv, Publish
<1>2. PICK k \in Keys : [inst |-> target, key |-> k, id |-> newId] \in regs
  <2>1. /\ todo # <<>> /\ todo \in Seq(Keys)
        /\ [inst |-> target, key |-> Head(todo), id |-> newId] \in regs
    BY <1>1 DEF BaseInv, CallInv, CallTypes
  <2> QED BY <2>1, HeadTailProperties
<1>3. SUFFICES ASSUME NEW j \in Insts, ~leaked[j]
               PROVE  /\ registered[j] = {id \in Ids : eventMap'[id] = j}
                      /\ \A id \in Ids : keyMap[j][id] # Nobody <=> id \in registered[j]
  BY <1>1 DEF MapsMatch, Mapped
<1>4. /\ registered[j] = {id \in Ids : eventMap[id] = j} \cup (IF target = j THEN {newId} ELSE {})
      /\ \A id \in Ids : keyMap[j][id] # Nobody <=> id \in registered[j]
  BY <1>1, <1>3 DEF MapsMatch, Mapped
<1>5. CASE j = target
  BY <1>1, <1>4, <1>5 DEF MapTypes
<1>6. CASE j # target
  <2>1. eventMap[newId] # j
    <3> SUFFICES ASSUME eventMap[newId] = j PROVE FALSE
      OBVIOUS
    <3>1. PICK l \in Keys : [inst |-> j, key |-> l, id |-> newId] \in regs
      BY <1>1 DEF OwnInv, OwnsEvents
    <3> QED BY <1>1, <1>2, <1>6, <3>1, OneOwner
  <2> QED BY <1>1, <1>4, <1>6, <2>1 DEF MapTypes
<1> QED BY <1>5, <1>6

(* All else leaves the maps alone.                                         *)
LEMMA MapsMatchStep == BaseInv /\ OwnInv /\ [Next]_vars => MapsMatch'
<1> SUFFICES ASSUME BaseInv, OwnInv, [Next]_vars PROVE MapsMatch'
  OBVIOUS
<1>1. ASSUME NEW i \in Insts, Close(i) \/ Destroy(i) PROVE MapsMatch'
  BY <1>1, UnregisterMatch DEF Close, Destroy, Idle, callVars
<1>2. ASSUME UNCHANGED <<mapVars, leaked>>,
             \/ UNCHANGED <<step, target, newId>>
             \/ step # "publish" /\ step' # "publish"
      PROVE  MapsMatch'
  BY <1>2 DEF OwnInv, MapsMatch, Mapped, mapVars
<1>3. \/ \E i \in Insts : Close(i) \/ Destroy(i)
      \/ RegisterFails \/ InsertKey \/ Publish
      \/ /\ UNCHANGED <<mapVars, leaked>>
         /\ \/ UNCHANGED <<step, target, newId>>
            \/ step # "publish" /\ step' # "publish"
  BY
     DEF Next, CallStep, HandlerStep, Open, Idle, Rest, Start, Stop, PostStart, Poll,
         Entries, Register, Room, CheckEvent, Dispatch, NoHandler, PollReturns,
         CoreFires, Lookup, HandlerOnly, Handle, Held, FindKey, NativeRecv, ReadAndCall,
         ReadFails,
         CallbackReturns, UsesFreed, Write, vars, configVars, instVars, mapVars,
         callVars, coreVars
<1> QED BY <1>1, <1>2, <1>3, RegisterFailsMatch, InsertKeyMatch, PublishMatch

(* The invariant holds initially.                                          *)
LEMMA ShmInit == Init => ShmInv
<1> SUFFICES ASSUME Init PROVE BaseInv /\ (OnePoll => OwnInv)
  BY DEF ShmInv
<1>1. RegsInv
  BY FS_EmptySet DEF Init, RegsInv
<1>2. OwnsEvents /\ OwnsKeys /\ OwnsFresh /\ OwnsHandler /\ MapsMatch
  BY ShmAssumption
     DEF Init, OwnsEvents, OwnsKeys, OwnsFresh, OwnsHandler, NoHandler, MapsMatch,
         Mapped
<1> QED BY <1>1, <1>2, BaseInit DEF OwnInv

(* The invariant is inductive.                                             *)
LEMMA ShmStep == ShmInv /\ [Next]_vars => ShmInv'
<1> SUFFICES ASSUME ShmInv, [Next]_vars PROVE BaseInv' /\ (OnePoll' => OwnInv')
  BY DEF ShmInv
<1>1. BaseInv /\ BaseInv'
  BY BaseStep DEF ShmInv
<1>2. OnePoll' <=> OnePoll
  BY <1>1, DefStep DEF OnePoll
<1>3. ASSUME OnePoll PROVE OwnInv'
  <2>1. OwnInv
    BY <1>3 DEF ShmInv
  <2> QED BY <1>1, <1>2, <1>3, <2>1, RegsStep, OwnsEventsStep, OwnsKeysStep,
             OwnsFreshStep,
             OwnsHandlerStep, MapsMatchStep DEF OwnInv
<1> QED BY <1>1, <1>2, <1>3

(* So it always holds.                                                     *)
LEMMA ShmInvariance == Spec => []ShmInv
BY ShmInit, ShmStep, PTL DEF Spec

(* Type correctness, for any number of poll instances.                     *)
THEOREM ShmTypes == Spec => []TypeOK
<1>1. ShmInv => TypeOK
  BY DEF ShmInv, BaseInv
<1> QED BY <1>1, ShmInvariance, PTL

(* registered_event_ids_, the event map and the key map of an instance     *)
(* agree, so that close finds all that post_start made (comm_shm.cpp).     *)
THEOREM MapsCorrectness == Spec => [](OnePoll => MapsAgree)
<1>1. ShmInv => (OnePoll => MapsAgree)
  BY DEF ShmInv, BaseInv, OwnInv, MapsMatch, MapsAgree
<1> QED BY <1>1, ShmInvariance, PTL

(* A dispatch ends at the instance and the key its event was registered    *)
(* for.                                                                    *)
THEOREM DispatchCorrectness == Spec => [](OnePoll => DispatchedToOwner)
<1>1. ShmInv => (OnePoll => DispatchedToOwner)
  BY DEF ShmInv, OwnInv, OwnsHandler, DispatchedToOwner
<1> QED BY <1>1, ShmInvariance, PTL

(* The event map leads to no instance that is closed or destroyed.         *)
THEOREM ForgottenCorrectness == Spec => [](OnePoll => ForgottenWhenClosed)
<1>1. ShmInv => (OnePoll => ForgottenWhenClosed)
  <2> SUFFICES ASSUME ShmInv, OnePoll, NEW i \in Insts, notify[i] = <<>>, ~leaked[i]
               PROVE  Mapped(i) = {}
    BY DEF ForgottenWhenClosed
  <2>1. registered[i] = {}
    BY DEF ShmInv, BaseInv, NotifyInv
  <2> QED BY <2>1 DEF ShmInv, OwnInv, MapsMatch
<1> QED BY <1>1, ShmInvariance, PTL

(* open resolves names by the definitions, and nothing else adds keys.     *)
LEMMA NotifiedStep == BaseInv /\ NotifiedInv /\ [Next]_vars => NotifiedInv'
<1> SUFFICES ASSUME BaseInv, NotifiedInv, [Next]_vars PROVE NotifiedInv'
  OBVIOUS
<1>1. config' = config /\ pduDef' = pduDef /\ notify \in [Insts -> Seq(Keys)]
  BY DefStep DEF BaseInv, TypeOK
<1>2. ASSUME NEW i \in Insts, Open(i) PROVE NotifiedInv'
  <2>1. PICK n \in 0 .. Len(Resolved(i)) :
           notify' = [notify EXCEPT ![i] = SubSeq(Resolved(i), 1, n)]
    BY <1>2 DEF Open
  <2>2. /\ Resolved(i) \in Seq(Keys)
        /\ Len(Resolved(i)) \in Nat
        /\ \A j \in 1 .. Len(Resolved(i)) :
              /\ j \in DOMAIN config[i].pdus
              /\ config[i].pdus[j] \in DOMAIN pduDef
              /\ Resolved(i)[j] = <<config[i].pdus[j][1], pduDef[config[i].pdus[j]].channel>>
    BY ResolvedKeys DEF BaseInv, TypeOK
  <2>3. DOMAIN notify'[i] = 1 .. n /\ \A j \in 1 .. n : notify'[i][j] = Resolved(i)[j]
    <3>1. notify'[i] = SubSeq(Resolved(i), 1, n)
      BY <1>1, <2>1
    <3> QED BY <2>2, <3>1, SubSeqProperties
  <2>4. \A j \in 1 .. n : j \in 1 .. Len(Resolved(i))
    BY <2>2
  <2>5. \A m \in Insts : m # i => notify'[m] = notify[m]
    BY <1>1, <2>1
  <2> QED BY <1>1, <2>2, <2>3, <2>4, <2>5 DEF NotifiedInv
<1>3. ASSUME NEW i \in Insts, notify' = [notify EXCEPT ![i] = <<>>] PROVE NotifiedInv'
  BY <1>1, <1>3 DEF NotifiedInv
<1>4. ASSUME notify' = notify PROVE NotifiedInv'
  BY <1>1, <1>4 DEF NotifiedInv
<1>5. \/ \E i \in Insts : Open(i) \/ notify' = [notify EXCEPT ![i] = <<>>]
      \/ notify' = notify
  BY
     DEF Next, CallStep, HandlerStep, Idle, Rest, Start, Stop, Close, Unregister,
         EraseOwn, Destroy, PostStart, Poll, Entries, Register, Room, RegisterFails,
         InsertKey, Remembered, Publish, CheckEvent, Dispatch, NoHandler, PollReturns,
         CoreFires, Lookup, HandlerOnly, Handle, Held, FindKey, NativeRecv, ReadAndCall,
         ReadFails,
         CallbackReturns, UsesFreed, Write, vars, configVars, instVars, mapVars,
         callVars, coreVars
<1> QED BY <1>2, <1>3, <1>4, <1>5

(* No instance is notified before its open.                                *)
LEMMA NotifiedInit == Init => NotifiedInv
BY DEF Init, NotifiedInv

(* With a file that loads, an instance is notified of the keys the file    *)
(* means for the PDUs of its config. After a load that failed the map may  *)
(* have a writer where a reader was still to come, so that the first two   *)
(* parts of the property are all there is.                                 *)
THEOREM DefinitionCorrectness ==
  ASSUME Load(PduFile).ok
  PROVE  Spec => []DefinitionsAgree
<1>1. NotifiedInv => DefinitionsAgree
  <2> SUFFICES ASSUME NotifiedInv PROVE NotifiesMeant
    BY LoadCorrectness, LookupCorrectness DEF DefinitionsAgree
  <2>1. pduDef = [k \in AllKeys(PduFile) |-> Meant(PduFile, k)]
    BY LoadCorrectness, ShmAssumption DEF LoadsAgree, LoadedAsListed, NotifiedInv
  <2>2. ASSUME NEW k \in DOMAIN pduDef PROVE MeantChannel[k] = pduDef[k].channel
    BY <2>1, <2>2 DEF MeantChannel
  <2> QED BY <2>2 DEF NotifiedInv, NotifiesMeant
<1>2. BaseInv /\ NotifiedInv /\ [Next]_vars => (BaseInv /\ NotifiedInv)'
  BY BaseStep, NotifiedStep
<1>3. Init => BaseInv /\ NotifiedInv
  BY BaseInit, NotifiedInit
<1> QED BY <1>1, <1>2, <1>3, PTL DEF Spec
=================================================================================
