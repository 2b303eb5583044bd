---------------------------- MODULE PduCacheProofs ----------------------------
(***************************************************************************)
(* PduCache's types and its window invariant, and that the cache           *)
(* implements CacheContract, for every set of keys, payloads and threads   *)
(* and every depth.                                                        *)
(***************************************************************************)
EXTENDS PduCache, SequenceTheorems, TLAPS

IInv == TypeOK /\ Shape /\ WindowLength /\ WindowContents

(* A configured depth, whatever its sign, ends as a positive size_t.       *)
LEMMA DepthPositive ==
    ASSUME NEW d \in Depths
    PROVE  DepthOf(d) \in Nat \ {0}
  <1>1. d \in Int /\ SizeMod \in Nat \ {0}
    BY CacheAssumption
  <1>2. d % SizeMod \in 0 .. SizeMod - 1
    BY <1>1
  <1> QED
    BY <1>2 DEF DepthOf

(* What a write leaves: the new value at the end, and in front of it the   *)
(* old contents, without the oldest when the queue was full.               *)
LEMMA StoredSequence ==
    ASSUME NEW q \in Seq(Values), NEW v \in Values, depth \in Nat \ {0},
           Kind \in {"buffer", "queue"}, Len(q) <= depth,
           Kind = "buffer" => depth = 1
    PROVE  /\ Stored(q, v) \in Seq(Values)
           /\ Len(Stored(q, v)) = IF Len(q) + 1 > depth THEN depth ELSE Len(q) + 1
           /\ \A i \in 1 .. Len(Stored(q, v)) :
                Stored(q, v)[i] = Append(q, v)[Len(q) + 1 - Len(Stored(q, v)) + i]
  <1> DEFINE a == Append(q, v)
  <1>1. /\ a \in Seq(Values)
        /\ Len(a) = Len(q) + 1
        /\ a[Len(a)] = v
        /\ a # <<>>
    OBVIOUS
  <1>2. CASE Kind = "buffer"
    <2>1. Stored(q, v) = <<v>>
      BY <1>2 DEF Stored
    <2> QED
      BY <1>1, <1>2, <2>1
  <1>3. CASE Kind = "queue" /\ Len(q) + 1 > depth
    <2>1. Stored(q, v) = Tail(a)
      BY <1>3 DEF Stored
    <2>2. /\ Tail(a) \in Seq(Values)
          /\ Len(Tail(a)) = Len(a) - 1
          /\ \A i \in 1 .. Len(Tail(a)) : Tail(a)[i] = a[i + 1]
      BY <1>1
    <2>3. Len(q) = depth
      BY <1>3
    <2> HIDE DEF a
    <2>4. \A i \in 1 .. Len(Tail(a)) : Len(q) + 1 - Len(Tail(a)) + i = i + 1
      BY <1>1, <2>2
    <2> QED
      BY <1>1, <1>3, <2>1, <2>2, <2>3, <2>4 DEF a
  <1>4. CASE Kind = "queue" /\ ~(Len(q) + 1 > depth)
    <2>1. Stored(q, v) = a
      BY <1>4 DEF Stored
    <2> QED
      BY <1>1, <1>4, <2>1
  <1> QED
    BY <1>2, <1>3, <1>4

(* Before open the cache is empty, and so is its history.                  *)
LEMMA InitIInv == Init => IInv
  <1> SUFFICES ASSUME Init PROVE IInv
    OBVIOUS
  <1>1. TypeOK
    <2>1. <<>> \in Seq(Values)
      OBVIOUS
    <2>2. pc \in [Threads -> {Idle} \cup WriteOp \cup ReadOp]
      BY DEF Init
    <2>3. /\ store \in [Keys -> Seq(Values)]
          /\ hist \in [Keys -> Seq(Values)]
      BY <2>1 DEF Init
    <2>4. /\ got \in [Threads -> Values \cup {NoValue}]
          /\ next \in [Keys -> Nat \ {0}]
          /\ depth \in Nat \ {0}
      BY DEF Init
    <2>5. opened \in BOOLEAN /\ running \in BOOLEAN
      BY DEF Init
    <2> QED
      BY <2>2, <2>3, <2>4, <2>5 DEF TypeOK
  <1>2. Shape
    BY DEF Init, Shape
  <1>3. WindowLength /\ WindowContents
    BY DEF Init, WindowLength, WindowContents, Unread
  <1> QED
    BY <1>1, <1>2, <1>3 DEF IInv

(* The unguarded look and the life cycle leave stored values alone, or     *)
(* drop all of them together with the history.                             *)
LEMMA LifeCycleIInv ==
    ASSUME IInv, LifeCycle
    PROVE  IInv'
  <1> USE CacheAssumption DEF IInv
  <1>1. ASSUME NEW d \in Depths, Open(d) PROVE IInv'
    <2>1. depth' \in Nat \ {0} /\ (Kind = "buffer" => depth' = 1)
      BY <1>1, DepthPositive DEF Open
    <2>2. TypeOK'
      BY <1>1, <2>1 DEF Open, TypeOK, callers
    <2>3. Shape'
      BY <1>1, <2>1 DEF Open, Shape, callers
    <2>4. ASSUME NEW k \in Keys
          PROVE  Unread(k) = 0 /\ Len(store[k]) = 0
      <3>1. hist[k] = <<>> /\ next[k] <= Len(hist[k]) + 1
        BY <1>1 DEF Open, Shape
      <3>2. next[k] \in Nat \ {0} /\ Len(hist[k]) = 0 /\ depth \in Nat \ {0}
        BY <3>1 DEF TypeOK
      <3>3. Unread(k) = 0
        BY <3>1, <3>2 DEF Unread
      <3> QED
        BY <3>2, <3>3 DEF WindowLength
    <2>5. WindowLength'
      BY <1>1, <2>1, <2>4 DEF Open, WindowLength, Unread
    <2>6. WindowContents'
      BY <1>1 DEF Open, WindowContents
    <2> QED
      BY <2>2, <2>3, <2>5, <2>6
  <1>2. ASSUME OpenFails PROVE IInv'
    BY <1>2 DEF OpenFails, TypeOK, Shape, WindowLength, WindowContents,
                Unread, callers
  <1>3. ASSUME Start PROVE IInv'
    BY <1>3 DEF Start, TypeOK, Shape, WindowLength, WindowContents,
                Unread, callers
  <1>4. ASSUME Stop PROVE IInv'
    BY <1>4 DEF Stop, TypeOK, Shape, WindowLength, WindowContents,
                Unread, callers
  <1>5. ASSUME Close PROVE IInv'
    <2>1. TypeOK'
      <3>1. <<>> \in Seq(Values)
        OBVIOUS
      <3>2. /\ store' \in [Keys -> Seq(Values)]
            /\ hist' \in [Keys -> Seq(Values)]
            /\ next' \in [Keys -> Nat \ {0}]
        BY <1>5, <3>1 DEF Close
      <3> QED
        BY <1>5, <3>2 DEF Close, TypeOK, callers
    <2>2. Shape'
      BY <1>5 DEF Close, Shape, callers
    <2>3. \A k \in Keys : Len(store'[k]) = 0 /\ Len(hist'[k]) = 0 /\ next'[k] = 1
      BY <1>5 DEF Close
    <2>4. WindowLength'
      BY <2>1, <2>3 DEF TypeOK, WindowLength, Unread
    <2>5. WindowContents'
      BY <2>3 DEF WindowContents
    <2> QED
      BY <2>1, <2>2, <2>4, <2>5
  <1> QED
    BY <1>1, <1>2, <1>3, <1>4, <1>5 DEF LifeCycle

(* The look at is_running_ changes no value.                               *)
LEMMA CallIInv ==
    ASSUME IInv, NEW t \in Threads, NEW op \in WriteOp \cup ReadOp, Call(t, op)
    PROVE  IInv'
  BY DEF IInv, Call, TypeOK, Shape, WindowLength, WindowContents, Unread

(* A read that finds nothing, or a buffer that is too small, consumes      *)
(* nothing.                                                                *)
LEMMA ReadNothingIInv ==
    ASSUME IInv, NEW t \in Threads, ReadNothing(t)
    PROVE  IInv'
  BY DEF IInv, ReadNothing, Return, TypeOK, Shape, WindowLength,
         WindowContents, Unread

(* A write: the history grows by the value, and the window slides over it. *)
LEMMA WriteIInv ==
    ASSUME IInv, NEW t \in Threads, Write(t)
    PROVE  IInv'
  <1>1. pc[t] \in WriteOp
    BY DEF IInv, TypeOK, Write, Idle, ReadOp
  <1>2. PICK k \in Keys, v \in Values : pc[t].key = k /\ pc[t].val = v
    BY <1>1 DEF WriteOp
  <1>3. /\ store' = [store EXCEPT ![k] = Stored(@, v)]
        /\ hist' = [hist EXCEPT ![k] = Append(@, v)]
        /\ pc' = [pc EXCEPT ![t] = Idle]
        /\ UNCHANGED <<opened, running, depth, got, next>>
    BY <1>2 DEF Write, Return
  <1>4. /\ store \in [Keys -> Seq(Values)] /\ store[k] \in Seq(Values)
        /\ hist \in [Keys -> Seq(Values)] /\ hist[k] \in Seq(Values)
        /\ next \in [Keys -> Nat \ {0}] /\ next[k] \in Nat \ {0}
        /\ depth \in Nat \ {0}
    BY <1>2 DEF IInv, TypeOK
  <1>5. /\ Len(store[k]) = IF Unread(k) > depth THEN depth ELSE Unread(k)
        /\ Unread(k) \in Int
        /\ next[k] <= Len(hist[k]) + 1
    BY <1>2, <1>4 DEF IInv, WindowLength, Unread, Shape
  <1>6. /\ Stored(store[k], v) \in Seq(Values)
        /\ Len(Stored(store[k], v)) =
             IF Len(store[k]) + 1 > depth THEN depth ELSE Len(store[k]) + 1
        /\ \A i \in 1 .. Len(Stored(store[k], v)) :
             Stored(store[k], v)[i] =
               Append(store[k], v)[Len(store[k]) + 1 - Len(Stored(store[k], v)) + i]
    <2>1. Len(store[k]) <= depth /\ (Kind = "buffer" => depth = 1)
      BY <1>4, <1>5 DEF IInv, Shape
    <2> QED
      BY <1>2, <1>4, <2>1, CacheAssumption, StoredSequence
  <1>7. /\ Append(hist[k], v) \in Seq(Values)
        /\ Len(Append(hist[k], v)) = Len(hist[k]) + 1
    BY <1>2, <1>4
  <1>8. TypeOK'
    <2>1. /\ store' \in [Keys -> Seq(Values)]
          /\ hist' \in [Keys -> Seq(Values)]
      BY <1>2, <1>3, <1>4, <1>6, <1>7
    <2> QED
      BY <1>3, <2>1 DEF IInv, TypeOK
  <1>9. Shape'
    <2>1. opened
      BY <1>1 DEF IInv, Shape, Idle, WriteOp
    <2>2. \A j \in Keys : next'[j] <= Len(hist'[j]) + 1
      BY <1>3, <1>4, <1>7 DEF IInv, Shape
    <2> QED
      BY <1>3, <2>1, <2>2 DEF IInv, Shape
  <1>10. WindowLength'
    <2>1. Len(store'[k]) = IF Unread(k)' > depth THEN depth ELSE Unread(k)'
      <3>1. Unread(k)' = Unread(k) + 1
        BY <1>2, <1>3, <1>4, <1>7 DEF Unread
      <3>2. Len(store'[k]) = Len(Stored(store[k], v))
        BY <1>2, <1>3, <1>4
      <3> QED
        BY <1>4, <1>5, <1>6, <3>1, <3>2
    <2>2. \A j \in Keys \ {k} : store'[j] = store[j] /\ Unread(j)' = Unread(j)
      BY <1>3, <1>4 DEF Unread
    <2> QED
      BY <1>3, <2>1, <2>2 DEF IInv, WindowLength
  <1>11. WindowContents'
    <2>1. PICK n \in Nat, m \in Nat, h \in Nat :
             /\ n = Len(store[k]) /\ m = Len(Stored(store[k], v)) /\ h = Len(hist[k])
             /\ m <= n + 1 /\ n <= h
      BY <1>4, <1>5, <1>6 DEF Unread
    <2>0. m <= n + 1 /\ n <= h
      BY <2>1
    <2>2. /\ store'[k] = Stored(store[k], v)
          /\ hist'[k] = Append(hist[k], v)
      BY <1>2, <1>3, <1>4
    <2>3. \A i \in 1 .. n : store[k][i] = hist[k][h - n + i]
      BY <1>2, <2>1 DEF IInv, WindowContents
    <2>4. ASSUME NEW i \in 1 .. n + 1
          PROVE  Append(store[k], v)[i] = Append(hist[k], v)[h - n + i]
      <3>1. CASE i = n + 1
        <4>1. h - n + i = h + 1
          BY <3>1
        <4> QED
          BY <1>2, <1>4, <2>1, <3>1, <4>1
      <3>2. CASE i # n + 1
        <4>1. i \in 1 .. n /\ h - n + i \in 1 .. h
          BY <2>0, <3>2
        <4> QED
          BY <1>2, <1>4, <2>1, <2>3, <4>1
      <3> QED
        BY <3>1, <3>2
    <2>5. ASSUME NEW i \in 1 .. m
          PROVE  store'[k][i] = hist'[k][h + 1 - m + i]
      <3>1. store'[k][i] = Append(store[k], v)[n + 1 - m + i]
        BY <1>6, <2>1, <2>2
      <3>2. /\ n + 1 - m + i \in 1 .. n + 1
            /\ h - n + (n + 1 - m + i) = h + 1 - m + i
        BY <2>0
      <3> QED
        BY <2>2, <2>4, <3>1, <3>2
    <2>6. Len(store'[k]) = m /\ Len(hist'[k]) = h + 1
      BY <1>7, <2>1, <2>2
    <2>7. \A j \in Keys \ {k} : store'[j] = store[j] /\ hist'[j] = hist[j]
      BY <1>3, <1>4
    <2>8. ASSUME NEW j \in Keys, NEW i \in 1 .. Len(store'[j])
          PROVE  store'[j][i] = hist'[j][Len(hist'[j]) - Len(store'[j]) + i]
      <3>1. CASE j = k
        BY <2>5, <2>6, <3>1
      <3>2. CASE j # k
        BY <2>7, <3>2 DEF IInv, WindowContents
      <3> QED
        BY <3>1, <3>2
    <2> QED
      BY <2>8 DEF WindowContents
  <1> QED
    BY <1>8, <1>9, <1>10, <1>11 DEF IInv

(* A successful read takes the front of the window (queue) or leaves the   *)
(* window as it is (latest buffer).                                        *)
LEMMA ReadValueIInv ==
    ASSUME IInv, NEW t \in Threads, ReadValue(t)
    PROVE  IInv'
  <1>1. pc[t] \in ReadOp
    BY DEF IInv, TypeOK, ReadValue, Idle, WriteOp
  <1>2. PICK k \in Keys : pc[t].key = k
    BY <1>1 DEF ReadOp
  <1>3. /\ store \in [Keys -> Seq(Values)] /\ store[k] \in Seq(Values)
        /\ store[k] # <<>>
        /\ hist \in [Keys -> Seq(Values)] /\ hist[k] \in Seq(Values)
        /\ next \in [Keys -> Nat \ {0}] /\ next[k] \in Nat \ {0}
        /\ depth \in Nat \ {0}
    BY <1>2 DEF IInv, TypeOK, ReadValue
  <1>4. /\ got' = [got EXCEPT ![t] = Head(store[k])]
        /\ pc' = [pc EXCEPT ![t] = Idle]
        /\ UNCHANGED <<opened, running, depth, hist>>
    BY <1>2 DEF ReadValue, Return, Front
  <1>5. Head(store[k]) \in Values
    BY <1>3
  <1>6. opened
    BY <1>1 DEF IInv, Shape, Idle, ReadOp
  <1>7. CASE Kind = "buffer"
    <2>1. UNCHANGED <<store, next>>
      BY <1>7 DEF ReadValue
    <2> QED
      BY <1>4, <1>5, <1>6, <2>1
      DEF IInv, TypeOK, Shape, WindowLength, WindowContents, Unread
  <1>8. CASE Kind = "queue"
    <2>1. /\ store' = [store EXCEPT ![k] = Tail(@)]
          /\ next' = [next EXCEPT ![k] = Len(hist[k]) - Len(store[k]) + 2]
      BY <1>2, <1>8 DEF ReadValue
    <2>2. PICK n \in Nat \ {0}, h \in Nat :
             /\ n = Len(store[k]) /\ h = Len(hist[k])
             /\ n <= h /\ n <= depth
      BY <1>2, <1>3 DEF IInv, WindowLength, Unread
    <2>0. n <= h /\ n <= depth
      BY <2>2
    <2>3. /\ Tail(store[k]) \in Seq(Values)
          /\ Len(Tail(store[k])) = n - 1
          /\ \A i \in 1 .. n - 1 : Tail(store[k])[i] = store[k][i + 1]
      BY <1>3, <2>2
    <2>4. /\ store'[k] = Tail(store[k]) /\ hist'[k] = hist[k]
          /\ next'[k] = h - n + 2
      BY <1>2, <1>3, <1>4, <2>1, <2>2
    <2>5. \A j \in Keys \ {k} : /\ store'[j] = store[j] /\ hist'[j] = hist[j]
                               /\ next'[j] = next[j]
      BY <1>3, <1>4, <2>1
    <2>6. TypeOK'
      <3>1. /\ store' \in [Keys -> Seq(Values)]
            /\ next' \in [Keys -> Nat \ {0}]
        BY <1>3, <2>1, <2>2, <2>3
      <3> QED
        BY <1>4, <1>5, <3>1 DEF IInv, TypeOK
    <2>7. Shape'
      <3>1. next'[k] <= Len(hist'[k]) + 1
        <4>1. h - n + 2 <= h + 1
          OBVIOUS
        <4> QED
          BY <2>2, <2>4, <4>1
      <3>2. \A j \in Keys \ {k} : next'[j] <= Len(hist'[j]) + 1
        BY <2>5 DEF IInv, Shape
      <3> QED
        BY <1>4, <1>6, <1>8, <3>1, <3>2 DEF IInv, Shape
    <2>8. WindowLength'
      <3>1. Unread(k)' = n - 1
        BY <1>3, <2>2, <2>4 DEF Unread
      <3>2. Len(store'[k]) = n - 1
        BY <2>3, <2>4
      <3>3. \A j \in Keys \ {k} : Unread(j)' = Unread(j)
        BY <2>5 DEF Unread
      <3> QED
        BY <1>3, <1>4, <2>2, <2>5, <3>1, <3>2, <3>3 DEF IInv, WindowLength
    <2>9. WindowContents'
      <3>1. ASSUME NEW i \in 1 .. n - 1
            PROVE  store'[k][i] = hist'[k][h - (n - 1) + i]
        <4>1. i + 1 \in 1 .. n /\ h - n + (i + 1) = h - (n - 1) + i
          BY <2>0
        <4>2. store[k][i + 1] = hist[k][h - n + (i + 1)]
          BY <1>2, <2>2, <4>1 DEF IInv, WindowContents
        <4> QED
          BY <2>3, <2>4, <4>1, <4>2
      <3>2. Len(store'[k]) = n - 1 /\ Len(hist'[k]) = h
        BY <2>2, <2>3, <2>4
      <3>3. ASSUME NEW j \in Keys, NEW i \in 1 .. Len(store'[j])
            PROVE  store'[j][i] = hist'[j][Len(hist'[j]) - Len(store'[j]) + i]
        <4>1. CASE j = k
          BY <3>1, <3>2, <4>1
        <4>2. CASE j # k
          BY <2>5, <4>2 DEF IInv, WindowContents
        <4> QED
          BY <4>1, <4>2
      <3> QED
        BY <3>3 DEF WindowContents
    <2> QED
      BY <2>6, <2>7, <2>8, <2>9 DEF IInv
  <1> QED
    BY <1>7, <1>8, CacheAssumption

(* No step of the cache breaks the invariant.                              *)
LEMMA NextIInv == IInv /\ [Next]_vars => IInv'
  <1> SUFFICES ASSUME IInv, [Next]_vars PROVE IInv'
    OBVIOUS
  <1>1. CASE LifeCycle
    BY <1>1, LifeCycleIInv
  <1>2. ASSUME NEW t \in Threads, Caller(t) PROVE IInv'
    BY <1>2, CallIInv, WriteIInv, ReadNothingIInv, ReadValueIInv DEF Caller
  <1>3. CASE UNCHANGED vars
    BY <1>3 DEF vars, IInv, TypeOK, Shape, WindowLength, WindowContents, Unread
  <1> QED
    BY <1>1, <1>2, <1>3 DEF Next

(* The inductive invariant holds in every reachable state.                 *)
THEOREM Invariance == Spec => []IInv
  <1> QED
    BY InitIInv, NextIInv, PTL DEF Spec

(* Every variable keeps its type, whatever the configured depth.           *)
THEOREM TypeCorrectness == Spec => []TypeOK
  <1>1. IInv => TypeOK
    BY DEF IInv
  <1> QED
    BY <1>1, Invariance, PTL

(* The cache always holds exactly the newest unread writes, in order.      *)
THEOREM WindowCorrectness == Spec => []Window
  <1>1. IInv => Window
    BY DEF IInv, Window
  <1> QED
    BY <1>1, Invariance, PTL

(* A successful read hands out the value the contract names.               *)
LEMMA ReadValueTakes ==
    ASSUME IInv, NEW t \in Threads, ReadValue(t)
    PROVE  \E k \in Keys : Contract!Take(t, k)
  <1>1. pc[t] \in ReadOp
    BY DEF IInv, TypeOK, ReadValue, Idle, WriteOp
  <1>2. PICK k \in Keys : pc[t].key = k
    BY <1>1 DEF ReadOp
  <1>3. /\ store[k] \in Seq(Values) /\ store[k] # <<>>
        /\ hist[k] \in Seq(Values)
        /\ next \in [Keys -> Nat \ {0}] /\ next[k] \in Nat \ {0}
        /\ depth \in Nat \ {0}
    BY <1>2 DEF IInv, TypeOK, ReadValue
  <1>4. /\ got' = [got EXCEPT ![t] = Head(store[k])]
        /\ UNCHANGED <<hist, depth>>
    BY <1>2 DEF ReadValue, Return, Front
  <1>5. PICK n \in Nat \ {0}, h \in Nat : n = Len(store[k]) /\ h = Len(hist[k])
    BY <1>3
  <1>6. /\ n = IF h - next[k] + 1 > depth THEN depth ELSE h - next[k] + 1
        /\ Kind = "buffer" => depth = 1
    BY <1>5 DEF IInv, WindowLength, Unread, Shape
  <1>7. n <= h
    BY <1>3, <1>6
  <1>8. Contract!Position(k) = h - n + 1
    <2>1. CASE Kind = "queue"
      <3>1. Contract!Oldest(k) =
              IF next[k] >= h - depth + 1 THEN next[k] ELSE h - depth + 1
        BY <1>5 DEF Contract!Oldest
      <3>2. (IF next[k] >= h - depth + 1 THEN next[k] ELSE h - depth + 1) = h - n + 1
        BY <1>3, <1>6
      <3> QED
        BY <2>1, <3>1, <3>2 DEF Contract!Position
    <2>2. CASE Kind = "buffer"
      <3>1. n = 1
        BY <1>3, <1>6, <2>2
      <3> QED
        BY <1>5, <2>2, <3>1 DEF Contract!Position
    <2> QED
      BY <2>1, <2>2, CacheAssumption
  <1>9. h - n + 1 \in 1 .. h
    BY <1>7
  <1>10. Head(store[k]) = hist[k][h - n + 1]
    <2>1. 1 \in 1 .. n
      OBVIOUS
    <2>2. store[k][1] = hist[k][h - n + 1]
      BY <1>5, <2>1 DEF IInv, WindowContents
    <2> QED
      BY <1>3, <2>2
  <1>11. next' = [next EXCEPT ![k] = IF Kind = "queue" THEN h - n + 1 + 1 ELSE @]
    <2>1. CASE Kind = "queue"
      <3>1. h - n + 2 = h - n + 1 + 1
        OBVIOUS
      <3> QED
        BY <1>2, <1>5, <2>1, <3>1 DEF ReadValue
    <2>2. CASE Kind # "queue"
      BY <1>3, <2>2 DEF ReadValue
    <2> QED
      BY <2>1, <2>2
  <1> QED
    BY <1>4, <1>5, <1>8, <1>9, <1>10, <1>11 DEF Contract!Take

(* Every step of the cache is one of its contract, or a stutter.           *)
LEMMA NextContract == IInv /\ [Next]_vars => [Contract!Next]_Contract!vars
  <1> SUFFICES ASSUME IInv, [Next]_vars PROVE [Contract!Next]_Contract!vars
    OBVIOUS
  <1>1. ASSUME NEW d \in Depths, Open(d) PROVE Contract!Configure
    BY <1>1, DepthPositive, CacheAssumption
    DEF Open, IInv, Shape, Contract!Configure, callers
  <1>2. ASSUME OpenFails \/ Start \/ Stop PROVE UNCHANGED Contract!vars
    BY <1>2 DEF OpenFails, Start, Stop, Contract!vars, callers
  <1>3. ASSUME Close PROVE Contract!Clear
    BY <1>3 DEF Close, Contract!Clear, callers
  <1>4. ASSUME NEW t \in Threads, NEW op \in WriteOp \cup ReadOp, Call(t, op)
        PROVE  UNCHANGED Contract!vars
    BY <1>4 DEF Call, Contract!vars
  <1>5. ASSUME NEW t \in Threads, ReadNothing(t) PROVE UNCHANGED Contract!vars
    BY <1>5 DEF ReadNothing, Return, Contract!vars
  <1>6. ASSUME NEW t \in Threads, Write(t)
        PROVE  \E k \in Keys, v \in Values : Contract!Put(k, v)
    <2>1. pc[t] \in WriteOp
      BY <1>6 DEF IInv, TypeOK, Write, Idle, ReadOp
    <2>2. PICK k \in Keys, v \in Values : pc[t].key = k /\ pc[t].val = v
      BY <2>1 DEF WriteOp
    <2> QED
      BY <1>6, <2>2 DEF Write, Return, Contract!Put
  <1>7. ASSUME NEW t \in Threads, ReadValue(t)
        PROVE  \E k \in Keys : Contract!Take(t, k)
    BY <1>7, ReadValueTakes
  <1>8. CASE UNCHANGED vars
    BY <1>8 DEF vars, Contract!vars
  <1>9. CASE LifeCycle
    BY <1>1, <1>2, <1>3, <1>9 DEF LifeCycle, Contract!Next
  <1>10. ASSUME NEW t \in Threads, Caller(t) PROVE [Contract!Next]_Contract!vars
    BY <1>4, <1>5, <1>6, <1>7, <1>10 DEF Caller, Contract!Next
  <1> QED
    BY <1>8, <1>9, <1>10 DEF Next

(* Whatever runs concurrently, readers see what the contract promises:     *)
(* a queue gives each remembered value once, oldest first; a latest buffer *)
(* gives the newest.                                                       *)
THEOREM CacheRefinement == Spec => ImplementsContract
  <1>1. Init => Contract!Init
    BY DEF Init, Contract!Init
  <1> QED
    BY <1>1, NextContract, Invariance, PTL
    DEF Spec, ImplementsContract, Contract!Spec
=============================================================================
