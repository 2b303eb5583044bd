---------------------------- MODULE EndpointProofs ----------------------------
(***************************************************************************)
(* Endpoint's safety, for any keys, values, subscribers and threads: the   *)
(* comm ends before the cache, what is notified is stored, and the cache   *)
(* keeps its promises under the endpoint's calls.                          *)
(***************************************************************************)
EXTENDS Endpoint, PduCacheProofs, FiniteSetTheorems

(* Nothing happens before open, and open happens once.                     *)
BeforeOpen ==
    ~opened => /\ owner = "idle" /\ stage = "idle"
               /\ ~commMade /\ ~callbackSet /\ ~commRunning /\ ~commThread

(* The comm is started, and its receive thread lives, on a started cache;  *)
(* who stops the cache has joined it, and a join is about to follow a flag *)
(* that is clear.                                                          *)
CommInv ==
    /\ commThread \/ owner = "commStart" => commMade /\ running
    /\ owner \in {"cacheStop", "cacheClose"} => ~commThread
    /\ commThread /\ ~commRunning => owner \in {"commJoin", "commCloseJoin"}

(* The packet under way belongs to the receive thread, if there is a comm. *)
StageInv ==
    /\ commMade /\ stage # "idle" => commThread
    /\ stage \in {"wait", "check", "call"} => commMade
    /\ stage \in {"check", "call", "write", "copy", "notify"} => packet \in Packets
    /\ stage = "call" /\ ~callbackSet => owner \in {"commClose", "commCloseJoin"}

WriteOf(p) == [op |-> "write", key |-> p.key, val |-> p.val]

(* What CommThread does in the cache is to write its packet.               *)
WriterInv ==
    /\ stage # "write" => pc[CommThread] = Idle
    /\ stage = "write" => pc[CommThread] \in {Idle, WriteOf(packet)}

(* A packet that was written is the newest under its key, or was read.     *)
IsNewest(p) == IF store[p.key] = <<>> THEN Kind = "queue"
               ELSE store[p.key][Len(store[p.key])] = p.val

StoredInv == (commMade /\ stage \in {"copy", "notify"}) => IsNewest(packet)

(* Who is about to be called is a subscriber of the packet's key.          *)
TargetsInv ==
    stage = "notify" => \A i \in targets : KeyOf[i] = packet.key

EInv == /\ EndpointTypeOK /\ IInv
        /\ BeforeOpen /\ CommInv /\ StageInv /\ WriterInv /\ StoredInv
        /\ BadCallNeedsClose /\ TargetsInv
-----------------------------------------------------------------------------
(* Before open there is no comm, no packet and nobody told.                *)
LEMMA InitEInv == EndpointInit => EInv
  <1> SUFFICES ASSUME EndpointInit PROVE EInv
    OBVIOUS
  <1>1. IInv
    BY InitIInv DEF EndpointInit
  <1>2. EndpointTypeOK
    <2>1. <<>> \in Seq(Packets)
      OBVIOUS
    <2>2. seen \in [Subscribers -> Seq(Packets)]
      BY <2>1 DEF EndpointInit
    <2> QED
      BY <1>1, <2>1, <2>2 DEF EndpointInit, EndpointTypeOK, IInv, OwnerSteps
  <1>3. /\ BeforeOpen /\ CommInv /\ StageInv /\ StoredInv /\ BadCallNeedsClose
        /\ TargetsInv
    BY DEF EndpointInit, BeforeOpen, CommInv, StageInv, StoredInv, BadCallNeedsClose,
       TargetsInv
  <1>4. WriterInv
    BY EndpointAssumption DEF EndpointInit, Init, WriterInv
  <1> QED
    BY <1>1, <1>2, <1>3, <1>4 DEF EInv

(* Every step of the endpoint is a step of the cache, or leaves it alone.  *)
LEMMA CacheStep == EInv /\ [EndpointNext]_allVars => [Next]_vars
  <1> SUFFICES ASSUME EInv, [EndpointNext]_allVars PROVE [Next]_vars
    OBVIOUS
  <1>1. CASE OpenEndpoint
    BY <1>1 DEF OpenEndpoint, Next, LifeCycle
  <1>2. CASE StartEndpoint
    BY <1>2 DEF StartEndpoint, Next, LifeCycle
  <1>3. CASE StopEndpoint \/ CloseEndpoint
    BY <1>3 DEF StopEndpoint, CloseEndpoint, Enter, cacheVars
  <1>4. CASE StopCache \/ CloseCache
    BY <1>4 DEF StopCache, CloseCache, Next, LifeCycle
  <1>5. CASE StartComm \/ UnsetCallback \/ CommFlag \/ CommJoin
    BY <1>5 DEF StartComm, UnsetCallback, CommFlag, CommJoin, cacheVars
  <1>6. CASE WriteLook
    <2>1. packet \in Packets
      BY <1>6 DEF EInv, StageInv, WriteLook
    <2>2. WriteOf(packet) \in WriteOp /\ Call(CommThread, WriteOf(packet))
      BY <1>6, <2>1 DEF WriteLook, WriteOf, WriteOp, Packets
    <2> QED
      BY <2>2, EndpointAssumption DEF Next, Caller
  <1>7. CASE WriteCache
    BY <1>7, EndpointAssumption DEF WriteCache, Next, Caller
  <1>8. ASSUME NEW t \in Threads \ {CommThread}, Recv(t) PROVE [Next]_vars
    BY <1>8 DEF Recv, Next, Caller
  <1>9. CASE \/ Receive \/ Send \/ Wait \/ ReceiverExits \/ Check \/ CallBack
             \/ WriteRefused \/ CopyTargets
    BY <1>9 DEF Receive, Send, Wait, ReceiverExits, Check, CallBack, WriteRefused,
       CopyTargets, cacheVars
  <1>10. ASSUME NEW i \in Subscribers, Notify(i) PROVE [Next]_vars
    BY <1>10 DEF Notify, cacheVars
  <1>11. CASE UNCHANGED allVars
    BY <1>11 DEF allVars, cacheVars
  <1> QED
    BY <1>1, <1>2, <1>3, <1>4, <1>5, <1>6, <1>7, <1>8, <1>9, <1>10, <1>11
    DEF EndpointNext, OwnerStep, PacketStep

(* Every step keeps the types.                                             *)
LEMMA TypeENext == EInv /\ [EndpointNext]_allVars => EndpointTypeOK'
  <1> SUFFICES ASSUME EInv, [EndpointNext]_allVars PROVE EndpointTypeOK'
    OBVIOUS
  <1>1. TypeOK'
    BY CacheStep, NextIInv DEF EInv, IInv
  <1>a. EndpointTypeOK /\ StageInv
    BY DEF EInv
  <1> USE <1>a DEF EndpointTypeOK, commVars, packetVars
  <1>2. CASE OpenEndpoint
    BY <1>1, <1>2 DEF OpenEndpoint
  <1>3. CASE StartEndpoint
    BY <1>1, <1>3 DEF StartEndpoint, OwnerSteps
  <1>4. CASE StopEndpoint \/ CloseEndpoint
    BY <1>1, <1>4 DEF StopEndpoint, CloseEndpoint, Enter, OwnerSteps
  <1>5. CASE OwnerStep
    <2>1. CASE StartComm \/ UnsetCallback
      BY <1>1, <2>1 DEF StartComm, UnsetCallback, OwnerSteps
    <2>2. CASE CommFlag
      BY <1>1, <2>2 DEF CommFlag, OwnerSteps
    <2>3. CASE CommJoin
      BY <1>1, <2>3 DEF CommJoin, OwnerSteps
    <2>4. CASE StopCache \/ CloseCache
      BY <1>1, <2>4 DEF StopCache, CloseCache, OwnerSteps
    <2> QED
      BY <1>5, <2>1, <2>2, <2>3, <2>4 DEF OwnerStep
  <1>6. CASE Receive \/ Send
    BY <1>1, <1>6 DEF Receive, Send, OwnerUnchanged
  <1>7. CASE Wait \/ ReceiverExits \/ Check \/ WriteLook \/ WriteRefused
    BY <1>1, <1>7 DEF Wait, ReceiverExits, Check, WriteLook, WriteRefused, GoTo,
       OwnerUnchanged
  <1>8. CASE CallBack \/ WriteCache
    <2>1. packet \in Packets
      BY <1>8 DEF StageInv, CallBack, WriteCache
    <2>2. received' \in Seq(Packets)
      <3>1. Append(received, packet) \in Seq(Packets)
        BY <2>1
      <3>2. received' = received \/ received' = Append(received, packet)
        BY <1>8 DEF CallBack, WriteCache
      <3> QED
        BY <3>1, <3>2
    <2>3. CASE CallBack
      BY <1>1, <2>2, <2>3 DEF CallBack
    <2>4. CASE WriteCache
      BY <1>1, <2>2, <2>4 DEF WriteCache, OwnerUnchanged
    <2> QED
      BY <1>8, <2>3, <2>4
  <1>9. CASE CopyTargets
    BY <1>1, <1>9 DEF CopyTargets, GoTo, OwnerUnchanged
  <1>10. ASSUME NEW i \in Subscribers, Notify(i) PROVE EndpointTypeOK'
    <2>1. packet \in Packets
      BY <1>10 DEF StageInv, Notify
    <2>2. Append(seen[i], packet) \in Seq(Packets)
      BY <2>1
    <2>3. seen' \in [Subscribers -> Seq(Packets)] /\ targets' \in SUBSET Subscribers
      BY <1>10, <2>2 DEF Notify
    <2> QED
      BY <1>1, <1>10, <2>3 DEF Notify, GoTo, OwnerUnchanged
  <1>11. ASSUME NEW t \in Threads \ {CommThread}, Recv(t) PROVE EndpointTypeOK'
    BY <1>1, <1>11 DEF Recv, endpointVars
  <1>12. CASE UNCHANGED allVars
    BY <1>1, <1>12 DEF allVars, endpointVars
  <1> QED
    BY <1>2, <1>3, <1>4, <1>5, <1>6, <1>7, <1>8, <1>9, <1>10, <1>11, <1>12
    DEF EndpointNext, PacketStep

(* Before an open nothing runs.                                            *)
LEMMA BeforeOpenNext == EInv /\ [EndpointNext]_allVars => BeforeOpen'
  <1> SUFFICES ASSUME EInv, [EndpointNext]_allVars, ~opened' PROVE
               /\ owner' = "idle" /\ stage' = "idle"
               /\ ~commMade' /\ ~callbackSet' /\ ~commRunning' /\ ~commThread'
    BY DEF BeforeOpen
  <1>1. ~opened /\ opened' = opened
    BY CacheStep
    DEF EInv, IInv, TypeOK, Next, LifeCycle, Caller, Open, OpenFails, Start, Stop, Close,
        Call, Write, ReadNothing, ReadValue, Return, vars
  <1>2. /\ owner = "idle" /\ stage = "idle"
        /\ ~commMade /\ ~callbackSet /\ ~commRunning /\ ~commThread
    BY <1>1 DEF EInv, BeforeOpen
  <1>3. ~OpenEndpoint /\ ~StartEndpoint /\ ~StopEndpoint /\ ~CloseEndpoint /\ ~Send
    BY <1>1 DEF OpenEndpoint, StartEndpoint, StopEndpoint, CloseEndpoint, Enter, Open,
       OpenFails, Start, Send
  <1>4. ~OwnerStep /\ ~Receive /\ ~PacketStep
    BY <1>2 DEF OwnerStep, StartComm, UnsetCallback, CommFlag, CommJoin, StopCache, CloseCache,
       Receive, PacketStep, Wait, ReceiverExits, Check, CallBack, WriteLook, WriteRefused,
       WriteCache, CopyTargets, Notify
  <1>5. ASSUME NEW t \in Threads \ {CommThread}, Recv(t)
        PROVE  UNCHANGED endpointVars
    BY <1>5 DEF Recv
  <1>6. UNCHANGED endpointVars
    BY <1>3, <1>4, <1>5 DEF EndpointNext, allVars
  <1> QED
    BY <1>2, <1>6 DEF endpointVars, commVars, packetVars

(* Whether the comm may hand over packets follows from where the owner is. *)
LEMMA CommNext == EInv /\ [EndpointNext]_allVars => CommInv' /\ StageInv'
  <1> SUFFICES ASSUME EInv, [EndpointNext]_allVars PROVE CommInv' /\ StageInv'
    OBVIOUS
  <1>a. EndpointTypeOK /\ BeforeOpen /\ CommInv /\ StageInv
    BY DEF EInv
  <1> USE <1>a DEF EndpointTypeOK, BeforeOpen, CommInv, StageInv, commVars, packetVars
  <1>1. CASE OpenEndpoint
    BY <1>1 DEF OpenEndpoint, Open, OpenFails
  <1>2. CASE StartEndpoint
    BY <1>2 DEF StartEndpoint, Start
  <1>3. CASE StopEndpoint \/ CloseEndpoint
    BY <1>3 DEF StopEndpoint, CloseEndpoint, Enter, cacheVars, vars
  <1>4. CASE OwnerStep
    <2>1. CASE StartComm \/ UnsetCallback
      BY <1>4, <2>1 DEF StartComm, UnsetCallback, cacheVars, vars
    <2>2. CASE CommFlag
      BY <1>4, <2>2 DEF CommFlag, cacheVars, vars
    <2>3. CASE CommJoin
      BY <1>4, <2>3 DEF CommJoin, cacheVars, vars
    <2>4. CASE StopCache \/ CloseCache
      BY <1>4, <2>4 DEF StopCache, CloseCache, Stop, Close
    <2> QED
      BY <1>4, <2>1, <2>2, <2>3, <2>4 DEF OwnerStep
  <1>5. CASE Receive \/ Send
    BY <1>5 DEF Receive, Send, OwnerUnchanged, cacheVars, vars
  <1>6. CASE Wait \/ ReceiverExits \/ Check \/ CallBack
    BY <1>6 DEF Wait, ReceiverExits, Check, CallBack, GoTo, OwnerUnchanged, cacheVars, vars
  <1>7. CASE WriteLook \/ WriteRefused \/ WriteCache
    BY <1>7 DEF WriteLook, WriteRefused, WriteCache, Call, Write, Return, GoTo,
       OwnerUnchanged, cacheVars, vars
  <1>8. CASE CopyTargets
    BY <1>8 DEF CopyTargets, GoTo, OwnerUnchanged, cacheVars, vars
  <1>9. ASSUME NEW i \in Subscribers, Notify(i) PROVE CommInv' /\ StageInv'
    BY <1>9 DEF Notify, GoTo, OwnerUnchanged, cacheVars, vars
  <1>10. ASSUME NEW t \in Threads \ {CommThread}, Recv(t) PROVE CommInv' /\ StageInv'
    BY <1>10 DEF Recv, Call, ReadNothing, ReadValue, Return, endpointVars
  <1>11. CASE UNCHANGED allVars
    BY <1>11 DEF allVars, endpointVars, cacheVars, vars
  <1> QED
    BY <1>1, <1>2, <1>3, <1>4, <1>5, <1>6, <1>7, <1>8, <1>9, <1>10, <1>11
    DEF EndpointNext, PacketStep

(* A packet that is lost to an empty callback is lost during a close.      *)
LEMMA BadCallNext == EInv /\ [EndpointNext]_allVars => BadCallNeedsClose'
  <1> SUFFICES ASSUME EInv, [EndpointNext]_allVars PROVE BadCallNeedsClose'
    OBVIOUS
  <1>a. BadCallNeedsClose /\ StageInv
    BY DEF EInv
  <1>1. CASE UNCHANGED allVars
    BY <1>a, <1>1 DEF allVars, endpointVars, commVars, BadCallNeedsClose
  <1>2. CASE CallBack
    BY <1>a, <1>2 DEF CallBack, commVars, StageInv, BadCallNeedsClose
  <1>3. CASE EndpointNext /\ ~CallBack
    <2>1. process' = "up"
      BY <1>3 DEF EndpointNext, OpenEndpoint, StartEndpoint, StopEndpoint, CloseEndpoint,
         Enter, OwnerStep, StartComm, UnsetCallback, CommFlag, CommJoin, StopCache, CloseCache,
         Receive, Send, PacketStep, Wait, ReceiverExits, Check, WriteLook, WriteRefused,
         WriteCache, CopyTargets, Notify, OwnerUnchanged, Recv, endpointVars
    <2> QED
      BY <2>1 DEF BadCallNeedsClose
  <1> QED
    BY <1>1, <1>2, <1>3

(* Nobody but CommThread writes, and what it wrote stays the newest until  *)
(* it is read: the cache is not cleared while the receive thread is there. *)
LEMMA WriterNext == EInv /\ [EndpointNext]_allVars => WriterInv' /\ StoredInv'
  <1> SUFFICES ASSUME EInv, [EndpointNext]_allVars PROVE WriterInv' /\ StoredInv'
    OBVIOUS
  <1>a. /\ BeforeOpen /\ CommInv /\ StageInv /\ WriterInv /\ StoredInv
        /\ pc \in [Threads -> {Idle} \cup WriteOp \cup ReadOp]
        /\ store \in [Keys -> Seq(Values)]
        /\ CommThread \in Threads
        /\ Kind \in {"buffer", "queue"}
    BY EndpointAssumption, CacheAssumption DEF EInv, IInv, TypeOK
  <1> USE <1>a
  <1>1. CASE UNCHANGED <<store, pc>> /\ UNCHANGED <<commMade, stage, packet>>
    BY <1>1 DEF WriterInv, StoredInv, IsNewest
  <1>2. CASE OpenEndpoint
    <2>1. stage = "idle" /\ stage' = "idle" /\ pc' = pc
      BY <1>2 DEF OpenEndpoint, Open, OpenFails, BeforeOpen, packetVars, callers
    <2> QED
      BY <2>1 DEF WriterInv, StoredInv
  <1>3. CASE \/ StartEndpoint \/ StopEndpoint \/ CloseEndpoint
             \/ StartComm \/ UnsetCallback \/ CommFlag \/ CommJoin \/ StopCache
    <2>1. UNCHANGED <<store, pc>> /\ UNCHANGED <<commMade, stage, packet>>
      BY <1>3 DEF StartEndpoint, StopEndpoint, CloseEndpoint, Enter, StartComm,
         UnsetCallback, CommFlag,
         CommJoin, StopCache, Start, Stop, commVars, packetVars, cacheVars, vars, callers
    <2> QED
      BY <1>1, <2>1
  <1>4. CASE CloseCache
    <2>1. UNCHANGED <<pc, commMade, stage, packet>> /\ owner = "cacheClose"
      BY <1>4 DEF CloseCache, Close, commVars, packetVars, callers
    <2>2. ~(commMade /\ stage # "idle")
      BY <2>1 DEF CommInv, StageInv
    <2> QED
      BY <2>1, <2>2 DEF WriterInv, StoredInv
  <1>5. CASE Receive \/ Send \/ Wait \/ ReceiverExits \/ Check \/ CallBack
    <2>1. pc' = pc /\ stage # "write" /\ stage' \notin {"copy", "notify"}
      BY <1>5 DEF Receive, Send, Wait, ReceiverExits, Check, CallBack, GoTo, cacheVars, vars
    <2> QED
      BY <2>1 DEF WriterInv, StoredInv
  <1>6. CASE WriteLook
    <2>1. /\ stage = "write" /\ UNCHANGED <<stage, packet>>
          /\ pc' = [pc EXCEPT ![CommThread] = WriteOf(packet)]
      BY <1>6 DEF WriteLook, Call, WriteOf, packetVars
    <2> QED
      BY <2>1 DEF WriterInv, StoredInv
  <1>7. CASE WriteRefused
    <2>1. pc' = pc /\ pc[CommThread] = Idle /\ ~running /\ stage = "write"
      BY <1>7 DEF WriteRefused, cacheVars, vars
    <2>2. ~commMade
      BY <2>1 DEF CommInv, StageInv
    <2>3. stage' = "idle"
      BY <1>7, <2>2 DEF WriteRefused, GoTo
    <2> QED
      BY <2>1, <2>3 DEF WriterInv, StoredInv
  <1>8. CASE WriteCache
    <2>1. /\ stage = "write" /\ stage' = "copy" /\ packet' = packet
          /\ pc[CommThread].op = "write"
          /\ pc' = [pc EXCEPT ![CommThread] = Idle]
      BY <1>8 DEF WriteCache, Write, Return
    <2>2. pc[CommThread] = WriteOf(packet) /\ packet \in Packets
      BY <2>1 DEF WriterInv, StageInv, Idle
    <2>3. PICK k \in Keys, v \in Values : packet.key = k /\ packet.val = v
      BY <2>2 DEF Packets
    <2>4. store' = [store EXCEPT ![k] = Stored(store[k], v)]
      BY <1>8, <2>2, <2>3 DEF WriteCache, Write, WriteOf
    <2>5. /\ Len(store[k]) <= depth /\ depth \in Nat \ {0}
          /\ Kind = "buffer" => depth = 1
      BY <2>3 DEF EInv, IInv, TypeOK, WindowLength, Shape, Unread
    <2>6. Stored(store[k], v) # <<>> /\ Stored(store[k], v)[Len(Stored(store[k], v))] = v
      <3> DEFINE q == store[k]
                 s == Stored(q, v)
      <3>1. q \in Seq(Values)
        BY <2>3
      <3>2. /\ s \in Seq(Values)
            /\ Len(s) = IF Len(q) + 1 > depth THEN depth ELSE Len(q) + 1
            /\ \A i \in 1 .. Len(s) : s[i] = Append(q, v)[Len(q) + 1 - Len(s) + i]
        BY <2>3, <2>5, <3>1, StoredSequence
      <3> HIDE DEF s
      <3>3. Len(s) \in 1 .. Len(s) /\ s # <<>>
        BY <2>5, <3>1, <3>2
      <3>4. Len(q) + 1 - Len(s) + Len(s) = Len(q) + 1
        BY <3>1, <3>2
      <3>5. s[Len(s)] = Append(q, v)[Len(q) + 1]
        BY <3>2, <3>3, <3>4
      <3>6. Append(q, v)[Len(q) + 1] = v
        BY <3>1
      <3> QED
        BY <3>3, <3>5, <3>6 DEF s
    <2> QED
      BY <2>1, <2>3, <2>4, <2>6 DEF WriterInv, StoredInv, IsNewest
  <1>9. CASE CopyTargets \/ \E i \in Subscribers : Notify(i)
    <2>1. /\ UNCHANGED <<store, pc, commMade>> /\ stage \in {"copy", "notify"}
          /\ stage' = "idle" \/ (stage' = "notify" /\ packet' = packet)
      BY <1>9 DEF CopyTargets, Notify, GoTo, OwnerUnchanged, cacheVars, vars
    <2> QED
      BY <2>1 DEF WriterInv, StoredInv, IsNewest
  <1>10. ASSUME NEW t \in Threads \ {CommThread}, Recv(t)
         PROVE  WriterInv' /\ StoredInv'
    <2>1. UNCHANGED <<commMade, stage, packet>> /\ pc'[CommThread] = pc[CommThread]
      BY <1>10 DEF Recv, Call, ReadNothing, ReadValue, Return, endpointVars, commVars,
         packetVars
    <2>2. ASSUME NEW k \in Keys, store[k] # <<>>, store'[k] # <<>>
          PROVE  store'[k][Len(store'[k])] = store[k][Len(store[k])]
      <3>1. store[k] \in Seq(Values)
        OBVIOUS
      <3>2. store'[k] = store[k] \/ store'[k] = Tail(store[k])
        BY <1>10 DEF Recv, Call, ReadNothing, ReadValue, Return
      <3>3. CASE store'[k] = Tail(store[k])
        <4> DEFINE q == store[k]
                   r == store'[k]
        <4>1. q \in Seq(Values) /\ q # <<>> /\ r = Tail(q) /\ r # <<>>
          BY <2>2, <3>1, <3>3
        <4>2. /\ r \in Seq(Values) /\ Len(r) = Len(q) - 1 /\ Len(q) \in Nat
              /\ Len(r) \in Nat
              /\ \A i \in 1 .. Len(r) : r[i] = q[i + 1]
          <5> HIDE DEF q, r
          <5> QED
            BY <4>1
        <4>3. Len(r) # 0
          <5> HIDE DEF q, r
          <5> QED
            BY <4>1, <4>2
        <4> HIDE DEF q, r
        <4>4. Len(r) \in 1 .. Len(r) /\ Len(r) + 1 = Len(q)
          BY <4>2, <4>3
        <4>5. r[Len(r)] = q[Len(q)]
          BY <4>2, <4>4
        <4> QED
          BY <4>5 DEF q, r
      <3> QED
        BY <3>2, <3>3
    <2>3. ASSUME NEW k \in Keys, store'[k] = <<>>
          PROVE  store[k] = <<>> \/ Kind = "queue"
      BY <1>10, <2>3 DEF Recv, Call, ReadNothing, ReadValue, Return
    <2>4. ASSUME NEW k \in Keys, store[k] = <<>>
          PROVE  store'[k] = <<>>
      BY <1>10, <2>4 DEF Recv, Call, ReadNothing, ReadValue, Return
    <2>5. stage \in {"copy", "notify"} => packet.key \in Keys
      BY DEF StageInv, Packets
    <2> QED
      BY <2>1, <2>2, <2>3, <2>4, <2>5 DEF WriterInv, StoredInv, IsNewest
  <1>11. CASE UNCHANGED allVars
    BY <1>1, <1>11 DEF allVars, endpointVars, commVars, packetVars, cacheVars, vars
  <1> QED
    BY <1>2, <1>3, <1>4, <1>5, <1>6, <1>7, <1>8, <1>9, <1>10, <1>11
    DEF EndpointNext, OwnerStep, PacketStep

(* Targets are copied for the packet and only get fewer.                   *)
LEMMA TargetsNext == EInv /\ [EndpointNext]_allVars => TargetsInv'
  <1> SUFFICES ASSUME EInv, [EndpointNext]_allVars PROVE TargetsInv'
    OBVIOUS
  <1>a. TargetsInv
    BY DEF EInv
  <1>1. CASE CopyTargets
    BY <1>1 DEF CopyTargets, GoTo, TargetsInv
  <1>2. ASSUME NEW i \in Subscribers, Notify(i) PROVE TargetsInv'
    BY <1>a, <1>2 DEF Notify, GoTo, TargetsInv
  <1>3. CASE EndpointNext /\ ~CopyTargets /\ ~\E i \in Subscribers : Notify(i)
    <2>1. stage' # "notify" \/ UNCHANGED <<stage, packet, targets>>
      BY <1>3
      DEF EndpointNext, OpenEndpoint, StartEndpoint, StopEndpoint, CloseEndpoint, Enter,
          OwnerStep, StartComm, UnsetCallback, CommFlag, CommJoin, StopCache, CloseCache,
          Receive, Send,
          PacketStep, Wait, ReceiverExits, Check, CallBack, WriteLook, WriteRefused,
          WriteCache, GoTo, Recv, packetVars, endpointVars
    <2> QED
      BY <1>a, <2>1 DEF TargetsInv
  <1>4. CASE UNCHANGED allVars
    BY <1>a, <1>4 DEF allVars, endpointVars, packetVars, TargetsInv
  <1> QED
    BY <1>1, <1>2, <1>3, <1>4

(* No step of the endpoint breaks the invariant.                           *)
LEMMA NextEInv == EInv /\ [EndpointNext]_allVars => EInv'
  BY CacheStep, NextIInv, TypeENext, BeforeOpenNext, CommNext, WriterNext, BadCallNext,
     TargetsNext
  DEF EInv

(* What a longer sequence holds of a key: its old packets, and the new one *)
(* if it is of that key.                                                   *)
LEMMA OfKeyAppend ==
    ASSUME NEW s \in Seq(Packets), NEW p \in Packets, NEW k \in Keys
    PROVE  /\ p.key = k => OfKey(Append(s, p), k) = OfKey(s, k) \cup {Len(s) + 1}
           /\ p.key # k => OfKey(Append(s, p), k) = OfKey(s, k)
           /\ OfKey(s, k) \subseteq 1 .. Len(s)
           /\ \A n \in OfKey(s, k) : Append(s, p)[n] = s[n]
           /\ Append(s, p)[Len(s) + 1] = p
           /\ IsFiniteSet(OfKey(s, k))
  <1> DEFINE r == Append(s, p)
  <1>1. /\ Len(s) \in Nat /\ DOMAIN s = 1 .. Len(s) /\ DOMAIN r = 1 .. Len(s) + 1
        /\ \A n \in 1 .. Len(s) : r[n] = s[n]
        /\ r[Len(s) + 1] = p
    OBVIOUS
  <1> HIDE DEF r
  <1>2. OfKey(s, k) \subseteq 1 .. Len(s)
    BY <1>1 DEF OfKey
  <1>3. IsFiniteSet(OfKey(s, k))
    <2>1. IsFiniteSet(1 .. Len(s))
      BY <1>1, FS_Interval
    <2> QED
      BY <1>2, <2>1, FS_Subset
  <1>4. p.key = k => OfKey(r, k) = OfKey(s, k) \cup {Len(s) + 1}
    BY <1>1 DEF OfKey
  <1>5. p.key # k => OfKey(r, k) = OfKey(s, k)
    BY <1>1 DEF OfKey
  <1> QED
    BY <1>1, <1>2, <1>3, <1>4, <1>5 DEF r

(* A packet of another key changes nothing for the key.                    *)
LEMMA SelectsOther ==
    ASSUME NEW s \in Seq(Packets), NEW p \in Packets, NEW k \in Keys,
           NEW t, Selects(t, s, k), p.key # k
    PROVE  Selects(t, Append(s, p), k)
  BY OfKeyAppend DEF Selects

(* A packet of the key is the next one of it.                              *)
LEMMA SelectsMine ==
    ASSUME NEW s \in Seq(Packets), NEW p \in Packets, NEW k \in Keys,
           NEW t \in Seq(Packets), Selects(t, s, k), p.key = k
    PROVE  Selects(Append(t, p), Append(s, p), k)
  <1> DEFINE A == OfKey(s, k)
             B == OfKey(Append(s, p), k)
             L == Len(s) + 1
             UpTo(C, n) == {m \in C : m <= n}
  <1>1. /\ B = A \cup {L} /\ A \subseteq 1 .. Len(s) /\ IsFiniteSet(A)
        /\ \A n \in A : Append(s, p)[n] = s[n]
        /\ Append(s, p)[L] = p
    BY OfKeyAppend
  <1>2. Len(s) \in Nat /\ L \notin A
    BY <1>1
  <1>3. Cardinality(A) \in Nat /\ Cardinality(B) = Cardinality(A) + 1
    BY <1>1, <1>2, FS_AddElement, FS_CardinalityType
  <1>4. Len(t) = Cardinality(A) /\ \A n \in A : t[Cardinality(UpTo(A, n))] = s[n]
    BY DEF Selects
  <1>5. Len(Append(t, p)) = Cardinality(B)
    BY <1>3, <1>4
  <1>6. ASSUME NEW n \in B
        PROVE  Append(t, p)[Cardinality(UpTo(B, n))] = Append(s, p)[n]
    <2>1. CASE n = L
      <3>1. UpTo(B, n) = B
        BY <1>1, <1>2, <2>1
      <3>2. Append(t, p)[Len(t) + 1] = p
        OBVIOUS
      <3> QED
        BY <1>1, <1>3, <1>4, <2>1, <3>1, <3>2
    <2>2. CASE n # L
      <3>1. n \in A /\ n <= Len(s)
        BY <1>1, <1>2, <1>6, <2>2
      <3>2. UpTo(B, n) = UpTo(A, n)
        BY <1>1, <1>2, <3>1
      <3>3. Cardinality(UpTo(A, n)) \in 1 .. Cardinality(A)
        <4>1. UpTo(A, n) \subseteq A /\ n \in UpTo(A, n)
          BY <1>1, <3>1
        <4>2. /\ IsFiniteSet(UpTo(A, n)) /\ Cardinality(UpTo(A, n)) <= Cardinality(A)
              /\ Cardinality(UpTo(A, n)) \in Nat
          BY <1>1, <4>1, FS_Subset, FS_CardinalityType
        <4>3. Cardinality(UpTo(A, n)) # 0
          BY <4>1, <4>2, FS_EmptySet
        <4> QED
          BY <4>2, <4>3
      <3> DEFINE c == Cardinality(UpTo(A, n))
      <3>4. c \in 1 .. Len(t) /\ t[c] = s[n]
        BY <1>4, <3>1, <3>3
      <3> HIDE DEF c
      <3>5. Append(t, p)[c] = t[c]
        BY <3>4
      <3> QED
        BY <1>1, <3>1, <3>2, <3>4, <3>5 DEF c
    <2> QED
      BY <2>1, <2>2
  <1> QED
    BY <1>5, <1>6 DEF Selects

(* The end of a sequence that somebody is still to be called with.         *)
LEMMA UntoldEnds ==
    ASSUME NEW t \in Seq(Packets), NEW p \in Packets
    PROVE  t \o <<>> = t /\ t \o <<p>> = Append(t, p) /\ Append(t, p) \o <<>> = Append(t, p)
  OBVIOUS

(* Who has been called with what does not change from the reception of a   *)
(* packet to its last call, but that it moves from those due to those told.*)
LEMMA SubscriberNext ==
    EInv /\ EverySubscriberOnce /\ [EndpointNext]_allVars => EverySubscriberOnce'
  <1> SUFFICES ASSUME EInv, EverySubscriberOnce, [EndpointNext]_allVars,
                      NEW i \in Subscribers
               PROVE  Selects(seen'[i] \o Untold(i)', received', KeyOf[i])
    BY DEF EverySubscriberOnce
  <1>a. /\ BeforeOpen /\ StageInv
        /\ seen \in [Subscribers -> Seq(Packets)] /\ received \in Seq(Packets)
        /\ targets \in SUBSET Subscribers
        /\ KeyOf[i] \in Keys
    BY EndpointAssumption DEF EInv, EndpointTypeOK
  <1>c. stage = "notify" => \A j \in targets : KeyOf[j] = packet.key
    BY DEF EInv, TargetsInv
  <1>b. /\ seen[i] \in Seq(Packets)
        /\ Selects(seen[i] \o Untold(i), received, KeyOf[i])
    BY <1>a DEF EverySubscriberOnce
  <1>1. CASE UNCHANGED <<received, seen>> /\ Untold(i)' = Untold(i)
    BY <1>b, <1>1
  <1>2. ASSUME UNCHANGED packetVars, commMade' = commMade \/ stage = "idle"
        PROVE  Selects(seen'[i] \o Untold(i)', received', KeyOf[i])
    BY <1>1, <1>2 DEF packetVars, Untold
  <1>3. CASE OpenEndpoint
    <2>1. stage = "idle"
      BY <1>a, <1>3 DEF OpenEndpoint, Open, OpenFails, BeforeOpen
    <2> QED
      BY <1>2, <1>3, <2>1 DEF OpenEndpoint
  <1>4. CASE \/ StartEndpoint \/ StopEndpoint \/ CloseEndpoint \/ OwnerStep
             \/ WriteLook
    BY <1>2, <1>4
    DEF StartEndpoint, StopEndpoint, CloseEndpoint, Enter, OwnerStep, StartComm, UnsetCallback,
        CommFlag, CommJoin, StopCache, CloseCache, WriteLook, OwnerUnchanged, commVars
  <1>5. CASE Receive \/ Wait \/ ReceiverExits \/ Check
    <2>1. /\ UNCHANGED <<received, seen>>
          /\ stage \notin {"write", "copy", "notify"}
          /\ stage' \notin {"write", "copy", "notify"}
      BY <1>5 DEF Receive, Wait, ReceiverExits, Check, GoTo
    <2> QED
      BY <1>1, <2>1 DEF Untold
  <1>6. CASE Send
    BY <1>1, <1>6 DEF Send, OwnerUnchanged, Untold
  <1>7. CASE WriteRefused
    BY <1>1, <1>7 DEF WriteRefused, OwnerUnchanged, GoTo, Untold
  <1>8. CASE CallBack
    <2>1. CASE callbackSet
      <3>1. /\ packet \in Packets /\ commMade /\ stage = "call"
            /\ stage' = "write" /\ UNCHANGED <<commMade, packet, seen>>
            /\ received' = Append(received, packet)
        BY <1>a, <1>8, <2>1 DEF CallBack, StageInv, commVars
      <3>2. Untold(i) = <<>> /\ Untold(i)' = IF packet.key = KeyOf[i] THEN <<packet>> ELSE <<>>
        BY <3>1 DEF Untold
      <3>3. Selects(seen[i], received, KeyOf[i])
        BY <1>b, <3>2, UntoldEnds
      <3>4. CASE packet.key = KeyOf[i]
        <4>1. Selects(Append(seen[i], packet), Append(received, packet), KeyOf[i])
          BY <1>a, <1>b, <3>1, <3>3, <3>4, SelectsMine
        <4>2. seen'[i] \o Untold(i)' = Append(seen[i], packet)
          BY <1>b, <3>1, <3>2, <3>4, UntoldEnds
        <4> QED
          BY <3>1, <4>1, <4>2
      <3>5. CASE packet.key # KeyOf[i]
        <4>1. Selects(seen[i], Append(received, packet), KeyOf[i])
          BY <1>a, <1>b, <3>1, <3>3, <3>5, SelectsOther
        <4>2. seen'[i] \o Untold(i)' = seen[i]
          BY <1>b, <3>1, <3>2, <3>5, UntoldEnds
        <4> QED
          BY <3>1, <4>1, <4>2
      <3> QED
        BY <3>4, <3>5
    <2>2. CASE ~callbackSet
      BY <1>2, <1>8, <2>2 DEF CallBack, commVars, packetVars
    <2> QED
      BY <2>1, <2>2
  <1>9. CASE WriteCache
    <2>1. /\ packet \in Packets /\ stage = "write" /\ stage' = "copy"
          /\ UNCHANGED <<commMade, packet, seen>>
          /\ received' = IF commMade THEN received ELSE Append(received, packet)
      BY <1>a, <1>9 DEF WriteCache, StageInv, OwnerUnchanged
    <2>2. CASE commMade
      BY <1>1, <2>1, <2>2 DEF Untold
    <2>3. CASE ~commMade
      <3>1. Untold(i) = <<>> /\ Untold(i)' = IF packet.key = KeyOf[i] THEN <<packet>> ELSE <<>>
        BY <2>1, <2>3 DEF Untold
      <3>2. Selects(seen[i], received, KeyOf[i])
        BY <1>b, <3>1, UntoldEnds
      <3>4. CASE packet.key = KeyOf[i]
        <4>1. Selects(Append(seen[i], packet), Append(received, packet), KeyOf[i])
          BY <1>a, <1>b, <2>1, <2>3, <3>2, <3>4, SelectsMine
        <4>2. seen'[i] \o Untold(i)' = Append(seen[i], packet)
          BY <1>b, <2>1, <2>3, <3>1, <3>4, UntoldEnds
        <4> QED
          BY <2>1, <2>3, <4>1, <4>2
      <3>5. CASE packet.key # KeyOf[i]
        <4>1. Selects(seen[i], Append(received, packet), KeyOf[i])
          BY <1>a, <1>b, <2>1, <2>3, <3>2, <3>5, SelectsOther
        <4>2. seen'[i] \o Untold(i)' = seen[i]
          BY <1>b, <2>1, <2>3, <3>1, <3>5, UntoldEnds
        <4> QED
          BY <2>1, <2>3, <4>1, <4>2
      <3> QED
        BY <3>4, <3>5
    <2> QED
      BY <2>2, <2>3
  <1>10. CASE CopyTargets
    <2>1. /\ stage = "copy" /\ UNCHANGED <<received, seen>>
          /\ targets' = {j \in Subscribers : KeyOf[j] = packet.key}
          /\ IF targets' = {} THEN stage' = "idle"
             ELSE stage' = "notify" /\ packet' = packet
      BY <1>10 DEF CopyTargets, GoTo
    <2>2. Untold(i)' = Untold(i)
      BY <2>1 DEF Untold
    <2> QED
      BY <1>1, <2>1, <2>2
  <1>11. ASSUME NEW j \in Subscribers, Notify(j)
         PROVE  Selects(seen'[i] \o Untold(i)', received', KeyOf[i])
    <2>1. /\ packet \in Packets /\ stage = "notify" /\ j \in targets
          /\ received' = received /\ targets' = targets \ {j}
          /\ seen' = [seen EXCEPT ![j] = Append(@, packet)]
          /\ IF targets' = {} THEN stage' = "idle"
             ELSE stage' = "notify" /\ packet' = packet
      BY <1>a, <1>11 DEF Notify, GoTo, StageInv
    <2>2. CASE i # j
      <3>1. seen'[i] = seen[i] /\ Untold(i)' = Untold(i)
        BY <1>a, <2>1, <2>2 DEF Untold
      <3> QED
        BY <1>b, <2>1, <3>1
    <2>3. CASE i = j
      <3>1. Untold(i) = <<packet>>
        BY <2>1, <2>3, <1>c DEF Untold
      <3>2. seen'[i] = Append(seen[i], packet) /\ Untold(i)' = <<>>
        BY <1>a, <2>1, <2>3 DEF Untold
      <3>3. seen'[i] \o Untold(i)' = seen[i] \o Untold(i)
        BY <1>b, <2>1, <3>1, <3>2, UntoldEnds
      <3> QED
        BY <1>b, <2>1, <3>3
    <2> QED
      BY <2>2, <2>3
  <1>12. ASSUME NEW t \in Threads \ {CommThread}, Recv(t)
         PROVE  Selects(seen'[i] \o Untold(i)', received', KeyOf[i])
    BY <1>2, <1>12 DEF Recv, endpointVars, commVars
  <1>13. CASE UNCHANGED allVars
    BY <1>2, <1>13 DEF allVars, endpointVars, commVars
  <1> QED
    BY <1>3, <1>4, <1>5, <1>6, <1>7, <1>8, <1>9, <1>10, <1>11, <1>12, <1>13
    DEF EndpointNext, PacketStep

(* Every state of the endpoint satisfies the inductive invariant.          *)
THEOREM EndpointInvariance == EndpointSpec => []EInv
  <1> QED
    BY InitEInv, NextEInv, PTL DEF EndpointSpec

(* The cache takes what the comm receives: start starts it first, stop and *)
(* close join the receive thread before.                                   *)
THEOREM OutlivesCorrectness == EndpointSpec => []CacheOutlivesComm
  <1>1. EInv => CacheOutlivesComm
    BY DEF EInv, CommInv, CacheOutlivesComm
  <1> QED
    BY <1>1, EndpointInvariance, PTL

(* Who is notified of a packet finds it in the cache, or it was read.      *)
THEOREM StoredCorrectness == EndpointSpec => []StoredBeforeNotified
  <1>1. EInv => StoredBeforeNotified
    BY DEF EInv, StoredInv, IsNewest, StoredBeforeNotified
  <1> QED
    BY <1>1, EndpointInvariance, PTL

(* Once the comm has been ended, no packet of it is on its way.            *)
THEOREM QuietCorrectness == EndpointSpec => []QuietAfterStop
  <1>1. EInv => QuietAfterStop
    BY DEF EInv, CommInv, StageInv, QuietAfterStop
  <1> QED
    BY <1>1, EndpointInvariance, PTL

(* Whatever the keys, subscribers and senders, each subscriber is called   *)
(* once for each packet of its key, in the order of reception.             *)
THEOREM SubscriberCorrectness == EndpointSpec => []EverySubscriberOnce
  <1>1. EndpointInit => EverySubscriberOnce
    <2> SUFFICES ASSUME EndpointInit, NEW i \in Subscribers
                 PROVE  Selects(seen[i] \o Untold(i), received, KeyOf[i])
      BY DEF EverySubscriberOnce
    <2>1. seen[i] \o Untold(i) = <<>> /\ received = <<>>
      BY DEF EndpointInit, Untold
    <2>2. OfKey(received, KeyOf[i]) = {}
      BY <2>1 DEF OfKey
    <2> QED
      BY <2>1, <2>2, FS_EmptySet DEF Selects
  <1> QED
    BY <1>1, SubscriberNext, EndpointInvariance, PTL DEF EndpointSpec

(* A close after a stop cannot lose the call of an empty callback.         *)
THEOREM BadCallCorrectness == EndpointSpec => []BadCallNeedsClose
  <1>1. EInv => BadCallNeedsClose
    BY DEF EInv
  <1> QED
    BY <1>1, EndpointInvariance, PTL

(* Under the endpoint's calls the cache still holds the newest unread.     *)
THEOREM EndpointWindow == EndpointSpec => []Window
  <1>1. EInv => Window
    BY DEF EInv, IInv, Window
  <1> QED
    BY <1>1, EndpointInvariance, PTL

(* The endpoint's life cycle and threads use the cache within its contract.*)
THEOREM EndpointRefinement == EndpointSpec => ImplementsContract
  <1>1. EndpointInit => Contract!Init
    BY DEF EndpointInit, Init, Contract!Init
  <1>2. EInv /\ [EndpointNext]_allVars => [Contract!Next]_Contract!vars
    BY CacheStep, NextContract DEF EInv
  <1> QED
    BY <1>1, <1>2, EndpointInvariance, PTL
    DEF EndpointSpec, ImplementsContract, Contract!Spec
===============================================================================
