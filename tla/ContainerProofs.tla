--------------------------- MODULE ContainerProofs ---------------------------
(***************************************************************************)
(* Container's invariants for every set of endpoints, callers and configs: *)
(* the types, that cache_ owns whatever is open or runs, that nothing is   *)
(* left open without initialization, and, when the usage is kept, that     *)
(* references meet open endpoints only.                                    *)
(***************************************************************************)
EXTENDS Container, TLAPS

IInv == Bookkeeping /\ Owned /\ RefsAreOpen /\ NothingLeftOpen

(* What is left to open is what it was, without its head.                  *)
LEMMA TailRange ==
    ASSUME NEW q \in Seq(Ids), q # <<>>
    PROVE  /\ Head(q) \in Ids
           /\ Tail(q) \in Seq(Ids)
           /\ \A i \in Range(q) : i = Head(q) \/ i \in Range(Tail(q))
           /\ Head(q) \in Range(q)
           /\ \A i \in Range(Tail(q)) : i \in Range(q)
  <1>1. /\ Head(q) \in Ids /\ Tail(q) \in Seq(Ids)
        /\ Len(q) \in Nat \ {0} /\ Len(Tail(q)) = Len(q) - 1
        /\ DOMAIN q = 1 .. Len(q) /\ DOMAIN Tail(q) = 1 .. (Len(q) - 1)
        /\ Head(q) = q[1]
        /\ \A n \in 1 .. (Len(q) - 1) : Tail(q)[n] = q[n + 1]
    OBVIOUS
  <1>2. ASSUME NEW n \in DOMAIN q, n # 1
        PROVE  q[n] \in Range(Tail(q))
    <2>1. n - 1 \in DOMAIN Tail(q) /\ Tail(q)[n - 1] = q[n]
      BY <1>1, <1>2
    <2> QED
      BY <2>1 DEF Range
  <1>3. ASSUME NEW n \in DOMAIN Tail(q)
        PROVE  Tail(q)[n] \in Range(q)
    <2>1. n + 1 \in DOMAIN q /\ Tail(q)[n] = q[n + 1]
      BY <1>1, <1>3
    <2> QED
      BY <2>1 DEF Range
  <1>4. \A i \in Range(q) : \E n \in DOMAIN q : i = q[n]
    BY DEF Range
  <1>5. \A i \in Range(Tail(q)) : \E n \in DOMAIN Tail(q) : i = Tail(q)[n]
    BY DEF Range
  <1>6. Head(q) \in Range(q)
    BY <1>1 DEF Range
  <1> QED
    BY <1>1, <1>2, <1>3, <1>4, <1>5, <1>6

(* Of a list without entries nothing is left to visit.                     *)
LEMMA EmptyRange == \A i : i \notin Range(<<>>)
  BY DEF Range

(* The container before its first call.                                    *)
LEMMA InitInv == Init => IInv
  <1> SUFFICES ASSUME Init PROVE IInv
    OBVIOUS
  <1> USE ContainerAssumption DEF Init
  <1>1. TypeOK
    <2>1. toOpen \in Seq(Ids)
      OBVIOUS
    <2>2. want \in [Callers -> Calls \cup {Idle}]
      OBVIOUS
    <2>3. /\ opened \in [Ids -> BOOLEAN] /\ running \in [Ids -> BOOLEAN]
          /\ receiver \in [Ids -> {"none", "loop", "callback", "asks", "exited"}]
      OBVIOUS
    <2> QED
      BY <2>1, <2>2, <2>3 DEF TypeOK
  <1>2. HolderFits /\ HolderCloses /\ HolderOpens
    BY DEF HolderFits, HolderCloses, HolderOpens
  <1>3. UsageKept
    BY DEF UsageKept, Pending, Idle
  <1>4. Owned /\ RefsAreOpen /\ NothingLeftOpen
    BY DEF Owned, RefsAreOpen, NothingLeftOpen, Active
  <1> QED
    BY <1>1, <1>2, <1>3, <1>4 DEF IInv, Bookkeeping

(* A call that returns without having held mtx_, or did nothing under it. *)
LEMMA ReturnStep ==
    ASSUME IInv, NEW t \in Callers, lock = Nobody, Return(t),
           UNCHANGED <<config, lock, holderVars, initialized, cached, endpointVars>>
    PROVE  IInv'
  <1> USE ContainerAssumption DEF IInv, Bookkeeping, Return, holderVars, endpointVars
  <1>1. TypeOK'
    BY DEF TypeOK, Idle
  <1>2. HolderFits'
    BY DEF TypeOK, HolderFits, Idle, Calls
  <1>3. HolderCloses'
    BY DEF TypeOK, HolderFits, HolderCloses, Owned, Active, Erased, Idle
  <1>4. HolderOpens'
    BY DEF TypeOK, HolderFits, HolderOpens, UsageKept, Pending, NothingLeftOpen, RefsAreOpen, Active, Erased, Idle
  <1>5. UsageKept'
    BY DEF TypeOK, UsageKept, Pending, Idle
  <1>6. Owned' /\ RefsAreOpen' /\ NothingLeftOpen'
    BY DEF TypeOK, HolderFits, Owned, RefsAreOpen, NothingLeftOpen, Active
  <1> QED
    BY <1>1, <1>2, <1>3, <1>4, <1>5, <1>6

(* A new call; the usage keeps create_pdu_lchannels from it. *)
LEMMA CallStep ==
    ASSUME IInv, NEW t \in Callers, NEW c \in Calls, Call(t, c)
    PROVE  IInv'
  <1> USE ContainerAssumption DEF IInv, Bookkeeping, Call, AsUsed, holderVars, endpointVars
  <1>1. TypeOK'
    BY DEF TypeOK, Idle
  <1>2. HolderFits'
    BY DEF TypeOK, HolderFits, Idle, Calls
  <1>3. HolderCloses'
    BY DEF TypeOK, HolderFits, HolderCloses, Owned, Active, Erased, Idle
  <1>4. HolderOpens'
    BY DEF TypeOK, HolderFits, HolderOpens, UsageKept, Pending, NothingLeftOpen, RefsAreOpen, Active, Erased, Idle
  <1>5. UsageKept'
    BY DEF TypeOK, UsageKept, Pending, Idle
  <1>6. Owned' /\ RefsAreOpen' /\ NothingLeftOpen'
    BY DEF TypeOK, HolderFits, Owned, RefsAreOpen, NothingLeftOpen, Active
  <1> QED
    BY <1>1, <1>2, <1>3, <1>4, <1>5, <1>6

(* A call that loads the config goes on to open or create endpoints. *)
LEMMA LoadStep ==
    ASSUME IInv, NEW t \in Callers, Load(t)
    PROVE  IInv'
  <1> USE ContainerAssumption DEF IInv, Bookkeeping, Load, Loads, Begin, endpointVars
  <1>1. TypeOK'
    BY DEF TypeOK, Idle
  <1>2. HolderFits'
    BY DEF TypeOK, HolderFits, Idle, Calls
  <1>3. HolderCloses'
    BY DEF TypeOK, HolderFits, HolderCloses, Owned, Active, Erased, Idle
  <1>4. HolderOpens'
    BY DEF TypeOK, HolderFits, HolderOpens, UsageKept, Pending, NothingLeftOpen, RefsAreOpen, Active, Erased, Idle
  <1>5. UsageKept'
    BY DEF TypeOK, UsageKept, Pending, Idle
  <1>6. Owned' /\ RefsAreOpen' /\ NothingLeftOpen'
    BY DEF TypeOK, HolderFits, Owned, RefsAreOpen, NothingLeftOpen, Active
  <1> QED
    BY <1>1, <1>2, <1>3, <1>4, <1>5, <1>6

(* start and start_all take their endpoints from cache_. *)
LEMMA StartBegins ==
    ASSUME IInv, NEW t \in Callers, StartAll(t) \/ StartOne(t)
    PROVE  IInv'
  <1> USE ContainerAssumption DEF IInv, Bookkeeping, StartAll, StartOne, Visit, Begin, endpointVars
  <1>1. TypeOK'
    BY DEF TypeOK, Idle
  <1>2. HolderFits'
    BY DEF TypeOK, HolderFits, Idle, Calls
  <1>3. HolderCloses'
    BY DEF TypeOK, HolderFits, HolderCloses, Owned, Active, Erased, Idle
  <1>4. HolderOpens'
    BY DEF TypeOK, HolderFits, HolderOpens, UsageKept, Pending, NothingLeftOpen, RefsAreOpen, Active, Erased, Idle
  <1>5. UsageKept'
    BY DEF TypeOK, UsageKept, Pending, Idle
  <1>6. Owned' /\ RefsAreOpen' /\ NothingLeftOpen'
    BY DEF TypeOK, HolderFits, Owned, RefsAreOpen, NothingLeftOpen, Active
  <1> QED
    BY <1>1, <1>2, <1>3, <1>4, <1>5, <1>6

(* stop and stop_all take their endpoints from cache_, where all that is active is. *)
LEMMA StopBegins ==
    ASSUME IInv, NEW t \in Callers, StopAll(t) \/ StopOne(t)
    PROVE  IInv'
  <1> USE ContainerAssumption DEF IInv, Bookkeeping, StopAll, StopOne, Visit, Begin, endpointVars
  <1>1. TypeOK'
    BY DEF TypeOK, Idle
  <1>2. HolderFits'
    BY DEF TypeOK, HolderFits, Idle, Calls
  <1>3. HolderCloses'
    BY DEF TypeOK, HolderFits, HolderCloses, Owned, Active, Erased, Idle
  <1>4. HolderOpens'
    BY DEF TypeOK, HolderFits, HolderOpens, UsageKept, Pending, NothingLeftOpen, RefsAreOpen, Active, Erased, Idle
  <1>5. UsageKept'
    BY DEF TypeOK, UsageKept, Pending, Idle
  <1>6. Owned' /\ RefsAreOpen' /\ NothingLeftOpen'
    BY DEF TypeOK, HolderFits, Owned, RefsAreOpen, NothingLeftOpen, Active
  <1> QED
    BY <1>1, <1>2, <1>3, <1>4, <1>5, <1>6

(* What the head of the list names is cached now, and open if it is initialize. *)
LEMMA OpenNextStep ==
    ASSUME IInv, NEW t \in Callers, OpenNext(t)
    PROVE  IInv'
  <1> USE ContainerAssumption DEF IInv, Bookkeeping, OpenNext, endpointVars
  <1>1. TypeOK'
    BY TailRange DEF TypeOK, Idle
  <1>2. HolderFits'
    BY TailRange DEF TypeOK, HolderFits, Idle, Calls
  <1>3. HolderCloses'
    BY TailRange DEF TypeOK, HolderFits, HolderCloses, Owned, Active, Erased, Idle
  <1>4. HolderOpens'
    <2>1. /\ Head(toOpen) \in Range(toOpen)
          /\ \A i \in Range(toOpen) : i = Head(toOpen) \/ i \in Range(Tail(toOpen))
          /\ \A i \in Range(Tail(toOpen)) : i \in Range(toOpen)
          /\ Head(toOpen) \in Ids
      BY TailRange DEF TypeOK
    <2>2. /\ \A i \in cached' : i \in Range(config')
          /\ \A i \in Range(toOpen') : i \in Range(config')
      BY <2>1 DEF HolderOpens
    <2>3. phase' = "open" /\ want'[lock'].op = "initialize" =>
             \A i \in cached' : opened'[i] \/ i \in Range(toOpen')
      BY <2>1 DEF TypeOK, HolderOpens
    <2>4. phase' = "open" /\ want'[lock'].op = "channels" /\ ~initialized' =>
             \A i \in Ids : ~Active(i)' /\ ~running'[i]
      BY DEF TypeOK, HolderOpens, Active
    <2>5. Usage /\ initialized => phase = "none"
      BY DEF TypeOK, HolderFits, UsageKept, Pending
    <2> QED
      BY <2>2, <2>3, <2>4, <2>5 DEF HolderOpens
  <1>5. UsageKept'
    BY DEF TypeOK, HolderFits, UsageKept, Pending, Idle
  <1>6. Owned'
    BY DEF TypeOK, HolderFits, HolderCloses, Owned, Active, Erased
  <1>7. RefsAreOpen'
    BY TailRange DEF TypeOK, HolderFits, HolderOpens, RefsAreOpen, UsageKept, Pending, Active, Erased
  <1>8. NothingLeftOpen'
    BY DEF TypeOK, HolderFits, HolderCloses, HolderOpens, NothingLeftOpen, Owned, Active, Erased
  <1> QED
    BY <1>1, <1>2, <1>3, <1>4, <1>5, <1>6, <1>7, <1>8

(* A roll-back has all of cache_ to close, where all that is active is. *)
LEMMA OpenFailsStep ==
    ASSUME IInv, NEW t \in Callers, OpenFails(t)
    PROVE  IInv'
  <1> USE ContainerAssumption DEF IInv, Bookkeeping, OpenFails, endpointVars
  <1>1. TypeOK'
    BY TailRange, EmptyRange DEF TypeOK, Idle
  <1>2. HolderFits'
    BY TailRange, EmptyRange DEF TypeOK, HolderFits, Idle, Calls
  <1>3. HolderCloses'
    BY TailRange, EmptyRange DEF TypeOK, HolderFits, HolderCloses, Owned, Active, Erased, Idle
  <1>4. HolderOpens'
    <2>1. Head(toOpen) \in Range(toOpen) /\ Head(toOpen) \in Ids
      BY TailRange DEF TypeOK
    <2>2. \A i \in cached' : i \in Range(config')
      BY <2>1 DEF HolderOpens
    <2> QED
      BY <2>1, <2>2 DEF TypeOK, HolderFits, HolderOpens, UsageKept, Pending, Active, Erased
  <1>5. UsageKept'
    BY DEF TypeOK, HolderFits, UsageKept, Pending, Idle
  <1>6. Owned'
    BY DEF TypeOK, HolderFits, HolderCloses, Owned, Active, Erased
  <1>7. RefsAreOpen'
    BY TailRange, EmptyRange DEF TypeOK, HolderFits, HolderOpens, RefsAreOpen, UsageKept, Pending, Active, Erased
  <1>8. NothingLeftOpen'
    BY DEF TypeOK, HolderFits, HolderCloses, HolderOpens, NothingLeftOpen, Owned, Active, Erased
  <1> QED
    BY <1>1, <1>2, <1>3, <1>4, <1>5, <1>6, <1>7, <1>8

(* With nothing left on the list, initialize has opened all of cache_. *)
LEMMA OpenDoneStep ==
    ASSUME IInv, NEW t \in Callers, OpenDone(t)
    PROVE  IInv'
  <1> USE ContainerAssumption DEF IInv, Bookkeeping, OpenDone, Release, Return, endpointVars
  <1>1. TypeOK'
    BY EmptyRange DEF TypeOK, Idle
  <1>2. HolderFits'
    BY EmptyRange DEF TypeOK, HolderFits, Idle, Calls
  <1>3. HolderCloses'
    BY EmptyRange DEF TypeOK, HolderFits, HolderCloses, Owned, Active, Erased, Idle
  <1>4. HolderOpens'
    BY EmptyRange DEF TypeOK, HolderFits, HolderCloses, HolderOpens, UsageKept, Pending, NothingLeftOpen, RefsAreOpen, Active, Erased, Idle
  <1>5. UsageKept'
    BY DEF TypeOK, HolderFits, UsageKept, Pending, Idle
  <1>6. Owned'
    BY DEF TypeOK, HolderFits, HolderCloses, Owned, Active, Erased
  <1>7. RefsAreOpen'
    BY EmptyRange DEF TypeOK, HolderFits, HolderOpens, RefsAreOpen, UsageKept, Pending, Active, Erased
  <1>8. NothingLeftOpen'
    BY DEF TypeOK, HolderFits, HolderCloses, HolderOpens, NothingLeftOpen, Owned, Active, Erased
  <1> QED
    BY <1>1, <1>2, <1>3, <1>4, <1>5, <1>6, <1>7, <1>8

(* A receive thread starts only for an open endpoint, which is in cache_. *)
LEMMA StartNextStep ==
    ASSUME IInv, NEW t \in Callers, NEW i \in Ids, StartNext(t, i)
    PROVE  IInv'
  <1> USE ContainerAssumption DEF IInv, Bookkeeping, StartNext
  <1>1. TypeOK'
    BY DEF TypeOK, Idle
  <1>2. HolderFits'
    BY DEF TypeOK, HolderFits, Idle, Calls
  <1>3. HolderCloses'
    BY DEF TypeOK, HolderFits, HolderCloses, Owned, Active, Erased, Idle
  <1>4. HolderOpens'
    BY DEF TypeOK, HolderFits, HolderCloses, HolderOpens, UsageKept, Pending, NothingLeftOpen, RefsAreOpen, Active, Erased, Idle
  <1>5. UsageKept'
    BY DEF TypeOK, HolderFits, UsageKept, Pending, Idle
  <1>6. Owned'
    BY DEF TypeOK, HolderFits, HolderCloses, Owned, Active, Erased
  <1>7. RefsAreOpen'
    BY DEF TypeOK, HolderFits, HolderOpens, RefsAreOpen, UsageKept, Pending, Active, Erased
  <1>8. NothingLeftOpen'
    BY DEF TypeOK, HolderFits, HolderCloses, HolderOpens, NothingLeftOpen, Owned, Active, Erased
  <1> QED
    BY <1>1, <1>2, <1>3, <1>4, <1>5, <1>6, <1>7, <1>8

(* A start leaves the endpoints open. *)
LEMMA StartDoneStep ==
    ASSUME IInv, NEW t \in Callers, StartDone(t)
    PROVE  IInv'
  <1> USE ContainerAssumption DEF IInv, Bookkeeping, StartDone, Release, Return, endpointVars
  <1>1. TypeOK'
    BY DEF TypeOK, Idle
  <1>2. HolderFits'
    BY DEF TypeOK, HolderFits, Idle, Calls
  <1>3. HolderCloses'
    BY DEF TypeOK, HolderFits, HolderCloses, Owned, Active, Erased, Idle
  <1>4. HolderOpens'
    BY DEF TypeOK, HolderFits, HolderCloses, HolderOpens, UsageKept, Pending, NothingLeftOpen, RefsAreOpen, Active, Erased, Idle
  <1>5. UsageKept'
    BY DEF TypeOK, HolderFits, UsageKept, Pending, Idle
  <1>6. Owned'
    BY DEF TypeOK, HolderFits, HolderCloses, Owned, Active, Erased
  <1>7. RefsAreOpen'
    BY DEF TypeOK, HolderFits, HolderOpens, RefsAreOpen, UsageKept, Pending, Active, Erased
  <1>8. NothingLeftOpen'
    BY DEF TypeOK, HolderFits, HolderCloses, HolderOpens, NothingLeftOpen, Owned, Active, Erased
  <1> QED
    BY <1>1, <1>2, <1>3, <1>4, <1>5, <1>6, <1>7, <1>8

(* The endpoint told to stop is still on the holder's account, as its target. *)
LEMMA StopNextStep ==
    ASSUME IInv, NEW t \in Callers, NEW i \in Ids, StopNext(t, i)
    PROVE  IInv'
  <1> USE ContainerAssumption DEF IInv, Bookkeeping, StopNext
  <1>1. TypeOK'
    BY DEF TypeOK, Idle
  <1>2. HolderFits'
    BY DEF TypeOK, HolderFits, Idle, Calls
  <1>3. HolderCloses'
    BY DEF TypeOK, HolderFits, HolderCloses, Owned, Active, Erased, Idle
  <1>4. HolderOpens'
    BY DEF TypeOK, HolderFits, HolderCloses, HolderOpens, UsageKept, Pending, NothingLeftOpen, RefsAreOpen, Active, Erased, Idle
  <1>5. UsageKept'
    BY DEF TypeOK, HolderFits, UsageKept, Pending, Idle
  <1>6. Owned'
    BY DEF TypeOK, HolderFits, HolderCloses, Owned, Active, Erased
  <1>7. RefsAreOpen'
    BY DEF TypeOK, HolderFits, HolderOpens, RefsAreOpen, UsageKept, Pending, Active, Erased
  <1>8. NothingLeftOpen'
    BY DEF TypeOK, HolderFits, HolderCloses, HolderOpens, NothingLeftOpen, Owned, Active, Erased
  <1> QED
    BY <1>1, <1>2, <1>3, <1>4, <1>5, <1>6, <1>7, <1>8

(* Once joined, the target is closed. *)
LEMMA JoinStep ==
    ASSUME IInv, NEW t \in Callers, Join(t)
    PROVE  IInv'
  <1> USE ContainerAssumption DEF IInv, Bookkeeping, Join
  <1>1. TypeOK'
    BY DEF TypeOK, Idle
  <1>2. HolderFits'
    BY DEF TypeOK, HolderFits, Idle, Calls
  <1>3. HolderCloses'
    BY DEF TypeOK, HolderFits, HolderCloses, Owned, Active, Erased, Idle
  <1>4. HolderOpens'
    BY DEF TypeOK, HolderFits, HolderCloses, HolderOpens, UsageKept, Pending, NothingLeftOpen, RefsAreOpen, Active, Erased, Idle
  <1>5. UsageKept'
    BY DEF TypeOK, HolderFits, UsageKept, Pending, Idle
  <1>6. Owned'
    BY DEF TypeOK, HolderFits, HolderCloses, Owned, Active, Erased
  <1>7. RefsAreOpen'
    BY DEF TypeOK, HolderFits, HolderOpens, RefsAreOpen, UsageKept, Pending, Active, Erased
  <1>8. NothingLeftOpen'
    BY DEF TypeOK, HolderFits, HolderCloses, HolderOpens, NothingLeftOpen, Owned, Active, Erased
  <1> QED
    BY <1>1, <1>2, <1>3, <1>4, <1>5, <1>6, <1>7, <1>8

(* What is erased from cache_ is closed. *)
LEMMA StopDoneStep ==
    ASSUME IInv, NEW t \in Callers, StopDone(t)
    PROVE  IInv'
  <1> USE ContainerAssumption DEF IInv, Bookkeeping, StopDone, Release, Return, endpointVars
  <1>1. TypeOK'
    BY DEF TypeOK, Idle
  <1>2. HolderFits'
    BY DEF TypeOK, HolderFits, Idle, Calls
  <1>3. HolderCloses'
    BY DEF TypeOK, HolderFits, HolderCloses, Owned, Active, Erased, Idle
  <1>4. HolderOpens'
    BY DEF TypeOK, HolderFits, HolderCloses, HolderOpens, UsageKept, Pending, NothingLeftOpen, RefsAreOpen, Active, Erased, Idle
  <1>5. UsageKept'
    BY DEF TypeOK, HolderFits, UsageKept, Pending, Idle
  <1>6. Owned'
    BY DEF TypeOK, HolderFits, HolderCloses, Owned, Active, Erased
  <1>7. RefsAreOpen'
    BY DEF TypeOK, HolderFits, HolderOpens, RefsAreOpen, UsageKept, Pending, Active, Erased
  <1>8. NothingLeftOpen'
    BY DEF TypeOK, HolderFits, HolderCloses, HolderOpens, NothingLeftOpen, Owned, Active, Erased
  <1> QED
    BY <1>1, <1>2, <1>3, <1>4, <1>5, <1>6, <1>7, <1>8

(* A receive thread goes on, or exits when it is told to stop. *)
LEMMA ReceiverStep ==
    ASSUME IInv, NEW i \in Ids, Deliver(i) \/ CallbackStep(i) \/ Exit(i)
    PROVE  IInv'
  <1> USE ContainerAssumption DEF IInv, Bookkeeping, Deliver, CallbackStep, Ask, Answered, CallbackReturns, Exit, Goto, holderVars
  <1>1. TypeOK'
    BY DEF TypeOK, Idle
  <1>2. HolderFits'
    BY DEF TypeOK, HolderFits, Idle, Calls
  <1>3. HolderCloses'
    BY DEF TypeOK, HolderFits, HolderCloses, Owned, Active, Erased, Idle
  <1>4. HolderOpens'
    BY DEF TypeOK, HolderFits, HolderCloses, HolderOpens, UsageKept, Pending, NothingLeftOpen, RefsAreOpen, Active, Erased, Idle
  <1>5. UsageKept'
    BY DEF TypeOK, HolderFits, UsageKept, Pending, Idle
  <1>6. Owned'
    BY DEF TypeOK, HolderFits, HolderCloses, Owned, Active, Erased
  <1>7. RefsAreOpen'
    BY DEF TypeOK, HolderFits, HolderOpens, RefsAreOpen, UsageKept, Pending, Active, Erased
  <1>8. NothingLeftOpen'
    BY DEF TypeOK, HolderFits, HolderCloses, HolderOpens, NothingLeftOpen, Owned, Active, Erased
  <1> QED
    BY <1>1, <1>2, <1>3, <1>4, <1>5, <1>6, <1>7, <1>8

(* Nothing changes. *)
LEMMA StutterStep ==
    ASSUME IInv, UNCHANGED vars
    PROVE  IInv'
  <1> USE ContainerAssumption DEF IInv, Bookkeeping, vars, holderVars, endpointVars
  <1>1. TypeOK'
    BY DEF TypeOK, Idle
  <1>2. HolderFits'
    BY DEF TypeOK, HolderFits, Idle, Calls
  <1>3. HolderCloses'
    BY DEF TypeOK, HolderFits, HolderCloses, Owned, Active, Erased, Idle
  <1>4. HolderOpens'
    BY DEF HolderOpens, Active, Erased
  <1>5. UsageKept'
    BY DEF TypeOK, HolderFits, UsageKept, Pending, Idle
  <1>6. Owned'
    BY DEF TypeOK, HolderFits, HolderCloses, Owned, Active, Erased
  <1>7. RefsAreOpen'
    BY DEF TypeOK, HolderFits, HolderOpens, RefsAreOpen, UsageKept, Pending, Active, Erased
  <1>8. NothingLeftOpen'
    BY DEF TypeOK, HolderFits, HolderCloses, HolderOpens, NothingLeftOpen, Owned, Active, Erased
  <1> QED
    BY <1>1, <1>2, <1>3, <1>4, <1>5, <1>6, <1>7, <1>8

(* No step of a caller, of the holder of mtx_ or of a receive thread breaks*)
(* the invariant.                                                          *)
LEMMA NextInv == IInv /\ [Next]_vars => IInv'
  <1> SUFFICES ASSUME IInv, [Next]_vars PROVE IInv'
    OBVIOUS
  <1>1. ASSUME NEW t \in Callers, NEW c \in Calls, Call(t, c) PROVE IInv'
    BY <1>1, CallStep
  <1>2. ASSUME NEW t \in Callers, BeginStep(t) PROVE IInv'
    <2>1. CASE Look(t) \/ InitializeRefused(t) \/ NothingToDo(t) \/ LoadFails(t)
      <3>1. /\ lock = Nobody /\ Return(t)
            /\ UNCHANGED <<config, lock, holderVars, initialized, cached, endpointVars>>
        BY <2>1 DEF Look, InitializeRefused, NothingToDo, LoadFails, Loads, Begin
      <3> QED
        BY <3>1, ReturnStep
    <2>2. CASE Load(t)
      BY <2>2, LoadStep
    <2>3. CASE StartAll(t) \/ StartOne(t)
      BY <2>3, StartBegins
    <2>4. CASE StopAll(t) \/ StopOne(t)
      BY <2>4, StopBegins
    <2> QED
      BY <1>2, <2>1, <2>2, <2>3, <2>4 DEF BeginStep
  <1>3. ASSUME NEW t \in Callers, HolderStep(t) PROVE IInv'
    BY <1>3, OpenNextStep, OpenFailsStep, OpenDoneStep, StartNextStep, StartDoneStep,
       StopNextStep, JoinStep, StopDoneStep DEF HolderStep
  <1>4. ASSUME NEW i \in Ids, Deliver(i) \/ CallbackStep(i) \/ Exit(i) PROVE IInv'
    BY <1>4, ReceiverStep
  <1>5. CASE UNCHANGED vars
    BY <1>5, StutterStep
  <1> QED
    BY <1>1, <1>2, <1>3, <1>4, <1>5 DEF Next

(* The bookkeeping of mtx_'s holder, the types among it, is never out of   *)
(* step with cache_, whatever calls run one after the other.               *)
THEOREM BookkeepingCorrectness == Spec => []Bookkeeping
  <1>1. IInv => Bookkeeping
    BY DEF IInv
  <1> QED
    BY <1>1, InitInv, NextInv, PTL DEF Spec

(* No failed initialize, roll-back or stop of one endpoint leaves one that *)
(* runs out of cache_: for any number of endpoints and callers, and        *)
(* whether or not they keep to the usage.                                  *)
THEOREM Ownership == Spec => []Owned
  <1>1. IInv => Owned
    BY DEF IInv
  <1> QED
    BY <1>1, InitInv, NextInv, PTL DEF Spec

(* Callers that keep to the usage get references to open endpoints only.   *)
THEOREM OpenReferences == Spec => []RefsAreOpen
  <1>1. IInv => RefsAreOpen
    BY DEF IInv
  <1> QED
    BY <1>1, InitInv, NextInv, PTL DEF Spec

(* A container that is not initialized holds no open endpoint and no       *)
(* receive thread.                                                         *)
THEOREM CleanWhenUninitialized == Spec => []NothingLeftOpen
  <1>1. IInv => NothingLeftOpen
    BY DEF IInv
  <1> QED
    BY <1>1, InitInv, NextInv, PTL DEF Spec
==============================================================================
