----------------------------- MODULE TcpMuxProofs -----------------------------
(***************************************************************************)
(* TcpMux for any connections, any number of expected clients and any      *)
(* bound: no session is lost, none is ready before it is accepted, and     *)
(* what was stopped stays stopped.                                         *)
(***************************************************************************)
EXTENDS TcpMux, FiniteSetTheorems, SequenceTheorems, TLAPS

(* Whose turn it is: the accept thread holds a connection between accept   *)
(* and push only, the owner a batch while it opens endpoints, and a        *)
(* session in its hands during a call.                                     *)
SessionSteps == {"flag", "shutdown", "join", "close"}

HandsInv ==
    /\ accepted # Nobody <=> accepter = "push"
    /\ batch # <<>> <=> owner.step = "open"
    /\ target # Nobody <=> owner.step \in SessionSteps
    /\ target # Nobody => endpoint[target] \in {"held", "closed"}

(* Connections that were accepted and are in nobody's endpoint yet.        *)
Waiting == {c \in Conns : c = accepted} \cup ToSet(pending) \cup ToSet(batch)

PlaceInv ==
    /\ IsInjective(pending)
    /\ IsInjective(batch)
    /\ ToSet(pending) \cap ToSet(batch) = {}
    /\ accepted \notin ToSet(pending) \cup ToSet(batch)
    /\ \A c \in Conns :
          /\ c \in Waiting <=> conn[c] = "open" /\ endpoint[c] = "none"
          /\ endpoint[c] = "held" => conn[c] = "open"
          /\ endpoint[c] \in {"closed", "gone"} => conn[c] = "closed"

(* A session is counted right after it was pushed; nothing is uncounted.   *)
CountInv == Cardinality(Pushed) = IF accepter = "count" THEN count + 1 ELSE count

InboxInv == \A c \in Conns : inbox[c] <= sent

(* The accept thread and the receive threads, through the steps of a stop. *)
AccepterInv ==
    ~muxRunning /\ owner.step \notin {"muxListen", "muxJoin"} => accepter = "none"

ReceiverInv ==
    \A c \in Conns :
        ~running[c] /\ ~(target = c /\ owner.step \in {"shutdown", "join"}) =>
            receiver[c] \in {"none", "exited"}

StopInv ==
    /\ AccepterInv
    /\ ReceiverInv
    /\ owner.step \in {"shutdown", "join", "close"} => ~running[target]

MuxInv == TypeOK /\ HandsInv /\ PlaceInv /\ CountInv /\ InboxInv /\ StopInv
-----------------------------------------------------------------------------
(* Elements of the sequences that TakeEndpoints and the owner's loop over  *)
(* them use: what Append, Head and Tail do to the set of elements, and to  *)
(* a sequence without repetition.                                          *)
LEMMA AppendElements ==
    ASSUME NEW S, NEW s \in Seq(S), NEW e \in S
    PROVE  /\ ToSet(Append(s, e)) = ToSet(s) \cup {e}
           /\ IsInjective(s) /\ e \notin ToSet(s) => IsInjective(Append(s, e))
<1> DEFINE t == Append(s, e)
<1>1. /\ Len(t) = Len(s) + 1
      /\ \A i \in 1 .. Len(s) : t[i] = s[i]
      /\ t[Len(s) + 1] = e
  BY AppendProperties
<1>2. DOMAIN s = 1 .. Len(s) /\ DOMAIN t = 1 .. Len(s) + 1 /\ Len(s) \in Nat
  BY <1>1, LenProperties, AppendProperties
<1> HIDE DEF t
<1>3. ToSet(t) = ToSet(s) \cup {e}
  <2>1. \A x \in ToSet(t) : x \in ToSet(s) \cup {e}
    BY <1>1, <1>2 DEF ToSet
  <2>2. \A x \in ToSet(s) : x \in ToSet(t)
    BY <1>1, <1>2 DEF ToSet
  <2>3. e \in ToSet(t)
    BY <1>1, <1>2 DEF ToSet
  <2> QED BY <2>1, <2>2, <2>3
<1>4. ASSUME IsInjective(s), e \notin ToSet(s)
      PROVE  IsInjective(t)
  <2>1. \A i \in 1 .. Len(s) : s[i] # e
    BY <1>2, <1>4 DEF ToSet
  <2> QED BY <1>1, <1>2, <1>4, <2>1 DEF IsInjective
<1> QED BY <1>3, <1>4 DEF t

(* What the loop of the owner over its batch takes, and what it leaves.    *)
LEMMA TailElements ==
    ASSUME NEW S, NEW s \in Seq(S), s # <<>>
    PROVE  /\ Head(s) \in S
           /\ ToSet(s) = {Head(s)} \cup ToSet(Tail(s))
           /\ IsInjective(s) => IsInjective(Tail(s)) /\ Head(s) \notin ToSet(Tail(s))
<1> DEFINE t == Tail(s)
<1>1. /\ t \in Seq(S)
      /\ Len(t) = Len(s) - 1
      /\ \A i \in 1 .. Len(t) : t[i] = s[i + 1]
      /\ Head(s) = s[1] /\ Head(s) \in S
  BY HeadTailProperties
<1>2. DOMAIN s = 1 .. Len(s) /\ DOMAIN t = 1 .. Len(t) /\ Len(s) \in Nat /\ Len(s) > 0
  BY <1>1, LenProperties, EmptySeq
<1> HIDE DEF t
<1>0. \A i \in DOMAIN t : i + 1 \in DOMAIN s /\ i + 1 # 1 /\ t[i] = s[i + 1]
  BY <1>1, <1>2
<1>3. ToSet(s) = {s[1]} \cup ToSet(t)
  <2>1. ASSUME NEW i \in DOMAIN s, i # 1
        PROVE  s[i] \in ToSet(t)
    <3>1. i - 1 \in DOMAIN t /\ s[i] = t[i - 1]
      BY <1>1, <1>2, <2>1
    <3> QED BY <3>1 DEF ToSet
  <2>2. \A x \in ToSet(t) : x \in ToSet(s)
    BY <1>0 DEF ToSet
  <2>3. s[1] \in ToSet(s)
    BY <1>2 DEF ToSet
  <2> QED BY <2>1, <2>2, <2>3 DEF ToSet
<1>4. ASSUME IsInjective(s)
      PROVE  IsInjective(t) /\ s[1] \notin ToSet(t)
  <2>1. \A i \in DOMAIN t : t[i] # s[1]
    BY <1>0, <1>2, <1>4 DEF IsInjective
  <2>2. ASSUME NEW i \in DOMAIN t, NEW j \in DOMAIN t, t[i] = t[j]
        PROVE  i = j
    <3>1. i + 1 = j + 1
      BY <1>0, <1>4, <2>2 DEF IsInjective
    <3> QED BY <1>2, <3>1
  <2> QED BY <2>1, <2>2 DEF ToSet, IsInjective
<1> QED BY <1>1, <1>3, <1>4 DEF t

(* A sequence without elements.                                            *)
LEMMA NoElements == ToSet(<<>>) = {} /\ IsInjective(<<>>)
BY DEF ToSet, IsInjective

(* The elements of a sequence that is put together without repetition.     *)
LEMMA ConcatElements ==
    ASSUME NEW S, NEW s \in Seq(S), NEW t \in Seq(S)
    PROVE  /\ ToSet(s \o t) = ToSet(s) \cup ToSet(t)
           /\ IsInjective(s) /\ IsInjective(t) /\ ToSet(s) \cap ToSet(t) = {}
                => IsInjective(s \o t)
<1> DEFINE u == s \o t
<1>1. /\ Len(u) = Len(s) + Len(t)
      /\ \A i \in 1 .. Len(u) :
            u[i] = IF i <= Len(s) THEN s[i] ELSE t[i - Len(s)]
  BY ConcatProperties
<1>2. /\ DOMAIN s = 1 .. Len(s) /\ DOMAIN t = 1 .. Len(t) /\ DOMAIN u = 1 .. Len(u)
      /\ Len(s) \in Nat /\ Len(t) \in Nat
  BY <1>1, LenProperties, ConcatProperties
<1> HIDE DEF u
<1>3. \A i \in DOMAIN s : i \in DOMAIN u /\ u[i] = s[i]
  BY <1>1, <1>2
<1>4. \A i \in DOMAIN t : i + Len(s) \in DOMAIN u /\ u[i + Len(s)] = t[i]
  BY <1>1, <1>2
<1>5. \A i \in DOMAIN u : \/ i \in DOMAIN s /\ u[i] = s[i]
                          \/ i - Len(s) \in DOMAIN t /\ u[i] = t[i - Len(s)]
  BY <1>1, <1>2
<1>6. ToSet(u) = ToSet(s) \cup ToSet(t)
  <2>1. \A x \in ToSet(s) : x \in ToSet(u)
    BY <1>3 DEF ToSet
  <2>2. \A x \in ToSet(t) : x \in ToSet(u)
    BY <1>4 DEF ToSet
  <2>3. \A x \in ToSet(u) : x \in ToSet(s) \cup ToSet(t)
    BY <1>5 DEF ToSet
  <2> QED BY <2>1, <2>2, <2>3
<1>7. ASSUME IsInjective(s), IsInjective(t), ToSet(s) \cap ToSet(t) = {},
             NEW i \in DOMAIN u, NEW j \in DOMAIN u, u[i] = u[j]
      PROVE  i = j
  <2>1. \A a \in DOMAIN s, b \in DOMAIN t : s[a] # t[b]
    BY <1>7 DEF ToSet
  <2>2. \/ i \in DOMAIN s /\ j \in DOMAIN s /\ s[i] = s[j]
        \/ /\ i - Len(s) \in DOMAIN t /\ j - Len(s) \in DOMAIN t
           /\ t[i - Len(s)] = t[j - Len(s)]
    BY <1>5, <1>7, <2>1
  <2>3. i - Len(s) = j - Len(s) => i = j
    BY <1>2
  <2> QED BY <1>7, <2>2, <2>3 DEF IsInjective
<1> QED BY <1>6, <1>7 DEF u, IsInjective
-----------------------------------------------------------------------------
(* Before open there is no session.                                        *)
LEMMA MuxInit == Init => MuxInv
<1> SUFFICES ASSUME Init PROVE MuxInv
  OBVIOUS
<1>1. Pushed = {}
  BY NoElements DEF Init, Pushed
<1>2. Cardinality(Conns) \in Nat /\ Cardinality({}) = 0
  BY MuxAssumption, FS_CardinalityType, FS_EmptySet
<1>3. TypeOK
  <2>1. pending \in Seq(Conns) /\ batch \in Seq(Conns)
    BY DEF Init
  <2>2. owner \in [step : OwnerSteps, for : Purposes]
    BY DEF Init, Idle, At, OwnerSteps, Purposes
  <2>3. count \in 0 .. Cardinality(Conns) /\ sent \in 0 .. MaxPackets
    BY <1>2, MuxAssumption DEF Init
  <2>4. /\ inbox \in [Conns -> 0 .. MaxPackets]
        /\ receiver \in [Conns -> ReceiverSteps]
        /\ accepter \in AccepterSteps
    BY MuxAssumption DEF Init, AccepterSteps, ReceiverSteps
  <2>5. /\ conn \in [Conns -> {"none", "backlog", "open", "closed"}]
        /\ endpoint \in [Conns -> {"none", "held", "closed", "gone"}]
        /\ fin \in [Conns -> BOOLEAN] /\ shut \in [Conns -> BOOLEAN]
        /\ running \in [Conns -> BOOLEAN]
    BY DEF Init
  <2> QED
    BY <2>1, <2>2, <2>3, <2>4, <2>5 DEF Init, TypeOK
<1>4. HandsInv
  BY DEF Init, HandsInv, Idle, At, SessionSteps
<1>5. PlaceInv
  BY NoElements, MuxAssumption DEF Init, PlaceInv, Waiting
<1>6. CountInv /\ InboxInv /\ StopInv
  BY <1>1, <1>2
     DEF Init, CountInv, InboxInv, StopInv, AccepterInv, ReceiverInv, Idle, At
<1> QED BY <1>3, <1>4, <1>5, <1>6 DEF MuxInv

(* The types of who is where.                                              *)
StepTypes ==
    /\ process \in {"up", "terminate"}
    /\ owner \in [step : OwnerSteps, for : Purposes]
    /\ target \in Conns \cup {Nobody}
    /\ created \in BOOLEAN
    /\ listening \in BOOLEAN
    /\ muxRunning \in BOOLEAN
    /\ accepter \in AccepterSteps
    /\ accepted \in Conns \cup {Nobody}
    /\ running \in [Conns -> BOOLEAN]
    /\ receiver \in [Conns -> ReceiverSteps]

(* The types of the connections, and of the sessions made of them.         *)
PlaceTypes ==
    /\ batch \in Seq(Conns)
    /\ pending \in Seq(Conns)
    /\ conn \in [Conns -> {"none", "backlog", "open", "closed"}]
    /\ fin \in [Conns -> BOOLEAN]
    /\ shut \in [Conns -> BOOLEAN]
    /\ endpoint \in [Conns -> {"none", "held", "closed", "gone"}]

CountTypes ==
    /\ count \in 0 .. Cardinality(Conns)
    /\ inbox \in [Conns -> 0 .. MaxPackets]
    /\ sent \in 0 .. MaxPackets

(* The types in three parts, by what they are about.                       *)
LEMMA TypesTogether == TypeOK <=> StepTypes /\ PlaceTypes /\ CountTypes
BY DEF TypeOK, StepTypes, PlaceTypes, CountTypes

(* Open and stop of the multiplexer, start and stop of a session, and the  *)
(* steps of the threads: what each may change.                             *)
LEMMA StepTypesStep == MuxInv /\ [Next]_vars => StepTypes'
<1> SUFFICES ASSUME MuxInv, [Next]_vars PROVE StepTypes'
  OBVIOUS
<1> USE DEF StepTypes, OwnerSteps, Purposes, AccepterSteps, ReceiverSteps, At, Idle
<1>0. StepTypes /\ HandsInv
  BY TypesTogether DEF MuxInv
<1>1. CASE Open
  BY <1>0, <1>1
     DEF Open, ListenerOpens, vars, ownerVars, muxVars, clientVars, sessionVars
<1>2. CASE Start
  BY <1>0, <1>2 DEF Start, vars, ownerVars, muxVars, clientVars, sessionVars
<1>3. CASE MuxStopOrClose
  <2>1. owner' \in [step : OwnerSteps, for : Purposes] /\ target' \in Conns \cup {Nobody}
    <3>1. UNCHANGED target /\ (owner' = At("muxFlag", "stop") \/ owner' = At("muxFlag", "close"))
      BY <1>3 DEF MuxStopOrClose, MuxCall
    <3> QED BY <1>0, <3>1
  <2> QED BY <1>0, <2>1, <1>3
             DEF MuxStopOrClose, MuxCall, vars, ownerVars, muxVars, clientVars,
                 sessionVars
<1>4. CASE TakeEndpoints
  BY <1>0, <1>4
     DEF TakeEndpoints, SwappedSessions, vars, ownerVars, muxVars, clientVars,
         sessionVars
<1>5. ASSUME NEW c \in Conns, Restart(c) PROVE StepTypes'
  BY <1>0, <1>5 DEF Restart, vars, ownerVars, muxVars, clientVars, sessionVars
<1>6. ASSUME NEW c \in Conns, NEW p \in Purposes, Call(c, p) PROVE StepTypes'
  BY <1>0, <1>6 DEF Call, SessionCall, vars, ownerVars, muxVars, clientVars, sessionVars
<1>7. CASE MuxFlag
  BY <1>0, <1>7
     DEF MuxFlag, MuxCall, MuxAfterStop, vars, ownerVars, muxVars, clientVars,
         sessionVars
<1>8. CASE MuxListen
  BY <1>0, <1>8
     DEF MuxListen, CloseListener, MuxCall, vars, ownerVars, muxVars, clientVars,
         sessionVars
<1>9. CASE MuxJoin
  BY <1>0, <1>9
     DEF MuxJoin, AccepterEnded, MuxCall, MuxAfterStop, vars, ownerVars, muxVars,
         clientVars, sessionVars
<1>10. CASE MuxClose
  BY <1>0, <1>10
     DEF MuxClose, CloseListener, MuxCall, vars, ownerVars, muxVars, clientVars,
         sessionVars
<1>11. CASE OpenEndpoint
  BY <1>0, <1>11
     DEF OpenEndpoint, AfterOpen, vars, ownerVars, muxVars, clientVars, sessionVars
<1>12. CASE GiveUpEndpoint
  BY <1>0, <1>12
     DEF GiveUpEndpoint, AfterOpen, vars, ownerVars, muxVars, clientVars, sessionVars
<1>13. CASE StopFlag
  <2>1. owner' \in [step : OwnerSteps, for : Purposes] /\ target' \in Conns \cup {Nobody}
    BY <1>0, <1>13 DEF StopFlag, AfterStop, SessionCall
  <2>2. UNCHANGED <<process, created, listening, muxRunning, accepter, accepted>>
    BY <1>13
       DEF StopFlag, AfterStop, SessionCall, vars, ownerVars, muxVars, clientVars,
           sessionVars
  <2>3. running' \in [Conns -> BOOLEAN] /\ receiver' \in [Conns -> ReceiverSteps]
    BY <1>0, <1>13 DEF StopFlag, AfterStop, SessionCall
  <2> QED BY <1>0, <2>1, <2>2, <2>3
<1>14. CASE StopShutdown
  BY <1>0, <1>14
     DEF StopShutdown, Interrupted, SessionCall, vars, ownerVars, muxVars, clientVars,
         sessionVars
<1>15. CASE StopJoin
  <2>1. owner' \in [step : OwnerSteps, for : Purposes] /\ target' \in Conns \cup {Nobody}
    BY <1>0, <1>15 DEF StopJoin, ReceiverEnded, AfterStop, SessionCall
  <2>2. UNCHANGED <<process, created, listening, muxRunning, accepter, accepted>>
    BY <1>15
       DEF StopJoin, ReceiverEnded, AfterStop, SessionCall, vars, ownerVars, muxVars,
           clientVars, sessionVars
  <2>3. running' \in [Conns -> BOOLEAN] /\ receiver' \in [Conns -> ReceiverSteps]
    BY <1>0, <1>15 DEF StopJoin, ReceiverEnded, AfterStop, SessionCall
  <2> QED BY <1>0, <2>1, <2>2, <2>3
<1>16. CASE CloseSession
  BY <1>0, <1>16
     DEF CloseSession, CloseSocket, vars, ownerVars, muxVars, clientVars, sessionVars
<1>17. CASE AcceptLoop
  BY <1>0, <1>17
     DEF AcceptLoop, AccepterGoes, vars, ownerVars, muxVars, clientVars, sessionVars
<1>18. CASE Accept
  BY <1>0, <1>18
     DEF Accept, Then, AccepterGoes, vars, ownerVars, muxVars, clientVars, sessionVars
<1>19. CASE Push
  BY <1>0, <1>19
     DEF Push, Then, AccepterGoes, vars, ownerVars, muxVars, clientVars, sessionVars
<1>20. CASE Count
  BY <1>0, <1>20
     DEF Count, CountOne, Then, AccepterGoes, vars, ownerVars, muxVars, clientVars,
         sessionVars
<1>21. CASE AcceptFails \/ AcceptErrors
  BY <1>0, <1>21
     DEF AcceptFails, AcceptErrors, AcceptInVain, Continue, AccepterGoes, vars, ownerVars,
         muxVars, clientVars,
         sessionVars
<1>22. ASSUME NEW c \in Conns, ReceiveLoop(c) PROVE StepTypes'
  BY <1>0, <1>22
     DEF ReceiveLoop, Goto, vars, ownerVars, muxVars, clientVars, sessionVars
<1>23. ASSUME NEW c \in Conns, ReadPacket(c) PROVE StepTypes'
  BY <1>0, <1>23 DEF ReadPacket, Goto, vars, ownerVars, muxVars, clientVars, sessionVars
<1>24. ASSUME NEW c \in Conns, ReadFails(c) PROVE StepTypes'
  BY <1>0, <1>24 DEF ReadFails, Goto, vars, ownerVars, muxVars, clientVars, sessionVars
<1>25. ASSUME NEW c \in Conns, CallbackReturns(c) PROVE StepTypes'
  BY <1>0, <1>25
     DEF CallbackReturns, Goto, vars, ownerVars, muxVars, clientVars, sessionVars
<1>26. ASSUME NEW c \in Conns, ReceiverEnds(c) PROVE StepTypes'
  BY <1>0, <1>26
     DEF ReceiverEnds, Goto, vars, ownerVars, muxVars, clientVars, sessionVars
<1>27. ASSUME NEW c \in Conns, ClientConnects(c) PROVE StepTypes'
  BY <1>0, <1>27
     DEF ClientConnects, ClientUnchanged, vars, ownerVars, muxVars, clientVars,
         sessionVars
<1>28. ASSUME NEW c \in Conns, ClientSends(c) PROVE StepTypes'
  BY <1>0, <1>28
     DEF ClientSends, ClientUnchanged, vars, ownerVars, muxVars, clientVars, sessionVars
<1>29. ASSUME NEW c \in Conns, ClientCloses(c) PROVE StepTypes'
  BY <1>0, <1>29
     DEF ClientCloses, ClientUnchanged, vars, ownerVars, muxVars, clientVars,
         sessionVars
<1>30. CASE UNCHANGED vars
  BY <1>0, <1>30 DEF vars, ownerVars, muxVars, clientVars, sessionVars
<1> QED
  BY <1>1, <1>2, <1>3, <1>4, <1>5, <1>6, <1>7, <1>8, <1>9, <1>10,
     <1>11, <1>12, <1>13, <1>14, <1>15, <1>16, <1>17, <1>18, <1>19,
     <1>20, <1>21, <1>22, <1>23, <1>24, <1>25, <1>26, <1>27, <1>28,
     <1>29, <1>30
     DEF Next, OwnerStep, AccepterStep, ReceiverStep

(* Where the connections and sessions are.                                 *)
LEMMA PlaceTypesStep == MuxInv /\ [Next]_vars => PlaceTypes'
<1> SUFFICES ASSUME MuxInv, [Next]_vars PROVE PlaceTypes'
  OBVIOUS
<1>0. StepTypes /\ PlaceTypes /\ HandsInv
  BY TypesTogether DEF MuxInv
<1>1. CASE Open
  BY <1>0, <1>1
     DEF Open, ListenerOpens, vars, ownerVars, muxVars, clientVars, sessionVars,
         PlaceTypes
<1>2. CASE Start
  BY <1>0, <1>2 DEF Start, vars, ownerVars, muxVars, clientVars, sessionVars, PlaceTypes
<1>3. CASE MuxStopOrClose
  BY <1>0, <1>3
     DEF MuxStopOrClose, MuxCall, vars, ownerVars, muxVars, clientVars, sessionVars,
         PlaceTypes
<1>4. CASE TakeEndpoints
  BY <1>0, EmptySeq, <1>4
     DEF TakeEndpoints, SwappedSessions, vars, ownerVars, muxVars, clientVars,
         sessionVars, PlaceTypes
<1>5. ASSUME NEW c \in Conns, Restart(c) PROVE PlaceTypes'
  BY <1>0, <1>5
     DEF Restart, vars, ownerVars, muxVars, clientVars, sessionVars, PlaceTypes
<1>6. ASSUME NEW c \in Conns, NEW p \in Purposes, Call(c, p) PROVE PlaceTypes'
  BY <1>0, <1>6
     DEF Call, SessionCall, vars, ownerVars, muxVars, clientVars, sessionVars,
         PlaceTypes
<1>7. CASE MuxFlag
  BY <1>0, <1>7
     DEF MuxFlag, MuxCall, MuxAfterStop, vars, ownerVars, muxVars, clientVars,
         sessionVars, PlaceTypes
<1>8. CASE MuxListen
  <2>1. conn' \in [Conns -> {"none", "backlog", "open", "closed"}]
    BY <1>0, <1>8 DEF MuxListen, CloseListener, MuxCall, PlaceTypes
  <2> QED BY <1>0, <2>1, <1>8
             DEF MuxListen, CloseListener, MuxCall, vars, ownerVars, muxVars,
                 clientVars, sessionVars, PlaceTypes
<1>9. CASE MuxJoin
  BY <1>0, <1>9
     DEF MuxJoin, AccepterEnded, MuxCall, MuxAfterStop, vars, ownerVars, muxVars,
         clientVars, sessionVars, PlaceTypes
<1>10. CASE MuxClose
  <2>1. conn' \in [Conns -> {"none", "backlog", "open", "closed"}]
    BY <1>0, <1>10 DEF MuxClose, CloseListener, MuxCall, PlaceTypes
  <2> QED BY <1>0, <2>1, <1>10
             DEF MuxClose, CloseListener, MuxCall, vars, ownerVars, muxVars,
                 clientVars, sessionVars, PlaceTypes
<1>11. CASE OpenEndpoint
  <2>1. owner.step = "open" /\ batch # <<>> /\ batch' = Tail(batch)
    BY <1>0, <1>11 DEF OpenEndpoint, AfterOpen, HandsInv
  <2>2. Head(batch) \in Conns /\ batch' \in Seq(Conns)
    BY <1>0, <2>1, HeadTailProperties DEF PlaceTypes
  <2> QED BY <1>0, <2>2, <1>11
             DEF OpenEndpoint, AfterOpen, vars, ownerVars, muxVars, clientVars,
                 sessionVars, PlaceTypes
<1>12. CASE GiveUpEndpoint
  <2>1. owner.step = "open" /\ batch # <<>> /\ batch' = Tail(batch)
    BY <1>0, <1>12 DEF GiveUpEndpoint, AfterOpen, HandsInv
  <2>2. Head(batch) \in Conns /\ batch' \in Seq(Conns)
    BY <1>0, <2>1, HeadTailProperties DEF PlaceTypes
  <2> QED BY <1>0, <2>2, <1>12
             DEF GiveUpEndpoint, AfterOpen, vars, ownerVars, muxVars, clientVars,
                 sessionVars, PlaceTypes
<1>13. CASE StopFlag
  BY <1>0, <1>13
     DEF StopFlag, AfterStop, SessionCall, vars, ownerVars, muxVars, clientVars,
         sessionVars, PlaceTypes
<1>14. CASE StopShutdown
  BY <1>0, <1>14
     DEF StopShutdown, Interrupted, SessionCall, vars, ownerVars, muxVars, clientVars,
         sessionVars, PlaceTypes
<1>15. CASE StopJoin
  BY <1>0, <1>15
     DEF StopJoin, ReceiverEnded, AfterStop, SessionCall, vars, ownerVars, muxVars,
         clientVars, sessionVars, PlaceTypes
<1>16. CASE CloseSession
  <2>1. UNCHANGED <<batch, pending>>
    BY <1>16
       DEF CloseSession, CloseSocket, vars, ownerVars, muxVars, clientVars, sessionVars
  <2>2. conn' \in [Conns -> {"none", "backlog", "open", "closed"}]
    BY <1>0, <1>16 DEF CloseSession, CloseSocket, PlaceTypes
  <2>3. fin' \in [Conns -> BOOLEAN] /\ shut' \in [Conns -> BOOLEAN]
    BY <1>0, <1>16 DEF CloseSession, CloseSocket, PlaceTypes
  <2>4. endpoint' \in [Conns -> {"none", "held", "closed", "gone"}]
    BY <1>0, <1>16 DEF CloseSession, CloseSocket, PlaceTypes
  <2> QED BY <1>0, <2>1, <2>2, <2>3, <2>4 DEF PlaceTypes
<1>17. CASE AcceptLoop
  BY <1>0, <1>17
     DEF AcceptLoop, AccepterGoes, vars, ownerVars, muxVars, clientVars, sessionVars,
         PlaceTypes
<1>18. CASE Accept
  BY <1>0, <1>18
     DEF Accept, Then, AccepterGoes, vars, ownerVars, muxVars, clientVars, sessionVars,
         PlaceTypes
<1>19. CASE Push
  <2>1. accepted \in Conns
    BY <1>0, <1>19 DEF Push, Then, AccepterGoes, HandsInv, StepTypes
  <2>2. pending' \in Seq(Conns)
    BY <1>0, <2>1, <1>19, AppendProperties DEF Push, Then, AccepterGoes, PlaceTypes
  <2> QED BY <1>0, <2>2, <1>19
             DEF Push, Then, AccepterGoes, vars, ownerVars, muxVars, clientVars,
                 sessionVars, PlaceTypes
<1>20. CASE Count
  BY <1>0, <1>20
     DEF Count, CountOne, Then, AccepterGoes, vars, ownerVars, muxVars, clientVars,
         sessionVars, PlaceTypes
<1>21. CASE AcceptFails \/ AcceptErrors
  BY <1>0, <1>21
     DEF AcceptFails, AcceptErrors, AcceptInVain, Continue, AccepterGoes, vars, ownerVars,
         muxVars, clientVars,
         sessionVars, PlaceTypes
<1>22. ASSUME NEW c \in Conns, ReceiveLoop(c) PROVE PlaceTypes'
  BY <1>0, <1>22
     DEF ReceiveLoop, Goto, vars, ownerVars, muxVars, clientVars, sessionVars,
         PlaceTypes
<1>23. ASSUME NEW c \in Conns, ReadPacket(c) PROVE PlaceTypes'
  BY <1>0, <1>23
     DEF ReadPacket, Goto, vars, ownerVars, muxVars, clientVars, sessionVars, PlaceTypes
<1>24. ASSUME NEW c \in Conns, ReadFails(c) PROVE PlaceTypes'
  BY <1>0, <1>24
     DEF ReadFails, Goto, vars, ownerVars, muxVars, clientVars, sessionVars, PlaceTypes
<1>25. ASSUME NEW c \in Conns, CallbackReturns(c) PROVE PlaceTypes'
  BY <1>0, <1>25
     DEF CallbackReturns, Goto, vars, ownerVars, muxVars, clientVars, sessionVars,
         PlaceTypes
<1>26. ASSUME NEW c \in Conns, ReceiverEnds(c) PROVE PlaceTypes'
  BY <1>0, <1>26
     DEF ReceiverEnds, Goto, vars, ownerVars, muxVars, clientVars, sessionVars,
         PlaceTypes
<1>27. ASSUME NEW c \in Conns, ClientConnects(c) PROVE PlaceTypes'
  BY <1>0, <1>27
     DEF ClientConnects, ClientUnchanged, vars, ownerVars, muxVars, clientVars,
         sessionVars, PlaceTypes
<1>28. ASSUME NEW c \in Conns, ClientSends(c) PROVE PlaceTypes'
  BY <1>0, <1>28
     DEF ClientSends, ClientUnchanged, vars, ownerVars, muxVars, clientVars,
         sessionVars, PlaceTypes
<1>29. ASSUME NEW c \in Conns, ClientCloses(c) PROVE PlaceTypes'
  BY <1>0, <1>29
     DEF ClientCloses, ClientUnchanged, vars, ownerVars, muxVars, clientVars,
         sessionVars, PlaceTypes
<1>30. CASE UNCHANGED vars
  BY <1>0, <1>30 DEF vars, ownerVars, muxVars, clientVars, sessionVars, PlaceTypes
<1> QED
  BY <1>1, <1>2, <1>3, <1>4, <1>5, <1>6, <1>7, <1>8, <1>9, <1>10,
     <1>11, <1>12, <1>13, <1>14, <1>15, <1>16, <1>17, <1>18, <1>19,
     <1>20, <1>21, <1>22, <1>23, <1>24, <1>25, <1>26, <1>27, <1>28,
     <1>29, <1>30
     DEF Next, OwnerStep, AccepterStep, ReceiverStep

(* Who holds a connection is where it takes one to be.                     *)
LEMMA HandsStep == MuxInv /\ [Next]_vars => HandsInv'
<1> SUFFICES ASSUME MuxInv, [Next]_vars PROVE HandsInv'
  OBVIOUS
<1>0. StepTypes /\ PlaceTypes /\ HandsInv
  BY TypesTogether DEF MuxInv
<1> USE MuxAssumption
<1>1. CASE Open
  BY <1>0, <1>1
     DEF Open, ListenerOpens, vars, ownerVars, muxVars, clientVars, sessionVars,
         HandsInv, SessionSteps, StepTypes, PlaceTypes, Idle, At
<1>2. CASE Start
  BY <1>0, <1>2
     DEF Start, vars, ownerVars, muxVars, clientVars, sessionVars, HandsInv,
         SessionSteps, StepTypes, PlaceTypes, Idle, At
<1>3. CASE MuxStopOrClose
  <2>1. UNCHANGED <<target, batch, accepted, endpoint>>
    BY <1>3
       DEF MuxStopOrClose, MuxCall, vars, ownerVars, muxVars, clientVars, sessionVars
  <2>2. UNCHANGED accepter /\ owner'.step = "muxFlag" /\ owner.step = "idle"
    <3>1. owner' = At("muxFlag", "stop") \/ owner' = At("muxFlag", "close")
      BY <1>3 DEF MuxStopOrClose, MuxCall
    <3>2. UNCHANGED accepter /\ owner = Idle
      BY <1>3 DEF MuxStopOrClose, MuxCall
    <3> QED BY <3>1, <3>2 DEF Idle, At
  <2> QED BY <1>0, <2>1, <2>2 DEF HandsInv, SessionSteps
<1>4. CASE TakeEndpoints
  BY <1>0, <1>4
     DEF TakeEndpoints, SwappedSessions, vars, ownerVars, muxVars, clientVars,
         sessionVars, HandsInv, SessionSteps, StepTypes, PlaceTypes, Idle, At
<1>5. ASSUME NEW c \in Conns, Restart(c) PROVE HandsInv'
  BY <1>0, <1>5
     DEF Restart, vars, ownerVars, muxVars, clientVars, sessionVars, HandsInv,
         SessionSteps, StepTypes, PlaceTypes, Idle, At
<1>6. ASSUME NEW c \in Conns, NEW p \in Purposes, Call(c, p) PROVE HandsInv'
  BY <1>0, <1>6
     DEF Call, SessionCall, vars, ownerVars, muxVars, clientVars, sessionVars,
         HandsInv, SessionSteps, StepTypes, PlaceTypes, Idle, At
<1>7. CASE MuxFlag
  BY <1>0, <1>7
     DEF MuxFlag, MuxCall, MuxAfterStop, vars, ownerVars, muxVars, clientVars,
         sessionVars, HandsInv, SessionSteps, StepTypes, PlaceTypes, Idle, At
<1>8. CASE MuxListen
  BY <1>0, <1>8
     DEF MuxListen, CloseListener, MuxCall, vars, ownerVars, muxVars, clientVars,
         sessionVars, HandsInv, SessionSteps, StepTypes, PlaceTypes, Idle, At
<1>9. CASE MuxJoin
  BY <1>0, <1>9
     DEF MuxJoin, AccepterEnded, MuxCall, MuxAfterStop, vars, ownerVars, muxVars,
         clientVars, sessionVars, HandsInv, SessionSteps, StepTypes, PlaceTypes, Idle,
         At
<1>10. CASE MuxClose
  BY <1>0, <1>10
     DEF MuxClose, CloseListener, MuxCall, vars, ownerVars, muxVars, clientVars,
         sessionVars, HandsInv, SessionSteps, StepTypes, PlaceTypes, Idle, At
<1>11. CASE OpenEndpoint
  <2>1. owner.step = "open" /\ batch # <<>> /\ batch' = Tail(batch)
    BY <1>0, <1>11 DEF OpenEndpoint, AfterOpen, HandsInv
  <2>2. UNCHANGED <<accepted, accepter, target>>
    BY <1>11
       DEF OpenEndpoint, AfterOpen, vars, ownerVars, muxVars, clientVars, sessionVars
  <2>3. /\ Len(batch) \in Nat \ {0}
        /\ Len(batch') = Len(batch) - 1
        /\ batch' \in Seq(Conns)
        /\ batch' = <<>> <=> Len(batch') = 0
    BY <1>0, <2>1, HeadTailProperties, EmptySeq, LenProperties DEF PlaceTypes
  <2>4. batch' # <<>> <=> owner'.step = "open"
    <3>1. batch' # <<>> <=> Len(batch) # 1
      BY <2>3
    <3>2. owner' = IF Len(batch) = 1 THEN Idle ELSE At("open", "stop")
      BY <1>11 DEF OpenEndpoint, AfterOpen
    <3> QED BY <3>1, <3>2 DEF Idle, At
  <2>5. owner'.step \in {"idle", "open"}
    BY <1>11 DEF OpenEndpoint, AfterOpen, Idle, At
  <2>6. target = Nobody
    BY <1>0, <2>1 DEF HandsInv, SessionSteps
  <2> QED BY <1>0, <2>2, <2>4, <2>5, <2>6 DEF HandsInv, SessionSteps
<1>12. CASE GiveUpEndpoint
  <2>1. owner.step = "open" /\ batch # <<>> /\ batch' = Tail(batch)
    BY <1>0, <1>12 DEF GiveUpEndpoint, AfterOpen, HandsInv
  <2>2. UNCHANGED <<accepted, accepter, target>>
    BY <1>12
       DEF GiveUpEndpoint, AfterOpen, vars, ownerVars, muxVars, clientVars, sessionVars
  <2>3. /\ Len(batch) \in Nat \ {0}
        /\ Len(batch') = Len(batch) - 1
        /\ batch' \in Seq(Conns)
        /\ batch' = <<>> <=> Len(batch') = 0
    BY <1>0, <2>1, HeadTailProperties, EmptySeq, LenProperties DEF PlaceTypes
  <2>4. batch' # <<>> <=> owner'.step = "open"
    <3>1. batch' # <<>> <=> Len(batch) # 1
      BY <2>3
    <3>2. owner' = IF Len(batch) = 1 THEN Idle ELSE At("open", "stop")
      BY <1>12 DEF GiveUpEndpoint, AfterOpen
    <3> QED BY <3>1, <3>2 DEF Idle, At
  <2>5. owner'.step \in {"idle", "open"}
    BY <1>12 DEF GiveUpEndpoint, AfterOpen, Idle, At
  <2>6. target = Nobody
    BY <1>0, <2>1 DEF HandsInv, SessionSteps
  <2> QED BY <1>0, <2>2, <2>4, <2>5, <2>6 DEF HandsInv, SessionSteps
<1>13. CASE StopFlag
  BY <1>0, <1>13
     DEF StopFlag, AfterStop, SessionCall, vars, ownerVars, muxVars, clientVars,
         sessionVars, HandsInv, SessionSteps, StepTypes, PlaceTypes, Idle, At
<1>14. CASE StopShutdown
  BY <1>0, <1>14
     DEF StopShutdown, Interrupted, SessionCall, vars, ownerVars, muxVars, clientVars,
         sessionVars, HandsInv, SessionSteps, StepTypes, PlaceTypes, Idle, At
<1>15. CASE StopJoin
  BY <1>0, <1>15
     DEF StopJoin, ReceiverEnded, AfterStop, SessionCall, vars, ownerVars, muxVars,
         clientVars, sessionVars, HandsInv, SessionSteps, StepTypes, PlaceTypes, Idle,
         At
<1>16. CASE CloseSession
  BY <1>0, <1>16
     DEF CloseSession, CloseSocket, vars, ownerVars, muxVars, clientVars, sessionVars,
         HandsInv, SessionSteps, StepTypes, PlaceTypes, Idle, At
<1>17. CASE AcceptLoop
  BY <1>0, <1>17
     DEF AcceptLoop, AccepterGoes, vars, ownerVars, muxVars, clientVars, sessionVars,
         HandsInv, SessionSteps, StepTypes, PlaceTypes, Idle, At
<1>18. CASE Accept
  BY <1>0, <1>18
     DEF Accept, Then, AccepterGoes, vars, ownerVars, muxVars, clientVars, sessionVars,
         HandsInv, SessionSteps, StepTypes, PlaceTypes, Idle, At
<1>19. CASE Push
  BY <1>0, <1>19
     DEF Push, Then, AccepterGoes, vars, ownerVars, muxVars, clientVars, sessionVars,
         HandsInv, SessionSteps, StepTypes, PlaceTypes, Idle, At
<1>20. CASE Count
  BY <1>0, <1>20
     DEF Count, CountOne, Then, AccepterGoes, vars, ownerVars, muxVars, clientVars,
         sessionVars, HandsInv, SessionSteps, StepTypes, PlaceTypes, Idle, At
<1>21. CASE AcceptFails \/ AcceptErrors
  BY <1>0, <1>21
     DEF AcceptFails, AcceptErrors, AcceptInVain, Continue, AccepterGoes, vars, ownerVars,
         muxVars, clientVars,
         sessionVars, HandsInv, SessionSteps, StepTypes, PlaceTypes, Idle, At
<1>22. ASSUME NEW c \in Conns, ReceiveLoop(c) PROVE HandsInv'
  BY <1>0, <1>22
     DEF ReceiveLoop, Goto, vars, ownerVars, muxVars, clientVars, sessionVars,
         HandsInv, SessionSteps, StepTypes, PlaceTypes, Idle, At
<1>23. ASSUME NEW c \in Conns, ReadPacket(c) PROVE HandsInv'
  BY <1>0, <1>23
     DEF ReadPacket, Goto, vars, ownerVars, muxVars, clientVars, sessionVars, HandsInv,
         SessionSteps, StepTypes, PlaceTypes, Idle, At
<1>24. ASSUME NEW c \in Conns, ReadFails(c) PROVE HandsInv'
  BY <1>0, <1>24
     DEF ReadFails, Goto, vars, ownerVars, muxVars, clientVars, sessionVars, HandsInv,
         SessionSteps, StepTypes, PlaceTypes, Idle, At
<1>25. ASSUME NEW c \in Conns, CallbackReturns(c) PROVE HandsInv'
  BY <1>0, <1>25
     DEF CallbackReturns, Goto, vars, ownerVars, muxVars, clientVars, sessionVars,
         HandsInv, SessionSteps, StepTypes, PlaceTypes, Idle, At
<1>26. ASSUME NEW c \in Conns, ReceiverEnds(c) PROVE HandsInv'
  BY <1>0, <1>26
     DEF ReceiverEnds, Goto, vars, ownerVars, muxVars, clientVars, sessionVars,
         HandsInv, SessionSteps, StepTypes, PlaceTypes, Idle, At
<1>27. ASSUME NEW c \in Conns, ClientConnects(c) PROVE HandsInv'
  BY <1>0, <1>27
     DEF ClientConnects, ClientUnchanged, vars, ownerVars, muxVars, clientVars,
         sessionVars, HandsInv, SessionSteps, StepTypes, PlaceTypes, Idle, At
<1>28. ASSUME NEW c \in Conns, ClientSends(c) PROVE HandsInv'
  BY <1>0, <1>28
     DEF ClientSends, ClientUnchanged, vars, ownerVars, muxVars, clientVars,
         sessionVars, HandsInv, SessionSteps, StepTypes, PlaceTypes, Idle, At
<1>29. ASSUME NEW c \in Conns, ClientCloses(c) PROVE HandsInv'
  BY <1>0, <1>29
     DEF ClientCloses, ClientUnchanged, vars, ownerVars, muxVars, clientVars,
         sessionVars, HandsInv, SessionSteps, StepTypes, PlaceTypes, Idle, At
<1>30. CASE UNCHANGED vars
  BY <1>0, <1>30 DEF vars, ownerVars, muxVars, clientVars, sessionVars, HandsInv
<1> QED
  BY <1>1, <1>2, <1>3, <1>4, <1>5, <1>6, <1>7, <1>8, <1>9, <1>10,
     <1>11, <1>12, <1>13, <1>14, <1>15, <1>16, <1>17, <1>18, <1>19,
     <1>20, <1>21, <1>22, <1>23, <1>24, <1>25, <1>26, <1>27, <1>28,
     <1>29, <1>30
     DEF Next, OwnerStep, AccepterStep, ReceiverStep

(* A sequence has elements of its own set.                                 *)
LEMMA ElementsOf ==
    ASSUME NEW S, NEW s \in Seq(S)
    PROVE  ToSet(s) \subseteq S
<1>1. \A i \in DOMAIN s : s[i] \in S
  BY LenProperties, ElementOfSeq
<1> QED BY <1>1 DEF ToSet

(* Every accepted connection is in one place.                              *)
LEMMA PlaceStep == MuxInv /\ [Next]_vars => PlaceInv'
<1> SUFFICES ASSUME MuxInv, [Next]_vars PROVE PlaceInv'
  OBVIOUS
<1>0. StepTypes /\ PlaceTypes /\ HandsInv /\ PlaceInv
  BY TypesTogether DEF MuxInv
<1>1. CASE Open
  <2>1. UNCHANGED <<accepted, pending, batch, conn, endpoint>>
    BY <1>1 DEF Open, ListenerOpens, vars, ownerVars, muxVars, clientVars, sessionVars
  <2> QED BY <1>0, <2>1 DEF PlaceInv, Waiting
<1>2. CASE Start
  <2>1. UNCHANGED <<accepted, pending, batch, conn, endpoint>>
    BY <1>2 DEF Start, vars, ownerVars, muxVars, clientVars, sessionVars
  <2> QED BY <1>0, <2>1 DEF PlaceInv, Waiting
<1>3. CASE MuxStopOrClose
  <2>1. UNCHANGED <<accepted, pending, batch, conn, endpoint>>
    BY <1>3
       DEF MuxStopOrClose, MuxCall, vars, ownerVars, muxVars, clientVars, sessionVars
  <2> QED BY <1>0, <2>1 DEF PlaceInv, Waiting
<1>4. CASE TakeEndpoints
  <2>1. batch = <<>>
    BY <1>0, <1>4 DEF TakeEndpoints, SwappedSessions, HandsInv, Idle, At
  <2>2. batch' = pending /\ pending' = <<>> /\ UNCHANGED <<accepted, conn, endpoint>>
    BY <1>4
       DEF TakeEndpoints, SwappedSessions, vars, ownerVars, muxVars, clientVars,
           sessionVars
  <2> QED BY <1>0, <2>1, <2>2, NoElements DEF PlaceInv, Waiting
<1>5. ASSUME NEW c \in Conns, Restart(c) PROVE PlaceInv'
  <2>1. UNCHANGED <<accepted, pending, batch, conn, endpoint>>
    BY <1>5 DEF Restart, vars, ownerVars, muxVars, clientVars, sessionVars
  <2> QED BY <1>0, <2>1 DEF PlaceInv, Waiting
<1>6. ASSUME NEW c \in Conns, NEW p \in Purposes, Call(c, p) PROVE PlaceInv'
  <2>1. UNCHANGED <<accepted, pending, batch, conn, endpoint>>
    BY <1>6 DEF Call, SessionCall, vars, ownerVars, muxVars, clientVars, sessionVars
  <2> QED BY <1>0, <2>1 DEF PlaceInv, Waiting
<1>7. CASE MuxFlag
  <2>1. UNCHANGED <<accepted, pending, batch, conn, endpoint>>
    BY <1>7
       DEF MuxFlag, MuxCall, MuxAfterStop, vars, ownerVars, muxVars, clientVars,
           sessionVars
  <2> QED BY <1>0, <2>1 DEF PlaceInv, Waiting
<1>8. CASE MuxListen
  <2>1. UNCHANGED <<accepted, pending, batch, endpoint>>
    BY <1>8
       DEF MuxListen, CloseListener, MuxCall, vars, ownerVars, muxVars, clientVars,
           sessionVars
  <2>2. \A d \in Conns :
          /\ conn'[d] = "open" <=> conn[d] = "open"
          /\ conn[d] = "closed" => conn'[d] = "closed"
    BY <1>0, <1>8 DEF MuxListen, CloseListener, MuxCall, PlaceTypes
  <2>3. \A d \in Conns : d \in Waiting' <=> d \in Waiting
    BY <2>1 DEF Waiting
  <2> QED BY <1>0, <2>1, <2>2, <2>3 DEF PlaceInv
<1>9. CASE MuxJoin
  <2>1. UNCHANGED <<accepted, pending, batch, conn, endpoint>>
    BY <1>9
       DEF MuxJoin, AccepterEnded, MuxCall, MuxAfterStop, vars, ownerVars, muxVars,
           clientVars, sessionVars
  <2> QED BY <1>0, <2>1 DEF PlaceInv, Waiting
<1>10. CASE MuxClose
  <2>1. UNCHANGED <<accepted, pending, batch, endpoint>>
    BY <1>10
       DEF MuxClose, CloseListener, MuxCall, vars, ownerVars, muxVars, clientVars,
           sessionVars
  <2>2. \A d \in Conns :
          /\ conn'[d] = "open" <=> conn[d] = "open"
          /\ conn[d] = "closed" => conn'[d] = "closed"
    BY <1>0, <1>10 DEF MuxClose, CloseListener, MuxCall, PlaceTypes
  <2>3. \A d \in Conns : d \in Waiting' <=> d \in Waiting
    BY <2>1 DEF Waiting
  <2> QED BY <1>0, <2>1, <2>2, <2>3 DEF PlaceInv
<1>11. CASE OpenEndpoint
  <2> DEFINE h == Head(batch)
  <2>1. owner.step = "open" /\ batch # <<>> /\ batch' = Tail(batch)
    BY <1>0, <1>11 DEF OpenEndpoint, AfterOpen, HandsInv
  <2>2. UNCHANGED <<accepted, pending, conn>>
    BY <1>11
       DEF OpenEndpoint, AfterOpen, vars, ownerVars, muxVars, clientVars, sessionVars
  <2>3. /\ h \in Conns
        /\ ToSet(batch) = {h} \cup ToSet(batch')
        /\ IsInjective(batch') /\ h \notin ToSet(batch')
    BY <1>0, <2>1, TailElements DEF PlaceTypes, PlaceInv
  <2>4. h \notin ToSet(pending) /\ h # accepted /\ conn[h] = "open"
    BY <1>0, <2>3 DEF PlaceInv, Waiting
  <2>5. endpoint'[h] = "held" /\ \A d \in Conns : d # h => endpoint'[d] = endpoint[d]
    BY <1>0, <2>3, <1>11 DEF OpenEndpoint, AfterOpen, PlaceTypes
  <2> HIDE DEF h
  <2> QED BY <1>0, <2>2, <2>3, <2>4, <2>5 DEF PlaceInv, Waiting
<1>12. CASE GiveUpEndpoint
  <2> DEFINE h == Head(batch)
  <2>1. owner.step = "open" /\ batch # <<>> /\ batch' = Tail(batch)
    BY <1>0, <1>12 DEF GiveUpEndpoint, AfterOpen, HandsInv
  <2>2. UNCHANGED <<accepted, pending>>
    BY <1>12
       DEF GiveUpEndpoint, AfterOpen, vars, ownerVars, muxVars, clientVars, sessionVars
  <2>3. /\ h \in Conns
        /\ ToSet(batch) = {h} \cup ToSet(batch')
        /\ IsInjective(batch') /\ h \notin ToSet(batch')
    BY <1>0, <2>1, TailElements DEF PlaceTypes, PlaceInv
  <2>4. h \notin ToSet(pending) /\ h # accepted /\ conn[h] = "open"
    BY <1>0, <2>3 DEF PlaceInv, Waiting
  <2>5. /\ endpoint'[h] = "gone" /\ conn'[h] = "closed"
        /\ \A d \in Conns : d # h => endpoint'[d] = endpoint[d] /\ conn'[d] = conn[d]
    BY <1>0, <2>3, <1>12 DEF GiveUpEndpoint, AfterOpen, PlaceTypes
  <2> HIDE DEF h
  <2> QED BY <1>0, <2>2, <2>3, <2>4, <2>5 DEF PlaceInv, Waiting
<1>13. CASE StopFlag
  <2>1. UNCHANGED <<accepted, pending, batch, conn, endpoint>>
    BY <1>13
       DEF StopFlag, AfterStop, SessionCall, vars, ownerVars, muxVars, clientVars,
           sessionVars
  <2> QED BY <1>0, <2>1 DEF PlaceInv, Waiting
<1>14. CASE StopShutdown
  <2>1. UNCHANGED <<accepted, pending, batch, conn, endpoint>>
    BY <1>14
       DEF StopShutdown, Interrupted, SessionCall, vars, ownerVars, muxVars,
           clientVars, sessionVars
  <2> QED BY <1>0, <2>1 DEF PlaceInv, Waiting
<1>15. CASE StopJoin
  <2>1. UNCHANGED <<accepted, pending, batch, conn, endpoint>>
    BY <1>15
       DEF StopJoin, ReceiverEnded, AfterStop, SessionCall, vars, ownerVars, muxVars,
           clientVars, sessionVars
  <2> QED BY <1>0, <2>1 DEF PlaceInv, Waiting
<1>16. CASE CloseSession
  <2>1. UNCHANGED <<accepted, pending, batch>>
    BY <1>16
       DEF CloseSession, CloseSocket, vars, ownerVars, muxVars, clientVars, sessionVars
  <2>2. target \in Conns /\ endpoint[target] \in {"held", "closed"}
    BY <1>0, <1>16 DEF CloseSession, CloseSocket, HandsInv, StepTypes, SessionSteps
  <2>3. target \notin Waiting
    BY <1>0, <2>2 DEF PlaceInv
  <2>4. /\ endpoint'[target] \in {"closed", "gone"} /\ conn'[target] = "closed"
        /\ \A d \in Conns : d # target => endpoint'[d] = endpoint[d] /\ conn'[d] = conn[d]
    BY <1>0, <2>2, <1>16 DEF CloseSession, CloseSocket, PlaceTypes
  <2>5. \A d \in Conns : d \in Waiting <=> d \in Waiting'
    BY <2>1 DEF Waiting
  <2> QED BY <1>0, <2>1, <2>3, <2>4, <2>5 DEF PlaceInv
<1>17. CASE AcceptLoop
  <2>1. UNCHANGED <<accepted, pending, batch, conn, endpoint>>
    BY <1>17
       DEF AcceptLoop, AccepterGoes, vars, ownerVars, muxVars, clientVars, sessionVars
  <2> QED BY <1>0, <2>1 DEF PlaceInv, Waiting
<1>18. CASE Accept
  <2>1. accepted = Nobody /\ UNCHANGED <<pending, batch, endpoint>>
    BY <1>0, <1>18
       DEF Accept, Then, AccepterGoes, vars, ownerVars, muxVars, clientVars,
           sessionVars, HandsInv
  <2>2. PICK c \in Conns : /\ conn[c] = "backlog"
                           /\ accepted' = c
                           /\ conn' = [conn EXCEPT ![c] = "open"]
    BY <1>18 DEF Accept, Then, AccepterGoes
  <2>3. c \notin Waiting /\ endpoint[c] = "none"
    BY <1>0, <2>2 DEF PlaceInv, PlaceTypes
  <2>4. conn'[c] = "open" /\ \A d \in Conns : d # c => conn'[d] = conn[d]
    BY <1>0, <2>2 DEF PlaceTypes
  <2> QED BY <1>0, <2>1, <2>2, <2>3, <2>4, MuxAssumption DEF PlaceInv, Waiting
<1>19. CASE Push
  <2>1. accepted \in Conns
    BY <1>0, <1>19 DEF Push, Then, AccepterGoes, HandsInv, StepTypes
  <2>2. /\ pending' = Append(pending, accepted) /\ accepted' = Nobody
        /\ UNCHANGED <<batch, conn, endpoint>>
    BY <1>19
       DEF Push, Then, AccepterGoes, vars, ownerVars, muxVars, clientVars, sessionVars
  <2>3. ToSet(pending') = ToSet(pending) \cup {accepted} /\ IsInjective(pending')
    BY <1>0, <2>1, <2>2, AppendElements DEF PlaceTypes, PlaceInv
  <2>4. Nobody \notin ToSet(pending') \cup ToSet(batch)
    BY <1>0, <2>1, <2>3, ElementsOf, MuxAssumption DEF PlaceTypes
  <2> QED BY <1>0, <2>1, <2>2, <2>3, <2>4, MuxAssumption DEF PlaceInv, Waiting
<1>20. CASE Count
  <2>1. UNCHANGED <<accepted, pending, batch, conn, endpoint>>
    BY <1>20
       DEF Count, CountOne, Then, AccepterGoes, vars, ownerVars, muxVars, clientVars,
           sessionVars
  <2> QED BY <1>0, <2>1 DEF PlaceInv, Waiting
<1>21. CASE AcceptFails \/ AcceptErrors
  <2>1. UNCHANGED <<accepted, pending, batch, conn, endpoint>>
    BY <1>21
       DEF AcceptFails, AcceptErrors, AcceptInVain, Continue, AccepterGoes, vars, ownerVars,
           muxVars, clientVars,
           sessionVars
  <2> QED BY <1>0, <2>1 DEF PlaceInv, Waiting
<1>22. ASSUME NEW c \in Conns, ReceiveLoop(c) PROVE PlaceInv'
  <2>1. UNCHANGED <<accepted, pending, batch, conn, endpoint>>
    BY <1>22 DEF ReceiveLoop, Goto, vars, ownerVars, muxVars, clientVars, sessionVars
  <2> QED BY <1>0, <2>1 DEF PlaceInv, Waiting
<1>23. ASSUME NEW c \in Conns, ReadPacket(c) PROVE PlaceInv'
  <2>1. UNCHANGED <<accepted, pending, batch, conn, endpoint>>
    BY <1>23 DEF ReadPacket, Goto, vars, ownerVars, muxVars, clientVars, sessionVars
  <2> QED BY <1>0, <2>1 DEF PlaceInv, Waiting
<1>24. ASSUME NEW c \in Conns, ReadFails(c) PROVE PlaceInv'
  <2>1. UNCHANGED <<accepted, pending, batch, conn, endpoint>>
    BY <1>24 DEF ReadFails, Goto, vars, ownerVars, muxVars, clientVars, sessionVars
  <2> QED BY <1>0, <2>1 DEF PlaceInv, Waiting
<1>25. ASSUME NEW c \in Conns, CallbackReturns(c) PROVE PlaceInv'
  <2>1. UNCHANGED <<accepted, pending, batch, conn, endpoint>>
    BY <1>25
       DEF CallbackReturns, Goto, vars, ownerVars, muxVars, clientVars, sessionVars
  <2> QED BY <1>0, <2>1 DEF PlaceInv, Waiting
<1>26. ASSUME NEW c \in Conns, ReceiverEnds(c) PROVE PlaceInv'
  <2>1. UNCHANGED <<accepted, pending, batch, conn, endpoint>>
    BY <1>26 DEF ReceiverEnds, Goto, vars, ownerVars, muxVars, clientVars, sessionVars
  <2> QED BY <1>0, <2>1 DEF PlaceInv, Waiting
<1>27. ASSUME NEW c \in Conns, ClientConnects(c) PROVE PlaceInv'
  <2>1. UNCHANGED <<accepted, pending, batch, endpoint>>
    BY <1>27
       DEF ClientConnects, ClientUnchanged, vars, ownerVars, muxVars, clientVars,
           sessionVars
  <2>2. \A d \in Conns :
          /\ conn'[d] = "open" <=> conn[d] = "open"
          /\ conn[d] = "closed" => conn'[d] = "closed"
    BY <1>0, <1>27 DEF ClientConnects, ClientUnchanged, PlaceTypes
  <2>3. \A d \in Conns : d \in Waiting' <=> d \in Waiting
    BY <2>1 DEF Waiting
  <2> QED BY <1>0, <2>1, <2>2, <2>3 DEF PlaceInv
<1>28. ASSUME NEW c \in Conns, ClientSends(c) PROVE PlaceInv'
  <2>1. UNCHANGED <<accepted, pending, batch, conn, endpoint>>
    BY <1>28
       DEF ClientSends, ClientUnchanged, vars, ownerVars, muxVars, clientVars,
           sessionVars
  <2> QED BY <1>0, <2>1 DEF PlaceInv, Waiting
<1>29. ASSUME NEW c \in Conns, ClientCloses(c) PROVE PlaceInv'
  <2>1. UNCHANGED <<accepted, pending, batch, conn, endpoint>>
    BY <1>29
       DEF ClientCloses, ClientUnchanged, vars, ownerVars, muxVars, clientVars,
           sessionVars
  <2> QED BY <1>0, <2>1 DEF PlaceInv, Waiting
<1>30. CASE UNCHANGED vars
  BY <1>0, <1>30
     DEF vars, ownerVars, muxVars, clientVars, sessionVars, PlaceInv, Waiting
<1> QED
  BY <1>1, <1>2, <1>3, <1>4, <1>5, <1>6, <1>7, <1>8, <1>9, <1>10,
     <1>11, <1>12, <1>13, <1>14, <1>15, <1>16, <1>17, <1>18, <1>19,
     <1>20, <1>21, <1>22, <1>23, <1>24, <1>25, <1>26, <1>27, <1>28,
     <1>29, <1>30
     DEF Next, OwnerStep, AccepterStep, ReceiverStep

(* There are no more sessions than connections.                            *)
LEMMA PushedBound ==
    ASSUME PlaceTypes
    PROVE  /\ IsFiniteSet(Pushed)
           /\ Cardinality(Pushed) \in 0 .. Cardinality(Conns)
<1>1. Pushed \subseteq Conns
  BY ElementsOf DEF PlaceTypes, Pushed
<1> QED BY <1>1, MuxAssumption, FS_Subset, FS_CardinalityType

(* The count follows the sessions, one step behind.                        *)
LEMMA CountStep == MuxInv /\ [Next]_vars => CountInv'
<1> SUFFICES ASSUME MuxInv, [Next]_vars PROVE CountInv'
  OBVIOUS
<1>0. StepTypes /\ PlaceTypes /\ HandsInv /\ PlaceInv /\ CountInv /\ StopInv
  BY TypesTogether DEF MuxInv
<1>1. CASE Open
  <2>1. UNCHANGED <<accepter, count, pending, batch, endpoint>>
    BY <1>1 DEF Open, ListenerOpens, vars, ownerVars, muxVars, clientVars, sessionVars
  <2> QED BY <1>0, <2>1 DEF CountInv, Pushed
<1>2. CASE Start
  <2>1. UNCHANGED <<count, pending, batch, endpoint>>
    BY <1>2 DEF Start, vars, ownerVars, muxVars, clientVars, sessionVars
  <2>2. accepter # "count" /\ accepter' # "count"
    BY <1>0, <1>2
       DEF Start, vars, ownerVars, muxVars, clientVars, sessionVars, StopInv,
           AccepterInv, Idle, At
  <2> QED BY <1>0, <2>1, <2>2 DEF CountInv, Pushed
<1>3. CASE MuxStopOrClose
  <2>1. UNCHANGED <<accepter, count, pending, batch, endpoint>>
    BY <1>3
       DEF MuxStopOrClose, MuxCall, vars, ownerVars, muxVars, clientVars, sessionVars
  <2> QED BY <1>0, <2>1 DEF CountInv, Pushed
<1>4. CASE TakeEndpoints
  <2>1. batch = <<>>
    BY <1>0, <1>4 DEF TakeEndpoints, SwappedSessions, HandsInv, Idle, At
  <2>2. batch' = pending /\ pending' = <<>> /\ UNCHANGED <<accepter, count, endpoint>>
    BY <1>4
       DEF TakeEndpoints, SwappedSessions, vars, ownerVars, muxVars, clientVars,
           sessionVars
  <2> QED BY <1>0, <2>1, <2>2, NoElements DEF CountInv, Pushed
<1>5. ASSUME NEW c \in Conns, Restart(c) PROVE CountInv'
  <2>1. UNCHANGED <<accepter, count, pending, batch, endpoint>>
    BY <1>5 DEF Restart, vars, ownerVars, muxVars, clientVars, sessionVars
  <2> QED BY <1>0, <2>1 DEF CountInv, Pushed
<1>6. ASSUME NEW c \in Conns, NEW p \in Purposes, Call(c, p) PROVE CountInv'
  <2>1. UNCHANGED <<accepter, count, pending, batch, endpoint>>
    BY <1>6 DEF Call, SessionCall, vars, ownerVars, muxVars, clientVars, sessionVars
  <2> QED BY <1>0, <2>1 DEF CountInv, Pushed
<1>7. CASE MuxFlag
  <2>1. UNCHANGED <<accepter, count, pending, batch, endpoint>>
    BY <1>7
       DEF MuxFlag, MuxCall, MuxAfterStop, vars, ownerVars, muxVars, clientVars,
           sessionVars
  <2> QED BY <1>0, <2>1 DEF CountInv, Pushed
<1>8. CASE MuxListen
  <2>1. UNCHANGED <<accepter, count, pending, batch, endpoint>>
    BY <1>8
       DEF MuxListen, CloseListener, MuxCall, vars, ownerVars, muxVars, clientVars,
           sessionVars
  <2> QED BY <1>0, <2>1 DEF CountInv, Pushed
<1>9. CASE MuxJoin
  <2>1. UNCHANGED <<count, pending, batch, endpoint>>
    BY <1>9
       DEF MuxJoin, AccepterEnded, MuxCall, MuxAfterStop, vars, ownerVars, muxVars,
           clientVars, sessionVars
  <2>2. accepter # "count" /\ accepter' # "count"
    BY <1>9
       DEF MuxJoin, AccepterEnded, MuxCall, MuxAfterStop, vars, ownerVars, muxVars,
           clientVars, sessionVars
  <2> QED BY <1>0, <2>1, <2>2 DEF CountInv, Pushed
<1>10. CASE MuxClose
  <2>1. UNCHANGED <<accepter, count, pending, batch, endpoint>>
    BY <1>10
       DEF MuxClose, CloseListener, MuxCall, vars, ownerVars, muxVars, clientVars,
           sessionVars
  <2> QED BY <1>0, <2>1 DEF CountInv, Pushed
<1>11. CASE OpenEndpoint
  <2> DEFINE h == Head(batch)
  <2>1. owner.step = "open" /\ batch # <<>> /\ batch' = Tail(batch)
    BY <1>0, <1>11 DEF OpenEndpoint, AfterOpen, HandsInv
  <2>2. UNCHANGED <<accepter, count, pending>>
    BY <1>11
       DEF OpenEndpoint, AfterOpen, vars, ownerVars, muxVars, clientVars, sessionVars
  <2>3. h \in Conns /\ ToSet(batch) = {h} \cup ToSet(batch')
    BY <1>0, <2>1, TailElements DEF PlaceTypes
  <2>4. endpoint'[h] # "none" /\ \A d \in Conns : d # h => endpoint'[d] = endpoint[d]
    BY <1>0, <2>3, <1>11 DEF OpenEndpoint, AfterOpen, PlaceTypes
  <2> HIDE DEF h
  <2>5. Pushed' = Pushed
    BY <2>2, <2>3, <2>4 DEF Pushed
  <2> QED BY <1>0, <2>2, <2>5 DEF CountInv
<1>12. CASE GiveUpEndpoint
  <2> DEFINE h == Head(batch)
  <2>1. owner.step = "open" /\ batch # <<>> /\ batch' = Tail(batch)
    BY <1>0, <1>12 DEF GiveUpEndpoint, AfterOpen, HandsInv
  <2>2. UNCHANGED <<accepter, count, pending>>
    BY <1>12
       DEF GiveUpEndpoint, AfterOpen, vars, ownerVars, muxVars, clientVars, sessionVars
  <2>3. h \in Conns /\ ToSet(batch) = {h} \cup ToSet(batch')
    BY <1>0, <2>1, TailElements DEF PlaceTypes
  <2>4. endpoint'[h] # "none" /\ \A d \in Conns : d # h => endpoint'[d] = endpoint[d]
    BY <1>0, <2>3, <1>12 DEF GiveUpEndpoint, AfterOpen, PlaceTypes
  <2> HIDE DEF h
  <2>5. Pushed' = Pushed
    BY <2>2, <2>3, <2>4 DEF Pushed
  <2> QED BY <1>0, <2>2, <2>5 DEF CountInv
<1>13. CASE StopFlag
  <2>1. UNCHANGED <<accepter, count, pending, batch, endpoint>>
    BY <1>13
       DEF StopFlag, AfterStop, SessionCall, vars, ownerVars, muxVars, clientVars,
           sessionVars
  <2> QED BY <1>0, <2>1 DEF CountInv, Pushed
<1>14. CASE StopShutdown
  <2>1. UNCHANGED <<accepter, count, pending, batch, endpoint>>
    BY <1>14
       DEF StopShutdown, Interrupted, SessionCall, vars, ownerVars, muxVars,
           clientVars, sessionVars
  <2> QED BY <1>0, <2>1 DEF CountInv, Pushed
<1>15. CASE StopJoin
  <2>1. UNCHANGED <<accepter, count, pending, batch, endpoint>>
    BY <1>15
       DEF StopJoin, ReceiverEnded, AfterStop, SessionCall, vars, ownerVars, muxVars,
           clientVars, sessionVars
  <2> QED BY <1>0, <2>1 DEF CountInv, Pushed
<1>16. CASE CloseSession
  <2>1. UNCHANGED <<accepter, count, pending, batch>>
    BY <1>16
       DEF CloseSession, CloseSocket, vars, ownerVars, muxVars, clientVars, sessionVars
  <2>2. target \in Conns /\ endpoint[target] # "none"
    BY <1>0, <1>16 DEF CloseSession, CloseSocket, HandsInv, StepTypes, SessionSteps
  <2>3. \A d \in Conns : endpoint'[d] = "none" <=> endpoint[d] = "none"
    BY <1>0, <2>2, <1>16 DEF CloseSession, CloseSocket, PlaceTypes
  <2>4. Pushed' = Pushed
    BY <2>1, <2>3 DEF Pushed
  <2> QED BY <1>0, <2>1, <2>4 DEF CountInv
<1>17. CASE AcceptLoop
  <2>1. UNCHANGED <<count, pending, batch, endpoint>>
    BY <1>17
       DEF AcceptLoop, AccepterGoes, vars, ownerVars, muxVars, clientVars, sessionVars
  <2>2. accepter # "count" /\ accepter' # "count"
    BY <1>17
       DEF AcceptLoop, AccepterGoes, vars, ownerVars, muxVars, clientVars, sessionVars
  <2> QED BY <1>0, <2>1, <2>2 DEF CountInv, Pushed
<1>18. CASE Accept
  <2>1. UNCHANGED <<count, pending, batch, endpoint>>
    BY <1>18
       DEF Accept, Then, AccepterGoes, vars, ownerVars, muxVars, clientVars, sessionVars
  <2>2. accepter # "count" /\ accepter' # "count"
    BY <1>18
       DEF Accept, Then, AccepterGoes, vars, ownerVars, muxVars, clientVars, sessionVars
  <2> QED BY <1>0, <2>1, <2>2 DEF CountInv, Pushed
<1>19. CASE Push
  <2>1. accepted \in Conns
    BY <1>0, <1>19 DEF Push, Then, AccepterGoes, HandsInv, StepTypes
  <2>2. /\ pending' = Append(pending, accepted)
        /\ UNCHANGED <<batch, endpoint, count>>
        /\ accepter # "count" /\ accepter' = "count"
    BY <1>19
       DEF Push, Then, AccepterGoes, vars, ownerVars, muxVars, clientVars, sessionVars
  <2>3. ToSet(pending') = ToSet(pending) \cup {accepted}
    BY <1>0, <2>1, <2>2, AppendElements DEF PlaceTypes
  <2>4. Pushed' = Pushed \cup {accepted}
    BY <2>2, <2>3 DEF Pushed
  <2>5. accepted \notin Pushed
    BY <1>0, <2>1 DEF Pushed, PlaceInv, Waiting
  <2>6. IsFiniteSet(Pushed)
    BY <1>0, PushedBound
  <2>7. Cardinality(Pushed') = Cardinality(Pushed) + 1
    BY <2>4, <2>5, <2>6, FS_AddElement
  <2> QED BY <1>0, <2>2, <2>7 DEF CountInv
<1>20. CASE Count
  <2>1. UNCHANGED <<pending, batch, endpoint>> /\ count' = count + 1
    BY <1>20
       DEF Count, CountOne, Then, AccepterGoes, vars, ownerVars, muxVars, clientVars,
           sessionVars
  <2>2. accepter = "count" /\ accepter' = "loop"
    BY <1>20 DEF Count, CountOne, Then, AccepterGoes
  <2> QED BY <1>0, <2>1, <2>2 DEF CountInv, Pushed
<1>21. CASE AcceptFails \/ AcceptErrors
  <2>1. UNCHANGED <<count, pending, batch, endpoint>>
    BY <1>21
       DEF AcceptFails, AcceptErrors, AcceptInVain, Continue, AccepterGoes, vars, ownerVars,
           muxVars, clientVars,
           sessionVars
  <2>2. accepter # "count" /\ accepter' # "count"
    BY <1>21
       DEF AcceptFails, AcceptErrors, AcceptInVain, Continue, AccepterGoes, vars, ownerVars,
           muxVars, clientVars,
           sessionVars
  <2> QED BY <1>0, <2>1, <2>2 DEF CountInv, Pushed
<1>22. ASSUME NEW c \in Conns, ReceiveLoop(c) PROVE CountInv'
  <2>1. UNCHANGED <<accepter, count, pending, batch, endpoint>>
    BY <1>22 DEF ReceiveLoop, Goto, vars, ownerVars, muxVars, clientVars, sessionVars
  <2> QED BY <1>0, <2>1 DEF CountInv, Pushed
<1>23. ASSUME NEW c \in Conns, ReadPacket(c) PROVE CountInv'
  <2>1. UNCHANGED <<accepter, count, pending, batch, endpoint>>
    BY <1>23 DEF ReadPacket, Goto, vars, ownerVars, muxVars, clientVars, sessionVars
  <2> QED BY <1>0, <2>1 DEF CountInv, Pushed
<1>24. ASSUME NEW c \in Conns, ReadFails(c) PROVE CountInv'
  <2>1. UNCHANGED <<accepter, count, pending, batch, endpoint>>
    BY <1>24 DEF ReadFails, Goto, vars, ownerVars, muxVars, clientVars, sessionVars
  <2> QED BY <1>0, <2>1 DEF CountInv, Pushed
<1>25. ASSUME NEW c \in Conns, CallbackReturns(c) PROVE CountInv'
  <2>1. UNCHANGED <<accepter, count, pending, batch, endpoint>>
    BY <1>25
       DEF CallbackReturns, Goto, vars, ownerVars, muxVars, clientVars, sessionVars
  <2> QED BY <1>0, <2>1 DEF CountInv, Pushed
<1>26. ASSUME NEW c \in Conns, ReceiverEnds(c) PROVE CountInv'
  <2>1. UNCHANGED <<accepter, count, pending, batch, endpoint>>
    BY <1>26 DEF ReceiverEnds, Goto, vars, ownerVars, muxVars, clientVars, sessionVars
  <2> QED BY <1>0, <2>1 DEF CountInv, Pushed
<1>27. ASSUME NEW c \in Conns, ClientConnects(c) PROVE CountInv'
  <2>1. UNCHANGED <<accepter, count, pending, batch, endpoint>>
    BY <1>27
       DEF ClientConnects, ClientUnchanged, vars, ownerVars, muxVars, clientVars,
           sessionVars
  <2> QED BY <1>0, <2>1 DEF CountInv, Pushed
<1>28. ASSUME NEW c \in Conns, ClientSends(c) PROVE CountInv'
  <2>1. UNCHANGED <<accepter, count, pending, batch, endpoint>>
    BY <1>28
       DEF ClientSends, ClientUnchanged, vars, ownerVars, muxVars, clientVars,
           sessionVars
  <2> QED BY <1>0, <2>1 DEF CountInv, Pushed
<1>29. ASSUME NEW c \in Conns, ClientCloses(c) PROVE CountInv'
  <2>1. UNCHANGED <<accepter, count, pending, batch, endpoint>>
    BY <1>29
       DEF ClientCloses, ClientUnchanged, vars, ownerVars, muxVars, clientVars,
           sessionVars
  <2> QED BY <1>0, <2>1 DEF CountInv, Pushed
<1>30. CASE UNCHANGED vars
  BY <1>0, <1>30 DEF vars, ownerVars, muxVars, clientVars, sessionVars, CountInv, Pushed
<1> QED
  BY <1>1, <1>2, <1>3, <1>4, <1>5, <1>6, <1>7, <1>8, <1>9, <1>10,
     <1>11, <1>12, <1>13, <1>14, <1>15, <1>16, <1>17, <1>18, <1>19,
     <1>20, <1>21, <1>22, <1>23, <1>24, <1>25, <1>26, <1>27, <1>28,
     <1>29, <1>30
     DEF Next, OwnerStep, AccepterStep, ReceiverStep

(* What the packets on their way leave of CountTypes: count is within its  *)
(* bound by CountInv.                                                      *)
InboxBounds ==
    /\ count \in Nat
    /\ inbox \in [Conns -> 0 .. MaxPackets]
    /\ sent \in 0 .. MaxPackets
    /\ InboxInv

(* No inbox holds more than was sent.                                      *)
LEMMA InboxStep == MuxInv /\ [Next]_vars => InboxBounds'
<1> SUFFICES ASSUME MuxInv, [Next]_vars PROVE InboxBounds'
  OBVIOUS
<1>0. /\ StepTypes /\ PlaceTypes /\ CountTypes
      /\ HandsInv /\ PlaceInv /\ CountInv /\ InboxInv /\ StopInv
  BY TypesTogether DEF MuxInv
<1>1. CASE Open
  <2>1. UNCHANGED <<count, inbox, sent>>
    BY <1>1 DEF Open, ListenerOpens, vars, ownerVars, muxVars, clientVars, sessionVars
  <2> QED BY <1>0, <2>1 DEF InboxBounds, CountTypes, InboxInv
<1>2. CASE Start
  <2>1. UNCHANGED <<count, inbox, sent>>
    BY <1>2 DEF Start, vars, ownerVars, muxVars, clientVars, sessionVars
  <2> QED BY <1>0, <2>1 DEF InboxBounds, CountTypes, InboxInv
<1>3. CASE MuxStopOrClose
  <2>1. UNCHANGED <<count, inbox, sent>>
    BY <1>3
       DEF MuxStopOrClose, MuxCall, vars, ownerVars, muxVars, clientVars, sessionVars
  <2> QED BY <1>0, <2>1 DEF InboxBounds, CountTypes, InboxInv
<1>4. CASE TakeEndpoints
  <2>1. UNCHANGED <<count, inbox, sent>>
    BY <1>4
       DEF TakeEndpoints, SwappedSessions, vars, ownerVars, muxVars, clientVars,
           sessionVars
  <2> QED BY <1>0, <2>1 DEF InboxBounds, CountTypes, InboxInv
<1>5. ASSUME NEW c \in Conns, Restart(c) PROVE InboxBounds'
  <2>1. UNCHANGED <<count, inbox, sent>>
    BY <1>5 DEF Restart, vars, ownerVars, muxVars, clientVars, sessionVars
  <2> QED BY <1>0, <2>1 DEF InboxBounds, CountTypes, InboxInv
<1>6. ASSUME NEW c \in Conns, NEW p \in Purposes, Call(c, p) PROVE InboxBounds'
  <2>1. UNCHANGED <<count, inbox, sent>>
    BY <1>6 DEF Call, SessionCall, vars, ownerVars, muxVars, clientVars, sessionVars
  <2> QED BY <1>0, <2>1 DEF InboxBounds, CountTypes, InboxInv
<1>7. CASE MuxFlag
  <2>1. UNCHANGED <<count, inbox, sent>>
    BY <1>7
       DEF MuxFlag, MuxCall, MuxAfterStop, vars, ownerVars, muxVars, clientVars,
           sessionVars
  <2> QED BY <1>0, <2>1 DEF InboxBounds, CountTypes, InboxInv
<1>8. CASE MuxListen
  <2>1. UNCHANGED <<count, inbox, sent>>
    BY <1>8
       DEF MuxListen, CloseListener, MuxCall, vars, ownerVars, muxVars, clientVars,
           sessionVars
  <2> QED BY <1>0, <2>1 DEF InboxBounds, CountTypes, InboxInv
<1>9. CASE MuxJoin
  <2>1. UNCHANGED <<count, inbox, sent>>
    BY <1>9
       DEF MuxJoin, AccepterEnded, MuxCall, MuxAfterStop, vars, ownerVars, muxVars,
           clientVars, sessionVars
  <2> QED BY <1>0, <2>1 DEF InboxBounds, CountTypes, InboxInv
<1>10. CASE MuxClose
  <2>1. UNCHANGED <<count, inbox, sent>>
    BY <1>10
       DEF MuxClose, CloseListener, MuxCall, vars, ownerVars, muxVars, clientVars,
           sessionVars
  <2> QED BY <1>0, <2>1 DEF InboxBounds, CountTypes, InboxInv
<1>11. CASE OpenEndpoint
  <2>1. UNCHANGED <<count, inbox, sent>>
    BY <1>11
       DEF OpenEndpoint, AfterOpen, vars, ownerVars, muxVars, clientVars, sessionVars
  <2> QED BY <1>0, <2>1 DEF InboxBounds, CountTypes, InboxInv
<1>12. CASE GiveUpEndpoint
  <2>1. UNCHANGED <<count, inbox, sent>>
    BY <1>12
       DEF GiveUpEndpoint, AfterOpen, vars, ownerVars, muxVars, clientVars, sessionVars
  <2> QED BY <1>0, <2>1 DEF InboxBounds, CountTypes, InboxInv
<1>13. CASE StopFlag
  <2>1. UNCHANGED <<count, inbox, sent>>
    BY <1>13
       DEF StopFlag, AfterStop, SessionCall, vars, ownerVars, muxVars, clientVars,
           sessionVars
  <2> QED BY <1>0, <2>1 DEF InboxBounds, CountTypes, InboxInv
<1>14. CASE StopShutdown
  <2>1. UNCHANGED <<count, inbox, sent>>
    BY <1>14
       DEF StopShutdown, Interrupted, SessionCall, vars, ownerVars, muxVars,
           clientVars, sessionVars
  <2> QED BY <1>0, <2>1 DEF InboxBounds, CountTypes, InboxInv
<1>15. CASE StopJoin
  <2>1. UNCHANGED <<count, inbox, sent>>
    BY <1>15
       DEF StopJoin, ReceiverEnded, AfterStop, SessionCall, vars, ownerVars, muxVars,
           clientVars, sessionVars
  <2> QED BY <1>0, <2>1 DEF InboxBounds, CountTypes, InboxInv
<1>16. CASE CloseSession
  <2>1. UNCHANGED <<count, sent>> /\ inbox' = [inbox EXCEPT ![target] = 0]
    BY <1>16
       DEF CloseSession, CloseSocket, vars, ownerVars, muxVars, clientVars, sessionVars
  <2>2. \A d \in Conns : inbox'[d] \in {0, inbox[d]}
    BY <1>0, <2>1 DEF CountTypes
  <2>3. inbox' \in [Conns -> 0 .. MaxPackets]
    <3>1. 0 \in 0 .. MaxPackets
      BY MuxAssumption
    <3> QED BY <1>0, <2>1, <3>1 DEF CountTypes
  <2>4. \A d \in Conns : inbox'[d] <= sent
    BY <1>0, <2>2, MuxAssumption DEF CountTypes, InboxInv
  <2> QED BY <1>0, <2>1, <2>3, <2>4 DEF InboxBounds, CountTypes, InboxInv
<1>17. CASE AcceptLoop
  <2>1. UNCHANGED <<count, inbox, sent>>
    BY <1>17
       DEF AcceptLoop, AccepterGoes, vars, ownerVars, muxVars, clientVars, sessionVars
  <2> QED BY <1>0, <2>1 DEF InboxBounds, CountTypes, InboxInv
<1>18. CASE Accept
  <2>1. UNCHANGED <<count, inbox, sent>>
    BY <1>18
       DEF Accept, Then, AccepterGoes, vars, ownerVars, muxVars, clientVars, sessionVars
  <2> QED BY <1>0, <2>1 DEF InboxBounds, CountTypes, InboxInv
<1>19. CASE Push
  <2>1. UNCHANGED <<count, inbox, sent>>
    BY <1>19
       DEF Push, Then, AccepterGoes, vars, ownerVars, muxVars, clientVars, sessionVars
  <2> QED BY <1>0, <2>1 DEF InboxBounds, CountTypes, InboxInv
<1>20. CASE Count
  <2>1. UNCHANGED <<inbox, sent>> /\ count' = count + 1
    BY <1>20
       DEF Count, CountOne, Then, AccepterGoes, vars, ownerVars, muxVars, clientVars,
           sessionVars
  <2> QED BY <1>0, <2>1 DEF InboxBounds, CountTypes, InboxInv
<1>21. CASE AcceptFails \/ AcceptErrors
  <2>1. UNCHANGED <<count, inbox, sent>>
    BY <1>21
       DEF AcceptFails, AcceptErrors, AcceptInVain, Continue, AccepterGoes, vars, ownerVars,
           muxVars, clientVars,
           sessionVars
  <2> QED BY <1>0, <2>1 DEF InboxBounds, CountTypes, InboxInv
<1>22. ASSUME NEW c \in Conns, ReceiveLoop(c) PROVE InboxBounds'
  <2>1. UNCHANGED <<count, inbox, sent>>
    BY <1>22 DEF ReceiveLoop, Goto, vars, ownerVars, muxVars, clientVars, sessionVars
  <2> QED BY <1>0, <2>1 DEF InboxBounds, CountTypes, InboxInv
<1>23. ASSUME NEW c \in Conns, ReadPacket(c) PROVE InboxBounds'
  <2>1. UNCHANGED <<count, sent>> /\ inbox[c] > 0 /\ inbox' = [inbox EXCEPT ![c] = @ - 1]
    BY <1>23 DEF ReadPacket, Goto, vars, ownerVars, muxVars, clientVars, sessionVars
  <2> QED BY <1>0, <2>1, MuxAssumption DEF InboxBounds, CountTypes, InboxInv
<1>24. ASSUME NEW c \in Conns, ReadFails(c) PROVE InboxBounds'
  <2>1. UNCHANGED <<count, inbox, sent>>
    BY <1>24 DEF ReadFails, Goto, vars, ownerVars, muxVars, clientVars, sessionVars
  <2> QED BY <1>0, <2>1 DEF InboxBounds, CountTypes, InboxInv
<1>25. ASSUME NEW c \in Conns, CallbackReturns(c) PROVE InboxBounds'
  <2>1. UNCHANGED <<count, inbox, sent>>
    BY <1>25
       DEF CallbackReturns, Goto, vars, ownerVars, muxVars, clientVars, sessionVars
  <2> QED BY <1>0, <2>1 DEF InboxBounds, CountTypes, InboxInv
<1>26. ASSUME NEW c \in Conns, ReceiverEnds(c) PROVE InboxBounds'
  <2>1. UNCHANGED <<count, inbox, sent>>
    BY <1>26 DEF ReceiverEnds, Goto, vars, ownerVars, muxVars, clientVars, sessionVars
  <2> QED BY <1>0, <2>1 DEF InboxBounds, CountTypes, InboxInv
<1>27. ASSUME NEW c \in Conns, ClientConnects(c) PROVE InboxBounds'
  <2>1. UNCHANGED <<count, inbox, sent>>
    BY <1>27
       DEF ClientConnects, ClientUnchanged, vars, ownerVars, muxVars, clientVars,
           sessionVars
  <2> QED BY <1>0, <2>1 DEF InboxBounds, CountTypes, InboxInv
<1>28. ASSUME NEW c \in Conns, ClientSends(c) PROVE InboxBounds'
  <2>1. /\ UNCHANGED count /\ sent < MaxPackets /\ sent' = sent + 1
        /\ inbox' = [inbox EXCEPT ![c] = @ + 1]
    BY <1>28
       DEF ClientSends, ClientUnchanged, vars, ownerVars, muxVars, clientVars,
           sessionVars
  <2>2. /\ inbox'[c] = inbox[c] + 1
        /\ \A d \in Conns : d # c => inbox'[d] = inbox[d]
        /\ DOMAIN inbox' = Conns
    BY <1>0, <2>1 DEF CountTypes
  <2> QED BY <1>0, <2>1, <2>2, MuxAssumption DEF InboxBounds, CountTypes, InboxInv
<1>29. ASSUME NEW c \in Conns, ClientCloses(c) PROVE InboxBounds'
  <2>1. UNCHANGED <<count, inbox, sent>>
    BY <1>29
       DEF ClientCloses, ClientUnchanged, vars, ownerVars, muxVars, clientVars,
           sessionVars
  <2> QED BY <1>0, <2>1 DEF InboxBounds, CountTypes, InboxInv
<1>30. CASE UNCHANGED vars
  BY <1>0, <1>30
     DEF vars, ownerVars, muxVars, clientVars, sessionVars, InboxBounds, InboxInv,
         CountTypes
<1> QED
  BY <1>1, <1>2, <1>3, <1>4, <1>5, <1>6, <1>7, <1>8, <1>9, <1>10,
     <1>11, <1>12, <1>13, <1>14, <1>15, <1>16, <1>17, <1>18, <1>19,
     <1>20, <1>21, <1>22, <1>23, <1>24, <1>25, <1>26, <1>27, <1>28,
     <1>29, <1>30
     DEF Next, OwnerStep, AccepterStep, ReceiverStep

(* The accept thread does not outlive the stop that joins it.              *)
LEMMA AccepterInvStep == MuxInv /\ [Next]_vars => AccepterInv'
<1> SUFFICES ASSUME MuxInv, [Next]_vars PROVE AccepterInv'
  OBVIOUS
<1>0. /\ StepTypes /\ PlaceTypes /\ CountTypes
      /\ HandsInv /\ PlaceInv /\ CountInv /\ InboxInv /\ StopInv
  BY TypesTogether DEF MuxInv
<1>1. CASE Open
  <2>1. UNCHANGED <<muxRunning, owner, accepter>>
    BY <1>1 DEF Open, ListenerOpens, vars, ownerVars, muxVars, clientVars, sessionVars
  <2> QED BY <1>0, <2>1 DEF StopInv, AccepterInv
<1>2. CASE Start
  <2>1. muxRunning' = TRUE
    BY <1>2 DEF Start
  <2> QED BY <2>1 DEF AccepterInv
<1>3. CASE MuxStopOrClose
  <2>1. UNCHANGED <<muxRunning, accepter>>
    BY <1>3
       DEF MuxStopOrClose, MuxCall, vars, ownerVars, muxVars, clientVars, sessionVars
  <2>2. owner.step \notin {"muxListen", "muxJoin"}
    BY <1>3 DEF MuxStopOrClose, MuxCall, Idle, At
  <2> QED BY <1>0, <2>1, <2>2 DEF StopInv, AccepterInv
<1>4. CASE TakeEndpoints
  <2>1. UNCHANGED <<muxRunning, accepter>>
    BY <1>4
       DEF TakeEndpoints, SwappedSessions, vars, ownerVars, muxVars, clientVars,
           sessionVars
  <2>2. owner.step \notin {"muxListen", "muxJoin"}
    BY <1>4 DEF TakeEndpoints, SwappedSessions, Idle, At
  <2> QED BY <1>0, <2>1, <2>2 DEF StopInv, AccepterInv
<1>5. ASSUME NEW c \in Conns, Restart(c) PROVE AccepterInv'
  <2>1. UNCHANGED <<muxRunning, owner, accepter>>
    BY <1>5 DEF Restart, vars, ownerVars, muxVars, clientVars, sessionVars
  <2> QED BY <1>0, <2>1 DEF StopInv, AccepterInv
<1>6. ASSUME NEW c \in Conns, NEW p \in Purposes, Call(c, p) PROVE AccepterInv'
  <2>1. UNCHANGED <<muxRunning, accepter>>
    BY <1>6 DEF Call, SessionCall, vars, ownerVars, muxVars, clientVars, sessionVars
  <2>2. owner.step \notin {"muxListen", "muxJoin"}
    BY <1>6 DEF Call, SessionCall, Idle, At
  <2> QED BY <1>0, <2>1, <2>2 DEF StopInv, AccepterInv
<1>7. CASE MuxFlag
  <2>1. UNCHANGED accepter /\ owner.step = "muxFlag"
    BY <1>7 DEF MuxFlag, MuxCall, MuxAfterStop
  <2>2. muxRunning => owner'.step = "muxListen"
    BY <1>7 DEF MuxFlag, MuxCall, MuxAfterStop, At
  <2> QED BY <1>0, <2>1, <2>2 DEF StopInv, AccepterInv, StepTypes
<1>8. CASE MuxListen
  <2>1. owner'.step = "muxJoin"
    BY <1>8 DEF MuxListen, CloseListener, MuxCall, At
  <2> QED BY <2>1 DEF AccepterInv
<1>9. CASE MuxJoin
  <2>1. accepter' = "none"
    BY <1>9 DEF MuxJoin, AccepterEnded, MuxCall, MuxAfterStop
  <2> QED BY <2>1 DEF AccepterInv
<1>10. CASE MuxClose
  <2>1. UNCHANGED <<muxRunning, accepter>>
    BY <1>10
       DEF MuxClose, CloseListener, MuxCall, vars, ownerVars, muxVars, clientVars,
           sessionVars
  <2>2. owner.step \notin {"muxListen", "muxJoin"}
    BY <1>10 DEF MuxClose, CloseListener, MuxCall, Idle, At
  <2> QED BY <1>0, <2>1, <2>2 DEF StopInv, AccepterInv
<1>11. CASE OpenEndpoint
  <2>1. UNCHANGED <<muxRunning, accepter>>
    BY <1>11
       DEF OpenEndpoint, AfterOpen, vars, ownerVars, muxVars, clientVars, sessionVars
  <2>2. owner.step \notin {"muxListen", "muxJoin"}
    BY <1>11 DEF OpenEndpoint, AfterOpen, Idle, At
  <2> QED BY <1>0, <2>1, <2>2 DEF StopInv, AccepterInv
<1>12. CASE GiveUpEndpoint
  <2>1. UNCHANGED <<muxRunning, accepter>>
    BY <1>12
       DEF GiveUpEndpoint, AfterOpen, vars, ownerVars, muxVars, clientVars, sessionVars
  <2>2. owner.step \notin {"muxListen", "muxJoin"}
    BY <1>12 DEF GiveUpEndpoint, AfterOpen, Idle, At
  <2> QED BY <1>0, <2>1, <2>2 DEF StopInv, AccepterInv
<1>13. CASE StopFlag
  <2>1. UNCHANGED <<muxRunning, accepter>>
    BY <1>13
       DEF StopFlag, AfterStop, SessionCall, vars, ownerVars, muxVars, clientVars,
           sessionVars
  <2>2. owner.step \notin {"muxListen", "muxJoin"}
    BY <1>13 DEF StopFlag, AfterStop, SessionCall, Idle, At
  <2> QED BY <1>0, <2>1, <2>2 DEF StopInv, AccepterInv
<1>14. CASE StopShutdown
  <2>1. UNCHANGED <<muxRunning, accepter>>
    BY <1>14
       DEF StopShutdown, Interrupted, SessionCall, vars, ownerVars, muxVars,
           clientVars, sessionVars
  <2>2. owner.step \notin {"muxListen", "muxJoin"}
    BY <1>14 DEF StopShutdown, Interrupted, SessionCall, Idle, At
  <2> QED BY <1>0, <2>1, <2>2 DEF StopInv, AccepterInv
<1>15. CASE StopJoin
  <2>1. UNCHANGED <<muxRunning, accepter>>
    BY <1>15
       DEF StopJoin, ReceiverEnded, AfterStop, SessionCall, vars, ownerVars, muxVars,
           clientVars, sessionVars
  <2>2. owner.step \notin {"muxListen", "muxJoin"}
    BY <1>15 DEF StopJoin, ReceiverEnded, AfterStop, SessionCall, Idle, At
  <2> QED BY <1>0, <2>1, <2>2 DEF StopInv, AccepterInv
<1>16. CASE CloseSession
  <2>1. UNCHANGED <<muxRunning, accepter>>
    BY <1>16
       DEF CloseSession, CloseSocket, vars, ownerVars, muxVars, clientVars, sessionVars
  <2>2. owner.step \notin {"muxListen", "muxJoin"}
    BY <1>16 DEF CloseSession, CloseSocket, Idle, At
  <2> QED BY <1>0, <2>1, <2>2 DEF StopInv, AccepterInv
<1>17. CASE AcceptLoop
  <2>1. UNCHANGED <<muxRunning, owner>> /\ accepter # "none"
    BY <1>17
       DEF AcceptLoop, AccepterGoes, vars, ownerVars, muxVars, clientVars, sessionVars
  <2> QED BY <1>0, <2>1 DEF StopInv, AccepterInv
<1>18. CASE Accept
  <2>1. UNCHANGED <<muxRunning, owner>> /\ accepter # "none"
    BY <1>18
       DEF Accept, Then, AccepterGoes, vars, ownerVars, muxVars, clientVars, sessionVars
  <2> QED BY <1>0, <2>1 DEF StopInv, AccepterInv
<1>19. CASE Push
  <2>1. UNCHANGED <<muxRunning, owner>> /\ accepter # "none"
    BY <1>19
       DEF Push, Then, AccepterGoes, vars, ownerVars, muxVars, clientVars, sessionVars
  <2> QED BY <1>0, <2>1 DEF StopInv, AccepterInv
<1>20. CASE Count
  <2>1. UNCHANGED <<muxRunning, owner>> /\ accepter # "none"
    BY <1>20
       DEF Count, CountOne, Then, AccepterGoes, vars, ownerVars, muxVars, clientVars,
           sessionVars
  <2> QED BY <1>0, <2>1 DEF StopInv, AccepterInv
<1>21. CASE AcceptFails \/ AcceptErrors
  <2>1. UNCHANGED <<muxRunning, owner>> /\ accepter # "none"
    BY <1>21
       DEF AcceptFails, AcceptErrors, AcceptInVain, Continue, AccepterGoes, vars, ownerVars,
           muxVars, clientVars,
           sessionVars
  <2> QED BY <1>0, <2>1 DEF StopInv, AccepterInv
<1>22. ASSUME NEW c \in Conns, ReceiveLoop(c) PROVE AccepterInv'
  <2>1. UNCHANGED <<muxRunning, owner, accepter>>
    BY <1>22 DEF ReceiveLoop, Goto, vars, ownerVars, muxVars, clientVars, sessionVars
  <2> QED BY <1>0, <2>1 DEF StopInv, AccepterInv
<1>23. ASSUME NEW c \in Conns, ReadPacket(c) PROVE AccepterInv'
  <2>1. UNCHANGED <<muxRunning, owner, accepter>>
    BY <1>23 DEF ReadPacket, Goto, vars, ownerVars, muxVars, clientVars, sessionVars
  <2> QED BY <1>0, <2>1 DEF StopInv, AccepterInv
<1>24. ASSUME NEW c \in Conns, ReadFails(c) PROVE AccepterInv'
  <2>1. UNCHANGED <<muxRunning, owner, accepter>>
    BY <1>24 DEF ReadFails, Goto, vars, ownerVars, muxVars, clientVars, sessionVars
  <2> QED BY <1>0, <2>1 DEF StopInv, AccepterInv
<1>25. ASSUME NEW c \in Conns, CallbackReturns(c) PROVE AccepterInv'
  <2>1. UNCHANGED <<muxRunning, owner, accepter>>
    BY <1>25
       DEF CallbackReturns, Goto, vars, ownerVars, muxVars, clientVars, sessionVars
  <2> QED BY <1>0, <2>1 DEF StopInv, AccepterInv
<1>26. ASSUME NEW c \in Conns, ReceiverEnds(c) PROVE AccepterInv'
  <2>1. UNCHANGED <<muxRunning, owner, accepter>>
    BY <1>26 DEF ReceiverEnds, Goto, vars, ownerVars, muxVars, clientVars, sessionVars
  <2> QED BY <1>0, <2>1 DEF StopInv, AccepterInv
<1>27. ASSUME NEW c \in Conns, ClientConnects(c) PROVE AccepterInv'
  <2>1. UNCHANGED <<muxRunning, owner, accepter>>
    BY <1>27
       DEF ClientConnects, ClientUnchanged, vars, ownerVars, muxVars, clientVars,
           sessionVars
  <2> QED BY <1>0, <2>1 DEF StopInv, AccepterInv
<1>28. ASSUME NEW c \in Conns, ClientSends(c) PROVE AccepterInv'
  <2>1. UNCHANGED <<muxRunning, owner, accepter>>
    BY <1>28
       DEF ClientSends, ClientUnchanged, vars, ownerVars, muxVars, clientVars,
           sessionVars
  <2> QED BY <1>0, <2>1 DEF StopInv, AccepterInv
<1>29. ASSUME NEW c \in Conns, ClientCloses(c) PROVE AccepterInv'
  <2>1. UNCHANGED <<muxRunning, owner, accepter>>
    BY <1>29
       DEF ClientCloses, ClientUnchanged, vars, ownerVars, muxVars, clientVars,
           sessionVars
  <2> QED BY <1>0, <2>1 DEF StopInv, AccepterInv
<1>30. CASE UNCHANGED vars
  BY <1>0, <1>30
     DEF vars, ownerVars, muxVars, clientVars, sessionVars, StopInv, AccepterInv
<1> QED
  BY <1>1, <1>2, <1>3, <1>4, <1>5, <1>6, <1>7, <1>8, <1>9, <1>10,
     <1>11, <1>12, <1>13, <1>14, <1>15, <1>16, <1>17, <1>18, <1>19,
     <1>20, <1>21, <1>22, <1>23, <1>24, <1>25, <1>26, <1>27, <1>28,
     <1>29, <1>30
     DEF Next, OwnerStep, AccepterStep, ReceiverStep

(* ReceiverInv and that of a session a stop has the flag of is clear.      *)
SessionInv ==
    /\ ReceiverInv
    /\ owner.step \in {"shutdown", "join", "close"} => ~running[target]

(* A receive thread does not outlive the stop that joins it.               *)
LEMMA SessionInvStep == MuxInv /\ [Next]_vars => SessionInv'
<1> SUFFICES ASSUME MuxInv, [Next]_vars PROVE SessionInv'
  OBVIOUS
<1>0. /\ StepTypes /\ PlaceTypes /\ CountTypes
      /\ HandsInv /\ PlaceInv /\ CountInv /\ InboxInv /\ StopInv
  BY TypesTogether DEF MuxInv
<1>1. CASE Open
  <2>1. UNCHANGED <<owner, target, running, receiver>>
    BY <1>1 DEF Open, ListenerOpens, vars, ownerVars, muxVars, clientVars, sessionVars
  <2> QED BY <1>0, <2>1 DEF SessionInv, StopInv, ReceiverInv
<1>2. CASE Start
  <2>1. UNCHANGED <<owner, target, running, receiver>>
    BY <1>2 DEF Start, vars, ownerVars, muxVars, clientVars, sessionVars
  <2> QED BY <1>0, <2>1 DEF SessionInv, StopInv, ReceiverInv
<1>3. CASE MuxStopOrClose
  <2>1. UNCHANGED <<target, running, receiver>>
    BY <1>3
       DEF MuxStopOrClose, MuxCall, vars, ownerVars, muxVars, clientVars, sessionVars
  <2>2. owner.step \notin SessionSteps /\ target = Nobody
    BY <1>0, <1>3 DEF MuxStopOrClose, MuxCall, Idle, At, HandsInv, SessionSteps
  <2>3. owner'.step \notin SessionSteps
    <3>1. owner' = At("muxFlag", "stop") \/ owner' = At("muxFlag", "close")
      BY <1>3 DEF MuxStopOrClose, MuxCall
    <3> QED BY <3>1 DEF At, SessionSteps
  <2> QED BY <1>0, <2>1, <2>2, <2>3, MuxAssumption
             DEF SessionInv, StopInv, ReceiverInv, SessionSteps
<1>4. CASE TakeEndpoints
  <2>1. UNCHANGED <<target, running, receiver>>
    BY <1>4
       DEF TakeEndpoints, SwappedSessions, vars, ownerVars, muxVars, clientVars,
           sessionVars
  <2>2. owner.step \notin SessionSteps /\ target = Nobody
    BY <1>0, <1>4 DEF TakeEndpoints, SwappedSessions, Idle, At, HandsInv, SessionSteps
  <2>3. owner'.step \notin SessionSteps
    BY <1>0, <1>4 DEF TakeEndpoints, SwappedSessions, Idle, At, SessionSteps
  <2> QED BY <1>0, <2>1, <2>2, <2>3, MuxAssumption
             DEF SessionInv, StopInv, ReceiverInv, SessionSteps
<1>5. ASSUME NEW c \in Conns, Restart(c) PROVE SessionInv'
  <2>1. UNCHANGED <<owner, target>> /\ owner.step = "idle"
    BY <1>5 DEF Restart, vars, ownerVars, muxVars, clientVars, sessionVars, Idle, At
  <2>2. /\ running'[c] = TRUE
        /\ \A d \in Conns : d # c => running'[d] = running[d] /\ receiver'[d] = receiver[d]
    BY <1>0, <1>5 DEF Restart, StepTypes
  <2> QED BY <1>0, <2>1, <2>2 DEF SessionInv, StopInv, ReceiverInv
<1>6. ASSUME NEW c \in Conns, NEW p \in Purposes, Call(c, p) PROVE SessionInv'
  <2>1. UNCHANGED <<running, receiver>>
    BY <1>6 DEF Call, SessionCall, vars, ownerVars, muxVars, clientVars, sessionVars
  <2>2. owner.step = "idle" /\ owner'.step = "flag"
    BY <1>6 DEF Call, SessionCall, Idle, At
  <2> QED BY <1>0, <2>1, <2>2 DEF SessionInv, StopInv, ReceiverInv
<1>7. CASE MuxFlag
  <2>1. UNCHANGED <<target, running, receiver>>
    BY <1>7
       DEF MuxFlag, MuxCall, MuxAfterStop, vars, ownerVars, muxVars, clientVars,
           sessionVars
  <2>2. owner.step \notin SessionSteps /\ target = Nobody
    BY <1>0, <1>7 DEF MuxFlag, MuxCall, MuxAfterStop, Idle, At, HandsInv, SessionSteps
  <2>3. owner'.step \notin SessionSteps
    BY <1>0, <1>7 DEF MuxFlag, MuxCall, MuxAfterStop, Idle, At, SessionSteps
  <2> QED BY <1>0, <2>1, <2>2, <2>3, MuxAssumption
             DEF SessionInv, StopInv, ReceiverInv, SessionSteps
<1>8. CASE MuxListen
  <2>1. UNCHANGED <<target, running, receiver>>
    BY <1>8
       DEF MuxListen, CloseListener, MuxCall, vars, ownerVars, muxVars, clientVars,
           sessionVars
  <2>2. owner.step \notin SessionSteps /\ target = Nobody
    BY <1>0, <1>8
       DEF MuxListen, CloseListener, MuxCall, Idle, At, HandsInv, SessionSteps
  <2>3. owner'.step \notin SessionSteps
    BY <1>0, <1>8 DEF MuxListen, CloseListener, MuxCall, Idle, At, SessionSteps
  <2> QED BY <1>0, <2>1, <2>2, <2>3, MuxAssumption
             DEF SessionInv, StopInv, ReceiverInv, SessionSteps
<1>9. CASE MuxJoin
  <2>1. UNCHANGED <<target, running, receiver>>
    BY <1>9
       DEF MuxJoin, AccepterEnded, MuxCall, MuxAfterStop, vars, ownerVars, muxVars,
           clientVars, sessionVars
  <2>2. owner.step \notin SessionSteps /\ target = Nobody
    BY <1>0, <1>9
       DEF MuxJoin, AccepterEnded, MuxCall, MuxAfterStop, Idle, At, HandsInv,
           SessionSteps
  <2>3. owner'.step \notin SessionSteps
    BY <1>0, <1>9
       DEF MuxJoin, AccepterEnded, MuxCall, MuxAfterStop, Idle, At, SessionSteps
  <2> QED BY <1>0, <2>1, <2>2, <2>3, MuxAssumption
             DEF SessionInv, StopInv, ReceiverInv, SessionSteps
<1>10. CASE MuxClose
  <2>1. UNCHANGED <<target, running, receiver>>
    BY <1>10
       DEF MuxClose, CloseListener, MuxCall, vars, ownerVars, muxVars, clientVars,
           sessionVars
  <2>2. owner.step \notin SessionSteps /\ target = Nobody
    BY <1>0, <1>10
       DEF MuxClose, CloseListener, MuxCall, Idle, At, HandsInv, SessionSteps
  <2>3. owner'.step \notin SessionSteps
    BY <1>0, <1>10 DEF MuxClose, CloseListener, MuxCall, Idle, At, SessionSteps
  <2> QED BY <1>0, <2>1, <2>2, <2>3, MuxAssumption
             DEF SessionInv, StopInv, ReceiverInv, SessionSteps
<1>11. CASE OpenEndpoint
  <2> DEFINE h == Head(batch)
  <2>1. UNCHANGED target /\ target = Nobody /\ owner'.step \in {"idle", "open"}
    BY <1>0, <1>11
       DEF OpenEndpoint, AfterOpen, vars, ownerVars, muxVars, clientVars, sessionVars,
           HandsInv, SessionSteps, Idle, At
  <2>2. h \in Conns
    BY <1>0, <1>11, HeadTailProperties DEF OpenEndpoint, AfterOpen, HandsInv, PlaceTypes
  <2>3. /\ running'[h] = TRUE
        /\ \A d \in Conns : d # h => running'[d] = running[d] /\ receiver'[d] = receiver[d]
    BY <1>0, <2>2, <1>11 DEF OpenEndpoint, AfterOpen, StepTypes
  <2> HIDE DEF h
  <2> QED BY <1>0, <2>1, <2>3, MuxAssumption DEF SessionInv, StopInv, ReceiverInv
<1>12. CASE GiveUpEndpoint
  <2>1. UNCHANGED <<target, running, receiver>>
    BY <1>12
       DEF GiveUpEndpoint, AfterOpen, vars, ownerVars, muxVars, clientVars, sessionVars
  <2>2. owner.step \notin SessionSteps /\ target = Nobody
    BY <1>0, <1>12 DEF GiveUpEndpoint, AfterOpen, Idle, At, HandsInv, SessionSteps
  <2>3. owner'.step \notin SessionSteps
    BY <1>0, <1>12 DEF GiveUpEndpoint, AfterOpen, Idle, At, SessionSteps
  <2> QED BY <1>0, <2>1, <2>2, <2>3, MuxAssumption
             DEF SessionInv, StopInv, ReceiverInv, SessionSteps
<1>13. CASE StopFlag
  <2>1. target \in Conns
    BY <1>0, <1>13
       DEF StopFlag, AfterStop, SessionCall, HandsInv, StepTypes, SessionSteps
  <2>2. /\ running'[target] = FALSE /\ UNCHANGED receiver
        /\ \A d \in Conns : d # target => running'[d] = running[d]
    BY <1>0, <2>1, <1>13 DEF StopFlag, AfterStop, SessionCall, StepTypes
  <2>3. CASE running[target]
    <3>1. owner'.step = "shutdown" /\ target' = target
      BY <2>3, <1>13 DEF StopFlag, AfterStop, SessionCall, At
    <3>2. \A d \in Conns : d # target /\ ~running[d] => receiver[d] \in {"none", "exited"}
      BY <1>0 DEF StopInv, ReceiverInv
    <3> QED BY <2>2, <3>1, <3>2 DEF SessionInv, ReceiverInv
  <2>4. CASE ~running[target]
    <3>1. owner.step = "flag" /\ owner'.step \in {"idle", "close"}
      BY <2>4, <1>13 DEF StopFlag, AfterStop, SessionCall, Idle, At
    <3>2. owner'.step = "close" => target' = target
      BY <2>4, <1>13 DEF StopFlag, AfterStop, SessionCall, Idle, At
    <3>3. \A d \in Conns : ~running[d] => receiver[d] \in {"none", "exited"}
      BY <1>0, <3>1 DEF StopInv, ReceiverInv
    <3>4. \A d \in Conns : ~running'[d] => receiver'[d] \in {"none", "exited"}
      BY <2>2, <2>4, <3>3
    <3> QED BY <2>2, <3>1, <3>2, <3>4 DEF SessionInv, ReceiverInv
  <2> QED BY <2>3, <2>4
<1>14. CASE StopShutdown
  <2>1. UNCHANGED <<target, running, receiver>>
    BY <1>14
       DEF StopShutdown, Interrupted, SessionCall, vars, ownerVars, muxVars,
           clientVars, sessionVars
  <2>2. owner.step = "shutdown" /\ owner'.step = "join"
    BY <1>14 DEF StopShutdown, Interrupted, SessionCall, At
  <2> QED BY <1>0, <2>1, <2>2 DEF SessionInv, StopInv, ReceiverInv
<1>15. CASE StopJoin
  <2>1. target \in Conns
    BY <1>0, <1>15
       DEF StopJoin, ReceiverEnded, AfterStop, SessionCall, HandsInv, StepTypes,
           SessionSteps
  <2>2. /\ owner.step = "join" /\ UNCHANGED running
        /\ owner'.step \in {"idle", "close"}
        /\ owner'.step = "close" => target' = target
    BY <1>15 DEF StopJoin, ReceiverEnded, AfterStop, SessionCall, Idle, At
  <2>3. /\ receiver'[target] \in {"none", "exited"}
        /\ \A d \in Conns : d # target => receiver'[d] = receiver[d]
    BY <1>0, <2>1, <1>15 DEF StopJoin, ReceiverEnded, AfterStop, SessionCall, StepTypes
  <2>4. \A d \in Conns : ~running[d] => receiver'[d] \in {"none", "exited"}
    BY <1>0, <2>1, <2>3 DEF StopInv, ReceiverInv
  <2>5. ~running[target]
    BY <1>0, <2>2 DEF StopInv
  <2> QED BY <2>2, <2>4, <2>5 DEF SessionInv, ReceiverInv
<1>16. CASE CloseSession
  <2>1. UNCHANGED <<running, receiver>>
    BY <1>16
       DEF CloseSession, CloseSocket, vars, ownerVars, muxVars, clientVars, sessionVars
  <2>2. owner.step = "close" /\ owner'.step = "idle"
    BY <1>16 DEF CloseSession, CloseSocket, Idle, At
  <2> QED BY <1>0, <2>1, <2>2 DEF SessionInv, StopInv, ReceiverInv
<1>17. CASE AcceptLoop
  <2>1. UNCHANGED <<owner, target, running, receiver>>
    BY <1>17
       DEF AcceptLoop, AccepterGoes, vars, ownerVars, muxVars, clientVars, sessionVars
  <2> QED BY <1>0, <2>1 DEF SessionInv, StopInv, ReceiverInv
<1>18. CASE Accept
  <2>1. UNCHANGED <<owner, target, running, receiver>>
    BY <1>18
       DEF Accept, Then, AccepterGoes, vars, ownerVars, muxVars, clientVars, sessionVars
  <2> QED BY <1>0, <2>1 DEF SessionInv, StopInv, ReceiverInv
<1>19. CASE Push
  <2>1. UNCHANGED <<owner, target, running, receiver>>
    BY <1>19
       DEF Push, Then, AccepterGoes, vars, ownerVars, muxVars, clientVars, sessionVars
  <2> QED BY <1>0, <2>1 DEF SessionInv, StopInv, ReceiverInv
<1>20. CASE Count
  <2>1. UNCHANGED <<owner, target, running, receiver>>
    BY <1>20
       DEF Count, CountOne, Then, AccepterGoes, vars, ownerVars, muxVars, clientVars,
           sessionVars
  <2> QED BY <1>0, <2>1 DEF SessionInv, StopInv, ReceiverInv
<1>21. CASE AcceptFails \/ AcceptErrors
  <2>1. UNCHANGED <<owner, target, running, receiver>>
    BY <1>21
       DEF AcceptFails, AcceptErrors, AcceptInVain, Continue, AccepterGoes, vars, ownerVars,
           muxVars, clientVars,
           sessionVars
  <2> QED BY <1>0, <2>1 DEF SessionInv, StopInv, ReceiverInv
<1>22. ASSUME NEW c \in Conns, ReceiveLoop(c) PROVE SessionInv'
  <2>1. UNCHANGED <<owner, target, running>> /\ receiver[c] \notin {"none", "exited"}
    BY <1>22 DEF ReceiveLoop, Goto, vars, ownerVars, muxVars, clientVars, sessionVars
  <2>2. \A d \in Conns : d # c => receiver'[d] = receiver[d]
    BY <1>0, <1>22 DEF ReceiveLoop, Goto, StepTypes
  <2> QED BY <1>0, <2>1, <2>2 DEF SessionInv, StopInv, ReceiverInv
<1>23. ASSUME NEW c \in Conns, ReadPacket(c) PROVE SessionInv'
  <2>1. UNCHANGED <<owner, target, running>> /\ receiver[c] \notin {"none", "exited"}
    BY <1>23 DEF ReadPacket, Goto, vars, ownerVars, muxVars, clientVars, sessionVars
  <2>2. \A d \in Conns : d # c => receiver'[d] = receiver[d]
    BY <1>0, <1>23 DEF ReadPacket, Goto, StepTypes
  <2> QED BY <1>0, <2>1, <2>2 DEF SessionInv, StopInv, ReceiverInv
<1>24. ASSUME NEW c \in Conns, ReadFails(c) PROVE SessionInv'
  <2>1. UNCHANGED <<owner, target, running>> /\ receiver[c] \notin {"none", "exited"}
    BY <1>24 DEF ReadFails, Goto, vars, ownerVars, muxVars, clientVars, sessionVars
  <2>2. \A d \in Conns : d # c => receiver'[d] = receiver[d]
    BY <1>0, <1>24 DEF ReadFails, Goto, StepTypes
  <2> QED BY <1>0, <2>1, <2>2 DEF SessionInv, StopInv, ReceiverInv
<1>25. ASSUME NEW c \in Conns, CallbackReturns(c) PROVE SessionInv'
  <2>1. UNCHANGED <<owner, target, running>> /\ receiver[c] \notin {"none", "exited"}
    BY <1>25
       DEF CallbackReturns, Goto, vars, ownerVars, muxVars, clientVars, sessionVars
  <2>2. \A d \in Conns : d # c => receiver'[d] = receiver[d]
    BY <1>0, <1>25 DEF CallbackReturns, Goto, StepTypes
  <2> QED BY <1>0, <2>1, <2>2 DEF SessionInv, StopInv, ReceiverInv
<1>26. ASSUME NEW c \in Conns, ReceiverEnds(c) PROVE SessionInv'
  <2>1. UNCHANGED <<owner, target>>
    BY <1>26 DEF ReceiverEnds, Goto, vars, ownerVars, muxVars, clientVars, sessionVars
  <2>2. /\ receiver'[c] = "exited"
        /\ \A d \in Conns : d # c => running'[d] = running[d] /\ receiver'[d] = receiver[d]
        /\ \A d \in Conns : running'[d] => running[d]
    BY <1>0, <1>26 DEF ReceiverEnds, Goto, StepTypes
  <2>3. owner.step \in {"shutdown", "join", "close"} => target \in Conns
    BY <1>0 DEF HandsInv, StepTypes, SessionSteps
  <2> QED BY <1>0, <2>1, <2>2, <2>3 DEF SessionInv, StopInv, ReceiverInv
<1>27. ASSUME NEW c \in Conns, ClientConnects(c) PROVE SessionInv'
  <2>1. UNCHANGED <<owner, target, running, receiver>>
    BY <1>27
       DEF ClientConnects, ClientUnchanged, vars, ownerVars, muxVars, clientVars,
           sessionVars
  <2> QED BY <1>0, <2>1 DEF SessionInv, StopInv, ReceiverInv
<1>28. ASSUME NEW c \in Conns, ClientSends(c) PROVE SessionInv'
  <2>1. UNCHANGED <<owner, target, running, receiver>>
    BY <1>28
       DEF ClientSends, ClientUnchanged, vars, ownerVars, muxVars, clientVars,
           sessionVars
  <2> QED BY <1>0, <2>1 DEF SessionInv, StopInv, ReceiverInv
<1>29. ASSUME NEW c \in Conns, ClientCloses(c) PROVE SessionInv'
  <2>1. UNCHANGED <<owner, target, running, receiver>>
    BY <1>29
       DEF ClientCloses, ClientUnchanged, vars, ownerVars, muxVars, clientVars,
           sessionVars
  <2> QED BY <1>0, <2>1 DEF SessionInv, StopInv, ReceiverInv
<1>30. CASE UNCHANGED vars
  BY <1>0, <1>30
     DEF vars, ownerVars, muxVars, clientVars, sessionVars, SessionInv, StopInv,
         ReceiverInv
<1> QED
  BY <1>1, <1>2, <1>3, <1>4, <1>5, <1>6, <1>7, <1>8, <1>9, <1>10,
     <1>11, <1>12, <1>13, <1>14, <1>15, <1>16, <1>17, <1>18, <1>19,
     <1>20, <1>21, <1>22, <1>23, <1>24, <1>25, <1>26, <1>27, <1>28,
     <1>29, <1>30
     DEF Next, OwnerStep, AccepterStep, ReceiverStep

(* No step of the multiplexer or of a session breaks the invariant.        *)
LEMMA MuxStep == MuxInv /\ [Next]_vars => MuxInv'
<1> SUFFICES ASSUME MuxInv, [Next]_vars PROVE MuxInv'
  OBVIOUS
<1>1. StepTypes' /\ PlaceTypes' /\ HandsInv' /\ PlaceInv' /\ CountInv' /\ InboxBounds'
  BY StepTypesStep, PlaceTypesStep, HandsStep, PlaceStep, CountStep, InboxStep
<1>2. AccepterInv' /\ SessionInv'
  BY AccepterInvStep, SessionInvStep
<1>3. Pushed' \subseteq Conns
  BY <1>1, ElementsOf DEF PlaceTypes, Pushed
<1>4. Cardinality(Pushed') \in 0 .. Cardinality(Conns) /\ Cardinality(Conns) \in Nat
  BY <1>3, MuxAssumption, FS_Subset, FS_CardinalityType
<1>5. CountTypes'
  <2>1. count' \in Nat /\ (Cardinality(Pushed') = count' + 1 \/ Cardinality(Pushed') = count')
    BY <1>1 DEF CountInv, InboxBounds
  <2>2. count' \in 0 .. Cardinality(Conns)
    BY <1>4, <2>1
  <2> QED BY <1>1, <2>2 DEF InboxBounds, CountTypes
<1>6. TypeOK'
  BY <1>1, <1>5 DEF TypeOK, StepTypes, PlaceTypes, CountTypes
<1> QED BY <1>1, <1>2, <1>6 DEF MuxInv, InboxBounds, SessionInv, StopInv
-----------------------------------------------------------------------------
(* No connection that was accepted is lost or in two places, until its     *)
(* session is closed: see PlaceInv.                                        *)
THEOREM SessionsKept == Spec => []NoSessionLost
<1>1. MuxInv => NoSessionLost
  <2> SUFFICES ASSUME MuxInv PROVE NoSessionLost
    OBVIOUS
  <2> DEFINE hand == IF accepted = Nobody THEN <<>> ELSE <<accepted>>
             waiting == hand \o pending \o batch
  <2>1. TypeOK /\ PlaceInv
    BY DEF MuxInv
  <2>2. hand \in Seq(Conns) /\ pending \in Seq(Conns) /\ batch \in Seq(Conns)
    BY <2>1 DEF TypeOK
  <2>3. ToSet(hand) = {c \in Conns : c = accepted} /\ IsInjective(hand)
    <3>1. CASE accepted = Nobody
      BY <3>1, NoElements, MuxAssumption
    <3>2. CASE accepted # Nobody
      <4>1. accepted \in Conns /\ hand = <<accepted>>
        BY <2>1, <3>2 DEF TypeOK
      <4>2. DOMAIN <<accepted>> = {1} /\ <<accepted>>[1] = accepted
        OBVIOUS
      <4> QED BY <4>1, <4>2 DEF ToSet, IsInjective
    <3> QED BY <3>1, <3>2
  <2> HIDE DEF hand
  <2>4. /\ hand \o pending \in Seq(Conns)
        /\ ToSet(hand \o pending) = ToSet(hand) \cup ToSet(pending)
        /\ IsInjective(hand \o pending)
    BY <2>1, <2>2, <2>3, ConcatElements, ConcatProperties DEF PlaceInv
  <2>5. ToSet(waiting) = Waiting /\ IsInjective(waiting)
    <3>1. (ToSet(hand) \cup ToSet(pending)) \cap ToSet(batch) = {}
      BY <2>1, <2>3 DEF PlaceInv
    <3>2. ToSet(waiting) = ToSet(hand) \cup ToSet(pending) \cup ToSet(batch)
      <4> DEFINE q == hand \o pending
      <4>1. q \in Seq(Conns) /\ ToSet(q) = ToSet(hand) \cup ToSet(pending)
        BY <2>4
      <4> HIDE DEF q
      <4>2. ToSet(q \o batch) = ToSet(q) \cup ToSet(batch)
        BY <2>2, <4>1, ConcatElements
      <4> QED BY <4>1, <4>2 DEF q
    <3>3. IsInjective(waiting)
      BY <2>1, <2>2, <2>4, <3>1, ConcatElements DEF PlaceInv
    <3> QED BY <2>3, <3>2, <3>3 DEF Waiting
  <2> HIDE DEF waiting
  <2>6. NoSessionLost <=>
          /\ TypeOK
          /\ IsInjective(waiting)
          /\ \A c \in Conns :
                /\ c \in ToSet(waiting) <=> conn[c] = "open" /\ endpoint[c] = "none"
                /\ endpoint[c] = "held" => conn[c] = "open"
                /\ endpoint[c] \in {"closed", "gone"} => conn[c] = "closed"
    BY DEF NoSessionLost, waiting, hand
  <2> QED BY <2>1, <2>5, <2>6 DEF PlaceInv
<1> QED BY <1>1, MuxInit, MuxStep, PTL DEF Spec

(* connected_clients_, which is_ready compares with expected_clients, is   *)
(* behind the sessions by at most the one that was just pushed.            *)
THEOREM ReadyCountsSessions == Spec => []ReadyMeansAccepted
<1>1. MuxInv => ReadyMeansAccepted
  <2> SUFFICES ASSUME MuxInv PROVE ReadyMeansAccepted
    OBVIOUS
  <2>1. count \in Nat /\ CountInv
    BY MuxAssumption, FS_CardinalityType DEF MuxInv, TypeOK
  <2>2. Cardinality(Pushed) >= count
    BY <2>1 DEF CountInv
  <2> QED BY <2>1, <2>2, MuxAssumption DEF ReadyMeansAccepted, CountInv
<1> QED BY <1>1, MuxInit, MuxStep, PTL DEF Spec

(* After a stop or close has returned, of the multiplexer or of a session, *)
(* the thread it ends has ended.                                           *)
THEOREM StoppedStaysStopped == Spec => []StopsAreFinal
<1>1. MuxInv => StopsAreFinal
  BY DEF MuxInv, StopInv, AccepterInv, ReceiverInv, StopsAreFinal, AccepterJoined,
         QuietWhenStopped
<1> QED BY <1>1, MuxInit, MuxStep, PTL DEF Spec
-----------------------------------------------------------------------------
(* Why a stop of a session comes to its end.                               *)

(* When the owner joins a receive thread, the thread's descriptor is shut  *)
(* down or closed.                                                         *)
ReadEnds == owner.step = "join" => shut[target] \/ conn[target] = "closed"

(* When the owner joins the accept thread, nobody listens any more, so     *)
(* that accept waits for no client.                                        *)
AcceptEnds == owner.step = "muxJoin" => ~listening

JoinInterrupts == ReadEnds /\ AcceptEnds

(* Nobody gives a session in the owner's hands a new connection.           *)
LEMMA ReadEndsStep == MuxInv /\ ReadEnds /\ [Next]_vars => ReadEnds'
<1> SUFFICES ASSUME MuxInv, ReadEnds, [Next]_vars, owner'.step = "join"
             PROVE  shut'[target'] \/ conn'[target'] = "closed"
  BY DEF ReadEnds
<1>0. StepTypes /\ PlaceTypes /\ HandsInv /\ PlaceInv
  BY TypesTogether DEF MuxInv
<1>1. owner.step \in {"shutdown", "join"} => target \in Conns /\ conn[target] \in {"open", "closed"}
  BY <1>0, MuxAssumption DEF HandsInv, PlaceInv, SessionSteps, StepTypes
<1>2. CASE StopShutdown
  <2>1. owner.step = "shutdown" /\ UNCHANGED <<target, conn>>
        /\ shut' = [shut EXCEPT ![target] = conn[target] = "open"]
    BY <1>2 DEF StopShutdown, SessionCall, Interrupted
  <2> QED BY <1>0, <1>1, <2>1 DEF PlaceTypes
<1>3. CASE ~StopShutdown
  <2>1. owner = owner' /\ UNCHANGED <<target, shut>>
    BY <1>3
       DEF Next, Open, Start, MuxStopOrClose, MuxCall, TakeEndpoints, Restart, Call, SessionCall,
           OwnerStep, MuxFlag, MuxListen, MuxJoin, MuxClose, MuxAfterStop, OpenEndpoint,
           GiveUpEndpoint, AfterOpen, StopFlag, StopJoin, AfterStop, CloseSession, Idle, At,
           AccepterStep, AcceptLoop, Accept, Push, Count, AcceptFails, AcceptErrors, AcceptInVain,
           AccepterGoes,
           ReceiverStep, ReceiveLoop, ReadPacket, ReadFails, CallbackReturns, ReceiverEnds, Goto,
           ClientConnects, ClientSends, ClientCloses, ClientUnchanged,
           vars, ownerVars, muxVars, clientVars, sessionVars
  <2>2. \A c \in Conns : conn[c] \in {"open", "closed"} => conn'[c] = conn[c]
    <3>1. owner.step = "join" /\ conn \in [Conns -> {"none", "backlog", "open", "closed"}]
      BY <1>0, <2>1 DEF PlaceTypes
    <3>2. CASE AccepterStep \/ AcceptFails \/ AcceptErrors
      BY <3>1, <3>2
         DEF AccepterStep, AcceptLoop, Accept, Push, Count, AcceptFails, AcceptErrors, AcceptInVain,
           AccepterGoes
    <3>3. CASE UNCHANGED conn
      BY <3>3
    <3>4. ASSUME NEW c \in Conns, ReceiverStep(c) \/ ClientConnects(c) \/ ClientSends(c)
                                     \/ ClientCloses(c)
          PROVE  \A d \in Conns : conn[d] \in {"open", "closed"} => conn'[d] = conn[d]
      BY <3>1, <3>4
         DEF ReceiverStep, ReceiveLoop, ReadPacket, ReadFails, CallbackReturns, ReceiverEnds,
             Goto, ClientConnects, ClientSends, ClientCloses, ClientUnchanged
    <3>5. CASE OwnerStep
      <4>1. StopJoin
        BY <1>3, <3>1, <3>5
           DEF OwnerStep, MuxFlag, MuxListen, MuxJoin, MuxClose, OpenEndpoint, GiveUpEndpoint,
               StopFlag, CloseSession
      <4> QED BY <4>1 DEF StopJoin, SessionCall
    <3>6. owner # Idle
      BY <3>1 DEF Idle, At
    <3>7. UNCHANGED vars => UNCHANGED conn
      BY DEF vars
    <3> QED BY <3>2, <3>3, <3>4, <3>5, <3>6, <3>7
            DEF Next, Open, Start, MuxStopOrClose, TakeEndpoints, Restart, Call
  <2> QED BY <1>1, <2>1, <2>2 DEF ReadEnds
<1> QED BY <1>2, <1>3

(* Only open makes the socket listen, and never while a stop is on.        *)
LEMMA AcceptEndsStep == MuxInv /\ AcceptEnds /\ [Next]_vars => AcceptEnds'
<1> SUFFICES ASSUME AcceptEnds, [Next]_vars, owner'.step = "muxJoin"
             PROVE  ~listening'
  BY DEF AcceptEnds
<1>1. CASE MuxListen
  BY <1>1 DEF MuxListen, CloseListener
<1>2. CASE ~MuxListen
  <2>1. owner = owner'
    BY <1>2
       DEF Next, Open, Start, MuxStopOrClose, MuxCall, TakeEndpoints, Restart, Call, SessionCall,
           OwnerStep, MuxFlag, MuxListen, MuxJoin, MuxClose, MuxAfterStop, OpenEndpoint,
           GiveUpEndpoint, AfterOpen, StopFlag, StopShutdown, StopJoin, AfterStop, CloseSession,
           Idle, At, AccepterStep, AcceptLoop, Accept, Push, Count, AcceptFails, AcceptErrors,
           AcceptInVain, AccepterGoes, ReceiverStep, ReceiveLoop, ReadPacket, ReadFails,
           CallbackReturns, ReceiverEnds, Goto, ClientConnects, ClientSends, ClientCloses,
           ClientUnchanged, vars, ownerVars, muxVars, clientVars, sessionVars
  <2>2. owner.step = "muxJoin" /\ owner # Idle
    BY <2>1 DEF Idle, At
  <2>3. UNCHANGED listening
    BY <1>2, <2>1, <2>2
       DEF Next, Open, Start, MuxStopOrClose, MuxCall, TakeEndpoints, Restart, Call, SessionCall,
           OwnerStep, MuxFlag, MuxListen, MuxJoin, MuxClose, OpenEndpoint,
           GiveUpEndpoint, StopFlag, StopShutdown, StopJoin, CloseSession,
           AccepterStep, AcceptLoop, Accept, Push, Count, AcceptFails, AcceptErrors,
           AcceptInVain, AccepterGoes, ReceiverStep, ReceiveLoop, ReadPacket, ReadFails,
           CallbackReturns, ReceiverEnds, Goto, ClientConnects, ClientSends, ClientCloses,
           ClientUnchanged, vars, ownerVars, muxVars, clientVars, sessionVars
  <2> QED BY <2>2, <2>3 DEF AcceptEnds
<1> QED BY <1>1, <1>2

(* A stop of a session whose connection is silent leaves no receive thread *)
(* in a read that waits for the client, and a stop of the multiplexer no   *)
(* accept thread in a wait for one: of CallsReturn, what does not depend   *)
(* on scheduling.                                                          *)
THEOREM StopsInterrupt == Spec => []JoinInterrupts
<1>1. Init => ReadEnds /\ AcceptEnds
  BY DEF Init, ReadEnds, AcceptEnds, Idle, At
<1>2. ReadEnds /\ AcceptEnds <=> JoinInterrupts
  BY DEF JoinInterrupts
<1> QED BY <1>1, <1>2, MuxInit, MuxStep, ReadEndsStep, AcceptEndsStep, PTL DEF Spec
===============================================================================
