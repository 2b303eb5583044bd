----------------------------- MODULE WsCommProofs -----------------------------
(***************************************************************************)
(* WsComm for any sessions and any bound: no session is forgotten while it *)
(* may read or write, messages leave in order, and callbacks come between  *)
(* start and the return of stop, one at a time.                            *)
(***************************************************************************)
EXTENDS WsComm, FiniteSetTheorems, SequenceTheorems, TLAPS

(* TypeOK in three parts, by what they are about; and the messages.        *)
LifeTypes ==
    /\ role \in {"server", "client"}
    /\ acceptor \in BOOLEAN
    /\ running \in BOOLEAN
    /\ starts \in 0 .. MaxEvents
    /\ owner \in {"idle", "launch", "acceptor", "swap", "post", "io", "join"}
    /\ guard \in BOOLEAN
    /\ stopped \in BOOLEAN
    /\ thread \in {"none", "run", "callback", "erase", "done"}
    /\ busy \in Sessions \cup {0}
    /\ accepts \in BOOLEAN
    /\ aborted \in BOOLEAN
    /\ resolves \in 0 .. MaxEvents
    /\ outCount \in 0 .. MaxEvents
    /\ failed \in 0 .. MaxEvents

SessionTypes ==
    /\ toClose \in SUBSET Sessions
    /\ sessions \in SUBSET Sessions
    /\ conn \in [Sessions -> {"unused", "backlog", "taken", "up", "down"}]
    /\ ops \in [Sessions -> SUBSET {"connect", "handshake", "read", "write", "close"}]
    /\ handshaken \in [Sessions -> BOOLEAN]
    /\ closing \in [Sessions -> BOOLEAN]

MessageTypes ==
    /\ posted \in [Sessions -> Seq({Close} \cup 1 .. MaxEvents)]
    /\ queue \in [Sessions -> Seq(1 .. MaxEvents)]
    /\ written \in [Sessions -> 0 .. MaxEvents]
    /\ writing \in [Sessions -> BOOLEAN]

(* Where the owner is, and what runs meanwhile: the thread lives from      *)
(* start to the join, and only raw_stop has sessions to close in its       *)
(* hands.                                                                  *)
Stopping == owner \in {"acceptor", "swap", "post", "io", "join"}

LifeInv ==
    /\ Stopping => ~running
    /\ owner = "launch" => running
    /\ thread # "none" => Started
    /\ thread \in {"callback", "erase"} => busy \in Sessions
    /\ toClose # {} => owner = "post"

(* A client resolves once for each start, so on_resolve finds sessions_    *)
(* empty unless there was a start before.                                  *)
RoleInv ==
    /\ role = "server" => resolves = 0
    /\ resolves + (IF owner = "launch" THEN 1 ELSE 0) <= starts
    /\ role = "client" /\ starts < 2 /\ (resolves > 0 \/ owner = "launch" \/ starts = 0) =>
          \A s \in Sessions : conn[s] = "unused"
    /\ role = "client" => \A s \in Sessions : conn[s] \in {"unused", "up", "down"}

(* A connection nobody has a session for yet has no operation, no message  *)
(* and no close.                                                           *)
FreshInv ==
    \A s \in Sessions : conn[s] \in {"unused", "backlog", "taken"} =>
        /\ ops[s] = {} /\ posted[s] = <<>> /\ queue[s] = <<>> /\ written[s] = 0
        /\ ~writing[s] /\ ~closing[s]
        /\ s \notin sessions \cup toClose
        /\ thread = "callback" => busy # s

(* SessionsAccounted has to count what was posted, and the callback that   *)
(* will begin the next read, to be inductive.                              *)
Active(s) == ops[s] # {} \/ posted[s] # <<>> \/ (thread = "callback" /\ busy = s)

AccountInv ==
    (role = "server" \/ starts < 2) =>
        \A s \in Sessions : Active(s) /\ ~closing[s] =>
            s \in sessions \cup toClose \/ Contains(posted[s], Close)

(* A session that is about to be erased has its close.                     *)
EraseInv == thread = "erase" => closing[busy] \/ Contains(posted[busy], Close)

(* A write is under way for the front of the queue.                        *)
WriteInv ==
    \A s \in Sessions :
        /\ writing[s] <=> "write" \in ops[s]
        /\ writing[s] => queue[s] # <<>>
        /\ queue[s] # <<>> => writing[s] \/ closing[s] \/ Contains(posted[s], Close)

(* WritesInOrder says nothing of the next message: it follows the last of  *)
(* a session in sessions_, since raw_send posts each message to all.       *)
Latest(q, n) == \A i \in DOMAIN q :
    q[i] # Close /\ (\A j \in i + 1 .. Len(q) : q[j] = Close) => q[i] = n

OrderFor(s) == /\ InOrder(Outgoing(s))
               /\ s \in sessions => Latest(Outgoing(s), outCount)

OrderInv == \A s \in Sessions : OrderFor(s)

WsInv == /\ TypeOK /\ LifeInv /\ RoleInv /\ FreshInv
         /\ AccountInv /\ EraseInv /\ WriteInv /\ OrderInv
-----------------------------------------------------------------------------
(* The parts are the whole.                                                *)
LEMMA TypesTogether ==
  TypeOK <=> LifeTypes /\ SessionTypes /\ MessageTypes /\ delivered \in Seq(Messages)
BY DEF TypeOK, LifeTypes, SessionTypes, MessageTypes

(* What the bound leaves room for, and no counter passes it.               *)
LEMMA RoomForMore ==
  ASSUME TypeOK, MoreEvents
  PROVE  /\ MaxEvents \in Nat /\ Len(delivered) \in Nat
         /\ starts + 1 \in 1 .. MaxEvents /\ outCount + 1 \in 1 .. MaxEvents
         /\ failed + 1 \in 1 .. MaxEvents /\ Len(delivered) + 1 \in 1 .. MaxEvents
<1> DEFINE used == {s \in Sessions : conn[s] # "unused"}
<1>1. Cardinality(used) \in Nat
  BY WsAssumption, FS_Subset, FS_CardinalityType
<1>2. Len(delivered) \in Nat
  BY LenProperties, TypesTogether
<1>3. /\ starts + outCount + failed + Len(delivered) + Cardinality(used) < MaxEvents
      /\ starts \in Nat /\ outCount \in Nat /\ failed \in Nat /\ MaxEvents \in Nat
  BY WsAssumption, TypesTogether DEF MoreEvents, LifeTypes
<1> HIDE DEF used
<1> QED
  BY <1>1, <1>2, <1>3

(* What is posted once close() was called has the close, once.             *)
LEMMA CloseIsPosted ==
  ASSUME MessageTypes, NEW s \in Sessions
  PROVE  /\ WithClose(s) \in Seq({Close} \cup 1 .. MaxEvents)
         /\ WithClose(s) = posted[s] \/ WithClose(s) = Append(posted[s], Close)
         /\ ~closing[s] => Contains(WithClose(s), Close)
         /\ Contains(posted[s], Close) => Contains(WithClose(s), Close)
<1>1. posted[s] \in Seq({Close} \cup 1 .. MaxEvents)
  BY DEF MessageTypes
<1>2. /\ Append(posted[s], Close) \in Seq({Close} \cup 1 .. MaxEvents)
      /\ Len(posted[s]) \in Nat
      /\ Len(Append(posted[s], Close)) = Len(posted[s]) + 1
      /\ Append(posted[s], Close)[Len(posted[s]) + 1] = Close
  BY <1>1, AppendProperties, LenProperties
<1>3. Contains(Append(posted[s], Close), Close)
  BY <1>2 DEF Contains
<1> QED
  BY <1>1, <1>2, <1>3 DEF WithClose

(* The message a read delivers: the number is in its bound, since each was *)
(* delivered before.                                                       *)
LEMMA NextMessage ==
  ASSUME TypeOK, NEW s \in Sessions, ReadOk(s)
  PROVE  [session |-> s, num |-> NumReceived(s) + 1] \in Messages
<1> DEFINE mine == {i \in DOMAIN delivered : delivered[i].session = s}
<1>1. Len(delivered) + 1 \in 1 .. MaxEvents /\ Len(delivered) \in Nat /\ MaxEvents \in Nat
  BY RoomForMore DEF ReadOk
<1>2. DOMAIN delivered = 1 .. Len(delivered)
  BY LenProperties, TypesTogether
<1>3. IsFiniteSet(1 .. Len(delivered)) /\ Cardinality(1 .. Len(delivered)) = Len(delivered)
  <2> DEFINE n == Len(delivered)
  <2>1. n \in Nat
    BY <1>1
  <2> HIDE DEF n
  <2>2. 1 \in Int /\ n \in Int
    BY <2>1
  <2>3. IsFiniteSet(1 .. n) /\ Cardinality(1 .. n) = IF 1 > n THEN 0 ELSE n - 1 + 1
    BY <2>2, FS_Interval
  <2>4. Cardinality(1 .. n) = n
    BY <2>1, <2>3
  <2> QED
    BY <2>3, <2>4 DEF n
<1>4. mine \subseteq 1 .. Len(delivered)
  BY <1>2
<1> HIDE DEF mine
<1>5. IsFiniteSet(mine) /\ Cardinality(mine) <= Len(delivered)
  BY <1>3, <1>4, FS_Subset
<1>6. Cardinality(mine) \in Nat
  BY <1>5, FS_CardinalityType
<1>7. Cardinality(mine) + 1 \in 1 .. MaxEvents
  BY <1>1, <1>5, <1>6
<1>8. NumReceived(s) = Cardinality(mine)
  BY DEF NumReceived, mine
<1>9. [session |-> s, num |-> NumReceived(s) + 1] \in Messages
  BY <1>7, <1>8 DEF Messages
<1> QED
  BY <1>9
-----------------------------------------------------------------------------
(* Each step keeps the types.                                              *)
LEMMA LifeTypesStep == WsInv /\ [Next]_vars => LifeTypes'
<1> SUFFICES ASSUME WsInv, [Next]_vars PROVE LifeTypes'
  OBVIOUS
<1> USE DEF vars, lifeVars, ioVars, acceptVars, writeVars, sessionVars,
           OwnerOnly, Handler, SessionHandler, Runs
<1>a. LifeTypes /\ SessionTypes /\ MessageTypes /\ TypeOK
  BY TypesTogether DEF WsInv
<1>1. CASE Open
  BY <1>a, <1>1 DEF Open, LifeTypes
<1>2. CASE Start
  <2>1. starts + 1 \in 1 .. MaxEvents /\ outCount + 1 \in 1 .. MaxEvents
    BY <1>a, <1>2, RoomForMore DEF Start
  <2> QED
    BY <1>a, <1>2, <2>1 DEF Start, LifeTypes
<1>3. CASE Stop
  BY <1>a, <1>3 DEF Stop, LifeTypes
<1>4. CASE Launch
  <2>1. resolves' \in 0 .. MaxEvents
    BY <1>a, <1>4, WsAssumption DEF Launch, DoAccept, LifeTypes, WsInv, RoleInv
  <2>2. accepts' \in BOOLEAN
    BY <1>a, <1>4 DEF Launch, DoAccept, LifeTypes
  <2> QED
    BY <1>a, <1>4, <2>1, <2>2 DEF Launch, DoAccept, LifeTypes
<1>5. CASE StopAcceptor
  BY <1>a, <1>5 DEF StopAcceptor, Backlog, LifeTypes
<1>6. CASE StopSwap
  BY <1>a, <1>6 DEF StopSwap, LifeTypes
<1>7. CASE StopPosts
  BY <1>a, <1>7 DEF StopPosts, ClosesPosted, LifeTypes
<1>8. CASE StopIo
  BY <1>a, <1>8 DEF StopIo, LifeTypes
<1>9. CASE StopJoin
  BY <1>a, <1>9 DEF StopJoin, MayJoin, LifeTypes
<1>10. CASE RunReturns
  BY <1>a, <1>10 DEF RunReturns, LifeTypes
<1>11. CASE CallbackReturns
  BY <1>a, <1>11 DEF CallbackReturns, Begins, LifeTypes
<1>12. CASE AcceptFails
  <2>1. failed' \in 0 .. MaxEvents
    BY <1>a, <1>12, RoomForMore DEF AcceptFails, DoAccept, Backlog, LifeTypes
  <2> QED
    BY <1>a, <1>12, <2>1 DEF AcceptFails, DoAccept, Backlog, LifeTypes
<1>13. CASE ResolveFails
  <2>1. resolves' \in 0 .. MaxEvents
    BY <1>a, <1>13, WsAssumption DEF ResolveFails, LifeTypes
  <2> QED
    BY <1>a, <1>13, <2>1 DEF ResolveFails, LifeTypes
<1>14. CASE Send
  <2>1. starts + 1 \in 1 .. MaxEvents /\ outCount + 1 \in 1 .. MaxEvents
    BY <1>a, <1>14, RoomForMore DEF Send
  <2> QED
    BY <1>a, <1>14, <2>1 DEF Send, LifeTypes
<1>15. ASSUME NEW s \in Sessions, AcceptOk(s) PROVE LifeTypes'
  <2>2. accepts' \in BOOLEAN
    BY <1>a, <1>15 DEF AcceptOk, AcceptNext, DoAccept, Begins, LifeTypes
  <2> QED
    BY <1>a, <1>15, <2>2 DEF AcceptOk, AcceptNext, DoAccept, Begins, LifeTypes
<1>16. ASSUME NEW s \in Sessions, ResolveOk(s) PROVE LifeTypes'
  <2>1. resolves' \in 0 .. MaxEvents
    BY <1>a, <1>16, WsAssumption DEF ResolveOk, NextUnused, Begins, LifeTypes
  <2> QED
    BY <1>a, <1>16, <2>1 DEF ResolveOk, NextUnused, Begins, LifeTypes
<1>17. ASSUME NEW s \in Sessions, OpFails(s) PROVE LifeTypes'
  <2>1. failed' \in 0 .. MaxEvents
    BY <1>a, <1>17, RoomForMore
       DEF OpFails, Completes, RemoveSession, FailHandler, LifeTypes
  <2> QED
    BY <1>a, <1>17, <2>1
       DEF OpFails, Completes, RemoveSession, FailHandler, LifeTypes
<1>18. ASSUME NEW s \in Sessions, ReadOk(s) PROVE LifeTypes'
  BY <1>a, <1>18 DEF ReadOk, MaySucceed, Completes, LifeTypes
<1>19. ASSUME NEW s \in Sessions, WriteFails(s) PROVE LifeTypes'
  <2>1. failed' \in 0 .. MaxEvents
    BY <1>a, <1>19, RoomForMore
       DEF WriteFails, Completes, RemoveSession, FailHandler, LifeTypes
  <2> QED
    BY <1>a, <1>19, <2>1
       DEF WriteFails, Completes, RemoveSession, FailHandler, LifeTypes
<1>20. CASE EraseSession
  BY <1>a, <1>20 DEF EraseSession, LifeTypes
<1>21. CASE UNCHANGED <<role, acceptor, lifeVars, ioVars, acceptVars, outCount, failed>>
  BY <1>a, <1>21 DEF LifeTypes
<1>22. \/ \E s \in Sessions :
             \/ AcceptOk(s) \/ ResolveOk(s) \/ OpFails(s) \/ ReadOk(s)
             \/ WriteFails(s)
       \/ Open \/ Start \/ Stop \/ Launch \/ StopAcceptor \/ StopSwap
       \/ StopPosts \/ StopIo \/ StopJoin \/ RunReturns \/ CallbackReturns
       \/ EraseSession \/ AcceptFails
       \/ ResolveFails \/ Send
       \/ UNCHANGED <<role, acceptor, lifeVars, ioVars, acceptVars, outCount, failed>>
  BY DEF Next, OwnerStep, HandlerOf, ConnectOk, MaySucceed, CompletesAndBegins, HandshakeOk,
         RunClose, Posted, Begins, CloseCompletes, Completes, RunWrite, ProcessQueue,
         WriteOk, NextWrite, PeerConnects, NextUnused, PeerOnly
<1> QED
  BY <1>1, <1>2, <1>3, <1>4, <1>5, <1>6, <1>7, <1>8, <1>9, <1>10, <1>11, <1>12, <1>13,
     <1>14, <1>15, <1>16, <1>17, <1>18, <1>19, <1>20, <1>21, <1>22

(* Likewise, of the sessions.                                              *)
LEMMA SessionTypesStep == WsInv /\ [Next]_vars => SessionTypes'
<1> SUFFICES ASSUME WsInv, [Next]_vars PROVE SessionTypes'
  OBVIOUS
<1> USE DEF vars, lifeVars, ioVars, acceptVars, writeVars, sessionVars,
           OwnerOnly, Handler, SessionHandler, Runs
<1>a. LifeTypes /\ SessionTypes /\ MessageTypes /\ TypeOK
  BY TypesTogether DEF WsInv
<1>1. CASE StopAcceptor
  BY <1>a, <1>1 DEF StopAcceptor, Backlog, SessionTypes
<1>2. CASE StopSwap
  BY <1>a, <1>2 DEF StopSwap, SessionTypes
<1>3. CASE StopPosts
  BY <1>a, <1>3 DEF StopPosts, ClosesPosted, SessionTypes
<1>4. CASE CallbackReturns
  <2>1. busy \in Sessions
    BY <1>4 DEF CallbackReturns, WsInv, LifeInv
  <2> QED
    BY <1>a, <1>4, <2>1 DEF CallbackReturns, Begins, SessionTypes
<1>5. CASE AcceptFails
  BY <1>a, <1>5 DEF AcceptFails, DoAccept, Backlog, SessionTypes
<1>6. ASSUME NEW s \in Sessions, AcceptOk(s) PROVE SessionTypes'
  <2>1. ops' \in [Sessions -> SUBSET {"connect", "handshake", "read", "write", "close"}]
    BY <1>a, <1>6 DEF AcceptOk, AcceptNext, DoAccept, Begins, SessionTypes
  <2> QED
    BY <1>a, <1>6, <2>1 DEF AcceptOk, AcceptNext, DoAccept, Begins, SessionTypes
<1>7. ASSUME NEW s \in Sessions, ResolveOk(s) PROVE SessionTypes'
  <2>1. ops' \in [Sessions -> SUBSET {"connect", "handshake", "read", "write", "close"}]
    BY <1>a, <1>7 DEF ResolveOk, NextUnused, Begins, SessionTypes
  <2> QED
    BY <1>a, <1>7, <2>1 DEF ResolveOk, NextUnused, Begins, SessionTypes
<1>8. ASSUME NEW s \in Sessions, ConnectOk(s) PROVE SessionTypes'
  <2>1. ops' \in [Sessions -> SUBSET {"connect", "handshake", "read", "write", "close"}]
    BY <1>a, <1>8 DEF ConnectOk, MaySucceed, CompletesAndBegins, SessionTypes
  <2> QED
    BY <1>a, <1>8, <2>1 DEF ConnectOk, MaySucceed, CompletesAndBegins, SessionTypes
<1>9. ASSUME NEW s \in Sessions, HandshakeOk(s) PROVE SessionTypes'
  <2>1. ops' \in [Sessions -> SUBSET {"connect", "handshake", "read", "write", "close"}]
    BY <1>a, <1>9 DEF HandshakeOk, MaySucceed, CompletesAndBegins, SessionTypes
  <2> QED
    BY <1>a, <1>9, <2>1 DEF HandshakeOk, MaySucceed, CompletesAndBegins, SessionTypes
<1>10. ASSUME NEW s \in Sessions, OpFails(s) PROVE SessionTypes'
  <2>1. ops' \in [Sessions -> SUBSET {"connect", "handshake", "read", "write", "close"}]
    BY <1>a, <1>10
       DEF OpFails, Completes, RemoveSession, FailHandler, SessionTypes
  <2> QED
    BY <1>a, <1>10, <2>1
       DEF OpFails, Completes, RemoveSession, FailHandler, SessionTypes
<1>11. ASSUME NEW s \in Sessions, ReadOk(s) PROVE SessionTypes'
  <2>1. ops' \in [Sessions -> SUBSET {"connect", "handshake", "read", "write", "close"}]
    BY <1>a, <1>11 DEF ReadOk, MaySucceed, Completes, SessionTypes
  <2> QED
    BY <1>a, <1>11, <2>1 DEF ReadOk, MaySucceed, Completes, SessionTypes
<1>12. ASSUME NEW s \in Sessions, RunClose(s) PROVE SessionTypes'
  BY <1>a, <1>12 DEF RunClose, Posted, Begins, SessionTypes
<1>13. ASSUME NEW s \in Sessions, CloseCompletes(s) PROVE SessionTypes'
  <2>1. ops' \in [Sessions -> SUBSET {"connect", "handshake", "read", "write", "close"}]
    BY <1>a, <1>13 DEF CloseCompletes, Completes, SessionTypes
  <2> QED
    BY <1>a, <1>13, <2>1 DEF CloseCompletes, Completes, SessionTypes
<1>14. ASSUME NEW s \in Sessions, RunWrite(s) PROVE SessionTypes'
  <2>1. ops' \in [Sessions -> SUBSET {"connect", "handshake", "read", "write", "close"}]
    BY <1>a, <1>14 DEF RunWrite, Posted, ProcessQueue, SessionTypes
  <2> QED
    BY <1>a, <1>14, <2>1 DEF RunWrite, Posted, ProcessQueue, SessionTypes
<1>15. ASSUME NEW s \in Sessions, WriteOk(s) PROVE SessionTypes'
  <2>1. ops' \in [Sessions -> SUBSET {"connect", "handshake", "read", "write", "close"}]
    BY <1>a, <1>15 DEF WriteOk, MaySucceed, NextWrite, ProcessQueue, SessionTypes
  <2> QED
    BY <1>a, <1>15, <2>1 DEF WriteOk, MaySucceed, NextWrite, ProcessQueue, SessionTypes
<1>16. ASSUME NEW s \in Sessions, WriteFails(s) PROVE SessionTypes'
  <2>1. ops' \in [Sessions -> SUBSET {"connect", "handshake", "read", "write", "close"}]
    BY <1>a, <1>16
       DEF WriteFails, Completes, RemoveSession, FailHandler, SessionTypes
  <2> QED
    BY <1>a, <1>16, <2>1
       DEF WriteFails, Completes, RemoveSession, FailHandler, SessionTypes
<1>17. ASSUME NEW s \in Sessions, PeerConnects(s) PROVE SessionTypes'
  BY <1>a, <1>17 DEF PeerConnects, NextUnused, PeerOnly, SessionTypes
<1>18. CASE EraseSession
  BY <1>a, <1>18 DEF EraseSession, SessionTypes
<1>19. CASE UNCHANGED <<toClose, sessions, conn, ops, handshaken, closing>>
  BY <1>a, <1>19 DEF SessionTypes
<1>20. \/ \E s \in Sessions :
             \/ AcceptOk(s) \/ ResolveOk(s) \/ ConnectOk(s) \/ HandshakeOk(s)
             \/ OpFails(s) \/ ReadOk(s) \/ RunClose(s) \/ CloseCompletes(s)
             \/ RunWrite(s) \/ WriteOk(s) \/ WriteFails(s) \/ PeerConnects(s)
       \/ StopAcceptor \/ StopSwap \/ StopPosts \/ CallbackReturns
       \/ EraseSession \/ AcceptFails
       \/ UNCHANGED <<toClose, sessions, conn, ops, handshaken, closing>>
  BY DEF Next, OwnerStep, HandlerOf, Open, Start, Stop, Launch, DoAccept, StopIo,
         StopJoin, MayJoin, RunReturns, ResolveFails, Send
<1> QED
  BY <1>1, <1>2, <1>3, <1>4, <1>5, <1>6, <1>7, <1>8, <1>9, <1>10, <1>11, <1>12, <1>13,
     <1>14, <1>15, <1>16, <1>17, <1>18, <1>19, <1>20

(* Of the messages on their way out.                                       *)
LEMMA MessageTypesStep == WsInv /\ [Next]_vars => MessageTypes'
<1> SUFFICES ASSUME WsInv, [Next]_vars PROVE MessageTypes'
  OBVIOUS
<1> USE DEF vars, lifeVars, ioVars, acceptVars, writeVars, sessionVars,
           OwnerOnly, Handler, SessionHandler, Runs
<1>a. LifeTypes /\ SessionTypes /\ MessageTypes /\ TypeOK
  BY TypesTogether DEF WsInv
<1>1. CASE StopPosts
  <2>1. posted' \in [Sessions -> Seq({Close} \cup 1 .. MaxEvents)]
    BY <1>a, <1>1, CloseIsPosted DEF StopPosts, ClosesPosted, MessageTypes
  <2> QED
    BY <1>a, <1>1, <2>1 DEF StopPosts, ClosesPosted, MessageTypes
<1>2. CASE Send
  <2>1. outCount + 1 \in 1 .. MaxEvents
    BY <1>a, <1>2, RoomForMore DEF Send
  <2>2. \A s \in Sessions :
           Append(posted[s], outCount + 1) \in Seq({Close} \cup 1 .. MaxEvents)
    BY <1>a, <2>1, AppendProperties DEF MessageTypes
  <2> QED
    BY <1>a, <1>2, <2>2 DEF Send, MessageTypes
<1>3. ASSUME NEW s \in Sessions, OpFails(s) PROVE MessageTypes'
  <2>1. posted' \in [Sessions -> Seq({Close} \cup 1 .. MaxEvents)]
    BY <1>a, <1>3, CloseIsPosted
       DEF OpFails, Completes, RemoveSession, FailHandler, MessageTypes
  <2> QED
    BY <1>a, <1>3, <2>1
       DEF OpFails, Completes, RemoveSession, FailHandler, MessageTypes
<1>4. ASSUME NEW s \in Sessions, RunClose(s) PROVE MessageTypes'
  <2>1. posted' \in [Sessions -> Seq({Close} \cup 1 .. MaxEvents)]
    <3>1. Tail(posted[s]) \in Seq({Close} \cup 1 .. MaxEvents)
      BY <1>a, <1>4, HeadTailProperties DEF RunClose, Posted, Begins, MessageTypes
    <3> QED
      BY <1>a, <1>4, <3>1 DEF RunClose, Posted, Begins, MessageTypes
  <2> QED
    BY <1>a, <1>4, <2>1, WsAssumption DEF RunClose, Posted, Begins, MessageTypes
<1>5. ASSUME NEW s \in Sessions, RunWrite(s) PROVE MessageTypes'
  <2>1. posted' \in [Sessions -> Seq({Close} \cup 1 .. MaxEvents)]
    <3>1. Tail(posted[s]) \in Seq({Close} \cup 1 .. MaxEvents)
      BY <1>a, <1>5, HeadTailProperties DEF RunWrite, Posted, ProcessQueue, MessageTypes
    <3> QED
      BY <1>a, <1>5, <3>1 DEF RunWrite, Posted, ProcessQueue, MessageTypes
  <2>2. PICK m \in 1 .. MaxEvents :
           \/ /\ queue' = [queue EXCEPT ![s] = <<m>>]
              /\ writing' = [writing EXCEPT ![s] = <<m>> # <<>>]
           \/ queue' = [queue EXCEPT ![s] = Append(queue[s], m)] /\ writing' = writing
    BY <1>a, <1>5 DEF RunWrite, ProcessQueue, MessageTypes
  <2>3. <<m>> \in Seq(1 .. MaxEvents) /\ Append(queue[s], m) \in Seq(1 .. MaxEvents)
    BY <1>a, AppendProperties DEF MessageTypes
  <2>4. queue' \in [Sessions -> Seq(1 .. MaxEvents)] /\ writing' \in [Sessions -> BOOLEAN]
    BY <1>a, <2>2, <2>3 DEF MessageTypes
  <2> QED
    BY <1>a, <1>5, <2>1, <2>4 DEF RunWrite, Posted, ProcessQueue, MessageTypes
<1>6. ASSUME NEW s \in Sessions, WriteOk(s) PROVE MessageTypes'
  <2>1. queue[s] # <<>> /\ queue[s] \in Seq(1 .. MaxEvents)
    BY <1>a, <1>6 DEF WriteOk, WsInv, WriteInv, MessageTypes
  <2>2. Head(queue[s]) \in 1 .. MaxEvents /\ Tail(queue[s]) \in Seq(1 .. MaxEvents)
    BY <2>1, HeadTailProperties
  <2>3. written' \in [Sessions -> 0 .. MaxEvents]
    BY <1>a, <1>6, <2>2 DEF WriteOk, MessageTypes
  <2>4. queue' \in [Sessions -> Seq(1 .. MaxEvents)] /\ writing' \in [Sessions -> BOOLEAN]
    BY <1>a, <1>6, <2>2 DEF WriteOk, MaySucceed, NextWrite, ProcessQueue, MessageTypes
  <2> QED
    BY <1>a, <1>6, <2>3, <2>4 DEF WriteOk, MaySucceed, NextWrite, ProcessQueue, MessageTypes
<1>7. ASSUME NEW s \in Sessions, WriteFails(s) PROVE MessageTypes'
  <2>1. posted' \in [Sessions -> Seq({Close} \cup 1 .. MaxEvents)]
    BY <1>a, <1>7, CloseIsPosted
       DEF WriteFails, Completes, RemoveSession, FailHandler, MessageTypes
  <2> QED
    BY <1>a, <1>7, <2>1
       DEF WriteFails, Completes, RemoveSession, FailHandler, MessageTypes
<1>8. CASE UNCHANGED <<posted, writeVars>>
  BY <1>a, <1>8 DEF MessageTypes
<1>9. \/ \E s \in Sessions :
            \/ OpFails(s) \/ RunClose(s) \/ RunWrite(s) \/ WriteOk(s)
            \/ WriteFails(s)
      \/ StopPosts \/ Send
      \/ UNCHANGED <<posted, writeVars>>
  BY DEF Next, OwnerStep, HandlerOf, Open, Start, Stop, Launch, DoAccept, StopAcceptor,
         Backlog, StopSwap, StopIo, StopJoin, MayJoin, RunReturns, CallbackReturns,
         EraseSession, Begins, AcceptFails, ResolveFails, AcceptOk, AcceptNext, ResolveOk,
         NextUnused, ConnectOk, MaySucceed, CompletesAndBegins, HandshakeOk, ReadOk,
         Completes, CloseCompletes, PeerConnects, PeerOnly
<1> QED
  BY <1>1, <1>2, <1>3, <1>4, <1>5, <1>6, <1>7, <1>8, <1>9

(* And of those that came in.                                              *)
LEMMA DeliveredStep == WsInv /\ [Next]_vars => (delivered \in Seq(Messages))'
<1> SUFFICES ASSUME WsInv, [Next]_vars PROVE delivered' \in Seq(Messages)
  OBVIOUS
<1> USE DEF vars, lifeVars, ioVars, acceptVars, writeVars, sessionVars,
           OwnerOnly, Handler, SessionHandler, Runs
<1>a. TypeOK /\ delivered \in Seq(Messages)
  BY TypesTogether DEF WsInv
<1>1. ASSUME NEW s \in Sessions, ReadOk(s) PROVE delivered' \in Seq(Messages)
  <2>1. [session |-> s, num |-> NumReceived(s) + 1] \in Messages
    BY <1>a, <1>1, NextMessage
  <2> QED
    BY <1>a, <1>1, <2>1, AppendProperties DEF ReadOk
<1>2. ASSUME delivered' = delivered PROVE delivered' \in Seq(Messages)
  BY <1>a, <1>2
<1>3. (\E s \in Sessions : ReadOk(s)) \/ delivered' = delivered
  BY DEF Next, OwnerStep, HandlerOf, Open, Start, Stop, Launch, DoAccept, StopAcceptor,
         Backlog, StopSwap, StopPosts, ClosesPosted, StopIo, StopJoin, MayJoin,
         RunReturns, CallbackReturns, EraseSession, Begins, AcceptFails, ResolveFails, Send,
         AcceptOk, AcceptNext, ResolveOk, NextUnused, ConnectOk, MaySucceed,
         CompletesAndBegins, HandshakeOk, OpFails, Completes, RemoveSession,
         FailHandler, RunClose, Posted, CloseCompletes, RunWrite,
         ProcessQueue, WriteOk, NextWrite, WriteFails, PeerConnects, PeerOnly
<1> QED
  BY <1>1, <1>2, <1>3
-----------------------------------------------------------------------------
(* Each step keeps each part of the invariant.                             *)
LEMMA LifeStep == WsInv /\ [Next]_vars => LifeInv'
<1> SUFFICES ASSUME WsInv, [Next]_vars PROVE LifeInv'
  OBVIOUS
<1> USE DEF vars, lifeVars, ioVars, acceptVars, writeVars, sessionVars,
           OwnerOnly, Handler, SessionHandler, Runs
<1>a. LifeTypes /\ SessionTypes /\ MessageTypes /\ TypeOK
  BY TypesTogether DEF WsInv
<1>1. CASE Start
  BY <1>a, <1>1 DEF Start, WsInv, LifeInv, LifeTypes, Stopping, Started
<1>2. CASE Stop
  BY <1>a, <1>2 DEF Stop, WsInv, LifeInv, LifeTypes, Stopping, Started
<1>3. CASE Launch
  BY <1>a, <1>3 DEF Launch, DoAccept, WsInv, LifeInv, LifeTypes, Stopping, Started
<1>4. CASE StopAcceptor
  BY <1>a, <1>4 DEF StopAcceptor, Backlog, WsInv, LifeInv, LifeTypes, Stopping, Started
<1>5. CASE StopSwap
  BY <1>a, <1>5 DEF StopSwap, WsInv, LifeInv, LifeTypes, Stopping, Started
<1>6. CASE StopPosts
  BY <1>a, <1>6
     DEF StopPosts, ClosesPosted, WsInv, LifeInv, LifeTypes, Stopping, Started
<1>7. CASE StopIo
  BY <1>a, <1>7 DEF StopIo, WsInv, LifeInv, LifeTypes, Stopping, Started
<1>8. CASE StopJoin
  BY <1>a, <1>8 DEF StopJoin, MayJoin, WsInv, LifeInv, LifeTypes, Stopping, Started
<1>9. CASE RunReturns
  BY <1>a, <1>9 DEF RunReturns, WsInv, LifeInv, LifeTypes, Stopping, Started
<1>10. CASE CallbackReturns
  BY <1>a, <1>10
     DEF CallbackReturns, Begins, WsInv, LifeInv, LifeTypes, Stopping, Started
<1>11. ASSUME NEW s \in Sessions, ReadOk(s) PROVE LifeInv'
  BY <1>a, <1>11
     DEF ReadOk, MaySucceed, Completes, WsInv, LifeInv, LifeTypes, Stopping, Started
<1>12. CASE EraseSession
  BY <1>a, <1>12 DEF EraseSession, WsInv, LifeInv, LifeTypes, Stopping, Started
<1>13. ASSUME NEW s \in Sessions, OpFails(s) \/ WriteFails(s) PROVE LifeInv'
  <2>1. /\ thread = "run" /\ thread' = "erase" /\ busy' = s
        /\ UNCHANGED <<running, owner, toClose>>
    BY <1>13 DEF OpFails, WriteFails, RemoveSession, FailHandler
  <2> QED
    BY <1>a, <2>1 DEF WsInv, LifeInv, LifeTypes, Stopping, Started
<1>14. CASE UNCHANGED <<running, owner, thread, busy, toClose>>
  BY <1>a, <1>14 DEF WsInv, LifeInv, LifeTypes, Stopping, Started
<1>15. \/ \E s \in Sessions : ReadOk(s) \/ OpFails(s) \/ WriteFails(s)
       \/ Start \/ Stop \/ Launch \/ StopAcceptor \/ StopSwap \/ StopPosts
       \/ StopIo \/ StopJoin \/ RunReturns \/ CallbackReturns \/ EraseSession
       \/ UNCHANGED <<running, owner, thread, busy, toClose>>
  BY DEF Next, OwnerStep, HandlerOf, Open, AcceptFails, ResolveFails, Send, AcceptOk,
         ResolveOk, ConnectOk, HandshakeOk, RunClose,
         CloseCompletes, RunWrite, WriteOk, PeerConnects, PeerOnly
<1> QED
  BY <1>1, <1>2, <1>3, <1>4, <1>5, <1>6, <1>7, <1>8, <1>9, <1>10, <1>11, <1>12, <1>13,
     <1>14, <1>15

(* on_resolve counts down what the start counted up.                       *)
LEMMA RoleStep == WsInv /\ [Next]_vars => RoleInv'
<1> SUFFICES ASSUME WsInv, [Next]_vars PROVE RoleInv'
  OBVIOUS
<1> USE DEF vars, lifeVars, ioVars, acceptVars, writeVars, sessionVars,
           OwnerOnly, Handler, SessionHandler, Runs
<1>a. LifeTypes /\ SessionTypes /\ MessageTypes /\ TypeOK
  BY TypesTogether DEF WsInv
<1>1. CASE Start
  BY <1>a, <1>1, WsAssumption
     DEF Start, WsInv, RoleInv, LifeTypes, SessionTypes, FreshInv
<1>2. CASE Stop
  BY <1>a, <1>2, WsAssumption
     DEF Stop, WsInv, RoleInv, LifeTypes, SessionTypes, FreshInv
<1>3. CASE Launch
  BY <1>a, <1>3, WsAssumption
     DEF Launch, DoAccept, WsInv, RoleInv, LifeTypes, SessionTypes, FreshInv
<1>4. CASE StopAcceptor
  BY <1>a, <1>4, WsAssumption
     DEF StopAcceptor, Backlog, WsInv, RoleInv, LifeTypes, SessionTypes, FreshInv
<1>5. CASE StopSwap
  BY <1>a, <1>5, WsAssumption
     DEF StopSwap, WsInv, RoleInv, LifeTypes, SessionTypes, FreshInv
<1>6. CASE StopPosts
  BY <1>a, <1>6, WsAssumption
     DEF StopPosts, ClosesPosted, WsInv, RoleInv, LifeTypes, SessionTypes, FreshInv
<1>7. CASE StopIo
  BY <1>a, <1>7, WsAssumption
     DEF StopIo, WsInv, RoleInv, LifeTypes, SessionTypes, FreshInv
<1>8. CASE StopJoin
  BY <1>a, <1>8, WsAssumption
     DEF StopJoin, MayJoin, WsInv, RoleInv, LifeTypes, SessionTypes, FreshInv
<1>9. CASE AcceptFails
  BY <1>a, <1>9, WsAssumption
     DEF AcceptFails, DoAccept, Backlog, WsInv, RoleInv, LifeTypes, SessionTypes,
         FreshInv
<1>10. CASE ResolveFails
  BY <1>a, <1>10, WsAssumption
     DEF ResolveFails, WsInv, RoleInv, LifeTypes, SessionTypes, FreshInv
<1>11. ASSUME NEW s \in Sessions, AcceptOk(s) PROVE RoleInv'
  BY <1>a, <1>11, WsAssumption
     DEF AcceptOk, AcceptNext, DoAccept, Begins, WsInv, RoleInv, LifeTypes,
         SessionTypes, FreshInv
<1>12. ASSUME NEW s \in Sessions, ResolveOk(s) PROVE RoleInv'
  BY <1>a, <1>12, WsAssumption
     DEF ResolveOk, NextUnused, Begins, WsInv, RoleInv, LifeTypes, SessionTypes,
         FreshInv
<1>13. ASSUME NEW s \in Sessions, CloseCompletes(s) PROVE RoleInv'
  BY <1>a, <1>13, WsAssumption
     DEF CloseCompletes, Completes, WsInv, RoleInv, LifeTypes, SessionTypes, FreshInv
<1>14. ASSUME NEW s \in Sessions, PeerConnects(s) PROVE RoleInv'
  BY <1>a, <1>14, WsAssumption
     DEF PeerConnects, NextUnused, PeerOnly, WsInv, RoleInv, LifeTypes, SessionTypes,
         FreshInv
<1>15. CASE UNCHANGED <<role, starts, owner, resolves, conn>>
  BY <1>a, <1>15, WsAssumption DEF WsInv, RoleInv, LifeTypes, SessionTypes, FreshInv
<1>16. \/ \E s \in Sessions : AcceptOk(s) \/ ResolveOk(s) \/ CloseCompletes(s) \/ PeerConnects(s)
       \/ Start \/ Stop \/ Launch \/ StopAcceptor \/ StopSwap \/ StopPosts
       \/ StopIo \/ StopJoin \/ AcceptFails \/ ResolveFails
       \/ UNCHANGED <<role, starts, owner, resolves, conn>>
  BY DEF Next, OwnerStep, HandlerOf, Open, RunReturns, CallbackReturns, EraseSession, Send,
         ConnectOk, HandshakeOk, OpFails, FailHandler, ReadOk, RunClose, RunWrite,
         WriteOk, WriteFails
<1> QED
  BY <1>1, <1>2, <1>3, <1>4, <1>5, <1>6, <1>7, <1>8, <1>9, <1>10, <1>11, <1>12, <1>13,
     <1>14, <1>15, <1>16

(* An unused connection is not touched.                                    *)
LEMMA FreshStep == WsInv /\ [Next]_vars => FreshInv'
<1> SUFFICES ASSUME WsInv, [Next]_vars PROVE FreshInv'
  OBVIOUS
<1> USE DEF vars, lifeVars, ioVars, acceptVars, writeVars, sessionVars,
           OwnerOnly, Handler, SessionHandler, Runs
<1>a. LifeTypes /\ SessionTypes /\ MessageTypes /\ TypeOK
  BY TypesTogether DEF WsInv
<1>1. CASE Start
  BY <1>a, <1>1 DEF Start, WsInv, FreshInv, SessionTypes, MessageTypes, LifeTypes
<1>2. CASE StopAcceptor
  BY <1>a, <1>2
     DEF StopAcceptor, Backlog, WsInv, FreshInv, SessionTypes, MessageTypes, LifeTypes
<1>3. CASE StopSwap
  BY <1>a, <1>3 DEF StopSwap, WsInv, FreshInv, SessionTypes, MessageTypes, LifeTypes
<1>4. CASE StopPosts
  BY <1>a, <1>4
     DEF StopPosts, ClosesPosted, WsInv, FreshInv, SessionTypes, MessageTypes, LifeTypes
<1>5. CASE StopJoin
  BY <1>a, <1>5
     DEF StopJoin, MayJoin, WsInv, FreshInv, SessionTypes, MessageTypes, LifeTypes
<1>6. CASE RunReturns
  BY <1>a, <1>6 DEF RunReturns, WsInv, FreshInv, SessionTypes, MessageTypes, LifeTypes
<1>7. CASE CallbackReturns
  BY <1>a, <1>7
     DEF CallbackReturns, Begins, WsInv, FreshInv, SessionTypes, MessageTypes, LifeTypes
<1>8. CASE AcceptFails
  BY <1>a, <1>8
     DEF AcceptFails, DoAccept, Backlog, WsInv, FreshInv, SessionTypes, MessageTypes,
         LifeTypes
<1>9. CASE Send
  BY <1>a, <1>9 DEF Send, WsInv, FreshInv, SessionTypes, MessageTypes, LifeTypes
<1>10. ASSUME NEW s \in Sessions, AcceptOk(s) PROVE FreshInv'
  BY <1>a, <1>10
     DEF AcceptOk, AcceptNext, DoAccept, Begins, WsInv, FreshInv, SessionTypes,
         MessageTypes, LifeTypes
<1>11. ASSUME NEW s \in Sessions, ResolveOk(s) PROVE FreshInv'
  BY <1>a, <1>11
     DEF ResolveOk, NextUnused, Begins, WsInv, FreshInv, SessionTypes, MessageTypes,
         LifeTypes
<1>12. ASSUME NEW s \in Sessions, ConnectOk(s) PROVE FreshInv'
  BY <1>a, <1>12
     DEF ConnectOk, MaySucceed, CompletesAndBegins, WsInv, FreshInv, SessionTypes,
         MessageTypes, LifeTypes
<1>13. ASSUME NEW s \in Sessions, HandshakeOk(s) PROVE FreshInv'
  BY <1>a, <1>13
     DEF HandshakeOk, MaySucceed, CompletesAndBegins, WsInv, FreshInv, SessionTypes,
         MessageTypes, LifeTypes
<1>14. ASSUME NEW s \in Sessions, OpFails(s) PROVE FreshInv'
  BY <1>a, <1>14
     DEF OpFails, Completes, RemoveSession, FailHandler, WsInv, FreshInv,
         SessionTypes, MessageTypes, LifeTypes
<1>15. ASSUME NEW s \in Sessions, ReadOk(s) PROVE FreshInv'
  BY <1>a, <1>15
     DEF ReadOk, MaySucceed, Completes, WsInv, FreshInv, SessionTypes, MessageTypes,
         LifeTypes
<1>16. ASSUME NEW s \in Sessions, RunClose(s) PROVE FreshInv'
  BY <1>a, <1>16
     DEF RunClose, Posted, Begins, WsInv, FreshInv, SessionTypes, MessageTypes,
         LifeTypes
<1>17. ASSUME NEW s \in Sessions, CloseCompletes(s) PROVE FreshInv'
  BY <1>a, <1>17
     DEF CloseCompletes, Completes, WsInv, FreshInv, SessionTypes, MessageTypes,
         LifeTypes
<1>18. ASSUME NEW s \in Sessions, RunWrite(s) PROVE FreshInv'
  BY <1>a, <1>18
     DEF RunWrite, Posted, ProcessQueue, WsInv, FreshInv, SessionTypes, MessageTypes,
         LifeTypes
<1>19. ASSUME NEW s \in Sessions, WriteOk(s) PROVE FreshInv'
  BY <1>a, <1>19
     DEF WriteOk, MaySucceed, NextWrite, ProcessQueue, WsInv, FreshInv, SessionTypes,
         MessageTypes, LifeTypes
<1>20. ASSUME NEW s \in Sessions, WriteFails(s) PROVE FreshInv'
  BY <1>a, <1>20
     DEF WriteFails, Completes, RemoveSession, FailHandler, WsInv,
         FreshInv, SessionTypes, MessageTypes, LifeTypes
<1>21. ASSUME NEW s \in Sessions, PeerConnects(s) PROVE FreshInv'
  BY <1>a, <1>21
     DEF PeerConnects, NextUnused, PeerOnly, WsInv, FreshInv, SessionTypes,
         MessageTypes, LifeTypes
<1>22. CASE EraseSession
  BY <1>a, <1>22
     DEF EraseSession, WsInv, FreshInv, SessionTypes, MessageTypes, LifeTypes
<1>23. CASE UNCHANGED <<thread, busy, toClose, sessions, sessionVars>>
  BY <1>a, <1>23 DEF WsInv, FreshInv, SessionTypes, MessageTypes, LifeTypes
<1>24. \/ \E s \in Sessions :
             \/ AcceptOk(s) \/ ResolveOk(s) \/ ConnectOk(s) \/ HandshakeOk(s)
             \/ OpFails(s) \/ ReadOk(s) \/ RunClose(s) \/ CloseCompletes(s)
             \/ RunWrite(s) \/ WriteOk(s) \/ WriteFails(s) \/ PeerConnects(s)
       \/ Start \/ StopAcceptor \/ StopSwap \/ StopPosts \/ StopJoin \/ RunReturns
       \/ CallbackReturns \/ EraseSession \/ AcceptFails \/ Send
       \/ UNCHANGED <<thread, busy, toClose, sessions, sessionVars>>
  BY DEF Next, OwnerStep, HandlerOf, Open, Stop, Launch, StopIo, ResolveFails
<1> QED
  BY <1>1, <1>2, <1>3, <1>4, <1>5, <1>6, <1>7, <1>8, <1>9, <1>10, <1>11, <1>12, <1>13,
     <1>14, <1>15, <1>16, <1>17, <1>18, <1>19, <1>20, <1>21, <1>22, <1>23, <1>24
-----------------------------------------------------------------------------
(* What a sequence has it keeps when another is appended, and when another *)
(* is taken from its front.                                                *)
LEMMA StillContains ==
  ASSUME NEW T, NEW q \in Seq(T), NEW e \in T, Contains(q, e)
  PROVE  /\ \A x \in T : Contains(Append(q, x), e)
         /\ Head(q) # e => Contains(Tail(q), e)
<1>1. PICK i \in 1 .. Len(q) : q[i] = e
  BY DEF Contains
<1>2. ASSUME NEW x \in T PROVE Contains(Append(q, x), e)
  <2>1. Len(q) \in Nat /\ Len(Append(q, x)) = Len(q) + 1 /\ Append(q, x)[i] = q[i]
    BY <1>1, AppendProperties, LenProperties
  <2> QED
    BY <1>1, <2>1 DEF Contains
<1>3. ASSUME Head(q) # e PROVE Contains(Tail(q), e)
  <2>1. q # <<>> /\ Len(q) \in Nat
    BY <1>1, LenProperties, EmptySeq
  <2>2. Head(q) = q[1] /\ Len(Tail(q)) = Len(q) - 1
        /\ \A j \in 1 .. Len(Tail(q)) : Tail(q)[j] = q[j + 1]
    BY <2>1, HeadTailProperties
  <2>3. i - 1 \in 1 .. Len(Tail(q)) /\ Tail(q)[i - 1] = e
    BY <1>1, <1>3, <2>1, <2>2
  <2> QED
    BY <2>3 DEF Contains
<1> QED
  BY <1>2, <1>3

(* So a close that is posted waits for its turn.                           *)
LEMMA CloseStays ==
  ASSUME MessageTypes, NEW s \in Sessions, Contains(posted[s], Close)
  PROVE  /\ \A m \in 1 .. MaxEvents : Contains(Append(posted[s], m), Close)
         /\ Head(posted[s]) # Close => Contains(Tail(posted[s]), Close)
<1> DEFINE T == {Close} \cup 1 .. MaxEvents
<1>1. posted[s] \in Seq(T) /\ Close \in T
  BY DEF MessageTypes
<1>2. \A m \in 1 .. MaxEvents : m \in T
  OBVIOUS
<1> HIDE DEF T
<1> QED
  BY <1>1, <1>2, StillContains

(* The write queue goes on, or its session closes.                         *)
LEMMA WriteStep == WsInv /\ [Next]_vars => WriteInv'
<1> SUFFICES ASSUME WsInv, [Next]_vars PROVE WriteInv'
  OBVIOUS
<1> USE DEF vars, lifeVars, ioVars, acceptVars, writeVars, sessionVars,
           OwnerOnly, Handler, SessionHandler, Runs
<1>a. LifeTypes /\ SessionTypes /\ MessageTypes /\ TypeOK
  BY TypesTogether DEF WsInv
<1>1. CASE StopPosts
  BY <1>a, <1>1, CloseIsPosted
     DEF StopPosts, ClosesPosted, WsInv, WriteInv, FreshInv, SessionTypes,
         MessageTypes, LifeTypes
<1>2. CASE CallbackReturns
  <2>1. busy \in Sessions
    BY <1>2 DEF CallbackReturns, WsInv, LifeInv
  <2> QED
    BY <1>a, <1>2, <2>1
       DEF CallbackReturns, Begins, WsInv, WriteInv, FreshInv, SessionTypes,
           MessageTypes, LifeTypes
<1>3. CASE Send
  <2>1. outCount + 1 \in 1 .. MaxEvents
    BY <1>a, <1>3, RoomForMore DEF Send
  <2>2. \A s \in Sessions :
           Contains(posted[s], Close) => Contains(Append(posted[s], outCount + 1), Close)
    BY <1>a, <2>1, CloseStays
  <2> QED
    BY <1>a, <1>3, <2>2
       DEF Send, WsInv, WriteInv, FreshInv, SessionTypes, MessageTypes, LifeTypes
<1>4. ASSUME NEW s \in Sessions, AcceptOk(s) PROVE WriteInv'
  BY <1>a, <1>4
     DEF AcceptOk, AcceptNext, DoAccept, Begins, WsInv, WriteInv, FreshInv,
         SessionTypes, MessageTypes, LifeTypes
<1>5. ASSUME NEW s \in Sessions, ResolveOk(s) PROVE WriteInv'
  BY <1>a, <1>5
     DEF ResolveOk, NextUnused, Begins, WsInv, WriteInv, FreshInv, SessionTypes,
         MessageTypes, LifeTypes
<1>6. ASSUME NEW s \in Sessions, ConnectOk(s) PROVE WriteInv'
  BY <1>a, <1>6
     DEF ConnectOk, MaySucceed, CompletesAndBegins, WsInv, WriteInv, FreshInv, SessionTypes,
         MessageTypes, LifeTypes
<1>7. ASSUME NEW s \in Sessions, HandshakeOk(s) PROVE WriteInv'
  BY <1>a, <1>7
     DEF HandshakeOk, MaySucceed, CompletesAndBegins, WsInv, WriteInv, FreshInv,
         SessionTypes, MessageTypes, LifeTypes
<1>8. ASSUME NEW s \in Sessions, OpFails(s) PROVE WriteInv'
  BY <1>a, <1>8, CloseIsPosted
     DEF OpFails, Completes, RemoveSession, FailHandler, WsInv, WriteInv,
         FreshInv, SessionTypes, MessageTypes, LifeTypes
<1>9. ASSUME NEW s \in Sessions, ReadOk(s) PROVE WriteInv'
  BY <1>a, <1>9
     DEF ReadOk, MaySucceed, Completes, WsInv, WriteInv, FreshInv, SessionTypes,
         MessageTypes, LifeTypes
<1>10. ASSUME NEW s \in Sessions, RunClose(s) PROVE WriteInv'
  BY <1>a, <1>10
     DEF RunClose, Posted, Begins, WsInv, WriteInv, FreshInv, SessionTypes,
         MessageTypes, LifeTypes
<1>11. ASSUME NEW s \in Sessions, CloseCompletes(s) PROVE WriteInv'
  BY <1>a, <1>11
     DEF CloseCompletes, Completes, WsInv, WriteInv, FreshInv, SessionTypes,
         MessageTypes, LifeTypes
<1>12. ASSUME NEW s \in Sessions, RunWrite(s) PROVE WriteInv'
  <2>1. PICK m \in 1 .. MaxEvents :
           /\ posted[s] # <<>> /\ Head(posted[s]) = m
           /\ posted' = [posted EXCEPT ![s] = Tail(posted[s])]
           /\ IF queue[s] = <<>> /\ ~writing[s]
              THEN ProcessQueue(s, <<m>>)
              ELSE queue' = [queue EXCEPT ![s] = Append(queue[s], m)] /\ UNCHANGED <<writing, ops>>
    BY <1>12 DEF RunWrite, Posted
  <2>2. Contains(posted[s], Close) => Contains(posted'[s], Close)
    <3>1. posted'[s] = Tail(posted[s])
      BY <1>a, <2>1 DEF MessageTypes
    <3>2. Head(posted[s]) # Close
      BY <2>1 DEF Close
    <3> QED
      BY <1>a, <3>1, <3>2, CloseStays
  <2>3. <<m>> # <<>> /\ Append(queue[s], m) # <<>>
    <3>1. queue[s] \in Seq(1 .. MaxEvents)
      BY <1>a DEF MessageTypes
    <3> DEFINE T == 1 .. MaxEvents
          q == queue[s]
    <3> HIDE DEF T, q
    <3>4. q \in Seq(T) /\ m \in T
      BY <3>1 DEF T, q
    <3>5. Append(q, m) # <<>>
      BY <3>4, AppendProperties
    <3>2. Append(queue[s], m) # <<>>
      BY <3>5 DEF q
    <3>3. <<m>> # <<>>
      OBVIOUS
    <3> QED
      BY <3>2, <3>3
  <2>4. /\ \A t \in Sessions \ {s} : /\ queue'[t] = queue[t] /\ writing'[t] = writing[t]
                                   /\ ops'[t] = ops[t] /\ posted'[t] = posted[t]
        /\ closing' = closing
    BY <1>a, <1>12, <2>1 DEF RunWrite, ProcessQueue, SessionTypes, MessageTypes
  <2>5. CASE queue[s] = <<>> /\ ~writing[s]
    <3>1. ProcessQueue(s, <<m>>)
      BY <2>1, <2>5
    <3>2. writing'[s] /\ "write" \in ops'[s] /\ queue'[s] # <<>>
      BY <1>a, <3>1, <2>3 DEF ProcessQueue, SessionTypes, MessageTypes
    <3> QED
      BY <3>2, <2>4, <1>a DEF WsInv, WriteInv
  <2>6. CASE ~(queue[s] = <<>> /\ ~writing[s])
    <3>1. /\ queue'[s] = Append(queue[s], m) /\ writing'[s] = writing[s] /\ ops'[s] = ops[s]
          /\ queue[s] # <<>>
      BY <1>a, <2>1, <2>6 DEF WsInv, WriteInv, MessageTypes
    <3> QED
      BY <3>1, <2>2, <2>3, <2>4, <1>a DEF WsInv, WriteInv
  <2> QED
    BY <2>5, <2>6
<1>13. ASSUME NEW s \in Sessions, WriteOk(s) PROVE WriteInv'
  BY <1>a, <1>13
     DEF WriteOk, MaySucceed, NextWrite, ProcessQueue, WsInv, WriteInv, FreshInv,
         SessionTypes, MessageTypes, LifeTypes
<1>14. ASSUME NEW s \in Sessions, WriteFails(s) PROVE WriteInv'
  BY <1>a, <1>14, CloseIsPosted
     DEF WriteFails, Completes, RemoveSession, FailHandler, WsInv,
         WriteInv, FreshInv, SessionTypes, MessageTypes, LifeTypes
<1>15. CASE UNCHANGED <<ops, posted, closing, writeVars>>
  BY <1>a, <1>15 DEF WsInv, WriteInv, FreshInv, SessionTypes, MessageTypes, LifeTypes
<1>16. \/ \E s \in Sessions :
             \/ AcceptOk(s) \/ ResolveOk(s) \/ ConnectOk(s) \/ HandshakeOk(s)
             \/ OpFails(s) \/ ReadOk(s) \/ RunClose(s) \/ CloseCompletes(s)
             \/ RunWrite(s) \/ WriteOk(s) \/ WriteFails(s)
       \/ StopPosts \/ CallbackReturns \/ Send
       \/ UNCHANGED <<ops, posted, closing, writeVars>>
  BY DEF Next, OwnerStep, HandlerOf, Open, Start, Stop, Launch, StopAcceptor, StopSwap,
         StopIo, StopJoin, RunReturns, EraseSession, AcceptFails, ResolveFails, PeerConnects,
         PeerOnly
<1> QED
  BY <1>1, <1>2, <1>3, <1>4, <1>5, <1>6, <1>7, <1>8, <1>9, <1>10, <1>11, <1>12, <1>13,
     <1>14, <1>15, <1>16

(* Each way out of sessions_ posts a close, or leaves the session to       *)
(* raw_stop that does.                                                     *)
LEMMA AccountStep == WsInv /\ [Next]_vars => AccountInv'
<1> SUFFICES ASSUME WsInv, [Next]_vars PROVE AccountInv'
  OBVIOUS
<1> USE DEF vars, lifeVars, ioVars, acceptVars, writeVars, sessionVars,
           OwnerOnly, Handler, SessionHandler, Runs
<1>a. LifeTypes /\ SessionTypes /\ MessageTypes /\ TypeOK
  BY TypesTogether DEF WsInv
<1>1. CASE Start
  BY <1>a, <1>1
     DEF Start, WsInv, AccountInv, Active, FreshInv, SessionTypes, MessageTypes,
         LifeTypes
<1>2. CASE StopSwap
  BY <1>a, <1>2
     DEF StopSwap, WsInv, AccountInv, Active, FreshInv, SessionTypes, MessageTypes,
         LifeTypes, LifeInv
<1>3. CASE StopPosts
  BY <1>a, <1>3, CloseIsPosted
     DEF StopPosts, ClosesPosted, WsInv, AccountInv, Active, FreshInv, SessionTypes,
         MessageTypes, LifeTypes
<1>4. CASE StopJoin
  BY <1>a, <1>4
     DEF StopJoin, MayJoin, WsInv, AccountInv, Active, FreshInv, SessionTypes,
         MessageTypes, LifeTypes
<1>5. CASE RunReturns
  BY <1>a, <1>5
     DEF RunReturns, WsInv, AccountInv, Active, FreshInv, SessionTypes, MessageTypes,
         LifeTypes
<1>6. CASE CallbackReturns
  BY <1>a, <1>6
     DEF CallbackReturns, Begins, WsInv, AccountInv, Active, FreshInv, SessionTypes,
         MessageTypes, LifeTypes
<1>7. CASE AcceptFails
  BY <1>a, <1>7
     DEF AcceptFails, DoAccept, Backlog, WsInv, AccountInv, Active, FreshInv,
         SessionTypes, MessageTypes, LifeTypes
<1>8. CASE ResolveFails
  BY <1>a, <1>8
     DEF ResolveFails, WsInv, AccountInv, Active, FreshInv, SessionTypes, MessageTypes,
         LifeTypes
<1>9. CASE Send
  <2>1. outCount + 1 \in 1 .. MaxEvents
    BY <1>a, <1>9, RoomForMore DEF Send
  <2>2. \A s \in Sessions :
           Contains(posted[s], Close) => Contains(Append(posted[s], outCount + 1), Close)
    BY <1>a, <2>1, CloseStays
  <2> QED
    BY <1>a, <1>9, <2>2
       DEF Send, WsInv, AccountInv, Active, FreshInv, SessionTypes, MessageTypes,
           LifeTypes
<1>10. ASSUME NEW s \in Sessions, AcceptOk(s) PROVE AccountInv'
  BY <1>a, <1>10
     DEF AcceptOk, AcceptNext, DoAccept, Begins, WsInv, AccountInv, Active, FreshInv,
         SessionTypes, MessageTypes, LifeTypes
<1>11. ASSUME NEW s \in Sessions, ResolveOk(s) PROVE AccountInv'
  BY <1>a, <1>11
     DEF ResolveOk, NextUnused, Begins, WsInv, AccountInv, Active, FreshInv,
         SessionTypes, MessageTypes, LifeTypes, RoleInv
<1>12. ASSUME NEW s \in Sessions, ConnectOk(s) PROVE AccountInv'
  BY <1>a, <1>12
     DEF ConnectOk, MaySucceed, CompletesAndBegins, WsInv, AccountInv, Active, FreshInv,
         SessionTypes, MessageTypes, LifeTypes
<1>13. ASSUME NEW s \in Sessions, HandshakeOk(s) PROVE AccountInv'
  BY <1>a, <1>13
     DEF HandshakeOk, MaySucceed, CompletesAndBegins, WsInv, AccountInv, Active, FreshInv,
         SessionTypes, MessageTypes, LifeTypes
<1>14. ASSUME NEW s \in Sessions, OpFails(s) PROVE AccountInv'
  BY <1>a, <1>14, CloseIsPosted
     DEF OpFails, Completes, RemoveSession, FailHandler, WsInv,
         AccountInv, Active, FreshInv, SessionTypes, MessageTypes, LifeTypes
<1>15. ASSUME NEW s \in Sessions, ReadOk(s) PROVE AccountInv'
  BY <1>a, <1>15
     DEF ReadOk, MaySucceed, Completes, WsInv, AccountInv, Active, FreshInv, SessionTypes,
         MessageTypes, LifeTypes
<1>16. ASSUME NEW s \in Sessions, RunClose(s) PROVE AccountInv'
  BY <1>a, <1>16
     DEF RunClose, Posted, Begins, WsInv, AccountInv, Active, FreshInv, SessionTypes,
         MessageTypes, LifeTypes
<1>17. ASSUME NEW s \in Sessions, CloseCompletes(s) PROVE AccountInv'
  BY <1>a, <1>17
     DEF CloseCompletes, Completes, WsInv, AccountInv, Active, FreshInv, SessionTypes,
         MessageTypes, LifeTypes
<1>18. ASSUME NEW s \in Sessions, RunWrite(s) PROVE AccountInv'
  <2>1. PICK m \in 1 .. MaxEvents :
           /\ posted[s] # <<>> /\ Head(posted[s]) = m
           /\ posted' = [posted EXCEPT ![s] = Tail(posted[s])]
           /\ IF queue[s] = <<>> /\ ~writing[s]
              THEN ProcessQueue(s, <<m>>)
              ELSE queue' = [queue EXCEPT ![s] = Append(queue[s], m)] /\ UNCHANGED <<writing, ops>>
    BY <1>18 DEF RunWrite, Posted
  <2>2. Contains(posted[s], Close) => Contains(posted'[s], Close)
    <3>1. posted'[s] = Tail(posted[s])
      BY <1>a, <2>1 DEF MessageTypes
    <3>2. Head(posted[s]) # Close
      BY <2>1 DEF Close
    <3> QED
      BY <1>a, <3>1, <3>2, CloseStays
  <2>3. <<m>> # <<>> /\ Append(queue[s], m) # <<>>
    <3>1. queue[s] \in Seq(1 .. MaxEvents)
      BY <1>a DEF MessageTypes
    <3> DEFINE T == 1 .. MaxEvents
          q == queue[s]
    <3> HIDE DEF T, q
    <3>4. q \in Seq(T) /\ m \in T
      BY <3>1 DEF T, q
    <3>5. Append(q, m) # <<>>
      BY <3>4, AppendProperties
    <3>2. Append(queue[s], m) # <<>>
      BY <3>5 DEF q
    <3>3. <<m>> # <<>>
      OBVIOUS
    <3> QED
      BY <3>2, <3>3
  <2> QED
    BY <1>a, <1>18, <2>1, <2>2, <2>3
       DEF RunWrite, ProcessQueue, WsInv, AccountInv, Active, FreshInv, SessionTypes,
           MessageTypes, LifeTypes
<1>19. ASSUME NEW s \in Sessions, WriteOk(s) PROVE AccountInv'
  BY <1>a, <1>19
     DEF WriteOk, MaySucceed, NextWrite, ProcessQueue, WsInv, AccountInv, Active, FreshInv,
         SessionTypes, MessageTypes, LifeTypes
<1>20. ASSUME NEW s \in Sessions, WriteFails(s) PROVE AccountInv'
  BY <1>a, <1>20, CloseIsPosted
     DEF WriteFails, Completes, RemoveSession, FailHandler, WsInv,
         AccountInv, Active, FreshInv, SessionTypes, MessageTypes, LifeTypes
<1>21. CASE EraseSession
  BY <1>a, <1>21
     DEF EraseSession, WsInv, AccountInv, Active, EraseInv, SessionTypes, MessageTypes,
         LifeTypes
<1>22. CASE UNCHANGED <<role, starts, toClose, sessions, ops, posted, closing, thread, busy>>
  BY <1>a, <1>22
     DEF WsInv, AccountInv, Active, FreshInv, SessionTypes, MessageTypes, LifeTypes
<1>23. \/ \E s \in Sessions :
             \/ AcceptOk(s) \/ ResolveOk(s) \/ ConnectOk(s) \/ HandshakeOk(s)
             \/ OpFails(s) \/ ReadOk(s) \/ RunClose(s) \/ CloseCompletes(s)
             \/ RunWrite(s) \/ WriteOk(s) \/ WriteFails(s)
       \/ Start \/ StopSwap \/ StopPosts \/ StopJoin \/ RunReturns \/ CallbackReturns
       \/ EraseSession \/ AcceptFails \/ ResolveFails \/ Send
       \/ UNCHANGED <<role, starts, toClose, sessions, ops, posted, closing, thread, busy>>
  BY DEF Next, OwnerStep, HandlerOf, Open, Stop, Launch, StopAcceptor, StopIo,
         PeerConnects, PeerOnly
<1> QED
  BY <1>1, <1>2, <1>3, <1>4, <1>5, <1>6, <1>7, <1>8, <1>9, <1>10, <1>11, <1>12, <1>13,
     <1>14, <1>15, <1>16, <1>17, <1>18, <1>19, <1>20, <1>21, <1>22, <1>23

(* What waits for its erase keeps its close: only senders and raw_stop add *)
(* to what is posted meanwhile.                                            *)
LEMMA EraseStep == WsInv /\ [Next]_vars => EraseInv'
<1> SUFFICES ASSUME WsInv, [Next]_vars PROVE EraseInv'
  OBVIOUS
<1> USE DEF vars, lifeVars, ioVars, acceptVars, writeVars, sessionVars,
           OwnerOnly, Handler, SessionHandler, Runs
<1>a. LifeTypes /\ SessionTypes /\ MessageTypes /\ TypeOK
  BY TypesTogether DEF WsInv
<1>b. thread = "erase" => /\ busy \in Sessions
                          /\ closing[busy] \/ Contains(posted[busy], Close)
  BY DEF WsInv, LifeInv, EraseInv
<1>1. CASE StopPosts
  <2>1. thread' = thread /\ busy' = busy /\ closing' = closing /\ posted' = ClosesPosted
    BY <1>1 DEF StopPosts
  <2>2. ASSUME NEW s \in Sessions, Contains(posted[s], Close)
        PROVE  Contains(posted'[s], Close)
    BY <1>a, <2>1, <2>2, CloseIsPosted DEF ClosesPosted
  <2> QED
    BY <1>b, <2>1, <2>2 DEF EraseInv
<1>2. CASE Send
  <2>1. thread' = thread /\ busy' = busy /\ closing' = closing
    BY <1>2 DEF Send
  <2>2. outCount + 1 \in 1 .. MaxEvents
    BY <1>a, <1>2, RoomForMore DEF Send
  <2>3. ASSUME NEW s \in Sessions, Contains(posted[s], Close)
        PROVE  Contains(posted'[s], Close)
    <3>1. Contains(Append(posted[s], outCount + 1), Close)
      BY <1>a, <2>2, <2>3, CloseStays
    <3> QED
      BY <1>2, <2>3, <3>1 DEF Send
  <2> QED
    BY <1>b, <2>1, <2>3 DEF EraseInv
<1>3. ASSUME NEW s \in Sessions, OpFails(s) \/ WriteFails(s) PROVE EraseInv'
  <2>1. busy' = s /\ closing' = closing /\ posted'[s] = WithClose(s)
    BY <1>a, <1>3 DEF OpFails, WriteFails, RemoveSession, MessageTypes
  <2> QED
    BY <1>a, <2>1, CloseIsPosted DEF EraseInv
<1>4. ASSUME thread' # "erase" PROVE EraseInv'
  BY <1>4 DEF EraseInv
<1>5. CASE UNCHANGED <<thread, busy, closing, posted>>
  BY <1>5 DEF WsInv, EraseInv
<1>6. \/ StopPosts \/ Send
      \/ \E s \in Sessions : OpFails(s) \/ WriteFails(s)
      \/ thread' # "erase"
      \/ UNCHANGED <<thread, busy, closing, posted>>
  BY DEF Next, OwnerStep, HandlerOf, Open, Start, Stop, Launch, StopAcceptor, StopSwap,
         StopIo, StopJoin, RunReturns, CallbackReturns, EraseSession, AcceptFails,
         ResolveFails, AcceptOk, ResolveOk, ConnectOk, HandshakeOk, ReadOk, RunClose,
         CloseCompletes, RunWrite, WriteOk, PeerConnects, PeerOnly
<1> QED
  BY <1>1, <1>2, <1>3, <1>4, <1>5, <1>6
-----------------------------------------------------------------------------
(* The next message after the latest one.                                  *)
LEMMA OrderOfAppend ==
  ASSUME NEW q \in Seq(Nat), NEW n \in Nat, NEW m \in Nat, m = n + 1,
         InOrder(q), Latest(q, n)
  PROVE  InOrder(Append(q, m)) /\ Latest(Append(q, m), m)
<1> DEFINE r == Append(q, m)
<1>1. /\ Len(q) \in Nat /\ DOMAIN q = 1 .. Len(q)
      /\ DOMAIN r = 1 .. Len(q) + 1 /\ Len(r) = Len(q) + 1
      /\ \A i \in 1 .. Len(q) : r[i] = q[i] /\ q[i] \in Nat
      /\ r[Len(q) + 1] = m
  BY AppendProperties, LenProperties, ElementOfSeq
<1> HIDE DEF r
<1>2. ASSUME NEW i \in DOMAIN r, NEW j \in DOMAIN r,
             i < j, r[i] # Close, r[j] # Close, \A k \in i + 1 .. j - 1 : r[k] = Close
      PROVE  r[j] = r[i] + 1
  <2>1. CASE j <= Len(q)
    <3>1. i \in DOMAIN q /\ j \in DOMAIN q /\ r[i] = q[i] /\ r[j] = q[j]
      BY <1>1, <1>2, <2>1
    <3>2. \A k \in i + 1 .. j - 1 : q[k] = Close
      BY <1>1, <1>2, <2>1
    <3> QED
      BY <1>2, <3>1, <3>2 DEF InOrder
  <2>2. CASE j = Len(q) + 1
    <3>1. i \in DOMAIN q /\ r[i] = q[i]
      BY <1>1, <1>2, <2>2
    <3>2. \A k \in i + 1 .. Len(q) : q[k] = Close
      BY <1>1, <1>2, <2>2
    <3>3. q[i] = n
      BY <1>2, <3>1, <3>2 DEF Latest
    <3> QED
      BY <1>1, <2>2, <3>1, <3>3
  <2> QED
    BY <1>1, <2>1, <2>2
<1>3. ASSUME NEW i \in DOMAIN r, r[i] # Close, \A j \in i + 1 .. Len(r) : r[j] = Close
      PROVE  r[i] = m
  <2>1. m # Close
    BY DEF Close
  <2>2. i = Len(q) + 1
    BY <1>1, <1>3, <2>1
  <2> QED
    BY <1>1, <2>2
<1>4. InOrder(r)
  BY <1>2 DEF InOrder
<1>5. Latest(r, m)
  BY <1>3 DEF Latest
<1> QED
  BY <1>4, <1>5 DEF r

(* A close does not count in the order.                                    *)
LEMMA OrderWithClose ==
  ASSUME NEW q \in Seq(Nat), NEW n \in Nat, InOrder(q)
  PROVE  /\ InOrder(Append(q, Close))
         /\ Latest(q, n) => Latest(Append(q, Close), n)
<1> DEFINE r == Append(q, Close)
<1>0. Close \in Nat
  BY DEF Close
<1>1. /\ Len(q) \in Nat /\ DOMAIN q = 1 .. Len(q)
      /\ DOMAIN r = 1 .. Len(q) + 1 /\ Len(r) = Len(q) + 1
      /\ \A i \in 1 .. Len(q) : r[i] = q[i] /\ q[i] \in Nat
      /\ r[Len(q) + 1] = Close
  BY <1>0, AppendProperties, LenProperties, ElementOfSeq
<1> HIDE DEF r
<1>2. ASSUME NEW i \in DOMAIN r, NEW j \in DOMAIN r,
             i < j, r[i] # Close, r[j] # Close, \A k \in i + 1 .. j - 1 : r[k] = Close
      PROVE  r[j] = r[i] + 1
  <2>1. i \in DOMAIN q /\ j \in DOMAIN q /\ r[i] = q[i] /\ r[j] = q[j]
    BY <1>1, <1>2
  <2>2. \A k \in i + 1 .. j - 1 : q[k] = Close
    BY <1>1, <1>2, <2>1
  <2> QED
    BY <1>2, <2>1, <2>2 DEF InOrder
<1>3. ASSUME Latest(q, n), NEW i \in DOMAIN r,
             r[i] # Close, \A j \in i + 1 .. Len(r) : r[j] = Close
      PROVE  r[i] = n
  <2>1. i \in DOMAIN q /\ r[i] = q[i]
    BY <1>1, <1>3
  <2>2. \A j \in i + 1 .. Len(q) : q[j] = Close
    BY <1>1, <1>3, <2>1
  <2> QED
    BY <1>3, <2>1, <2>2 DEF Latest
<1>4. InOrder(r)
  BY <1>2 DEF InOrder
<1>5. Latest(q, n) => Latest(r, n)
  BY <1>3 DEF Latest
<1> QED
  BY <1>4, <1>5 DEF r

(* The front is taken away, or is written.                                 *)
LEMMA OrderOfTail ==
  ASSUME NEW q \in Seq(Nat), NEW n \in Nat, q # <<>>, InOrder(q)
  PROVE  /\ InOrder(Tail(q))
         /\ Latest(q, n) => Latest(Tail(q), n)
<1> DEFINE r == Tail(q)
<1>1. /\ Len(q) \in Nat /\ DOMAIN q = 1 .. Len(q)
      /\ DOMAIN r = 1 .. Len(q) - 1 /\ Len(r) = Len(q) - 1
      /\ \A i \in 1 .. Len(q) - 1 : r[i] = q[i + 1]
  <2>1. r \in Seq(Nat) /\ Len(r) = Len(q) - 1 /\ \A i \in 1 .. Len(r) : r[i] = q[i + 1]
    BY HeadTailProperties
  <2> HIDE DEF r
  <2> QED
    BY <2>1, LenProperties
<1> HIDE DEF r
<1>2. ASSUME NEW i \in DOMAIN r, NEW j \in DOMAIN r,
             i < j, r[i] # Close, r[j] # Close, \A k \in i + 1 .. j - 1 : r[k] = Close
      PROVE  r[j] = r[i] + 1
  <2>1. i + 1 \in DOMAIN q /\ j + 1 \in DOMAIN q /\ r[i] = q[i + 1] /\ r[j] = q[j + 1]
    BY <1>1, <1>2
  <2>2. ASSUME NEW k \in (i + 1) + 1 .. (j + 1) - 1 PROVE q[k] = Close
    <3>1. k - 1 \in i + 1 .. j - 1 /\ k - 1 \in 1 .. Len(q) - 1 /\ (k - 1) + 1 = k
      BY <1>1, <1>2
    <3>2. r[k - 1] = Close /\ r[k - 1] = q[(k - 1) + 1]
      BY <1>1, <1>2, <3>1
    <3> QED
      BY <3>1, <3>2
  <2>3. i + 1 < j + 1
    BY <1>1, <1>2
  <2> DEFINE a == i + 1
             b == j + 1
  <2>4. /\ a \in DOMAIN q /\ b \in DOMAIN q /\ a < b /\ q[a] # Close /\ q[b] # Close
        /\ \A k \in a + 1 .. b - 1 : q[k] = Close
        /\ r[i] = q[a] /\ r[j] = q[b]
    BY <1>2, <2>1, <2>2, <2>3
  <2> HIDE DEF a, b
  <2> QED
    BY <2>4 DEF InOrder
<1>3. ASSUME Latest(q, n), NEW i \in DOMAIN r,
             r[i] # Close, \A j \in i + 1 .. Len(r) : r[j] = Close
      PROVE  r[i] = n
  <2> DEFINE a == i + 1
  <2>1. a \in DOMAIN q /\ r[i] = q[a]
    BY <1>1
  <2>2. ASSUME NEW j \in a + 1 .. Len(q) PROVE q[j] = Close
    <3>1. j - 1 \in i + 1 .. Len(r) /\ j - 1 \in 1 .. Len(q) - 1 /\ (j - 1) + 1 = j
      BY <1>1
    <3>2. r[j - 1] = Close /\ r[j - 1] = q[(j - 1) + 1]
      BY <1>1, <1>3, <3>1
    <3> QED
      BY <3>1, <3>2
  <2> HIDE DEF a
  <2> QED
    BY <1>3, <2>1, <2>2 DEF Latest
<1>4. InOrder(r)
  BY <1>2 DEF InOrder
<1>5. Latest(q, n) => Latest(r, n)
  BY <1>3 DEF Latest
<1> QED
  BY <1>4, <1>5 DEF r

(* A close is taken out from wherever it is.                               *)
LEMMA OrderWithoutClose ==
  ASSUME NEW u \in Seq(Nat), NEW v \in Seq(Nat), NEW n \in Nat,
         InOrder(u \o (<<Close>> \o v))
  PROVE  /\ InOrder(u \o v)
         /\ Latest(u \o (<<Close>> \o v), n) => Latest(u \o v, n)
<1> DEFINE q == u \o (<<Close>> \o v)
           r == u \o v
           old(i) == IF i <= Len(u) THEN i ELSE i + 1
<1>1. /\ Len(u) \in Nat /\ Len(v) \in Nat
      /\ DOMAIN q = 1 .. Len(u) + Len(v) + 1 /\ Len(q) = Len(u) + Len(v) + 1
      /\ DOMAIN r = 1 .. Len(u) + Len(v) /\ Len(r) = Len(u) + Len(v)
      /\ \A i \in 1 .. Len(u) : q[i] = r[i]
      /\ \A i \in Len(u) + 1 .. Len(u) + Len(v) : q[i + 1] = r[i]
      /\ q[Len(u) + 1] = Close
  <2> DEFINE w == <<Close>> \o v
  <2>1. <<Close>> \in Seq(Nat) /\ Len(<<Close>>) = 1 /\ <<Close>>[1] = Close
    BY DEF Close
  <2>2. /\ Len(u) \in Nat /\ Len(v) \in Nat /\ w \in Seq(Nat) /\ Len(w) = Len(v) + 1
        /\ w[1] = Close /\ \A i \in 1 .. Len(v) : w[i + 1] = v[i]
    <3> DEFINE c == <<Close>>
    <3>1. Len(v) \in Nat /\ Len(u) \in Nat
      BY LenProperties
    <3>2. c \in Seq(Nat) /\ Len(c) = 1 /\ c[1] = Close
      BY <2>1
    <3> HIDE DEF c
    <3>5. /\ c \o v \in Seq(Nat) /\ Len(c \o v) = Len(c) + Len(v)
          /\ \A i \in 1 .. Len(c) + Len(v) :
                 (c \o v)[i] = IF i <= Len(c) THEN c[i] ELSE v[i - Len(c)]
      BY <3>2, ConcatProperties
    <3>3. /\ c \o v \in Seq(Nat) /\ Len(c \o v) = 1 + Len(v)
          /\ \A i \in 1 .. 1 + Len(v) : (c \o v)[i] = IF i <= 1 THEN c[i] ELSE v[i - 1]
      BY <3>2, <3>5
    <3>4. \A i \in 1 .. Len(v) : (c \o v)[i + 1] = v[i]
      BY <3>1, <3>3
    <3> QED
      BY <3>1, <3>2, <3>3, <3>4 DEF c
  <2> HIDE DEF w
  <2>3. /\ u \o w \in Seq(Nat) /\ Len(u \o w) = Len(u) + Len(w)
        /\ \A i \in 1 .. Len(u) + Len(w) :
               (u \o w)[i] = IF i <= Len(u) THEN u[i] ELSE w[i - Len(u)]
    BY <2>2, ConcatProperties
  <2>4. /\ u \o v \in Seq(Nat) /\ Len(u \o v) = Len(u) + Len(v)
        /\ \A i \in 1 .. Len(u) + Len(v) :
               (u \o v)[i] = IF i <= Len(u) THEN u[i] ELSE v[i - Len(u)]
    BY ConcatProperties
  <2>5. DOMAIN (u \o w) = 1 .. Len(u \o w) /\ DOMAIN (u \o v) = 1 .. Len(u \o v)
    BY <2>3, <2>4, LenProperties
  <2>6. \A i \in 1 .. Len(u) : (u \o w)[i] = (u \o v)[i]
    BY <2>2, <2>3, <2>4
  <2>7. ASSUME NEW i \in Len(u) + 1 .. Len(u) + Len(v) PROVE (u \o w)[i + 1] = (u \o v)[i]
    <3>1. i - Len(u) \in 1 .. Len(v) /\ (i + 1) - Len(u) = (i - Len(u)) + 1
      BY <2>2
    <3>2. (u \o w)[i + 1] = w[(i + 1) - Len(u)]
      <4> DEFINE a == i + 1
      <4>1. a \in 1 .. Len(u) + Len(w) /\ ~(a <= Len(u))
        BY <2>2
      <4> HIDE DEF a
      <4>2. (u \o w)[a] = w[a - Len(u)]
        BY <2>3, <4>1
      <4> QED
        BY <4>2 DEF a
    <3>3. (u \o v)[i] = v[i - Len(u)]
      BY <2>2, <2>4
    <3> QED
      BY <2>2, <3>1, <3>2, <3>3
  <2>8. (u \o w)[Len(u) + 1] = Close
    BY <2>2, <2>3
  <2> QED
    BY <2>2, <2>3, <2>4, <2>5, <2>6, <2>7, <2>8 DEF w
<1> HIDE DEF q, r
<1>2. \A i \in DOMAIN r : old(i) \in DOMAIN q /\ q[old(i)] = r[i]
  <2> SUFFICES ASSUME NEW i \in DOMAIN r PROVE old(i) \in DOMAIN q /\ q[old(i)] = r[i]
    OBVIOUS
  <2>1. CASE i <= Len(u)
    BY <1>1, <2>1
  <2>2. CASE ~(i <= Len(u))
    <3>1. i \in Len(u) + 1 .. Len(u) + Len(v)
      BY <1>1, <2>2
    <3>2. q[i + 1] = r[i]
      BY <1>1, <3>1
    <3>3. old(i) = i + 1 /\ i + 1 \in DOMAIN q
      BY <1>1, <2>2
    <3> QED
      BY <3>2, <3>3
  <2> QED
    BY <2>1, <2>2
<1>3. ASSUME NEW i \in DOMAIN r, NEW b \in 1 .. Len(r) + 1,
             \A k \in i + 1 .. b - 1 : r[k] = Close
      PROVE  \A k \in old(i) + 1 .. old(b) - 1 : q[k] = Close
  <2> SUFFICES ASSUME NEW k \in old(i) + 1 .. old(b) - 1 PROVE q[k] = Close
    OBVIOUS
  <2>1. CASE k <= Len(u)
    <3>1. k \in 1 .. Len(u) /\ k \in i + 1 .. b - 1
      BY <1>1, <2>1
    <3> QED
      BY <1>1, <1>3, <3>1
  <2>2. CASE k = Len(u) + 1
    BY <1>1, <2>2
  <2>3. CASE k > Len(u) + 1
    <3>1. k - 1 \in i + 1 .. b - 1 /\ k - 1 \in Len(u) + 1 .. Len(u) + Len(v) /\ (k - 1) + 1 = k
      BY <1>1, <2>3
    <3>2. r[k - 1] = Close /\ q[(k - 1) + 1] = r[k - 1]
      BY <1>1, <1>3, <3>1
    <3> QED
      BY <3>1, <3>2
  <2> QED
    BY <1>1, <2>1, <2>2, <2>3
<1>4. ASSUME InOrder(q), NEW i \in DOMAIN r, NEW j \in DOMAIN r,
             i < j, r[i] # Close, r[j] # Close, \A k \in i + 1 .. j - 1 : r[k] = Close
      PROVE  r[j] = r[i] + 1
  <2>1. old(i) < old(j) /\ j \in 1 .. Len(r) + 1
    BY <1>1, <1>4
  <2>2. \A k \in old(i) + 1 .. old(j) - 1 : q[k] = Close
    BY <1>3, <1>4, <2>1
  <2>3. /\ old(i) \in DOMAIN q /\ old(j) \in DOMAIN q
        /\ q[old(i)] = r[i] /\ q[old(j)] = r[j]
    BY <1>2
  <2> DEFINE a == old(i)
             b == old(j)
  <2>4. /\ a \in DOMAIN q /\ b \in DOMAIN q /\ a < b /\ q[a] = r[i] /\ q[b] = r[j]
        /\ \A k \in a + 1 .. b - 1 : q[k] = Close
    BY <2>1, <2>2, <2>3
  <2> HIDE DEF a, b
  <2> QED
    BY <1>4, <2>4 DEF InOrder
<1>5. ASSUME Latest(q, n), NEW i \in DOMAIN r,
             r[i] # Close, \A j \in i + 1 .. Len(r) : r[j] = Close
      PROVE  r[i] = n
  <2> DEFINE e == Len(r) + 1
             a == old(i)
  <2>1. \A k \in old(i) + 1 .. old(e) - 1 : q[k] = Close
    <3>1. e \in 1 .. Len(r) + 1 /\ \A j \in i + 1 .. e - 1 : r[j] = Close
      BY <1>1, <1>5
    <3> HIDE DEF e
    <3> QED
      BY <1>3, <3>1
  <2>2. old(e) - 1 = Len(q)
    BY <1>1
  <2>3. a \in DOMAIN q /\ q[a] = r[i] /\ \A k \in a + 1 .. Len(q) : q[k] = Close
    BY <1>2, <2>1, <2>2
  <2> HIDE DEF a
  <2> QED
    BY <1>5, <2>3 DEF Latest
<1>6. InOrder(q) => InOrder(r)
  BY <1>4 DEF InOrder
<1>7. Latest(q, n) => Latest(r, n)
  BY <1>5 DEF Latest
<1> QED
  BY <1>6, <1>7 DEF q, r
-----------------------------------------------------------------------------
(* Sequences cut at their front, and put together again.                   *)
LEMMA HeadBeforeTail ==
  ASSUME NEW p \in Seq(Nat), p # <<>>
  PROVE  /\ Head(p) \in Nat /\ Tail(p) \in Seq(Nat)
         /\ p = <<Head(p)>> \o Tail(p)
<1> DEFINE h == <<Head(p)>>
           t == Tail(p)
<1>1. /\ Head(p) \in Nat /\ Head(p) = p[1] /\ t \in Seq(Nat) /\ Len(t) = Len(p) - 1
      /\ \A i \in 1 .. Len(t) : t[i] = p[i + 1]
  BY HeadTailProperties
<1>2. h \in Seq(Nat) /\ Len(h) = 1 /\ h[1] = p[1]
  BY <1>1
<1> HIDE DEF h, t
<1>3. /\ h \o t \in Seq(Nat) /\ Len(h \o t) = Len(h) + Len(t)
      /\ \A i \in 1 .. Len(h) + Len(t) : (h \o t)[i] = IF i <= Len(h) THEN h[i] ELSE t[i - Len(h)]
  <2>1. h \in Seq(Nat) /\ t \in Seq(Nat)
    BY <1>1, <1>2
  <2> QED
    BY <2>1, ConcatProperties
<1>4. Len(p) \in Nat /\ Len(t) \in Nat
  BY <1>1, LenProperties
<1>5. ASSUME NEW i \in 1 .. Len(p) PROVE p[i] = (h \o t)[i]
  <2>1. CASE i = 1
    BY <1>1, <1>2, <1>3, <1>4, <2>1
  <2>2. CASE i # 1
    <3>1. i - 1 \in 1 .. Len(t) /\ (i - 1) + 1 = i
      BY <1>1, <1>4, <2>2
    <3>2. t[i - 1] = p[(i - 1) + 1]
      BY <1>1, <3>1
    <3>3. (h \o t)[i] = t[i - 1]
      BY <1>1, <1>2, <1>3, <1>4, <2>2
    <3> QED
      BY <3>1, <3>2, <3>3
  <2> QED
    BY <2>1, <2>2
<1>6. Len(p) = Len(h \o t)
  BY <1>1, <1>2, <1>3, <1>4
<1>7. p = h \o t
  BY <1>3, <1>5, <1>6, SeqEqual
<1> QED
  BY <1>1, <1>7 DEF h, t

(* Likewise.                                                               *)
LEMMA TailOfConcat ==
  ASSUME NEW x \in Nat, NEW r \in Seq(Nat)
  PROVE  /\ <<x>> \o r \in Seq(Nat) /\ <<x>> \o r # <<>>
         /\ Tail(<<x>> \o r) = r
<1> DEFINE h == <<x>>
           p == h \o r
<1>1. h \in Seq(Nat) /\ Len(h) = 1
  OBVIOUS
<1> HIDE DEF h
<1>2. /\ p \in Seq(Nat) /\ Len(p) = Len(h) + Len(r)
      /\ \A i \in 1 .. Len(h) + Len(r) : p[i] = IF i <= Len(h) THEN h[i] ELSE r[i - Len(h)]
  BY <1>1, ConcatProperties
<1> HIDE DEF p
<1>3. Len(r) \in Nat
  BY LenProperties
<1>4. p # <<>>
  BY <1>1, <1>2, <1>3, EmptySeq
<1>5. /\ Tail(p) \in Seq(Nat) /\ Len(Tail(p)) = Len(p) - 1
      /\ \A i \in 1 .. Len(Tail(p)) : Tail(p)[i] = p[i + 1]
  BY <1>2, <1>4, HeadTailProperties
<1>6. Len(Tail(p)) = Len(r)
  BY <1>1, <1>2, <1>3, <1>5
<1>7. ASSUME NEW i \in 1 .. Len(r) PROVE Tail(p)[i] = r[i]
  <2> DEFINE j == i + 1
  <2>1. j \in 1 .. Len(h) + Len(r) /\ ~(j <= Len(h)) /\ j - Len(h) = i
    BY <1>1, <1>3
  <2>2. Tail(p)[i] = p[j]
    BY <1>5, <1>6
  <2> HIDE DEF j
  <2> QED
    BY <1>2, <2>1, <2>2
<1>8. Tail(p) = r
  BY <1>5, <1>6, <1>7, SeqEqual
<1> QED
  BY <1>2, <1>4, <1>8 DEF h, p

(* Appending to the last part is appending to the whole.                   *)
LEMMA AppendToConcat ==
  ASSUME NEW a \in Seq(Nat), NEW p \in Seq(Nat), NEW x \in Nat
  PROVE  a \o Append(p, x) = Append(a \o p, x)
<1> DEFINE h == <<x>>
<1>1. h \in Seq(Nat)
  OBVIOUS
<1>2. Append(p, x) = p \o h
  BY AppendIsConcat
<1>3. a \o p \in Seq(Nat)
  BY ConcatProperties
<1>4. Append(a \o p, x) = (a \o p) \o h
  BY <1>3, AppendIsConcat
<1> HIDE DEF h
<1>5. (a \o p) \o h = a \o (p \o h)
  BY <1>1, ConcatAssociative
<1> QED
  BY <1>2, <1>4, <1>5

(* An element goes from the front of one part to the end of the one        *)
(* before.                                                                 *)
LEMMA MoveOver ==
  ASSUME NEW b \in Seq(Nat), NEW x \in Nat, NEW t \in Seq(Nat)
  PROVE  Append(b, x) \o t = b \o (<<x>> \o t)
<1> DEFINE h == <<x>>
<1>1. h \in Seq(Nat)
  OBVIOUS
<1>2. Append(b, x) = b \o h
  BY AppendIsConcat
<1> HIDE DEF h
<1>3. (b \o h) \o t = b \o (h \o t)
  BY <1>1, ConcatAssociative
<1> QED
  BY <1>2, <1>3 DEF h

(* The handler of a message moves it from what is posted to the queue.     *)
LEMMA MoveToQueue ==
  ASSUME NEW a \in Seq(Nat), NEW q \in Seq(Nat), NEW p \in Seq(Nat), p # <<>>
  PROVE  (a \o Append(q, Head(p))) \o Tail(p) = (a \o q) \o p
<1> DEFINE x == Head(p)
           t == Tail(p)
           b == a \o q
<1>1. x \in Nat /\ t \in Seq(Nat) /\ p = <<x>> \o t
  BY HeadBeforeTail
<1> HIDE DEF x, t
<1>2. b \in Seq(Nat)
  BY ConcatProperties
<1>3. a \o Append(q, x) = Append(b, x)
  BY <1>1, AppendToConcat
<1> HIDE DEF b
<1>4. Append(b, x) \o t = b \o (<<x>> \o t)
  BY <1>1, <1>2, MoveOver
<1>5. (a \o Append(q, x)) \o t = b \o p
  BY <1>1, <1>3, <1>4
<1> QED
  BY <1>5 DEF t, b, x

(* The parts of what a session is to write.                                *)
LEMMA OutgoingTypes ==
  ASSUME MessageTypes, NEW s \in Sessions
  PROVE  /\ OnTheWire(s) \in Seq(Nat) /\ queue[s] \in Seq(Nat) /\ posted[s] \in Seq(Nat)
         /\ OnTheWire(s) \o queue[s] \in Seq(Nat)
         /\ Outgoing(s) \in Seq(Nat)
<1>1. queue[s] \in Seq(1 .. MaxEvents) /\ posted[s] \in Seq({Close} \cup 1 .. MaxEvents)
  BY DEF MessageTypes
<1>2. queue[s] \in Seq(Nat)
  <2>1. 1 .. MaxEvents \subseteq Nat
    OBVIOUS
  <2> QED
    BY <1>1, <2>1, SeqMonotonic
<1>3. posted[s] \in Seq(Nat)
  <2>1. {Close} \cup 1 .. MaxEvents \subseteq Nat
    BY DEF Close
  <2> QED
    BY <1>1, <2>1, SeqMonotonic
<1>4. OnTheWire(s) \in Seq(Nat)
  <2>1. written[s] \in Nat
    BY DEF MessageTypes
  <2>2. <<written[s]>> \in Seq(Nat) /\ <<>> \in Seq(Nat)
    BY <2>1
  <2> QED
    BY <2>2 DEF OnTheWire
<1>5. OnTheWire(s) \o queue[s] \in Seq(Nat)
  BY <1>2, <1>4, ConcatProperties
<1>6. (OnTheWire(s) \o queue[s]) \o posted[s] \in Seq(Nat)
  BY <1>3, <1>5, ConcatProperties
<1> QED
  BY <1>2, <1>3, <1>4, <1>5, <1>6 DEF Outgoing

(* What was written is forgotten: with the next write, or with the close.  *)
LEMMA WithoutTheWire ==
  ASSUME MessageTypes, NEW s \in Sessions, NEW p \in Seq(Nat), NEW n \in Nat,
         InOrder(OnTheWire(s) \o queue[s] \o p)
  PROVE  /\ InOrder(queue[s] \o p)
         /\ Latest(OnTheWire(s) \o queue[s] \o p, n) => Latest(queue[s] \o p, n)
<1> DEFINE q == queue[s]
           x == written[s]
<1>1. q \in Seq(Nat) /\ x \in Nat
  BY OutgoingTypes DEF MessageTypes
<1>2. OnTheWire(s) = IF x = 0 THEN <<>> ELSE <<x>>
  BY DEF OnTheWire
<1>3. /\ InOrder(OnTheWire(s) \o q \o p)
      /\ Latest(OnTheWire(s) \o queue[s] \o p, n) => Latest(OnTheWire(s) \o q \o p, n)
  OBVIOUS
<1> HIDE DEF q, x
<1>4. q \o p \in Seq(Nat)
  BY <1>1, ConcatProperties
<1>5. CASE x = 0
  <2>1. <<>> \o q = q
    BY <1>1, ConcatEmptySeq
  <2>2. OnTheWire(s) \o q \o p = q \o p
    BY <1>2, <1>5, <2>1
  <2>3. /\ InOrder(q \o p)
        /\ Latest(OnTheWire(s) \o queue[s] \o p, n) => Latest(q \o p, n)
    BY <1>3, <2>2
  <2> QED
    BY <2>3 DEF q
<1>6. CASE x # 0
  <2> DEFINE h == <<x>>
             r == q \o p
  <2>1. h \in Seq(Nat) /\ OnTheWire(s) = h
    BY <1>1, <1>2, <1>6
  <2>2. h \o r \in Seq(Nat) /\ h \o r # <<>> /\ Tail(h \o r) = r
    BY <1>1, <1>4, TailOfConcat
  <2> HIDE DEF h
  <2>3. OnTheWire(s) \o q \o p = h \o r
    BY <1>1, <2>1, ConcatAssociative
  <2> HIDE DEF r
  <2> DEFINE o == h \o r
  <2>4. /\ o \in Seq(Nat) /\ o # <<>> /\ InOrder(o) /\ Tail(o) = r
        /\ Latest(OnTheWire(s) \o queue[s] \o p, n) => Latest(o, n)
    BY <1>3, <2>2, <2>3
  <2> HIDE DEF o
  <2>5. InOrder(Tail(o)) /\ (Latest(o, n) => Latest(Tail(o), n))
    BY <2>4, OrderOfTail
  <2>6. InOrder(r) /\ (Latest(OnTheWire(s) \o queue[s] \o p, n) => Latest(r, n))
    BY <2>4, <2>5
  <2> QED
    BY <2>6 DEF q, r
<1> QED
  BY <1>5, <1>6

(* A session keeps its order when at most a close is posted to it, and     *)
(* nothing is sent to it.                                                  *)
LEMMA OrderKept ==
  ASSUME MessageTypes, MessageTypes', outCount \in Nat, NEW s \in Sessions, OrderFor(s),
         written'[s] = written[s], queue'[s] = queue[s],
         posted'[s] = posted[s] \/ posted'[s] = Append(posted[s], Close),
         s \in sessions' => s \in sessions /\ outCount' = outCount
  PROVE  OrderFor(s)'
<1> DEFINE o == Outgoing(s)
<1>1. o \in Seq(Nat) /\ InOrder(o) /\ (s \in sessions => Latest(o, outCount))
  BY OutgoingTypes DEF OrderFor
<1>2. Outgoing(s)' = o \/ Outgoing(s)' = Append(o, Close)
  <2>1. CASE posted'[s] = posted[s]
    BY <2>1 DEF Outgoing, OnTheWire
  <2>2. CASE posted'[s] = Append(posted[s], Close)
    <3> DEFINE a == OnTheWire(s) \o queue[s]
               p == posted[s]
    <3>1. Outgoing(s)' = a \o Append(p, Close)
      BY <2>2 DEF Outgoing, OnTheWire
    <3>2. a \in Seq(Nat) /\ p \in Seq(Nat) /\ Close \in Nat
      BY OutgoingTypes DEF Close
    <3>3. o = a \o p
      BY DEF Outgoing
    <3> HIDE DEF a, p, o
    <3>4. a \o Append(p, Close) = Append(a \o p, Close)
      BY <3>2, AppendToConcat
    <3> QED
      BY <3>1, <3>3, <3>4
  <2> QED
    BY <2>1, <2>2
<1> HIDE DEF o
<1>3. InOrder(Append(o, Close)) /\ (Latest(o, outCount) => Latest(Append(o, Close), outCount))
  BY <1>1, OrderWithClose
<1>4. InOrder(Outgoing(s)') /\ (s \in sessions' => Latest(Outgoing(s)', outCount'))
  BY <1>1, <1>2, <1>3
<1> QED
  BY <1>4 DEF OrderFor

(* A new session has nothing to write.                                     *)
LEMMA FreshOrder ==
  ASSUME NEW s \in Sessions,
         written'[s] = 0, queue'[s] = <<>>, posted'[s] = <<>>
  PROVE  OrderFor(s)'
<1>1. OnTheWire(s)' = <<>>
  BY DEF OnTheWire
<1>2. <<>> \o <<>> = <<>>
  BY EmptySeq, ConcatEmptySeq
<1>3. Outgoing(s)' = <<>>
  BY <1>1, <1>2 DEF Outgoing
<1>4. InOrder(<<>>) /\ \A n : Latest(<<>>, n)
  BY DEF InOrder, Latest
<1> QED
  BY <1>3, <1>4 DEF OrderFor

(* Each step keeps the order: only a send adds to it, for the sessions in  *)
(* sessions_, which have all messages before.                              *)
LEMMA OrderStep == WsInv /\ [Next]_vars => OrderInv'
<1> SUFFICES ASSUME WsInv, [Next]_vars PROVE OrderInv'
  OBVIOUS
<1> USE DEF vars, lifeVars, ioVars, acceptVars, writeVars, sessionVars,
           OwnerOnly, Handler, SessionHandler, Runs
<1>a. LifeTypes /\ SessionTypes /\ MessageTypes /\ TypeOK
  BY TypesTogether DEF WsInv
<1>b. MessageTypes' /\ outCount \in Nat /\ \A s \in Sessions : OrderFor(s)
  BY <1>a, MessageTypesStep DEF LifeTypes, WsInv, OrderInv
<1>c. ASSUME NEW t \in Sessions,
             written'[t] = written[t], queue'[t] = queue[t],
             posted'[t] = posted[t] \/ posted'[t] = Append(posted[t], Close),
             t \in sessions' => t \in sessions /\ outCount' = outCount
      PROVE  OrderFor(t)'
  BY <1>a, <1>b, <1>c, OrderKept
<1>d. (\A t \in Sessions : OrderFor(t)') => OrderInv'
  BY DEF OrderInv
<1>1. CASE StopSwap
  <2>1. ASSUME NEW t \in Sessions PROVE OrderFor(t)'
    BY <1>a, <1>1, <1>c DEF StopSwap, MessageTypes
  <2> QED
    BY <1>d, <2>1
<1>2. CASE StopPosts
  <2>1. ASSUME NEW t \in Sessions PROVE OrderFor(t)'
    BY <1>a, <1>2, <1>c, CloseIsPosted DEF StopPosts, ClosesPosted, MessageTypes
  <2> QED
    BY <1>d, <2>1
<1>3. CASE Send
  <2>1. ASSUME NEW t \in Sessions, t \notin sessions PROVE OrderFor(t)'
    BY <1>a, <1>c, <1>3, <2>1 DEF Send, MessageTypes
  <2>2. ASSUME NEW t \in Sessions, t \in sessions PROVE OrderFor(t)'
    <3> DEFINE a == OnTheWire(t) \o queue[t]
               p == posted[t]
               o == Outgoing(t)
               m == outCount + 1
    <3>1. /\ posted'[t] = Append(p, m) /\ outCount' = m /\ m \in Nat
          /\ written' = written /\ queue' = queue
      BY <1>a, <1>b, <1>3, <2>2 DEF Send, MessageTypes
    <3>2. Outgoing(t)' = a \o Append(p, m)
      BY <3>1 DEF Outgoing, OnTheWire
    <3>3. a \in Seq(Nat) /\ p \in Seq(Nat) /\ o \in Seq(Nat)
      BY <1>a, OutgoingTypes
    <3>4. o = a \o p
      BY DEF Outgoing
    <3>5. InOrder(o) /\ Latest(o, outCount)
      BY <1>b, <2>2 DEF OrderFor
    <3>6. m = outCount + 1
      OBVIOUS
    <3> HIDE DEF a, p, o, m
    <3>7. a \o Append(p, m) = Append(o, m)
      BY <3>1, <3>3, <3>4, AppendToConcat
    <3>8. InOrder(Append(o, m)) /\ Latest(Append(o, m), m)
      BY <1>b, <3>1, <3>3, <3>5, <3>6, OrderOfAppend
    <3>9. InOrder(Outgoing(t)') /\ Latest(Outgoing(t)', outCount')
      BY <3>1, <3>2, <3>7, <3>8
    <3> QED
      BY <3>9 DEF OrderFor
  <2> QED
    BY <1>d, <2>1, <2>2
<1>4. ASSUME NEW s \in Sessions, AcceptOk(s) PROVE OrderInv'
  <2>1. ASSUME NEW t \in Sessions, t # s PROVE OrderFor(t)'
    BY <1>a, <1>c, <1>4, <2>1 DEF AcceptOk, AcceptNext, DoAccept, Begins, MessageTypes
  <2>2. OrderFor(s)'
    <3>1. written'[s] = 0 /\ queue'[s] = <<>> /\ posted'[s] = <<>>
      BY <1>4 DEF AcceptOk, AcceptNext, DoAccept, Begins, WsInv, FreshInv
    <3> QED
      BY <3>1, FreshOrder
  <2> QED
    BY <1>d, <2>1, <2>2
<1>5. ASSUME NEW s \in Sessions, ResolveOk(s) PROVE OrderInv'
  <2>1. ASSUME NEW t \in Sessions, t # s PROVE OrderFor(t)'
    BY <1>a, <1>c, <1>5, <2>1 DEF ResolveOk, NextUnused, Begins, MessageTypes
  <2>2. OrderFor(s)'
    <3>1. written'[s] = 0 /\ queue'[s] = <<>> /\ posted'[s] = <<>>
      BY <1>5 DEF ResolveOk, NextUnused, Begins, WsInv, FreshInv
    <3> QED
      BY <3>1, FreshOrder
  <2> QED
    BY <1>d, <2>1, <2>2
<1>6. ASSUME NEW s \in Sessions, OpFails(s) PROVE OrderInv'
  <2>1. ASSUME NEW t \in Sessions PROVE OrderFor(t)'
    BY <1>a, <1>6, <1>c, CloseIsPosted
       DEF OpFails, Completes, RemoveSession, FailHandler, MessageTypes
  <2> QED
    BY <1>d, <2>1
<1>7. ASSUME NEW s \in Sessions, RunClose(s) PROVE OrderInv'
  <2>1. ASSUME NEW t \in Sessions, t # s PROVE OrderFor(t)'
    BY <1>a, <1>c, <1>7, <2>1 DEF RunClose, Posted, Begins, MessageTypes
  <2>2. OrderFor(s)'
    <3> DEFINE u == OnTheWire(s) \o queue[s]
               q == queue[s]
               p == posted[s]
               v == Tail(posted[s])
               o == Outgoing(s)
               n == outCount
    <3>1. /\ p # <<>> /\ Head(p) = Close
          /\ posted'[s] = v /\ queue'[s] = q /\ written'[s] = 0
          /\ sessions' = sessions /\ outCount' = n
      BY <1>a, <1>7 DEF RunClose, Posted, Begins, MessageTypes
    <3>2. u \in Seq(Nat) /\ q \in Seq(Nat) /\ p \in Seq(Nat) /\ n \in Nat
      BY <1>a, <1>b, OutgoingTypes
    <3>3. InOrder(o) /\ (s \in sessions => Latest(o, n)) /\ o = u \o p
      BY <1>b DEF OrderFor, Outgoing
    <3>4. v \in Seq(Nat) /\ p = <<Close>> \o v
      <4> HIDE DEF p
      <4>1. Tail(p) \in Seq(Nat) /\ p = <<Head(p)>> \o Tail(p)
        BY <3>1, <3>2, HeadBeforeTail
      <4> QED
        BY <3>1, <4>1 DEF p
    <3>5. Outgoing(s)' = q \o v
      <4>1. OnTheWire(s)' = <<>> /\ <<>> \o q = q
        BY <3>1, <3>2, ConcatEmptySeq DEF OnTheWire
      <4> QED
        BY <3>1, <4>1 DEF Outgoing
    <3>6. InOrder(u \o v) /\ (s \in sessions => Latest(u \o v, n))
      <4> HIDE DEF u, p, v, o, n
      <4> QED
        BY <3>2, <3>3, <3>4, OrderWithoutClose
    <3>7. InOrder(q \o v) /\ (s \in sessions => Latest(q \o v, n))
      <4> HIDE DEF p, v, o, n
      <4>1. u = OnTheWire(s) \o queue[s]
        OBVIOUS
      <4> QED
        BY <1>a, <3>2, <3>4, <3>6, WithoutTheWire
    <3>8. InOrder(Outgoing(s)') /\ (s \in sessions' => Latest(Outgoing(s)', outCount'))
      BY <3>1, <3>5, <3>7
    <3> QED
      BY <3>8 DEF OrderFor
  <2> QED
    BY <1>d, <2>1, <2>2
<1>8. ASSUME NEW s \in Sessions, RunWrite(s) PROVE OrderInv'
  <2>1. ASSUME NEW t \in Sessions, t # s PROVE OrderFor(t)'
    BY <1>a, <1>c, <1>8, <2>1 DEF RunWrite, Posted, ProcessQueue, MessageTypes
  <2>2. OrderFor(s)'
    <3> DEFINE w == OnTheWire(s)
               q == queue[s]
               p == posted[s]
    <3>1. /\ p # <<>> /\ posted'[s] = Tail(p) /\ written' = written
          /\ sessions' = sessions /\ outCount' = outCount
          /\ \/ queue'[s] = <<Head(p)>> /\ q = <<>>
             \/ queue'[s] = Append(q, Head(p))
      BY <1>a, <1>8 DEF RunWrite, Posted, ProcessQueue, MessageTypes
    <3>2. w \in Seq(Nat) /\ q \in Seq(Nat) /\ p \in Seq(Nat)
      BY <1>a, OutgoingTypes
    <3>3. <<Head(p)>> = Append(<<>>, Head(p))
      OBVIOUS
    <3>4. Outgoing(s)' = (w \o Append(q, Head(p))) \o Tail(p)
      BY <3>1, <3>3 DEF Outgoing, OnTheWire
    <3>5. Outgoing(s) = (w \o q) \o p
      BY DEF Outgoing
    <3>6. (w \o Append(q, Head(p))) \o Tail(p) = (w \o q) \o p
      <4> HIDE DEF w, q, p
      <4> QED
        BY <3>1, <3>2, MoveToQueue
    <3>7. Outgoing(s)' = Outgoing(s)
      BY <3>4, <3>5, <3>6
    <3> QED
      BY <1>b, <3>1, <3>7 DEF OrderFor
  <2> QED
    BY <1>d, <2>1, <2>2
<1>9. ASSUME NEW s \in Sessions, WriteOk(s) PROVE OrderInv'
  <2>1. ASSUME NEW t \in Sessions, t # s PROVE OrderFor(t)'
    BY <1>a, <1>c, <1>9, <2>1 DEF WriteOk, MaySucceed, NextWrite, ProcessQueue, MessageTypes
  <2>2. OrderFor(s)'
    <3> DEFINE q == queue[s]
               p == posted[s]
               n == outCount
    <3>1. q # <<>> /\ q \in Seq(1 .. MaxEvents) /\ q \in Seq(Nat) /\ p \in Seq(Nat)
      BY <1>a, <1>9, OutgoingTypes DEF WriteOk, WsInv, WriteInv, MessageTypes
    <3>2. Head(q) # 0 /\ q = <<Head(q)>> \o Tail(q)
      <4> HIDE DEF q
      <4>1. Head(q) \in 1 .. MaxEvents
        BY <3>1, HeadTailProperties
      <4>2. q = <<Head(q)>> \o Tail(q)
        BY <3>1, HeadBeforeTail
      <4> QED
        BY <4>1, <4>2
    <3>3. /\ queue'[s] = Tail(q) /\ written'[s] = Head(q) /\ posted' = posted
          /\ sessions' = sessions /\ outCount' = n
      BY <1>a, <1>9 DEF WriteOk, MaySucceed, NextWrite, ProcessQueue, MessageTypes
    <3>4. Outgoing(s)' = q \o p
      BY <3>2, <3>3 DEF Outgoing, OnTheWire
    <3>5. /\ InOrder(OnTheWire(s) \o queue[s] \o p)
          /\ s \in sessions => Latest(OnTheWire(s) \o queue[s] \o p, n)
      BY <1>b DEF OrderFor, Outgoing
    <3>6. InOrder(queue[s] \o p) /\ (s \in sessions => Latest(queue[s] \o p, n))
      <4>1. n \in Nat
        BY <1>b
      <4> HIDE DEF p, n
      <4> QED
        BY <1>a, <3>1, <3>5, <4>1, WithoutTheWire
    <3>7. InOrder(Outgoing(s)') /\ (s \in sessions' => Latest(Outgoing(s)', outCount'))
      BY <3>3, <3>4, <3>6
    <3> QED
      BY <3>7 DEF OrderFor
  <2> QED
    BY <1>d, <2>1, <2>2
<1>10. ASSUME NEW s \in Sessions, WriteFails(s) PROVE OrderInv'
  <2>1. ASSUME NEW t \in Sessions PROVE OrderFor(t)'
    BY <1>a, <1>10, <1>c, CloseIsPosted
       DEF WriteFails, Completes, RemoveSession, FailHandler, MessageTypes
  <2> QED
    BY <1>d, <2>1
<1>11. CASE EraseSession
  <2>1. ASSUME NEW t \in Sessions PROVE OrderFor(t)'
    BY <1>a, <1>11, <1>c DEF EraseSession, MessageTypes
  <2> QED
    BY <1>d, <2>1
<1>12. CASE UNCHANGED <<written, queue, posted, sessions, outCount>>
  <2>1. ASSUME NEW t \in Sessions PROVE OrderFor(t)'
    BY <1>a, <1>12, <1>c DEF MessageTypes
  <2> QED
    BY <1>d, <2>1
<1>13. \/ \E s \in Sessions :
             \/ AcceptOk(s) \/ ResolveOk(s) \/ OpFails(s) \/ RunClose(s)
             \/ RunWrite(s) \/ WriteOk(s) \/ WriteFails(s)
       \/ StopSwap \/ StopPosts \/ Send \/ EraseSession
       \/ UNCHANGED <<written, queue, posted, sessions, outCount>>
  BY DEF Next, OwnerStep, HandlerOf, Open, Start, Stop, Launch, StopAcceptor, StopIo,
         StopJoin, RunReturns, CallbackReturns, AcceptFails, ResolveFails, ConnectOk,
         HandshakeOk, ReadOk, CloseCompletes, PeerConnects, PeerOnly
<1> QED
  BY <1>1, <1>2, <1>3, <1>4, <1>5, <1>6, <1>7, <1>8, <1>9, <1>10, <1>11, <1>12, <1>13
-----------------------------------------------------------------------------
(* Nothing has happened.                                                   *)
LEMMA InitInv == Init => WsInv
<1> SUFFICES ASSUME Init PROVE WsInv
  OBVIOUS
<1>1. MaxEvents \in Nat
  BY WsAssumption
<1>2. LifeTypes
  <2>1. 0 \in 0 .. MaxEvents
    BY <1>1
  <2> QED
    BY <2>1 DEF Init, LifeTypes
<1>3. SessionTypes
  BY DEF Init, SessionTypes
<1>4. MessageTypes /\ delivered \in Seq(Messages)
  <2>1. /\ <<>> \in Seq({Close} \cup 1 .. MaxEvents)
        /\ <<>> \in Seq(1 .. MaxEvents) /\ <<>> \in Seq(Messages)
    BY EmptySeq
  <2>2. 0 \in 0 .. MaxEvents
    BY <1>1
  <2> QED
    BY <2>1, <2>2 DEF Init, MessageTypes
<1>5. LifeInv /\ RoleInv /\ FreshInv
  BY DEF Init, LifeInv, Stopping, RoleInv, FreshInv
<1>6. AccountInv /\ EraseInv /\ WriteInv
  BY DEF Init, AccountInv, Active, EraseInv, WriteInv
<1>7. ASSUME NEW s \in Sessions PROVE OrderFor(s)
  <2>1. /\ OnTheWire(s) = <<>> /\ queue[s] = <<>> /\ posted[s] = <<>> /\ s \notin sessions
    BY DEF Init, OnTheWire
  <2>2. <<>> \o <<>> = <<>>
    BY EmptySeq, ConcatEmptySeq
  <2>3. Outgoing(s) = <<>>
    BY <2>1, <2>2 DEF Outgoing
  <2> QED
    BY <2>1, <2>3 DEF OrderFor, InOrder
<1>8. OrderInv
  BY <1>7 DEF OrderInv
<1> QED
  BY <1>2, <1>3, <1>4, <1>5, <1>6, <1>8, TypesTogether DEF WsInv

(* The parts together.                                                     *)
LEMMA StepInv == WsInv /\ [Next]_vars => WsInv'
<1> SUFFICES ASSUME WsInv, [Next]_vars PROVE WsInv'
  OBVIOUS
<1>1. TypeOK'
  BY LifeTypesStep, SessionTypesStep, MessageTypesStep, DeliveredStep
     DEF TypeOK, LifeTypes, SessionTypes, MessageTypes
<1> QED
  BY <1>1, LifeStep, RoleStep, FreshStep, AccountStep, EraseStep, WriteStep, OrderStep
     DEF WsInv

(* So it always holds.                                                     *)
LEMMA Invariance == Spec => []WsInv
BY InitInv, StepInv, PTL DEF Spec

(* No session is forgotten while it may read or write, before a client     *)
(* restarts (comm_websocket.cpp, sessions_).                               *)
THEOREM SessionsCorrectness == Spec => []SessionsAccounted
<1>1. WsInv => SessionsAccounted
  BY DEF WsInv, AccountInv, Active, SessionsAccounted
<1> QED
  BY <1>1, Invariance, PTL

(* Messages to a session keep their order and have no gap, and a write is  *)
(* under way whenever some are queued, but after a failure                 *)
(* (comm_websocket.cpp, process_write_queue).                              *)
THEOREM WritesCorrectness == Spec => []WritesInOrder
<1>1. WsInv => WritesInOrder
  BY DEF WsInv, OrderInv, OrderFor, WriteInv, WritesInOrder
<1> QED
  BY <1>1, Invariance, PTL
-----------------------------------------------------------------------------
(* The refinement maps the initial states, and each step to a step or a    *)
(* stutter.                                                                *)
LEMMA InitContract == Init => Contract!Init
BY DEF Init, Contract!Init, Started

(* Start and the join begin and end what the contract calls started; a     *)
(* read delivers.                                                          *)
LEMMA StepContract == WsInv /\ [Next]_vars => [Contract!Next]_Contract!vars
<1> SUFFICES ASSUME WsInv, [Next]_vars PROVE Contract!Next \/ UNCHANGED Contract!vars
  OBVIOUS
<1> USE DEF Contract!vars
<1>1. CASE Start
  <2>1. ~Started /\ Started'
    BY <1>1 DEF Start, Started
  <2>2. thread # "callback" /\ thread' # "callback" /\ delivered' = delivered
    BY <1>1, <2>1 DEF Start, OwnerOnly, WsInv, LifeInv
  <2> QED
    BY <2>1, <2>2 DEF Contract!Next, Contract!Start
<1>2. CASE StopJoin
  <2>1. Started /\ Started' = FALSE
    BY <1>2 DEF StopJoin, Started, WsInv, LifeInv, Stopping, OwnerOnly
  <2>2. thread # "callback" /\ thread' # "callback" /\ delivered' = delivered
    BY <1>2 DEF StopJoin, MayJoin, OwnerOnly
  <2> QED
    BY <2>1, <2>2 DEF Contract!Next, Contract!Stop
<1>3. ASSUME NEW s \in Sessions, ReadOk(s) PROVE Contract!Next
  <2> DEFINE m == [session |-> s, num |-> NumReceived(s) + 1]
  <2>1. /\ thread = "run" /\ thread' = "callback" /\ delivered' = Append(delivered, m)
        /\ running' = running /\ owner' = owner
    BY <1>3 DEF ReadOk, SessionHandler, Handler, Runs, lifeVars
  <2>2. Started /\ Started'
    BY <2>1 DEF WsInv, LifeInv, Started
  <2>3. m \in Messages
    BY <1>3, NextMessage DEF WsInv
  <2> QED
    BY <2>1, <2>2, <2>3 DEF Contract!Next, Contract!Deliver
<1>4. CASE CallbackReturns
  <2>1. thread = "callback" /\ thread' = "run" /\ delivered' = delivered
    BY <1>4 DEF CallbackReturns
  <2>2. Started' = Started
    BY <1>4 DEF CallbackReturns, lifeVars, Started
  <2> QED
    BY <2>1, <2>2 DEF Contract!Next, Contract!Return
<1>5. CASE Stop \/ StopAcceptor \/ StopSwap \/ StopPosts \/ StopIo
  <2>1. Started /\ Started'
    BY <1>5 DEF Stop, StopAcceptor, StopSwap, StopPosts, StopIo, Started
  <2>2. thread' = thread /\ delivered' = delivered
    BY <1>5 DEF Stop, StopAcceptor, StopSwap, StopPosts, StopIo, OwnerOnly, ioVars
  <2> QED
    BY <2>1, <2>2
<1>6. CASE Open \/ Launch
  <2>1. Started' = Started
    BY <1>6 DEF Open, Launch, Started, lifeVars
  <2>2. thread' = thread /\ delivered' = delivered
    BY <1>6 DEF Open, Launch, OwnerOnly, ioVars
  <2> QED
    BY <2>1, <2>2
<1>7. CASE RunReturns
  <2>1. thread = "run" /\ thread' = "done" /\ delivered' = delivered
    BY <1>7 DEF RunReturns
  <2>2. Started' = Started
    BY <1>7 DEF RunReturns, lifeVars, Started
  <2> QED
    BY <2>1, <2>2
<1>8. ASSUME NEW s \in Sessions, OpFails(s) \/ WriteFails(s) PROVE UNCHANGED Contract!vars
  <2>1. thread = "run" /\ thread' = "erase" /\ delivered' = delivered
    BY <1>8 DEF OpFails, WriteFails, RemoveSession, FailHandler, Runs
  <2>2. Started' = Started
    BY <1>8 DEF OpFails, WriteFails, FailHandler, Runs, lifeVars, Started
  <2> QED
    BY <2>1, <2>2
<1>9. CASE EraseSession
  <2>1. thread = "erase" /\ thread' = "run" /\ delivered' = delivered
    BY <1>9 DEF EraseSession
  <2>2. Started' = Started
    BY <1>9 DEF EraseSession, lifeVars, Started
  <2> QED
    BY <2>1, <2>2
<1>10. CASE UNCHANGED <<lifeVars, thread, delivered>>
  BY <1>10 DEF lifeVars, Started
<1>11. \/ Start \/ StopJoin \/ CallbackReturns \/ Stop \/ StopAcceptor \/ StopSwap
       \/ StopPosts \/ StopIo \/ Open \/ Launch \/ RunReturns \/ EraseSession
       \/ \E s \in Sessions : ReadOk(s) \/ OpFails(s) \/ WriteFails(s)
       \/ UNCHANGED <<lifeVars, thread, delivered>>
  BY DEF Next, OwnerStep, HandlerOf, AcceptFails, ResolveFails, Send, AcceptOk,
         ResolveOk, ConnectOk, HandshakeOk, RunClose, CloseCompletes,
         RunWrite, WriteOk, PeerConnects, PeerOnly,
         SessionHandler, Handler, Runs, vars, ioVars, lifeVars
<1> QED
  BY <1>1, <1>2, <1>3, <1>4, <1>5, <1>6, <1>7, <1>8, <1>9, <1>10, <1>11

(* Callbacks come between start and the return of stop, one at a time.     *)
THEOREM WsRefinement == Spec => ImplementsContract
BY InitContract, StepContract, Invariance, PTL
   DEF Spec, ImplementsContract, Contract!Spec
================================================================================
