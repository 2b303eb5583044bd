-------------------------------- MODULE WsComm --------------------------------
(***************************************************************************)
(* WebSocketComm and WebSocketSession (src/comm_websocket.cpp): an owner   *)
(* that opens, starts and stops, a sender, and one thread that runs the    *)
(* handlers of the io_context.  A handler runs to its end before the next  *)
(* one, so each is a step, but for those that call the user back or remove *)
(* a session.                                                              *)
(*                                                                         *)
(* Boost.Asio and Beast are external.  An operation that was begun counts  *)
(* as work until its handler has run; it may complete whenever the peer    *)
(* and the network let it, and with an error once its session closes.      *)
(* What a session posts to its executor runs in order.  run() returns when *)
(* it is stopped or out of work, and what was not run then waits for the   *)
(* next run().                                                             *)
(***************************************************************************)
EXTENDS Integers, Sequences, SequencesExt, FiniteSets

CONSTANTS Sessions,    \* connections: one is made for each, once
          MaxEvents    \* bound: starts, connections, messages and failures, together

ASSUME WsAssumption ==
    /\ IsFiniteSet(Sessions)
    /\ Sessions \subseteq Nat \ {0}
    /\ MaxEvents \in Nat

Close == 0             \* the handler that close() posts; others are messages

VARIABLES
    role,        \* role_: "server" or "client"
    acceptor,    \* acceptor_ is open
    running,     \* is_running_flag_
    starts,      \* starts so far
    owner,       \* where the owner is in its call
    toClose,     \* raw_stop's sessions_to_close
    guard,       \* work_guard_ holds
    stopped,     \* ioc_ is stopped
    thread,      \* comm_thread_: "none" (not joinable) or what it is at
    busy,        \* the session the thread is at, in a callback or to erase it
    accepts,     \* accept operations are under way
    aborted,     \* handlers of accept operations that were cancelled are to run
    resolves,    \* resolve operations under way
    sessions,    \* sessions_; only raw_is_running sees their order
    conn,        \* conn[s]: the connection of s
    ops,         \* ops[s]: operations of s under way
    posted,      \* posted[s]: what s posted and has not run
    handshaken,  \* handshaken[s]: handshake_done_
    closing,     \* closing[s]: is_closing_
    writing,     \* writing[s]: is_writing_
    queue,       \* queue[s]: write_queue_
    written,     \* history: written[s]: the last message written to s; 0 once it closes
    outCount,    \* messages sent
    failed,      \* operations that failed so far, of sessions that did not close
    delivered    \* history: messages handed to on_raw_data_received

lifeVars == <<running, starts, owner, toClose, guard>>
ioVars == <<stopped, thread, busy>>
acceptVars == <<accepts, aborted, resolves>>
writeVars == <<writing, queue, written>>
sessionVars == <<conn, ops, posted, handshaken, closing, writeVars>>
vars == <<role, acceptor, lifeVars, ioVars, acceptVars, sessions, sessionVars,
          outCount, failed, delivered>>

Messages == [session : Sessions, num : 1 .. MaxEvents]

TypeOK ==
    /\ role \in {"server", "client"}
    /\ starts \in 0 .. MaxEvents
    /\ owner \in {"idle", "launch", "acceptor", "swap", "post", "io", "join"}
    /\ toClose \in SUBSET Sessions
    /\ thread \in {"none", "run", "callback", "erase", "done"}
    /\ busy \in Sessions \cup {0}
    /\ resolves \in 0 .. MaxEvents
    /\ sessions \in SUBSET Sessions
    /\ conn \in [Sessions -> {"unused", "backlog", "taken", "up", "down"}]
    /\ ops \in [Sessions -> SUBSET {"connect", "handshake", "read", "write", "close"}]
    /\ posted \in [Sessions -> Seq({Close} \cup 1 .. MaxEvents)]
    /\ queue \in [Sessions -> Seq(1 .. MaxEvents)]
    /\ written \in [Sessions -> 0 .. MaxEvents]
    /\ {handshaken, closing, writing} \subseteq [Sessions -> BOOLEAN]
    /\ {outCount, failed} \subseteq 0 .. MaxEvents
    /\ delivered \in Seq(Messages)
    /\ {acceptor, running, guard, stopped, accepts, aborted} \subseteq BOOLEAN

Init ==
    /\ role \in {"server", "client"}
    /\ acceptor = FALSE
    /\ running = FALSE
    /\ starts = 0
    /\ owner = "idle"
    /\ toClose = {}
    /\ guard = TRUE
    /\ stopped = FALSE
    /\ thread = "none"
    /\ busy = 0
    /\ accepts = FALSE /\ aborted = FALSE
    /\ resolves = 0
    /\ sessions = {}
    /\ conn = [s \in Sessions |-> "unused"]
    /\ ops = [s \in Sessions |-> {}]
    /\ posted = [s \in Sessions |-> <<>>]
    /\ handshaken = [s \in Sessions |-> FALSE]
    /\ closing = [s \in Sessions |-> FALSE]
    /\ writing = [s \in Sessions |-> FALSE]
    /\ queue = [s \in Sessions |-> <<>>]
    /\ written = [s \in Sessions |-> 0]
    /\ outCount = 0
    /\ failed = 0
    /\ delivered = <<>>

(* The bound; a failure that a close causes does not count.                *)
MoreEvents ==
    starts + outCount + failed + Len(delivered)
        + Cardinality({s \in Sessions : conn[s] # "unused"}) < MaxEvents

NextUnused(s) == /\ MoreEvents
                 /\ conn[s] = "unused"
                 /\ \A t \in Sessions : t < s => conn[t] # "unused"

(* What close() adds to what s has posted; a second close does nothing.    *)
WithClose(s) == IF closing[s] \/ Contains(posted[s], Close)
                THEN posted[s] ELSE Append(posted[s], Close)
-----------------------------------------------------------------------------
(* The owner: raw_open, raw_start, and raw_stop, which is raw_close too. *)

OwnerOnly == UNCHANGED <<role, sessionVars, outCount, failed, delivered>>

(* A server's acceptor is open, even if bind or listen failed: then every  *)
(* later open fails, and no peer connects.  A client takes its config.     *)
Open ==
    /\ owner = "idle"
    /\ ~running
    /\ role = "server" /\ ~acceptor
    /\ acceptor' = TRUE
    /\ OwnerOnly
    /\ UNCHANGED <<lifeVars, ioVars, acceptVars, sessions>>

Start ==
    /\ owner = "idle"
    /\ ~running
    /\ MoreEvents
    /\ running' = TRUE
    /\ starts' = starts + 1
    /\ owner' = "launch"
    /\ thread' = "run"
    /\ OwnerOnly
    /\ UNCHANGED <<acceptor, toClose, guard, stopped, busy, acceptVars, sessions>>

(* do_accept, and what raw_start does after the thread was started.        *)
DoAccept == accepts' = (accepts \/ acceptor)

Launch ==
    /\ owner = "launch"
    /\ owner' = "idle"
    /\ IF role = "server"
       THEN DoAccept /\ UNCHANGED resolves
       ELSE resolves' = resolves + 1 /\ UNCHANGED accepts
    /\ OwnerOnly
    /\ UNCHANGED <<acceptor, running, starts, toClose, guard, ioVars, aborted, sessions>>

(* Without is_running_flag_ a stop returns at once.                        *)
Stop ==
    /\ owner = "idle"
    /\ running
    /\ running' = FALSE
    /\ owner' = "acceptor"
    /\ OwnerOnly
    /\ UNCHANGED <<acceptor, starts, toClose, guard, ioVars, acceptVars, sessions>>

(* The accepts under way are cancelled, but for those that had taken a     *)
(* connection: their handler runs yet.  The rest of the backlog is reset.  *)
Backlog == {s \in Sessions : conn[s] = "backlog"}

StopAcceptor ==
    /\ owner = "acceptor"
    /\ owner' = "swap"
    /\ acceptor' = FALSE
    /\ accepts' = FALSE
    /\ \E taken \in SUBSET Backlog :
          /\ taken # {} => accepts
          /\ aborted' \in {aborted \/ accepts, aborted \/ (accepts /\ taken = {})}
          /\ conn' = [s \in Sessions |-> IF s \in taken THEN "taken"
                                       ELSE IF s \in Backlog THEN "down"
                                       ELSE conn[s]]
    /\ UNCHANGED <<role, running, starts, toClose, guard, ioVars, resolves, sessions,
                   ops, posted, handshaken, closing, writeVars, outCount, failed, delivered>>

StopSwap ==
    /\ owner = "swap"
    /\ owner' = "post"
    /\ toClose' = sessions
    /\ sessions' = {}
    /\ OwnerOnly
    /\ UNCHANGED <<acceptor, running, starts, guard, ioVars, acceptVars>>

(* Fault: the sessions are let go, and nobody closes them.                 *)
JustReleased == posted

ClosesPosted ==
    [s \in Sessions |-> IF s \in toClose THEN WithClose(s) ELSE posted[s]]

StopPosts ==
    /\ owner = "post"
    /\ owner' = "io"
    /\ posted' = ClosesPosted
    /\ toClose' = {}
    /\ UNCHANGED <<role, acceptor, running, starts, guard, ioVars, acceptVars, sessions,
                   conn, ops, handshaken, closing, writeVars, outCount, failed, delivered>>

(* The guard is given up for good, and the io_context is stopped at once,  *)
(* whether or not it has run what was posted.                              *)
StopIo ==
    /\ owner = "io"
    /\ owner' = "join"
    /\ guard' = FALSE
    /\ stopped' = TRUE
    /\ OwnerOnly
    /\ UNCHANGED <<acceptor, running, starts, toClose, thread, busy, acceptVars, sessions>>

(* Fault: a thread that is in a callback is not waited for.                *)
MayJoinBusy == thread \in {"done", "callback"}

MayJoin == thread = "done"

(* Joined; then ioc_.restart().                                            *)
StopJoin ==
    /\ owner = "join"
    /\ MayJoin
    /\ owner' = "idle"
    /\ thread' = "none"
    /\ stopped' = FALSE
    /\ OwnerOnly
    /\ UNCHANGED <<acceptor, running, starts, toClose, guard, busy, acceptVars, sessions>>
-----------------------------------------------------------------------------
(* The io_context. *)

Work == \/ guard
        \/ accepts \/ aborted \/ resolves > 0
        \/ \E s \in Sessions : ops[s] # {} \/ posted[s] # <<>>

RunReturns ==
    /\ thread = "run"
    /\ stopped \/ ~Work
    /\ thread' = "done"
    /\ stopped' = TRUE
    /\ UNCHANGED <<role, acceptor, lifeVars, busy, acceptVars, sessions, sessionVars,
                   outCount, failed, delivered>>

(* What every handler leaves alone, and those of a session.                *)
Runs == /\ thread = "run"
        /\ ~stopped
        /\ UNCHANGED <<role, acceptor, lifeVars, stopped, outCount>>

Handler == Runs /\ UNCHANGED failed
SessionHandler == Handler /\ UNCHANGED acceptVars

(* A handler that is given an error, which a close is a reason for.        *)
FailHandler(s) ==
    /\ Runs
    /\ UNCHANGED acceptVars
    /\ IF closing[s]
       THEN UNCHANGED failed
       ELSE MoreEvents /\ failed' = failed + 1

Begins(s, o) == ops' = [ops EXCEPT ![s] = @ \cup {o}]
Completes(s, o) == o \in ops[s] /\ ops' = [ops EXCEPT ![s] = @ \ {o}]
CompletesAndBegins(s, o, p) ==
    o \in ops[s] /\ ops' = [ops EXCEPT ![s] = (@ \ {o}) \cup {p}]

(* A success may be on its way to its handler when close() cancels.        *)
MaySucceed(s) == conn[s] = "up"

(* Fault: the next connection is not waited for.                           *)
AcceptedLast == accepts' = FALSE

(* on_accept without an error: a session, its handshake, the next accept.  *)
AcceptNext == UNCHANGED accepts

AcceptOk(s) ==
    /\ \/ conn[s] = "backlog" /\ accepts /\ AcceptNext
       \/ conn[s] = "taken" /\ DoAccept
    /\ conn' = [conn EXCEPT ![s] = "up"]
    /\ sessions' = sessions \cup {s}
    /\ Begins(s, "handshake")
    /\ Handler
    /\ UNCHANGED <<aborted, resolves, thread, busy, posted, handshaken, closing,
                   writeVars, delivered>>

(* on_accept with an error: of an acceptor that was closed, or of a        *)
(* connection that is gone; any other leaves everything as it is.          *)
AcceptFails ==
    /\ \/ /\ aborted
          /\ aborted' = FALSE
          /\ DoAccept
          /\ UNCHANGED <<conn, failed>>
       \/ /\ accepts
          /\ MoreEvents
          /\ failed' = failed + 1
          /\ \E s \in Backlog : conn' = [conn EXCEPT ![s] = "down"]
          /\ UNCHANGED <<accepts, aborted>>
    /\ Runs
    /\ UNCHANGED <<resolves, thread, busy, sessions, ops, posted, handshaken, closing,
                   writeVars, delivered>>

(* on_resolve: sessions_ is cleared and has one session.                   *)
ResolveOk(s) ==
    /\ resolves > 0
    /\ resolves' = resolves - 1
    /\ NextUnused(s)
    /\ sessions' = {s}
    /\ conn' = [conn EXCEPT ![s] = "up"]
    /\ Begins(s, "connect")
    /\ Handler
    /\ UNCHANGED <<accepts, aborted, thread, busy, posted, handshaken, closing,
                   writeVars, delivered>>

(* A client that could not resolve, connect or shake hands does not retry. *)
ResolveFails ==
    /\ resolves > 0
    /\ resolves' = resolves - 1
    /\ Handler
    /\ UNCHANGED <<accepts, aborted, thread, busy, sessions, sessionVars, delivered>>

ConnectOk(s) ==
    /\ MaySucceed(s)
    /\ CompletesAndBegins(s, "connect", "handshake")
    /\ SessionHandler
    /\ UNCHANGED <<thread, busy, sessions, conn, posted, handshaken, closing, writeVars,
                   delivered>>

(* WebSocketSession::on_accept and on_handshake.                           *)
HandshakeOk(s) ==
    /\ MaySucceed(s)
    /\ CompletesAndBegins(s, "handshake", "read")
    /\ handshaken' = [handshaken EXCEPT ![s] = TRUE]
    /\ SessionHandler
    /\ UNCHANGED <<thread, busy, sessions, conn, posted, closing, writeVars, delivered>>

(* WebSocketComm::remove_session: close, and then erase, under the lock.   *)
RemoveSession(s) ==
    /\ posted' = [posted EXCEPT ![s] = WithClose(s)]
    /\ thread' = "erase"
    /\ busy' = s

EraseSession ==
    /\ thread = "erase"
    /\ sessions' = sessions \ {busy}
    /\ thread' = "run"
    /\ busy' = 0
    /\ UNCHANGED <<role, acceptor, lifeVars, stopped, acceptVars, sessionVars, outCount,
                   failed, delivered>>

(* Any operation may fail: the peer left, the network broke, a close       *)
(* cancelled it, the stream was not open.                                  *)
OpFails(s) ==
    /\ \E o \in {"connect", "handshake", "read"} : Completes(s, o)
    /\ RemoveSession(s)
    /\ FailHandler(s)
    /\ UNCHANGED <<sessions, conn, handshaken, closing, writeVars, delivered>>

NumReceived(s) == Cardinality({i \in DOMAIN delivered : delivered[i].session = s})

ReadOk(s) ==
    /\ MaySucceed(s)
    /\ MoreEvents
    /\ Completes(s, "read")
    /\ thread' = "callback"
    /\ busy' = s
    /\ delivered' = Append(delivered, [session |-> s, num |-> NumReceived(s) + 1])
    /\ SessionHandler
    /\ UNCHANGED <<sessions, conn, posted, handshaken, closing, writeVars>>

(* The rest of on_read: the next read.                                     *)
CallbackReturns ==
    /\ thread = "callback"
    /\ thread' = "run"
    /\ busy' = 0
    /\ Begins(busy, "read")
    /\ UNCHANGED <<role, acceptor, lifeVars, stopped, acceptVars, sessions, conn, posted,
                   handshaken, closing, writeVars, outCount, failed, delivered>>

Posted(s, what) == /\ posted[s] # <<>>
                   /\ Head(posted[s]) = what
                   /\ posted' = [posted EXCEPT ![s] = Tail(@)]

(* The handler of close(): once, cancel what is under way, and close.      *)
RunClose(s) ==
    /\ Posted(s, Close)
    /\ Begins(s, "close")
    /\ handshaken' = [handshaken EXCEPT ![s] = FALSE]
    /\ closing' = [closing EXCEPT ![s] = TRUE]
    /\ written' = [written EXCEPT ![s] = 0]
    /\ SessionHandler
    /\ UNCHANGED <<thread, busy, sessions, conn, writing, queue, delivered>>

CloseCompletes(s) ==
    /\ Completes(s, "close")
    /\ conn' = [conn EXCEPT ![s] = "down"]
    /\ SessionHandler
    /\ UNCHANGED <<thread, busy, sessions, posted, handshaken, closing, writeVars,
                   delivered>>

(* process_write_queue: the front is written, if there is one.             *)
ProcessQueue(s, q) ==
    /\ queue' = [queue EXCEPT ![s] = q]
    /\ writing' = [writing EXCEPT ![s] = q # <<>>]
    /\ ops' = [ops EXCEPT ![s] = IF q = <<>> THEN @ \ {"write"} ELSE @ \cup {"write"}]

(* The handler that do_write posts.                                        *)
RunWrite(s) ==
    /\ \E m \in 1 .. MaxEvents :
          /\ Posted(s, m)
          /\ IF queue[s] = <<>> /\ ~writing[s]
             THEN ProcessQueue(s, <<m>>)
             ELSE /\ queue' = [queue EXCEPT ![s] = Append(@, m)]
                  /\ UNCHANGED <<writing, ops>>
    /\ SessionHandler
    /\ UNCHANGED <<thread, busy, sessions, conn, handshaken, closing, written, delivered>>

(* Fault: on_write does not go on with the queue.                          *)
StopsWriting(s) == /\ queue' = [queue EXCEPT ![s] = Tail(@)]
                   /\ writing' = [writing EXCEPT ![s] = FALSE]
                   /\ ops' = [ops EXCEPT ![s] = @ \ {"write"}]

(* on_write without an error: the front is done with, the next begins.     *)
NextWrite(s) == ProcessQueue(s, Tail(queue[s]))

WriteOk(s) ==
    /\ MaySucceed(s)
    /\ handshaken[s] \/ closing[s]
    /\ "write" \in ops[s]
    /\ written' = [written EXCEPT ![s] = Head(queue[s])]
    /\ NextWrite(s)
    /\ SessionHandler
    /\ UNCHANGED <<thread, busy, sessions, conn, posted, handshaken, closing, delivered>>

(* on_write with an error leaves the queue as it is.                       *)
WriteFails(s) ==
    /\ Completes(s, "write")
    /\ writing' = [writing EXCEPT ![s] = FALSE]
    /\ RemoveSession(s)
    /\ FailHandler(s)
    /\ UNCHANGED <<sessions, conn, handshaken, closing, queue, written, delivered>>
-----------------------------------------------------------------------------
(* The sender, and the peers, which are external. *)

(* raw_send, once it has found is_running_flag_ set, perhaps long before:  *)
(* under sessions_mtx_ the message is posted to every session.             *)
Send ==
    /\ starts > 0
    /\ sessions # {}
    /\ MoreEvents
    /\ outCount' = outCount + 1
    /\ posted' = [s \in Sessions |-> IF s \in sessions
                                     THEN Append(posted[s], outCount + 1) ELSE posted[s]]
    /\ UNCHANGED <<role, acceptor, lifeVars, ioVars, acceptVars, sessions, conn, ops,
                   handshaken, closing, writeVars, failed, delivered>>

PeerOnly == UNCHANGED <<role, acceptor, lifeVars, ioVars, acceptVars, sessions, ops,
                        posted, handshaken, closing, writeVars, outCount, failed, delivered>>

PeerConnects(s) == /\ role = "server"
                   /\ acceptor
                   /\ NextUnused(s)
                   /\ conn' = [conn EXCEPT ![s] = "backlog"]
                   /\ PeerOnly

-----------------------------------------------------------------------------
OwnerStep == \/ Launch \/ StopAcceptor \/ StopSwap \/ StopPosts
             \/ StopIo \/ StopJoin

HandlerOf(s) == \/ AcceptOk(s) \/ ResolveOk(s) \/ ConnectOk(s) \/ HandshakeOk(s)
                \/ OpFails(s) \/ ReadOk(s) \/ RunClose(s) \/ CloseCompletes(s)
                \/ RunWrite(s) \/ WriteOk(s) \/ WriteFails(s)

Next == \/ Open \/ Start \/ Stop \/ OwnerStep
        \/ RunReturns \/ CallbackReturns \/ EraseSession \/ AcceptFails \/ ResolveFails
        \/ Send
        \/ \E s \in Sessions : HandlerOf(s) \/ PeerConnects(s)

Spec == Init /\ [][Next]_vars

(* A call that was entered goes on, the thread is scheduled, a callback    *)
(* returns, and an accept completes when a connection waits.               *)
FairSpec == /\ Spec
            /\ WF_vars(OwnerStep)
            /\ WF_vars(RunReturns)
            /\ WF_vars(CallbackReturns \/ EraseSession)
            /\ \A s \in Sessions : WF_vars(AcceptOk(s))
-----------------------------------------------------------------------------
(* No session is forgotten while it may read or write: whoever is          *)
(* connected and not closing is in sessions_, or on its way from there to  *)
(* a close.  A client's on_resolve clears sessions_, which breaks this     *)
(* once a session was left behind by a stop, that is after a restart.      *)
SessionsAccounted ==
    /\ TypeOK
    /\ (role = "server" \/ starts < 2) =>
        \A s \in Sessions :
            (ops[s] # {} /\ ~closing[s]) =>
                s \in sessions \cup toClose \/ Contains(posted[s], Close)

(* Messages to a session keep their order and have no gap, from the wire   *)
(* over the write queue to what is posted, where the close may be among    *)
(* them; one is being written whenever some are queued, but for a session  *)
(* whose write failed and that closes.                                     *)
InOrder(q) ==
    \A i, j \in DOMAIN q :
        /\ i < j /\ q[i] # Close /\ q[j] # Close
        /\ \A k \in i + 1 .. j - 1 : q[k] = Close
        => q[j] = q[i] + 1

OnTheWire(s) == IF written[s] = 0 THEN <<>> ELSE <<written[s]>>

Outgoing(s) == OnTheWire(s) \o queue[s] \o posted[s]

WritesInOrder ==
    \A s \in Sessions :
        /\ InOrder(Outgoing(s))
        /\ writing[s] <=> "write" \in ops[s]
        /\ queue[s] # <<>> => writing[s] \/ closing[s] \/ Contains(posted[s], Close)

(* Seen from the endpoint, a WebSocketComm is a CommContract.              *)
Started == running \/ owner \in {"acceptor", "swap", "post", "io", "join"}

Contract == INSTANCE CommContract WITH started <- Started, Packets <- Messages,
                                       inCallback <- (thread = "callback")

ImplementsContract == Contract!Spec

(* A peer that waits is accepted, but perhaps after a restart: there is no *)
(* work_guard_ any more, and run() may return before do_accept.            *)
PeersServed ==
    \A s \in Sessions :
        conn[s] = "backlog" ~> conn[s] # "backlog" \/ ~running \/ starts > 1
===============================================================================
