------------------------------ MODULE Container ------------------------------
(***************************************************************************)
(* EndpointContainer (src/endpoint_container.cpp): the endpoints of one    *)
(* node, opened, started, stopped and closed together or one by one, by    *)
(* any number of threads under mtx_.  A call holds mtx_ to its end, the    *)
(* joins of the endpoints' receive threads included, and those threads run *)
(* subscribers that may call the container themselves.                     *)
(*                                                                         *)
(* cache_ never holds two endpoints of one id, so an id stands for its     *)
(* endpoint.  A reference someone keeps to an endpoint that left cache_    *)
(* has no state here: such an endpoint is closed, and the container owns   *)
(* the life cycle (endpoint_container.hpp).                                *)
(***************************************************************************)
EXTENDS Integers, Sequences, Functions

CONSTANTS Ids,        \* endpoint ids
          Lists,      \* lists of ids a container config may have for the node
          Callers,    \* threads that call the container
          Nobody,     \* who holds mtx_ when no caller does
          AnyId,      \* the id of a call that is about no id
          CallsBack,  \* subscribers call the container
          Usage       \* callers keep to the usage in endpoint_container.hpp

ASSUME ContainerAssumption == /\ Lists \subseteq Seq(Ids)
                              /\ Nobody \notin Callers
                              /\ AnyId \notin Ids
                              /\ CallsBack \in BOOLEAN
                              /\ Usage \in BOOLEAN

VARIABLES config,      \* the endpoints array of the node; it does not change
          lock,        \* mtx_: the caller that holds it
          want,        \* want[t]: the call t is in
          phase,       \* what the holder is doing
          toOpen,      \* entries the holder has still to open or create
          toVisit,     \* endpoints the holder has still to start, or to stop
                       \* and close
          target,      \* the endpoint it is stopping
          initialized, \* initialized_
          cached,      \* ids in cache_
          opened,      \* opened[i]: endpoint i is open
          running,     \* running[i]: its comm was started and not stopped
          receiver     \* receiver[i]: its comm's receive thread

holderVars == <<phase, toOpen, toVisit, target>>
endpointVars == <<opened, running, receiver>>
vars == <<config, lock, want, holderVars, initialized, cached, endpointVars>>

(* "look" stands for the calls that change nothing of what is modelled:    *)
(* ref, is_running_all, list_endpoint_ids, post_start and post_start_all.  *)
Calls == [op : {"channels", "initialize", "startAll", "stopAll", "look"}, id : {AnyId}]
         \cup [op : {"start", "stop"}, id : Ids]
Idle == [op |-> "none", id |-> AnyId]

TypeOK ==
    /\ config \in Lists
    /\ lock \in Callers \cup {Nobody}
    /\ want \in [Callers -> Calls \cup {Idle}]
    /\ phase \in {"none", "open", "start", "stop", "join"}
    /\ toOpen \in Seq(Ids)
    /\ toVisit \in SUBSET Ids
    /\ target \in Ids \cup {AnyId}
    /\ initialized \in BOOLEAN
    /\ cached \in SUBSET Ids
    /\ opened \in [Ids -> BOOLEAN]
    /\ running \in [Ids -> BOOLEAN]
    /\ receiver \in [Ids -> {"none", "loop", "callback", "asks", "exited"}]

Init ==
    /\ config \in Lists
    /\ lock = Nobody
    /\ want = [t \in Callers |-> Idle]
    /\ phase = "none"
    /\ toOpen = <<>>
    /\ toVisit = {}
    /\ target = AnyId
    /\ initialized = FALSE
    /\ cached = {}
    /\ opened = [i \in Ids |-> FALSE]
    /\ running = [i \in Ids |-> FALSE]
    /\ receiver = [i \in Ids |-> "none"]
-----------------------------------------------------------------------------
(* A call, up to where it holds mtx_. *)

Pending(op) == \E t \in Callers : want[t].op = op

(* The usage: create_pdu_lchannels is not called after initialize.         *)
AsUsed(c) == /\ c.op = "channels" => ~initialized /\ ~Pending("initialize")
             /\ c.op = "initialize" => ~Pending("channels")

Call(t, c) ==
    /\ want[t] = Idle
    /\ Usage => AsUsed(c)
    /\ want' = [want EXCEPT ![t] = c]
    /\ UNCHANGED <<config, lock, holderVars, initialized, cached, endpointVars>>

Begin(t, op) == lock = Nobody /\ want[t].op = op

Return(t) == want' = [want EXCEPT ![t] = Idle]

Look(t) ==
    /\ Begin(t, "look")
    /\ Return(t)
    /\ UNCHANGED <<config, lock, holderVars, initialized, cached, endpointVars>>

(* initialize on a container that is initialized.                          *)
InitializeRefused(t) ==
    /\ Begin(t, "initialize")
    /\ initialized
    /\ Return(t)
    /\ UNCHANGED <<config, lock, holderVars, initialized, cached, endpointVars>>

(* The other calls on one that is not, and start or stop of an endpoint    *)
(* that is not there (for stop, that is no error).                         *)
NothingToDo(t) ==
    /\ \/ /\ \E op \in {"startAll", "stopAll", "start", "stop"} : Begin(t, op)
          /\ ~initialized
       \/ /\ Begin(t, "start") \/ Begin(t, "stop")
          /\ want[t].id \notin cached
    /\ Return(t)
    /\ UNCHANGED <<config, lock, holderVars, initialized, cached, endpointVars>>

Loads(t) == \/ Begin(t, "channels")
            \/ Begin(t, "initialize") /\ ~initialized

(* The config file is missing or malformed, or has nothing for the node.   *)
LoadFails(t) ==
    /\ Loads(t)
    /\ Return(t)
    /\ UNCHANGED <<config, lock, holderVars, initialized, cached, endpointVars>>

Load(t) ==
    /\ Loads(t)
    /\ lock' = t
    /\ phase' = "open"
    /\ toOpen' = config
    /\ UNCHANGED <<config, want, toVisit, target, initialized, cached, endpointVars>>

Visit(t, step, ids) ==
    /\ lock' = t
    /\ phase' = step
    /\ toVisit' = ids
    /\ UNCHANGED <<config, want, toOpen, target, initialized, cached, endpointVars>>

StartAll(t) == Begin(t, "startAll") /\ initialized /\ Visit(t, "start", cached)

StopAll(t) == Begin(t, "stopAll") /\ initialized /\ Visit(t, "stop", cached)

StartOne(t) == /\ Begin(t, "start") /\ initialized
               /\ want[t].id \in cached
               /\ Visit(t, "start", {want[t].id})

StopOne(t) == /\ Begin(t, "stop") /\ initialized
              /\ want[t].id \in cached
              /\ Visit(t, "stop", {want[t].id})
-----------------------------------------------------------------------------
(* What the holder t of mtx_ does. *)

Release(t) == /\ lock' = Nobody
              /\ phase' = "none"
              /\ Return(t)

(* create_ makes the endpoint if cache_ has none of its id; initialize     *)
(* opens it, create_pdu_lchannels only creates its channels.               *)
OpenNext(t) ==
    /\ lock = t /\ phase = "open" /\ toOpen # <<>>
    /\ cached' = cached \cup {Head(toOpen)}
    /\ opened' = IF want[t].op = "initialize"
                 THEN [opened EXCEPT ![Head(toOpen)] = TRUE] ELSE opened
    /\ toOpen' = Tail(toOpen)
    /\ UNCHANGED <<config, lock, want, phase, toVisit, target, initialized,
                   running, receiver>>

(* Fault: the endpoints opened so far are forgotten, not closed.           *)
OpenFailsForgets(t) ==
    /\ lock = t /\ phase = "open" /\ toOpen # <<>>
    /\ cached' = {}
    /\ phase' = "stop"
    /\ toOpen' = <<>>
    /\ UNCHANGED <<config, lock, want, toVisit, target, initialized, endpointVars>>

(* One fails: every endpoint in cache_ is closed, that one too.            *)
OpenFails(t) ==
    /\ lock = t /\ phase = "open" /\ toOpen # <<>>
    /\ cached' = cached \cup {Head(toOpen)}
    /\ toVisit' = cached'
    /\ phase' = "stop"
    /\ toOpen' = <<>>
    /\ UNCHANGED <<config, lock, want, target, initialized, endpointVars>>

OpenDone(t) ==
    /\ lock = t /\ phase = "open" /\ toOpen = <<>>
    /\ initialized' = (initialized \/ want[t].op = "initialize")
    /\ Release(t)
    /\ UNCHANGED <<config, toOpen, toVisit, target, cached, endpointVars>>

(* An endpoint that is open and has no receive thread gets one, unless its *)
(* comm fails to start or needs none; a failure does not end start_all.    *)
StartNext(t, i) ==
    /\ lock = t /\ phase = "start" /\ i \in toVisit
    /\ toVisit' = toVisit \ {i}
    /\ \/ /\ opened[i] /\ receiver[i] = "none"
          /\ running' = [running EXCEPT ![i] = TRUE]
          /\ receiver' = [receiver EXCEPT ![i] = "loop"]
       \/ UNCHANGED <<running, receiver>>
    /\ UNCHANGED <<config, lock, want, phase, toOpen, target, initialized,
                   cached, opened>>

StartDone(t) ==
    /\ lock = t /\ phase = "start" /\ toVisit = {}
    /\ Release(t)
    /\ UNCHANGED <<config, toOpen, toVisit, target, initialized, cached, endpointVars>>

(* Fault: the receive thread is not told to stop.                          *)
StopNextUntold(t, i) ==
    /\ lock = t /\ phase = "stop" /\ i \in toVisit
    /\ toVisit' = toVisit \ {i}
    /\ target' = i
    /\ phase' = "join"
    /\ UNCHANGED <<config, lock, want, toOpen, initialized, cached, endpointVars>>

(* stop of an endpoint, or its close when nobody stopped it.               *)
StopNext(t, i) ==
    /\ lock = t /\ phase = "stop" /\ i \in toVisit
    /\ toVisit' = toVisit \ {i}
    /\ target' = i
    /\ running' = [running EXCEPT ![i] = FALSE]
    /\ phase' = "join"
    /\ UNCHANGED <<config, lock, want, toOpen, initialized, cached, opened, receiver>>

(* Fault: the receive thread is not waited for.                            *)
Detach(t) ==
    /\ lock = t /\ phase = "join"
    /\ opened' = [opened EXCEPT ![target] = FALSE]
    /\ target' = AnyId
    /\ phase' = "stop"
    /\ UNCHANGED <<config, lock, want, toOpen, toVisit, initialized, cached,
                   running, receiver>>

Join(t) ==
    /\ lock = t /\ phase = "join"
    /\ receiver[target] \in {"none", "exited"}
    /\ receiver' = [receiver EXCEPT ![target] = "none"]
    /\ opened' = [opened EXCEPT ![target] = FALSE]
    /\ target' = AnyId
    /\ phase' = "stop"
    /\ UNCHANGED <<config, lock, want, toOpen, toVisit, initialized, cached, running>>

(* Fault: stop of one endpoint leaves it in cache_.                        *)
StopDoneKeeps(t) ==
    /\ lock = t /\ phase = "stop" /\ toVisit = {}
    /\ cached' = IF want[t].op = "stop" THEN cached ELSE {}
    /\ initialized' = (initialized /\ want[t].op # "stopAll")
    /\ Release(t)
    /\ UNCHANGED <<config, toOpen, toVisit, target, endpointVars>>

(* stop erases its endpoint; stop_all and a roll-back clear cache_, and    *)
(* only stop_all ends the initialization.                                  *)
StopDone(t) ==
    /\ lock = t /\ phase = "stop" /\ toVisit = {}
    /\ cached' = IF want[t].op = "stop" THEN cached \ {want[t].id} ELSE {}
    /\ initialized' = (initialized /\ want[t].op # "stopAll")
    /\ Release(t)
    /\ UNCHANGED <<config, toOpen, toVisit, target, endpointVars>>
-----------------------------------------------------------------------------
(* The receive thread of endpoint i. *)

Goto(i, step) ==
    /\ receiver' = [receiver EXCEPT ![i] = step]
    /\ UNCHANGED <<config, lock, want, holderVars, initialized, cached, opened,
                   running>>

Deliver(i) == receiver[i] = "loop" /\ running[i] /\ Goto(i, "callback")

(* A subscriber calls ref or is_running_all, which wait for mtx_.          *)
Ask(i) == CallsBack /\ receiver[i] = "callback" /\ Goto(i, "asks")

Answered(i) == receiver[i] = "asks" /\ lock = Nobody /\ Goto(i, "callback")

CallbackReturns(i) == receiver[i] = "callback" /\ Goto(i, "loop")

Exit(i) == receiver[i] = "loop" /\ ~running[i] /\ Goto(i, "exited")
-----------------------------------------------------------------------------
BeginStep(t) == \/ Look(t) \/ InitializeRefused(t) \/ NothingToDo(t)
                \/ LoadFails(t) \/ Load(t)
                \/ StartAll(t) \/ StopAll(t) \/ StartOne(t) \/ StopOne(t)

HolderStep(t) == \/ OpenNext(t) \/ OpenFails(t) \/ OpenDone(t)
                 \/ \E i \in Ids : StartNext(t, i) \/ StopNext(t, i)
                 \/ StartDone(t) \/ Join(t) \/ StopDone(t)

CallbackStep(i) == Ask(i) \/ Answered(i) \/ CallbackReturns(i)

Next == \/ \E t \in Callers : \/ \E c \in Calls : Call(t, c)
                             \/ BeginStep(t) \/ HolderStep(t)
        \/ \E i \in Ids : Deliver(i) \/ CallbackStep(i) \/ Exit(i)

Spec == Init /\ [][Next]_vars

(* The holder of mtx_ and the receive threads are scheduled, a stopped     *)
(* thread exits, and a callback comes to its end: it does not ask for      *)
(* ever.  Nothing is assumed of who gets mtx_ next.                        *)
FairSpec == /\ Spec
            /\ \A t \in Callers : WF_vars(HolderStep(t))
            /\ \A i \in Ids : WF_vars(Exit(i)) /\ SF_vars(CallbackReturns(i))
-----------------------------------------------------------------------------
(* Endpoints that have something to close. *)
Active(i) == opened[i] \/ receiver[i] # "none"

(* Whatever is open or has a receive thread is in cache_, where stop_all   *)
(* finds it: no failed initialize, roll-back or stop of one endpoint       *)
(* leaves an endpoint running that nobody can stop.                        *)
Owned == \A i \in Ids : Active(i) => i \in cached

(* ref and is_running_all of an initialized container meet only endpoints  *)
(* that are open, when the usage is kept: none half made, none closed.     *)
RefsAreOpen ==
    (Usage /\ initialized /\ lock = Nobody) => \A i \in cached : opened[i]

(* Before initialize, after one that failed at any endpoint, and after     *)
(* stop_all, no endpoint is open and no receive thread runs.               *)
NothingLeftOpen ==
    (~initialized /\ lock = Nobody) => \A i \in Ids : ~Active(i) /\ ~running[i]

(* What the holder of mtx_ relies on: the phase fits its call; what is     *)
(* still to be erased when it is done is closed or on its list, and        *)
(* nothing else is on it; what it has not opened yet is on its list; an    *)
(* endpoint is told to stop before its thread is joined.  With the three   *)
(* invariants above, it is inductive.                                      *)
HolderFits ==
    /\ lock = Nobody <=> phase = "none"
    /\ phase # "none" => \/ phase = "open" /\ want[lock].op \in {"channels", "initialize"}
                         \/ phase = "start" /\ want[lock].op \in {"startAll", "start"}
                         \/ /\ phase \in {"stop", "join"}
                            /\ want[lock].op \in {"channels", "initialize", "stopAll", "stop"}
    /\ phase # "none" =>
          (want[lock].op \in {"startAll", "start", "stopAll", "stop"} <=> initialized)
          \/ want[lock].op = "channels"
    /\ phase = "join" <=> target # AnyId

Erased(i) == want[lock].op # "stop" \/ i = want[lock].id

HolderCloses ==
    /\ phase \in {"stop", "join"} =>
          \A i \in Ids : /\ i \in toVisit \cup {target} => Erased(i)
                         /\ Active(i) /\ Erased(i) => i \in toVisit \cup {target}
    /\ \A i \in Ids : receiver[i] \in {"none", "exited"} => ~running[i]
    /\ phase = "join" => ~running[target]

HolderOpens ==
    /\ \A i \in cached : i \in Range(config)
    /\ phase = "open" => \A i \in Range(toOpen) : i \in Range(config)
    /\ phase = "open" /\ want[lock].op = "initialize" =>
          \A i \in cached : opened[i] \/ i \in Range(toOpen)
    /\ phase = "open" /\ want[lock].op = "channels" /\ ~initialized =>
          \A i \in Ids : ~Active(i) /\ ~running[i]
    /\ Usage /\ initialized /\ phase # "none" =>
          \A i \in cached : opened[i] \/ (phase \in {"stop", "join"} /\ Erased(i))

UsageKept == (Usage /\ Pending("channels")) => ~initialized /\ ~Pending("initialize")

Bookkeeping == TypeOK /\ HolderFits /\ HolderCloses /\ HolderOpens /\ UsageKept

(* The one way a call can hold mtx_ for ever: it joins the receive thread  *)
(* of an endpoint whose subscriber waits for mtx_.                         *)
SelfWait == phase = "join" /\ receiver[target] = "asks"

(* Every call that got mtx_ returns, or is in that wait.                   *)
HolderReturns == lock # Nobody ~> lock = Nobody \/ SelfWait
==============================================================================
