-------------------------------- MODULE ShmComm --------------------------------
(***************************************************************************)
(* PduCommShm (src/comm_shm.cpp) over its two implementations              *)
(* (src/comm_shm_poll.cpp, src/comm_shm_callback.cpp): how a write to a    *)
(* channel of the shared memory becomes a call of an instance's callback.  *)
(*                                                                         *)
(* Several instances live in one process and share the static map from     *)
(* event numbers to instances.  One application thread opens, starts,      *)
(* polls, stops, closes and destroys them.  A poll instance dispatches on  *)
(* that thread, in process_recv_events; the events of a callback instance  *)
(* are dispatched by a thread of the Hakoniwa core library.                *)
(***************************************************************************)
EXTENDS PduDefinition, Integers, Sequences, FiniteSets, SequencesExt

CONSTANTS Insts,        \* PduCommShm objects of the process
          PduFile,      \* the definition file of the process
          Deployments,  \* the comm configs to look at
          Nobody,       \* stands for "no instance" and "no key"
          MaxRegs,      \* size of the core's table of registrations
          MaxWrites     \* bound: writes to all channels together

(* Of a comm config: impl_type, "absent" where there is no such instance,  *)
(* and the PDUs with notify_on_recv.                                       *)
Configs == [impl : {"poll", "callback", "absent"}, pdus : Seq(Robots \X Names)]
Keys == Robots \X Channels

(* A process uses one of the core's two interfaces.                        *)
ASSUME ShmAssumption ==
    /\ PduFile \in Files
    /\ Deployments \subseteq [Insts -> Configs]
    /\ \A d \in Deployments :
          ~ \E i, j \in Insts : d[i].impl = "poll" /\ d[j].impl = "callback"
    /\ Nobody \notin Insts \cup Keys
    /\ MaxRegs \in Nat
    /\ MaxWrites \in Nat

Ids == 1 .. MaxRegs
Registrations == [inst : Insts, key : Keys, id : Ids]

VARIABLES
    process,     \* "up", or what undefined behaviour did: "freed" memory was
                 \* used, or a map was "torn" by an unlocked insertion
    config,      \* config[i]: the comm config of i; it does not change
    pduDef,      \* pdu_def_, the same for all; it does not change
    alive,       \* alive[i]: not destroyed
    notify,      \* notify[i]: recv_notify_keys_
    running,     \* running[i]: running_
    posted,      \* posted[i]: post_start was called since start
    eventMap,    \* event_id_to_instance_map_, static
    keyMap,      \* keyMap[i]: event_id_to_key_map_
    registered,  \* registered[i]: registered_event_ids_, as a set
    step,        \* where the application thread is in its call
    target,      \* the instance the call is of
    todo,        \* post_start: keys it has still to register
    newId,       \* post_start: the event number it has just got
    fresh,       \* post_start: newly_registered_ids
    entries,     \* process_recv_events: poll_entries_ it has still to check
    handler,     \* the dispatch of one event, by whichever thread does it
    regs,        \* external: registrations with the core; for a poll
                 \* instance also its poll_entries_
    raised,      \* external: registrations with an event to tell of
    written,     \* external: written[k], the number of writes to the channel
    writes,      \* bound: the number of writes to all channels
    read,        \* history: read[i][k], the newest write to k when i last
                 \* read it, for its callback or in vain
    leaked       \* history: leaked[i], a post_start of i failed and dropped
                 \* event numbers of an earlier one

configVars == <<config, pduDef>>
instVars == <<alive, notify, running, posted>>
mapVars == <<eventMap, keyMap, registered>>
callVars == <<step, target, todo, newId, fresh, entries>>
coreVars == <<regs, raised, written, writes>>
vars == <<process, configVars, instVars, mapVars, callVars, handler, coreVars,
          read, leaked>>

Handlers == [at : {"idle", "lookup", "handle", "find", "read", "callback"},
             reg : Registrations \cup {Nobody}, inst : Insts \cup {Nobody},
             key : Keys \cup {Nobody}]
NoHandler == [at |-> "idle", reg |-> Nobody, inst |-> Nobody, key |-> Nobody]

TypeOK ==
    /\ process \in {"up", "freed", "torn"}
    /\ config \in Deployments
    /\ DOMAIN pduDef \subseteq Robots \X Names
    /\ alive \in [Insts -> BOOLEAN]
    /\ notify \in [Insts -> Seq(Keys)]
    /\ running \in [Insts -> BOOLEAN]
    /\ posted \in [Insts -> BOOLEAN]
    /\ eventMap \in [Ids -> Insts \cup {Nobody}]
    /\ keyMap \in [Insts -> [Ids -> Keys \cup {Nobody}]]
    /\ registered \in [Insts -> SUBSET Ids]
    /\ step \in {"idle", "register", "insert", "publish", "poll"}
    /\ target \in Insts \cup {Nobody}
    /\ todo \in Seq(Keys)
    /\ newId \in Ids \cup {0}
    /\ fresh \in SUBSET Ids
    /\ entries \in SUBSET Registrations
    /\ handler \in Handlers
    /\ regs \in SUBSET Registrations
    /\ raised \in SUBSET regs
    /\ written \in [Keys -> 0 .. MaxWrites]
    /\ writes \in 0 .. MaxWrites
    /\ read \in [Insts -> [Keys -> 0 .. MaxWrites]]
    /\ leaked \in [Insts -> BOOLEAN]

Init ==
    /\ process = "up"
    /\ config \in Deployments
    /\ pduDef = Load(PduFile).table
    /\ alive = [i \in Insts |-> config[i].impl # "absent"]
    /\ notify = [i \in Insts |-> <<>>]
    /\ running = [i \in Insts |-> FALSE]
    /\ posted = [i \in Insts |-> FALSE]
    /\ eventMap = [id \in Ids |-> Nobody]
    /\ keyMap = [i \in Insts |-> [id \in Ids |-> Nobody]]
    /\ registered = [i \in Insts |-> {}]
    /\ step = "idle"
    /\ target = Nobody
    /\ todo = <<>>
    /\ newId = 0
    /\ fresh = {}
    /\ entries = {}
    /\ handler = NoHandler
    /\ regs = {}
    /\ raised = {}
    /\ written = [k \in Keys |-> 0]
    /\ writes = 0
    /\ read = [i \in Insts |-> [k \in Keys |-> 0]]
    /\ leaked = [i \in Insts |-> FALSE]
-----------------------------------------------------------------------------
(* The application thread's calls.  It follows the README: open, start,    *)
(* post_start once, stop, and again, or close and open.                    *)

Idle(i) == step = "idle" /\ alive[i]

Rest == UNCHANGED <<process, configVars, handler, coreVars, read>>

(* The keys of the PDUs of a config, up to the first that has none.        *)
Resolved(i) ==
    LET pdus == config[i].pdus
        missing == SelectInSeq(pdus, LAMBDA p : ~HasName(pduDef, p[1], p[2]))
    IN  [j \in 1 .. (IF missing = 0 THEN Len(pdus) ELSE missing - 1) |->
            <<pdus[j][1], ByName(pduDef, pdus[j][1], pdus[j][2]).channel>>]

Complete(i) == Len(notify[i]) = Len(config[i].pdus)

(* open clears recv_notify_keys_ and fills it again; an entry that is not  *)
(* as it should be, or not resolved, ends it with the keys before that.    *)
Open(i) ==
    /\ Idle(i)
    /\ notify[i] = <<>>
    /\ \E n \in 0 .. Len(Resolved(i)) :
          notify' = [notify EXCEPT ![i] = SubSeq(Resolved(i), 1, n)]
    /\ Rest
    /\ UNCHANGED <<alive, running, posted, mapVars, callVars, leaked>>

Start(i) ==
    /\ Idle(i)
    /\ Complete(i)
    /\ ~running[i]
    /\ running' = [running EXCEPT ![i] = TRUE]
    /\ Rest
    /\ UNCHANGED <<alive, notify, posted, mapVars, callVars, leaked>>

(* stop waits for nobody: a dispatch that has seen running_ goes on.       *)
Stop(i) ==
    /\ Idle(i)
    /\ running[i]
    /\ running' = [running EXCEPT ![i] = FALSE]
    /\ posted' = [posted EXCEPT ![i] = FALSE]
    /\ Rest
    /\ UNCHANGED <<alive, notify, mapVars, callVars, leaked>>

(* Fault: the static map is left as it is.                                 *)
KeepAll(i) == eventMap

EraseOwn(i) ==
    [id \in Ids |-> IF id \in registered[i] THEN Nobody ELSE eventMap[id]]

(* Under event_map_mutex_: what close does to the maps.                    *)
Unregister(i) ==
    /\ eventMap' = EraseOwn(i)
    /\ registered' = [registered EXCEPT ![i] = {}]
    /\ keyMap' = [keyMap EXCEPT ![i] = [id \in Ids |-> Nobody]]
    /\ notify' = [notify EXCEPT ![i] = <<>>]

(* close leaves running_ alone, and the core's registrations too.          *)
Close(i) ==
    /\ Idle(i)
    /\ Unregister(i)
    /\ Rest
    /\ UNCHANGED <<alive, running, posted, callVars, leaked>>

(* The destructor: stop, close, and the memory is gone.                    *)
Destroy(i) ==
    /\ Idle(i)
    /\ Unregister(i)
    /\ running' = [running EXCEPT ![i] = FALSE]
    /\ posted' = [posted EXCEPT ![i] = FALSE]
    /\ alive' = [alive EXCEPT ![i] = FALSE]
    /\ Rest
    /\ UNCHANGED <<callVars, leaked>>
-----------------------------------------------------------------------------
(* post_start: one key after the other. *)

PostStart(i) ==
    /\ Idle(i)
    /\ running[i] /\ ~posted[i]
    /\ Complete(i) /\ notify[i] # <<>>
    /\ posted' = [posted EXCEPT ![i] = TRUE]
    /\ step' = "register"
    /\ target' = i
    /\ todo' = notify[i]
    /\ fresh' = {}
    /\ Rest
    /\ UNCHANGED <<alive, notify, running, mapVars, newId, entries, leaked>>

(* The core gives every registration of the process a number.              *)
CoreNumber == 1 + Cardinality(regs)

(* Fault: a poll instance counts for each key, not for all of its own.     *)
PollNumberRepeats(i, k) == 1 + Cardinality({r \in regs : r.inst = i /\ r.key = k})

(* A poll instance counts for itself and gives a key it knows its number.  *)
PollNumber(i, k) ==
    LET known == {r \in regs : r.inst = i /\ r.key = k}
    IN  IF known = {} THEN 1 + Cardinality({r \in regs : r.inst = i})
        ELSE (CHOOSE r \in known : TRUE).id

Number(i, k) == IF config[i].impl = "poll" THEN PollNumber(i, k) ELSE CoreNumber

Room == Number(target, Head(todo)) \in Ids

(* From here on the core may tell of events of this registration.          *)
Register ==
    /\ step = "register"
    /\ Room
    /\ newId' = Number(target, Head(todo))
    /\ regs' = regs \cup {[inst |-> target, key |-> Head(todo), id |-> newId']}
    /\ step' = "insert"
    /\ UNCHANGED <<process, configVars, instVars, mapVars, target, todo, fresh,
                   entries, handler, raised, written, writes, read, leaked>>

(* The roll-back erases what this post_start registered and then clears    *)
(* all of registered_event_ids_, with the numbers of earlier ones.         *)
RegisterFails ==
    /\ step = "register"
    /\ eventMap' = [id \in Ids |-> IF id \in fresh THEN Nobody ELSE eventMap[id]]
    /\ keyMap' = [keyMap EXCEPT ![target] =
                    [id \in Ids |-> IF id \in fresh THEN Nobody ELSE @[id]]]
    /\ registered' = [registered EXCEPT ![target] = {}]
    /\ leaked' = [leaked EXCEPT ![target] = @ \/ registered[target] # fresh]
    /\ running' = [running EXCEPT ![target] = FALSE]
    /\ posted' = [posted EXCEPT ![target] = FALSE]
    /\ step' = "idle"
    /\ target' = Nobody
    /\ todo' = <<>>
    /\ fresh' = {}
    /\ newId' = 0
    /\ UNCHANGED <<alive, notify, entries>>
    /\ Rest

(* Fault: registered_event_ids_ is not told.                               *)
Forgotten == registered[target]

Remembered == registered[target] \cup {newId}

(* Without a lock, unlike the look-up of FindKey.                          *)
InsertKey ==
    /\ step = "insert"
    /\ keyMap' = [keyMap EXCEPT ![target][newId] = Head(todo)]
    /\ registered' = [registered EXCEPT ![target] = Remembered]
    /\ fresh' = fresh \cup {newId}
    /\ process' \in IF handler.at = "find" /\ handler.inst = target
                    THEN {"up", "torn"} ELSE {"up"}
    /\ step' = "publish"
    /\ UNCHANGED <<configVars, instVars, eventMap, target, todo, newId, entries,
                   handler, coreVars, read, leaked>>

Publish ==
    /\ step = "publish"
    /\ eventMap' = [eventMap EXCEPT ![newId] = target]
    /\ todo' = Tail(todo)
    /\ IF Len(todo) = 1
       THEN step' = "idle" /\ target' = Nobody /\ fresh' = {} /\ newId' = 0
       ELSE step' = "register" /\ UNCHANGED <<target, fresh, newId>>
    /\ Rest
    /\ UNCHANGED <<instVars, keyMap, registered, entries, leaked>>
-----------------------------------------------------------------------------
(* process_recv_events of a poll instance, which copies poll_entries_ and  *)
(* asks the core about each of them.                                       *)

(* Fault: only the first entry is looked at.                               *)
FirstEntry(i) == {r \in regs : r.inst = i /\ r.id = 1}

Entries(i) == {r \in regs : r.inst = i}

Poll(i) ==
    /\ Idle(i)
    /\ config[i].impl = "poll"
    /\ running[i]
    /\ step' = "poll"
    /\ target' = i
    /\ entries' = Entries(i)
    /\ Rest
    /\ UNCHANGED <<instVars, mapVars, todo, newId, fresh, leaked>>

Dispatch(r) == handler' = [NoHandler EXCEPT !.at = "lookup", !.reg = r]

(* The core answers whether there is an event and forgets it.              *)
CheckEvent ==
    /\ step = "poll"
    /\ handler = NoHandler
    /\ \E r \in entries :
          /\ \A s \in entries : r.id <= s.id
          /\ entries' = entries \ {r}
          /\ IF r \in raised
             THEN raised' = raised \ {r} /\ Dispatch(r)
             ELSE UNCHANGED <<raised, handler>>
    /\ UNCHANGED <<process, configVars, instVars, mapVars, step, target, todo, newId,
                   fresh, regs, written, writes, read, leaked>>

PollReturns ==
    /\ step = "poll"
    /\ handler = NoHandler
    /\ entries = {}
    /\ step' = "idle"
    /\ target' = Nobody
    /\ Rest
    /\ UNCHANGED <<instVars, mapVars, todo, newId, fresh, entries, leaked>>
-----------------------------------------------------------------------------
(* shm_recv_callback and handle_shm_recv: on the application thread for a  *)
(* poll instance, on the core's for a callback instance.                   *)

HandlerOnly == UNCHANGED <<process, configVars, instVars, mapVars, callVars, coreVars,
                           leaked>>

(* External: the core calls the function it was given, whether or not the  *)
(* instance that registered it still exists.                               *)
CoreFires ==
    /\ handler = NoHandler
    /\ \E r \in raised : /\ config[r.inst].impl = "callback"
                         /\ raised' = raised \ {r}
                         /\ Dispatch(r)
    /\ UNCHANGED <<process, configVars, instVars, mapVars, callVars, regs, written,
                   writes, read, leaked>>

(* Under event_map_mutex_, which is released before the instance is used.  *)
Lookup ==
    /\ handler.at = "lookup"
    /\ LET i == eventMap[handler.reg.id]
       IN  handler' = IF i = Nobody THEN NoHandler
                      ELSE [handler EXCEPT !.at = "handle", !.inst = i]
    /\ HandlerOnly
    /\ UNCHANGED read

Held(at) == handler.at = at /\ alive[handler.inst]

Handle ==
    /\ Held("handle")
    /\ handler' = IF running[handler.inst] THEN [handler EXCEPT !.at = "find"]
                  ELSE NoHandler
    /\ HandlerOnly
    /\ UNCHANGED read

FindKey ==
    /\ Held("find")
    /\ LET k == keyMap[handler.inst][handler.reg.id]
       IN  handler' = IF k = Nobody THEN NoHandler
                      ELSE [handler EXCEPT !.at = "read", !.key = k]
    /\ HandlerOnly
    /\ UNCHANGED read

(* The core looks at the newest write.  The channel resolves, to give the  *)
(* size: it came from a name.                                              *)
NativeRecv ==
    /\ Held("read")
    /\ OnChannel(pduDef, handler.key[1], handler.key[2]) # {}
    /\ read' = [read EXCEPT ![handler.inst][handler.key] = written[handler.key]]
    /\ HandlerOnly

(* on_recv_callback_, which the endpoint set, gets the data.               *)
ReadAndCall == NativeRecv /\ handler' = [handler EXCEPT !.at = "callback"]

(* The read fails.  The core has forgotten the event, and nobody reads     *)
(* again: the write is lost.                                               *)
ReadFails == NativeRecv /\ handler' = NoHandler

CallbackReturns ==
    /\ handler.at = "callback"
    /\ handler' = NoHandler
    /\ HandlerOnly
    /\ UNCHANGED read

(* The instance was destroyed after Lookup, or was left in the map.        *)
UsesFreed ==
    /\ handler.at \in {"handle", "find", "read"}
    /\ ~alive[handler.inst]
    /\ process' = "freed"
    /\ UNCHANGED <<configVars, instVars, mapVars, callVars, handler, coreVars, read,
                   leaked>>

(* External: another asset writes a channel, or this process sends.        *)
Write(k) ==
    /\ \E i \in Insts : k \in ToSet(Resolved(i))
    /\ writes < MaxWrites
    /\ writes' = writes + 1
    /\ written' = [written EXCEPT ![k] = @ + 1]
    /\ raised' = raised \cup {r \in regs : r.key = k}
    /\ UNCHANGED <<process, configVars, instVars, mapVars, callVars, handler, regs,
                   read, leaked>>
-----------------------------------------------------------------------------
CallStep == Register \/ RegisterFails \/ InsertKey \/ Publish
            \/ CheckEvent \/ PollReturns

HandlerStep == CoreFires \/ Lookup \/ Handle \/ FindKey \/ ReadAndCall
               \/ ReadFails \/ CallbackReturns \/ UsesFreed

Next ==
    /\ process = "up"
    /\ \/ \E i \in Insts : \/ Open(i) \/ Start(i) \/ Stop(i) \/ Close(i)
                          \/ Destroy(i) \/ PostStart(i) \/ Poll(i)
       \/ CallStep
       \/ HandlerStep
       \/ \E k \in Keys : Write(k)

Spec == Init /\ [][Next]_vars

(* Calls go on, the core's thread is scheduled, callbacks return, and the  *)
(* application polls "periodically" (README.md:462).                       *)
FairSpec == /\ Spec
            /\ WF_vars(process = "up" /\ CallStep)
            /\ WF_vars(process = "up" /\ HandlerStep)
            /\ \A i \in Insts : WF_vars(process = "up" /\ Poll(i))
-----------------------------------------------------------------------------
Mapped(i) == {id \in Ids : eventMap[id] = i}

(* A dispatch ends at the instance and the key the event was registered    *)
(* for, "from SHM event ID back to our internal key and the PduCommShm     *)
(* instance" (comm_shm.hpp:52), whatever was closed, opened and registered *)
(* between the event and the two look-ups.                                 *)
DispatchedToOwner ==
    handler.at \in {"read", "callback"} =>
        /\ handler.inst = handler.reg.inst
        /\ handler.key = handler.reg.key

(* The three maps of an instance agree, so that close can find all that    *)
(* post_start made, and an event that has an instance has a key: "Received *)
(* event ID not found in key map" takes a close between the two look-ups.  *)
(* A failed post_start that forgot older numbers is the exception.         *)
MapsAgree ==
    /\ TypeOK
    /\ \A i \in Insts : ~leaked[i] =>
        /\ registered[i] = Mapped(i) \cup
             (IF step = "publish" /\ target = i THEN {newId} ELSE {})
        /\ \A id \in Ids : keyMap[i][id] # Nobody <=> id \in registered[i]

(* The event map leads to no instance that is closed or destroyed.         *)
ForgottenWhenClosed ==
    \A i \in Insts : (notify[i] = <<>> /\ ~leaked[i]) => Mapped(i) = {}

(* What the file in use means for the PDUs of a config.                    *)
MeantChannel == [k \in AllKeys(PduFile) |-> Meant(PduFile, k).channel]

NotifiesMeant ==
    \A i \in Insts : \A j \in DOMAIN notify[i] :
        LET pdu == config[i].pdus[j]
        IN  notify[i][j] = <<pdu[1], MeantChannel[pdu]>>

(* A loaded file means what it lists, in whatever order it lists it, and a *)
(* name and its channel lead to each other; and the keys an instance is    *)
(* notified of are those the file means for the PDUs of its config.        *)
DefinitionsAgree == LoadsAgree /\ LookupsAgree /\ NotifiesMeant

(* The last write was told to a registration of i that is in both maps,    *)
(* and i is running.                                                       *)
Due(i, k) ==
    /\ running[i]
    /\ \E r \in raised : /\ r.inst = i /\ r.key = k
                         /\ eventMap[r.id] = i /\ keyMap[i][r.id] = k

(* A running instance reads every such write, or a later one, for its      *)
(* callback, unless the instance is stopped or closed first.  The read may *)
(* fail: that is the only way the data of the last write stays unseen.     *)
EveryWriteRead ==
    \A i \in Insts, k \in Keys :
        Due(i, k) ~> \/ read[i][k] = written[k]
                     \/ ~running[i]
                     \/ notify[i] = <<>>
                     \/ process # "up"
=============================================================================
