# TLA+ models of hakoniwa-pdu-endpoint

`hakoniwa-pdu-endpoint` is a C++ library that moves PDUs (fixed-size payloads
named by a robot and a channel) between simulation assets. An application opens
an *endpoint*; behind it are a *cache*, which keeps the newest payloads, and an
optional *comm*, which exchanges packets over TCP, UDP, WebSocket or the shared
memory of the hakoniwa core. The library is small, but nearly every part of it
is shared between the thread that owns the endpoint, the comm's receive thread,
and whatever threads the application sends from. That is where its hard
behaviour is, and what these models are about.

This directory holds the specifications, the TLC configurations that check
them on small instances, and the proofs TLAPS checks for every instance.

## The system

### Components

| Component | Source | State | Operations | Model |
|---|---|---|---|---|
| Caches | `include/hakoniwa/pdu/cache/*.hpp` | buffers or queues by key, depth, `is_running_`, `mtx_` | open, close, start, stop, write, read | `PduCache`, `CacheContract` |
| Endpoint | `include/hakoniwa/pdu/endpoint.hpp` | cache, comm, subscribers, PDU definition | open, start, post_start, stop, close, send, recv, subscribe, recv_callback_ | `Endpoint` |
| Raw comm base | `comm/comm_raw.hpp` | `send_mutex_`, `on_recv_callback_` | send, on_raw_data_received, set_packet_version | within `TcpComm`, `UdpComm`, `Endpoint` |
| TCP comm | `src/comm_tcp.cpp` | listening and client descriptors, flags, thread | open, start, stop, close, send, server_loop, client_loop | `TcpComm`, `CommContract` |
| TCP multiplexer | `src/comm_tcp_mux.cpp`, `src/endpoint_comm_multiplexer.cpp` | listening descriptor, accept thread, pending sessions, count; a descriptor, flag and thread per session | open, start, stop, close, take_endpoints, is_ready; the session's start, stop, close | `TcpMux` |
| Endpoint container | `src/endpoint_container.cpp` | `cache_`, `initialized_`, `mtx_` | create_pdu_lchannels, initialize, start(_all), post_start(_all), stop(_all), ref, is_running_all | `Container` |
| UDP comm | `src/comm_udp.cpp` | socket, fixed remote, last client's address, flag, thread | open, start, stop, close, send, recv_loop | `UdpComm`, `CommContract` |
| WebSocket comm | `src/comm_websocket.cpp` | io_context, work guard, acceptor, sessions and their write queues | open, start, stop, close, send; the handlers of accept, resolve, connect, handshake, read, write and close | `WsComm`, `CommContract` |
| Shared memory comm | `src/comm_shm*.cpp` | static map from event numbers to instances, keys, poll entries | open, post_start, stop, close, process_recv_events, send, recv | `ShmComm` |
| Packet codec | `comm/packet.hpp` | none | encode and decode, v1 and v2 | `PacketCodec` |
| PDU definition | `src/pdu_definition.cpp` | definitions by robot and name | load, resolve | `PduDefinition`, used by `ShmComm` |
| Factories, socket helpers, typed endpoint, clocks | several | none to speak of | dispatch and conversion | not modelled |
| Python tools, schemas, examples, tests | `python/`, `examples/`, `test/` | none | offline | not modelled |

### How they interact

* The owner calls the container, the container the endpoint, the endpoint its
  comm and its cache. `Endpoint::start` starts the cache and then the comm,
  `stop` stops them in the other order, and `close` first takes the callback
  from the comm.
* A comm has a thread of its own that reads packets and calls
  `on_raw_data_received`, which calls `on_recv_callback_`, which is
  `Endpoint::recv_callback_`: it writes the cache and then calls the
  subscribers. `stop` joins that thread.
* A subscriber is application code on the receive thread. It may call `recv` of
  the endpoint, or `ref` of the container.
* The WebSocket comm has no loop of its own: its thread runs the handlers of an
  io_context, and everything a session does is such a handler, but for what the
  owner and the senders do to the list of sessions under its mutex.
* The shared memory comm resolves the PDU names of its config with the
  definitions the endpoint loaded, and looks a PDU's size up by channel when an
  event arrives.
* `send` runs on any thread; raw comms serialise it with `send_mutex_`, and an
  endpoint without a comm writes its own cache and notifies its subscribers on
  the caller's thread.

### What is hard

Stops and closes race the receive thread at every point of its loop. A
descriptor number loaded by one thread may be closed, and given out again, by
another. Flags are read before a lock and acted upon under it. Joins happen with
a mutex held. Sessions end by themselves while their owner believes them to be
running. Roll-backs and partial failures must not leave a thread that nobody
can stop. `PROJECT.json` lists these places ("hazards"), each with its line and
the properties that cover it.

### What makes each component correct

* Cache: whatever the calls and their order, it shows each key's newest values
  that were not read, in order and no more of them than its depth.
* Endpoint: what is received is stored, then announced, once to each subscriber
  and in order; after stop or close nothing is on its way.
* Comm: a stop returns from wherever the thread is, and joins it; descriptors
  are not leaked; packets are handed over whole and in order, and the packets
  of two senders are never mixed.
* Multiplexer: each accepted connection becomes one session that somebody
  holds; readiness means that the sessions are there.
* UDP comm: a reply goes to one client that was heard on the open socket, and
  whoever was heard can be answered.
* WebSocket comm: no session that may still act is out of the owner's sight, and
  messages to a session keep their order, without a gap.
* Codec: what one side encodes the other decodes; no length field makes a
  decoder read beyond what was received.
* PDU definition: a loaded file means what it lists, whatever the order and the
  repetitions of its entries.
* Container: every endpoint that is open or runs can be found and stopped.

## The modules

```
CacheContract <-refines- PduCache <-extends- Endpoint      Container
                                                |
                                           (relies on)
                                          CommContract
                                                ^
                                             refine
                                                |
                        +-----------------------+------------+
                     TcpComm                 UdpComm       WsComm
                                                |
                        TcpMux               extends       ShmComm
                                                |             |
                                           PacketCodec     extends
                                                              |
                                                        PduDefinition
```

`<module>Proofs.tla` extends the module its theorems are about: there is one for
`PduCache`, `Endpoint` (which extends `PduCacheProofs` too), `TcpComm`, `TcpMux`,
`UdpComm` (with the theorems about `PacketCodec`), `WsComm`, `ShmComm` (with those
about `PduDefinition`) and `Container`.

Each `MC<module>.tla` extends its module with the definitions a configuration
needs. An operator whose comment begins with "Fault" is a plausible mistake in
the code (a dropped guard, a missing reset, a wrong order). No specification uses
one: `PROJECT.json` ("mutants") names the property that fails when a fault takes
the place of the definition it distorts, which shows that the property depends
on the code.

**CacheContract** is what a reader may rely on, without threads or locks: each
key has the sequence of values written since the last clear and the position of
the next one to read; a queue gives the values of its window (the newest
`depth`) once and in order, a latest buffer gives the newest.

**PduCache** is `PduLatestQueue` and `PduLatestBuffer` (constant `Kind`). A
`write` or `read` is two steps, `Call` (the look at `is_running_`) and `Write`,
`ReadValue` or `ReadNothing` (the critical section), so that stop, close and
open can come between. `open` takes the depth as the code does: zero is one, and
a negative depth becomes a large `size_t`, that is no bound (`DepthOf`;
`SizeMod` is 2^64 in the code). Payloads are values with a size; `read` fails
when the caller's buffer is too small and then consumes nothing. `history` and
`next` are history variables for the contract.

**CommContract** is the receive thread as an endpoint sees it: callbacks only
between start and the return of stop.

**TcpComm** is one `TcpComm`, server or client (`role`), with its owner, its comm
thread, its senders, its peers and the part of the kernel they meet:
descriptors (`sock`), given out lowest first, and connections (`conn`). There is
one step per system call and per access to an atomic that another thread can
interleave with. `raw_stop` is `StopFlag`, `StopListen`, `StopLoad`,
`StopShutdown`, `StopJoin`; `raw_close` goes on with `CloseSockets`. The loops
are `Loop`, `Accept` or `Socket` and `Connect`, `StoreFd`, `SetConnected`, `Receive`,
`ReadHeader`, `ReadBody`, `CallbackReturns`, `ReadFails`, `Drop` and `Forget`.
`client_fd_` and `is_connected_` are stored in separate steps, in the order of
the code: `StoreFd` before `SetConnected`, and `Drop` is two steps,
`ClearConnected` and then `CloseClient`. A send is
`SendStart` (it takes `send_mutex_`), `SendLoad`, and one `SendPart` for the
header and one for the body, since `write_data` may send in parts. It may fail at
any of them, whether the connection ends by that or stays open (`SendError`:
`write_data` gives up on every errno but EAGAIN); `cut` remembers, as a history, the packets
that failed after their header.

**TcpMux** is `EndpointCommMultiplexer` over `TcpCommMultiplexer` with the life
of every `TcpSessionComm`. A session keeps its connection for ever, so one name
stands for both. `pending_sessions_` and `connected_clients_`
change in two steps of the accept thread, as in the code, so that `is_ready` and
`TakeEndpoints` can see the one without the other. `accept` on the open listener
blocks, as nobody sets a time-out for it: it ends with a client, with an error
(`AcceptErrors`), or because stop shut the listener down (`MuxListen`, after which
`AcceptFails` is enabled). `sent` counts the peers'
packets, `MaxPackets` bounds it.

**PacketCodec** is `DataPacket` as a pure algorithm. A datagram is the record of the
fields its bytes hold, and its size; `Encode` computes the length fields as the
code does, `Accepts` is the sequence of checks of `decode_v1` and `decode_v2`,
`Decode` what they return. Sums that the code makes of two `uint32_t` wrap at
`Mod`, which is 2^32 there; sums with a `size_t` do not. `FramingAgrees` compares
both with what the layout means (`WellFramedV1`, unbounded arithmetic). The names
of robots are cut to 127 characters (`Cut`). A datagram of one layout is taken for
one that the other layout rejects. That is so for robots' names of four
characters or more and bodies that do not hold a whole header; with
shorter names a v1 datagram could be built that passes as v2.

**UdpComm** extends the codec. `raw_open` is `Open` or one of its failures:
`OpenRefused` (before there is a socket), `OpenNoSocket` (`socket` fails, and
`has_fixed_remote_` stays as the config set it), `OpenUndone` (a later step
fails and `raw_close` cleans up). The copy of the sender's address into
`last_client_addr_` is `CopyBegins` and `CopyEnds`, the length is `StoreLength`,
and `PickTarget` and `SendTo` of a sender may come between: an address is the set
of clients whose bytes it holds. The network is `Receive` of any datagram from any
client, any number of times, which covers loss, repetition and reordering.
Datagrams are this code's encodings in both versions and foreign ones
with lengths that do not fit.

**WsComm** is `WebSocketComm` with its `WebSocketSession`s, server or client
(`role`). Handlers run on one thread, one after the other, so that each is
one step (`AcceptOk`, `AcceptFails`, `ResolveOk`, `ResolveFails`, `ConnectOk`,
`HandshakeOk`, `ReadOk`, `WriteOk`, `WriteFails`, `OpFails`, `RunClose`,
`CloseCompletes`, `RunWrite`), but for those that call the user back (`ReadOk`, then
`CallbackReturns`) or remove a session: `OpFails` and `WriteFails` post its close,
and `EraseSession` erases it under `sessions_mtx_`. `raw_stop` is `Stop`, `StopAcceptor`, `StopSwap`,
`StopPosts`, `StopIo`, `StopJoin`, and the handlers go on between them until the
io_context is stopped; what they leave waits for the next `run`. `ops` are the
operations under way, `posted` the functions posted to a session's executor and
not run. `sessions_` is a set here: only `raw_is_running` could tell its order.
Boost is external: an operation may complete whenever its peer allows
it, may fail at any time, may report a success after the session was told to
close (`MaySucceed`), and `run` returns when it is stopped or out of work.
The thread pool is one thread, as in the code.

**PduDefinition** is `load` and `resolve` as functions: a file is the sequence of
entries the loops come across (`Items`), `LoadItem` is what one of them does to the
map (`Put` replaces or adds an entry), `Load` what all of them do, one after the
other, as a recursive function. An entry that lacks a field, an unreadable
set and an unknown set id end the load where they stand, and nothing is
undone. `LoadedAsListed` compares the result with what the file says when its lists
are read as lists (`Meant`), `ChannelsInvert` the look-up by channel with that by
name.

**ShmComm** is every `PduCommShm` of a process over either implementation, with
the static map from event numbers to instances (`eventMap`), each instance's
`event_id_to_key_map_` and `registered_event_ids_`, and the registrations of the
core library. One application thread makes the calls: `Open`, `Start`,
`PostStart`, `Stop`, `Close`, `Destroy`, and `Poll` for
`process_recv_events`; it keeps to the order open, start, post_start.
`post_start` goes key by key through `Register` (the implementation), `InsertKey`
(the instance's own map, without a lock) and `Publish` (the static map, with
one); `RegisterFails` is its roll-back. An event is dispatched in the steps
`Lookup`, `Handle`, `FindKey`, `ReadAndCall` or `ReadFails`, `CallbackReturns`, by the
application thread for a poll instance (`CheckEvent` starts it) and by a thread of
the core for a callback instance (`CoreFires`). Undefined behaviour is an outcome:
`process` becomes "freed" when a dispatch uses an instance that was destroyed
(`UsesFreed`), and may become "torn" when an unlocked insertion meets a look-up.
`open` resolves the config's PDU names with `pduDef`, the map that
`Load` of `PduDefinition` makes of the definition file, and `NativeRecv` looks the
channel up in it again. A `native_recv` that fails (`ReadFails`) ends the dispatch
without a callback, the event being cleared already. The core is external: it gives each registration of the process a number of its
own, keeps registrations after `close`, and remembers one unreported event for
each. `leaked` marks an instance whose failed `post_start` has cleared numbers of
an earlier one out of `registered_event_ids_`: these stay in the static map for
ever, and `MapsAgree` and `ForgottenWhenClosed` except that instance.

**Endpoint** extends `PduCache` and adds the owner's calls and the way of a packet.
`start` is `StartEndpoint`, which starts the cache, and `StartComm`, which starts the
comm or fails (a comm that runs answers BUSY) and leaves the cache started; `stop`
and `close` are `CommFlag`, `CommJoin`, `StopCache` and, for a close, `UnsetCallback`
before and `CloseCache` after. A packet goes through
`Receive`, `Check` (the test of `on_recv_callback_`), `CallBack` (its call),
`WriteLook` and `WriteCache` (the cache's own two steps), `CopyTargets` (under
`cb_mtx_`), `Notify`. The look at a `std::function` and its call by one thread
while another assigns to it is a data race; the model gives it the outcome that
the callback is empty when it is called. `hasComm` is the config's choice;
without a comm the same thread is an application's sender.

**Container** is `EndpointContainer`. A call takes `mtx_` (`Load`, `StartAll`,
`StopAll`, `StartOne`, `StopOne`, or one of the refusals), works through its
endpoints (`OpenNext`, `StartNext`, `StopNext` and `Join`) and releases it
(`OpenDone`, `StartDone`, `StopDone`). `post_start` and the queries change nothing
that is modelled and are `Look`. Receive threads run subscribers that may ask the
container something, and wait for `mtx_` for that.

## What is checked

Deadlock is checked except where the program may really stop or wait for ever:
the endpoint, multiplexer, UDP, WebSocket and shared memory models stop at their
bounds or with the process, and the container has a real wait of two threads for each other (see below).

| Run | Instance | Shows |
|---|---|---|
| `TcpComm_safety` | both roles, 2 connections, 3 descriptors, at most 2 packets, in either direction and from either peer or sender, with body, without and malformed, 2 senders | `FdsAccounted`, `JoinedWhenStopped`, `SendableWhenRunning`, `DeliveredInOrder`; `WholePackets`: parts of two packets are never mixed, and a header has no body only where its send reported that it failed; `ImplementsContract` (refinement of `CommContract`) |
| `TcpComm_live` | the same without senders, 1 packet per connection | `StopReturns`: stop and close return; `WaitingPeerServed` |
| `TcpMux_calls` | 2 clients, 1 packet between them | `NoSessionLost`, `ReadyMeansAccepted`, `StopsAreFinal`; `CallsReturn`, `ClientsBecomeSessions` |
| `Endpoint_packets` | queue of configured depth 0 or 2, 2 keys, 2 values of size 1 and 2, buffers of 1 and 2, 2 subscribers of one key, 1 reader, 3 packets, with and without a comm | `CacheOutlivesComm`, `StoredBeforeNotified`, `EverySubscriberOnce`, `QuietAfterStop`, `BadCallNeedsClose`, `OwnerReturns`; of the cache under these callers `Window` (the stored values are the newest not yet read) and `ImplementsContract` (refinement of `CacheContract`) |
| `UdpComm_packets` | 2 clients, 5 configs of all directions, with and without a remote, in both versions, 2 packets of a robot whose name is cut, 2 foreign datagrams, 32 for 2^32 | `RepliesGoToClients`, `HeardCanBeAnswered`, `FramingAgrees` over every datagram of up to 19 bytes, `ImplementsContract`, `StopReturns` |
| `WsComm_sessions` | both roles, 2 connections, 5 events among starts, connections, failures and messages in both directions | `SessionsAccounted`, `WritesInOrder`, `ImplementsContract`, `PeersServed` |
| `Container_calls` | 2 endpoints, configs that list both, one, or one twice, 2 callers, subscribers that call back | `Bookkeeping`, `Owned`, `RefsAreOpen`, `NothingLeftOpen`, `HolderReturns` |
| `ShmComm_events` | two callback instances that want the same channel, or one poll instance with two channels; 2 registrations, 2 writes; all legacy files of up to 3 entries, or 4 in two parts, and compact files of two sets | `DispatchedToOwner`, `MapsAgree`, `ForgottenWhenClosed`; `EveryWriteRead`; `DefinitionsAgree`: over all the files, and in every state for the file in use |

Four runs show a claim of a comment that the code does not keep
(`PROJECT.json`, "findings"):

| Run | What TLC finds |
|---|---|
| `TcpComm_framing` | A sender loads `client_fd_`; the connection ends, the comm thread closes the descriptor and accepts the next connection under the same number; the sender writes the rest of its packet there. |
| `TcpMux_close` | A peer leaves, `recv_loop_` clears `is_running_`; `close` of that session returns without joining its thread, and the session's destructor then ends the process. |
| `ShmComm_dispatch` | Two poll instances with a channel each both call their first event 1; the second to register takes the number in the static map, and the first one's event is dispatched to it, under its own key. |
| `Endpoint_close` | `close` empties the callback while the receive thread is between testing and calling it. `BadCallNeedsClose`, which holds, says that a `stop` before `close` avoids it. |

### Bounds, and why they are enough

* *Two connections and three descriptors* (listener, connection, one more): the
  second connection can get the first one's number, which is what the hazards
  of descriptors need; a third would repeat the second. Two packets on a
  connection let one be lost or swapped.
* *Two callers, two senders*: every race in this code is between two accesses;
  the proofs of the cache, the container and the senders hold for any number.
* *Depths 0 and 2 with three writes* fill, overflow and drain a queue; 0 is one of
  the two special cases of the depth, and the proofs about the cache cover the
  other, a negative one.
* *Two clients* of a UDP comm are enough for one address to be copied over
  another. `MaxDelivered` 1 bounds what is handed over; datagrams that are
  dropped are not bounded. With `Mod` 32 and datagrams of at most 19 bytes every
  way a 32-bit sum can wrap is met, as `Mod > MaxSize + 12` holds for 2^32 and
  UDP's 65,535 bytes.
* *Five events* of a WebSocket comm: two starts, two connections and a message; or a
  start, a connection and three messages, so that two wait behind the one being
  written; or a start, a connection, two messages and a failure. The proofs of
  `SessionsAccounted` and `WritesInOrder` hold for any number.
* *Two entries in a list* replace each other, share a channel, or end a load in
  the middle; two sets share an id.
* *Two endpoints* in a container: one fails while the other is open; a list that
  names one twice opens it twice.
* *Two registrations* in shared memory: one for each instance, or two of one
  instance over a restart, or a full table that makes `post_start` fail. Two
  writes let the second come at any point of the first one's dispatch.
* `MaxHist`, `MaxReceived`, `MaxPackets`, `MaxIn`, `MaxOut`, `MaxDelivered`, `MaxEvents`
  and `MaxWrites` bound histories
  and channels; they are guards of the actions that lengthen them. The owner's
  opens, starts, stops and closes are not bounded.

### Fairness, and why the code justifies it

Weak fairness is assumed of steps that only need a scheduler: the next step of
a call that was entered, and of a thread's loop. A blocking system call is
enabled when it has something to return (a connection, bytes, an end of file, a
socket that was shut down), so its fairness says only that the kernel wakes who
can go on. Of callers nothing is assumed (nobody has to call stop)
but in `ShmComm`, where the application of a poll instance polls again and again,
as the repository's README (line 462) asks it to. Nothing is assumed of peers
(they may be silent for ever), of connection attempts' outcome, or of who gets a
mutex. In `TcpMux` an `accept` on the open listener need not return while no client
waits: stop relies on its own `shutdown`. It may fail any number of times, but not for
ever while a client waits (a process that stays out of descriptors serves
nobody). The listener of `TcpComm` has `SO_RCVTIMEO`, so that its `accept` always
returns. In `UdpComm` a `recvfrom` that waits is always enabled to fail, because `raw_open`
sets `SO_RCVTIMEO` and refuses to go on without it. In `WsComm` a pending accept
completes when a connection waits for it; nothing is assumed of any other
operation. A subscriber is assumed to return: in `Container`, where its question to
the container may have to wait, strong fairness of `CallbackReturns` says that it
does not ask for ever. `HolderReturns` excepts the wait in which a stop holds
`mtx_` and joins a thread whose subscriber waits for `mtx_`: that state is
reachable, both wait for ever, and no timeout ends it. It is a property of the
design that users must know.

## What is proved

`tlapm <module>.tla` checks each of `PduCacheProofs`, `EndpointProofs`, `ContainerProofs`,
`TcpCommProofs`, `TcpMuxProofs`, `UdpCommProofs`, `WsCommProofs` and `ShmCommProofs`.
Every invariant of a run that passes, and every refinement of a contract, is
stated by a theorem. The assumptions are `CacheAssumption`, `EndpointAssumption`,
`ContainerAssumption`, `TcpAssumption`, `MuxAssumption`, `UdpAssumption`, `CodecAssumption`,
`WsAssumption`, `ShmAssumption` and `DefinitionAssumption` of the modules they are
about, which give the constants their types (any keys, values, threads and
depths; any descriptors, connections, sessions and senders; any datagrams; any
endpoints, callers and lists of endpoints; any definition files, instances and
configs), and for the codec that `Mod` exceeds `MaxSize + 12`. `ShmAssumption` also says
that a process uses one of the core's two interfaces.

* **PduCacheProofs.** The inductive invariant `IInv` joins `TypeOK` with `Shape`:
  the stored sequence of a key is exactly the window of its history that begins
  at `next`, depth is positive, and a latest buffer has depth one and never
  advances. `Window`, which the endpoint's run checks, is not inductive alone: that an
  overflow drops the right value needs to know where the stored sequence lies in
  the history. `Invariance`, `TypeCorrectness` and `WindowCorrectness` follow; with the
  invariant, every step is shown to be a step of `CacheContract` or a stutter
  (`CacheRefinement`).
* **ContainerProofs.** `Owned`, `RefsAreOpen` and `NothingLeftOpen` speak of moments when
  `mtx_` is free or of what the holder will have done; `Bookkeeping` says what
  holds in between: the phase fits the call, what is to be erased is closed or
  still to be visited (and only that is), what is not open is still on the list
  to open, and an endpoint is told to stop before it is joined. The four
  together are inductive; there is one lemma per kind of step. The theorems
  `BookkeepingCorrectness`, `Ownership`, `OpenReferences` and
  `CleanWhenUninitialized` hold for callers within and outside the documented
  usage alike, the latter exempted from `RefsAreOpen` only.
* **EndpointProofs.** Every step of an endpoint is a step of the cache or leaves the
  cache alone (`CacheStep`), so that the cache's invariant and contract carry
  over to the cache under an endpoint (`EndpointWindow`, `EndpointRefinement`). The
  invariant `EInv` adds what the owner, the receive thread and the writer know
  of each other: nothing runs before an open (`BeforeOpen`), whether the comm may
  hand over packets follows from where the owner is (`CommInv`; in `StartComm` the
  cache is started already), where the packet
  under way is and what the writer does agree (`StageInv`, `WriterInv`), and a packet
  past its write is in the history of its key (`StoredInv`). From it follow
  `OutlivesCorrectness`, `StoredCorrectness`, `QuietCorrectness` and
  `BadCallCorrectness`, for any subscribers, readers and packets.
  `SubscriberCorrectness` is an invariant of its own on top of these: from the
  reception of a packet to its last call, what a subscriber was called with and
  what it is still to be called with (`Untold`) make up the packets of its key,
  the n-th of them in place n (`TargetsInv` says that who is about to be called is
  a subscriber of the key). A packet of another key leaves that as it is
  (`SelectsOther`), one of the key is the next (`SelectsMine`).
* **TcpCommProofs.** `LifeInv` ties the thread to the flag and the owner's call,
  `SockInv` says what the descriptors the comm remembers name (and that there are
  no others), `ServerInv` that a server's connection is open between its accept
  and its drop, and that `is_connected_` is set only within that time, from
  `SetConnected` to `ClearConnected` (`Published`, which lies within `Opened`), `CountInv` that packets under way are packets. With `TypeOK` they
  are inductive and give `FdsCorrectness`, `JoinedCorrectness`,
  `SendableCorrectness` and, step by step, `TcpRefinement`. `WholeCorrectness` needs
  three more: who holds `send_mutex_` is who is in a send (`LockInv`); nothing was
  written to a connection that is not open yet (`NewInv`), so that a number given
  out again names an empty one; and a header on a connection that can still be
  written to is its last part only while its sender is about to write the body
  there, or once its send has failed (`PendingInv`): what follows a packet that
  was cut short begins with a header. `DeliveryCorrectness` follows the stream of a connection
  from the peer to the callback: while the connection is
  not closed and not about to be dropped, what lies in its inbox leads, part by
  part, from the part the comm thread needs next to the part the peer will send
  next (`StreamInv`); a part that is read is the first of these and one that is
  sent comes after the last (`LeadsTail`, `LeadsAppend`). Dropping a connection in
  the middle of a packet is what keeps a rest of it from being taken for the
  next. `StopInterrupts` is what `StopReturns` needs of every state: because
  `raw_stop` clears the flag, closes the listening socket, and only then loads
  `client_fd_` and shuts it down, the thread it joins is in no accept or read
  that could wait for a peer (`StopInv`).
* **TcpMuxProofs.** `NoSessionLost` needs to know whose turn it is (`HandsInv`: the
  accept thread holds a connection between accept and push only, the owner a
  batch while it opens endpoints) and that a connection is in one place at a
  time (`PlaceInv`); `ReadyMeansAccepted` that a session is counted right after it
  was pushed (`CountInv`); `StopsAreFinal` what the accept thread and the receive
  threads do in the middle of a stop (`StopInv`). Together they are inductive
  (`MuxInv`) and give `SessionsKept`, `ReadyCountsSessions` and `StoppedStaysStopped`;
  `StopsInterrupt` adds what the two joins rely on: the listener is shut down when
  the accept thread is joined, and the connection of a session is shut down or
  closed when its receive thread is.
* **UdpCommProofs.** Besides the types, the invariant has: the thread lives from
  start to join (`ThreadInv`), a remote that is fixed stays so (`FixedInv`), where
  the thread is in its copy of the sender's address and what the address holds
  agree (`CopyInv`), outside of a copy and a close the address is that of one
  client heard on this socket (`AddressInv`), and once somebody was heard there
  is an address to send to (`HeardInv`). `RepliesCorrectness` and
  `AnswersCorrectness` follow, for any clients, configs and datagrams, and
  `UdpRefinement` uses `ThreadInv`.
  Of the codec: as `Mod > MaxSize + 12`, no sum of length fields wraps in a way
  that matters (`NoWrap`), so the checks of both decoders are those of the
  layouts (`ChecksV1`, `ChecksV2`); what is encoded in either layout is accepted
  and decodes to the packet, its robot's name cut; together `CodecCorrectness`,
  which is `FramingAgrees` for any names, bodies and datagrams.
* **WsCommProofs.** `SessionsAccounted` alone is not inductive: it speaks of operations
  under way, but a session also acts through what was posted to its executor
  and through the callback that will begin the next read (`AccountInv`), and that a
  new session has none of these is a matter of its connection (`FreshInv`) and, for a
  client, of resolving once per start (`RoleInv`). Between the two steps of a removal
  the session's close is posted or has run (`EraseInv`), so that nothing is lost
  sight of when it is erased. `WritesInOrder` says nothing of
  the message after the last: `OrderInv` adds that a session in `sessions_` was
  posted the latest one, and `WriteInv` that a write is under way for the front
  of the queue unless a close is on its way. The lemmas about sequences say what
  posting, moving to the queue, writing and closing do to the order of what is
  outgoing. `SessionsCorrectness`, `WritesCorrectness` and, step by step,
  `WsRefinement` hold for any sessions and bounds.
* **ShmCommProofs.** `LoadCorrectness` and `LookupCorrectness` are about `PduDefinition`
  without time: for any file, of any length, `load` leaves for each name what its
  lists say. The recursion over the entries is reasoned about with `Induction`, a
  lemma about a set of numbers that contains 0 and is closed under + 1, which
  rests on the library's minimum of a well-founded set and needs no operator for
  a parameter; `LoadIsRecursive` shows that the recursive definition has a
  solution. `MapsCorrectness`, `DispatchCorrectness` and `ForgottenCorrectness` need that what
  the static map, an instance's own map, `post_start` and a dispatch know of a
  number was registered with the core for that instance and key (`OwnsEvents`,
  `OwnsKeys`, `OwnsFresh`, `OwnsHandler`), that the core's numbers lead back to one
  registration (`RegsInv`), and that the maps match but for the number about to
  be published (`MapsMatch`). Their hypothesis `OnePoll` (callback instances, or one
  poll instance) is what the code needs: every poll instance counts its events
  from 1, and the static map is the process's; with two of them the property is false,
  as the run `ShmComm_dispatch` shows. `DefinitionCorrectness` (`DefinitionsAgree` in
  every state) assumes that the definition file loads; for one that does not,
  `LoadCorrectness` says what is left.

Only model-checked: liveness (`OwnerReturns`, `HolderReturns`, `StopReturns`,
`WaitingPeerServed`, `CallsReturn`, `ClientsBecomeSessions`, `PeersServed` and
`EveryWriteRead`), which needs ENABLED of the fair steps and is out of the
prover's reach; `StopInterrupts` and `StopsInterrupt` prove for the TCP comms
what does not depend on scheduling, that a join waits for no peer. The four claims that TLC refutes have no theorem, of course.

## What is left out, and why

* `Endpoint::open` on an endpoint that is open: it replaces `cache_` under a receive
  thread before the comm can answer BUSY. `post_start`, `process_recv_events` and
  subscription while running. The name-based overloads, which only resolve a key.
* Senders of an endpoint without a comm that race each other (write in one order,
  notify in the other): no order is promised. A callback that stops its own
  endpoint joins itself.
* A send of `TcpComm` that fails after part of a packet leaves that part on a
  connection that may stay open, and the next packet follows it: modelled, and what
  `WholePackets` excepts by `cut`. Nothing in the code, and no comment, says that a receiver gets back
  in step. `FdsAccounted` looks for leaks, not for a number that is closed twice.
* In `TcpComm`, a sender blocked inside `send` when its descriptor is closed; socket
  options but for `SO_RCVTIMEO`. `client_loop` leaves `is_connected_` set after a
  disconnect: modelled as it is, and `SendableWhenRunning` is claimed for
  servers only. A process that does not ignore SIGPIPE is ended by a send that a
  stop interrupts (`SendEpipe` with `SigpipeIgnored` FALSE); the runs assume that the
  host program ignores the signal.
* A server started again after stop without open accepts on no descriptor and
  spins: modelled (`AcceptFails`), and harmless for the properties.
* In `TcpMux`, `raw_send` of a session (the code of `TcpComm` on a descriptor that does
  not change), and an open of the multiplexer that fails.
* In `ShmComm`, `send` and `recv` of application code (a send is one of the writes of
  `Write`), `create_pdu_lchannels`, and a process that uses both interfaces of
  the core. After a stop and a start a callback instance is registered twice for
  its channel and is called twice for a write: no comment promises once, and
  `EveryWriteRead` asks for at least once. An unpolled event may be reported
  after a stop and a start again.
* `is_ready` counts sessions that were accepted; a caller that took its sessions
  before it asked holds fewer. `ReadyMeansAccepted` states what the count means.
* In `Container`, `entries_`, `last_error_` and the first error a call returns; and
  references a caller keeps after stop. An endpoint erased by `stop` comes back
  only after `stop_all` and `initialize`: `initialize` is refused before that.
* The packet's bytes: in `TcpComm` packets are numbers with a shape, in `WsComm`
  numbers; `PacketCodec` is composed with `UdpComm`, where a datagram is one packet.
* In `UdpComm`, a sender blocked in `sendto` when its descriptor is closed and the
  number given out again (the hazard `TcpComm_framing` shows for TCP).
  `RepliesGoToClients` excepts the moment of the copy and sends that a close
  overtook, `HeardCanBeAnswered` a socket that was shut down by a stop and a
  comm whose earlier `open` found no socket: with those the code does answer
  nobody, or the wrong one, and no comment promises better.
* In `WsComm`, the end of the comm object while sessions live (each handler then
  only logs and closes), `raw_is_running`, which reads the list of sessions
  without its mutex, and the close handshake's two sides. `raw_stop` restarts the
  io_context "for possible reuse" (src/src/comm_websocket.cpp:373) but does not
  renew `work_guard_`: the model runs into a `run` that returns at once after a
  restart. No doc or test restarts a comm, so `PeersServed` and, for a client,
  `SessionsAccounted` are claimed up to the second start.
* `Endpoint` keeps `pdu_def_` and `comm_` over `close`, and sets `pdu_def_` before it has
  loaded it: after a failed load the next `open` goes on with the entries before
  the error (`LoadedAsListed` says which), where FAQ.md advises to fix the path
  and try again. `Endpoint` models one open per close and no failed load.

## Plan

1. Done: caches and their contract, endpoint, raw comm base, TCP, UDP and
   WebSocket comms, multiplexer, container, shared memory comm, packet codec and
   PDU definitions.
2. Done: a theorem for every invariant and every refinement a run checks.
3. Next: composition, an endpoint over an abstract comm that restarts, and the
   container with the endpoint's own `close` in place of its single `Join` step;
   and theorems about what the liveness properties need of every state, as
   `StopInterrupts` and `StopsInterrupt` are.
