# A TLA+ development of the ESP32 MQTTS broker

The broker is a single-chip MQTT 3.1.1 server: two FreeRTOS tasks, ESP-TLS on top of lwIP
sockets, and four home-made containers. This directory holds TLA+ models of it, the TLC runs that
check them and TLAPS proofs about them. Paths like `worker.cpp:381` are under `src/main/`.

| file | what it is |
|---|---|
| `Reactor.tla` | the two tasks, their two queues, the descriptor sets and the life of every connection |
| `ConnLifecycle.tla` | abstract specification: the phases one descriptor goes through |
| `MCReactor*.{tla,cfg}` | four TLC instances of `Reactor` |
| `ReactorProofs.tla` | TLAPS proofs about `Reactor`, for all values of its constants |
| `PubStore.tla` | the open-addressing table of publications |
| `MCPubStore*.{tla,cfg}`, `PubStoreProofs.tla` | two TLC instances of it; proofs for every set of ids and every capacity |
| `Sessions.tla` | clients of `client_store` and the slots that serve them: CONNECT, takeover, DISCONNECT, wills |
| `MCSessions*.{tla,cfg}`, `SessionsProofs.tla` | two TLC instances of it; proofs for any number of clients and descriptors |
| `Delivery.tla` | QoS exchanges, `packid_state`, fan-out, retained and will messages, reference counts |
| `MCDelivery*.{tla,cfg}`, `DeliveryProofs.tla`, `DeliveryMessageProofs.tla`, `DeliveryCountProofs.tla` | two TLC instances of it; proofs for all values of its constants: answers, messages, counts |
| `ChainMap.tla` | `myhashmap`: the operators `get`, `add`, `erase`, `rehash` and the iterator |
| `Topics.tla` | the subscriptions of one client, a tree of levels kept in `ChainMap`s |
| `SubscriptionSet.tla` | abstract specification of `Topics` |
| `MCTopics.{tla,cfg}`, `TopicsProofs.tla` | a TLC instance of `Topics`; proofs about it and about `ChainMap` for every hash |
| `Boot.tla`, `MCBoot.{tla,cfg}`, `BootProofs.tla` | start-up and the Wi-Fi retries, a TLC instance, and proofs for every limit |
| `PROJECT.json` | components, runs, mutants, the definition-to-source map, findings, hazards, theorems |

## 1. The system

### Components

| component | state | operations | modelled by |
|---|---|---|---|
| `tcp_server_task` (main.cpp:100-169) | `master_readfds`, `master_writefds`, the copies `select` overwrites | one pass: `select`, accept at most one, post every ready descriptor, apply every waiting request | `Reactor`, server actions |
| `worker` (worker.cpp) | per-descriptor slots `sock_to_clientid[64]` (TLS session, phase, client), client and topic tables, publication store | one event at a time: handshake step, one packet, or one queued send | `Reactor`, worker actions; what packets say is in `Sessions` and `Delivery` |
| the queues (main.cpp:178-179) | `pending_socks` (events, server to worker), `socks_for_fds` (requests, worker to server), 50 each | non-blocking post; a send that gives up after one second; non-blocking drain | `Reactor` |
| `Publishhashmap` | `map`, `power_of_cap`, `size` | `add`, `get`, `erase`, `rehash`, and the counting worker.cpp does on its nodes | `PubStore` |
| sessions (worker.cpp:354-407, 768-774; Client.hpp) | `client->sock`, `clean_session`, will | CONNECT, takeover, DISCONNECT, `drop_conn` | `Sessions`; their effect on sockets in `Reactor` |
| delivery (worker.cpp:25-147, 409-757, 776-856) | `packid_state` of 16 entries a slot, counts in the store, retained ids | PUBLISH, PUBACK, PUBREC, PUBREL, PUBCOMP, SUBSCRIBE, UNSUBSCRIBE, write events, retained messages, wills | `Delivery` |
| `myhashmap` | chained table, capacity, size | `add`, `get`, `erase`, `rehash`, iteration | `ChainMap`, checked through `Topics` |
| `Subscription` | tree of topic levels | `add_sub`, `delete_sub`, `is_subed_to`, `del_subs` | `Topics` |
| remaining-length decoding (worker.cpp:297-352, 657-670) | `uint16_t` multiplier and length | decode, bound checks of SUBSCRIBE | not modelled: arithmetic on one packet |
| boot (main.cpp:8-94, 167-190; wificonfig.cpp) | `error_count`, Wi-Fi event bits, retry count | five start-up calls and the Wi-Fi connection, with retries | `Boot` |
| `user_creds` | table of hashed passwords | set, check, load | only the outcome of the one call made, `LoginCrashes` in `Sessions` |
| `myvector` | pointer, size, capacity | `reserve`, `push_back` | no module of its own: `push_back` without memory in `Delivery`, the `reserve` that leaves the size at 0 in `ChainMap` |

### Interactions

```
 peers --TCP--> lwIP --select/accept--> tcp_server_task --pending_socks--> worker --TLS--> peers
                  ^                           ^                              |
                  |                           +--------socks_for_fds---------+
                  +------------------------close / reuse---------------------+
```

The five models of the broker at work look at one state from different sides. `Reactor` has the sockets
and the two tasks, and any handler may do anything to them. `Sessions` has which client a slot serves.
`Delivery` has what a slot owes its client. `PubStore` and `Topics` have two of the worker's tables.
Only the worker touches the state of the last four, one event at a time, so an action of
theirs is a whole handler. `Reactor` shows where a handler can be interrupted and what the server does
meanwhile.

A descriptor's bit is cleared when its event is posted (main.cpp:138, 144). It is set again only if
the worker's handler asks for it (`sendtoque`, worker.cpp:15-23). So service is a token that travels
*bit, `readfds`, `pending_socks`, worker, `socks_for_fds`, bit*, and a connection whose token is
lost stays open and is never served. A new connection starts with its token in `pending_socks`
(main.cpp:127); no bit is set for it.

### What is hard here

- **Interleaving.** The worker closes descriptors while bits of them are set, events of them are
  queued, and the server may accept a new connection on the same number. `drop_conn` closes first,
  publishes the will, and only then resets the slot (worker.cpp:149-176).
- **Full queues.** Both directions lose messages: the server posts without waiting and ignores the
  result; the worker gives up after a second.
- **A failing `select`.** Its result is ignored (main.cpp:111). A closed descriptor in the sets makes
  every armed descriptor look ready, the listening one included.
- **Blocking.** Accepted sockets are blocking and the one worker reads them synchronously.
- **Hashing at the limit.** The store's probing loops look at two slots whatever its capacity.
- **Reuse of ids.** Packet ids of all publishers share one store.
- **Raw pointers.** Slots point to clients that another slot's `drop_conn` may destroy
  (worker.cpp:167); `client->sock` outlives the connection it names (worker.cpp:373).
- **Left-over entries.** `drop_conn` leaves `packid_state` to the next client on the descriptor.
- **Loops that do not end.** No loop of Subscription.cpp steps over a '/', and `myhashmap::rehash` moves nothing.

The complete list, each at its line, is `hazards` in `PROJECT.json`.

### What makes each component correct

- *Server and worker:* the service token of an open connection is never lost except where the code
  visibly gives it up; a slot's phase and TLS session always belong to the connection its
  descriptor stands for; every handler ends; every accepted connection is served.
- *Store:* a publication somebody still holds is found under its id; growth comes before the table is
  full; nothing is lost except by its last release or by crowding of its home slots.
- *Sessions:* publications go to the socket of the client they are for; a slot whose socket its
  client records is the only one serving it; nobody destroys the client of such a slot.
- *Delivery:* counts in the store cover the obligations in `packid_state`; an acknowledgement that is
  owed finds its entry; the message sent is the one queued; what is queued has a write event.
- *`myhashmap`:* nodes are where `get` looks for them; a walk sees each once; few are never lost.
- *`Subscription`:* a client is sent only what a filter of its own may match, at the level last granted for it.
- *Remaining length:* decoding agrees with the MQTT definition on every byte sequence it accepts.
- *Boot:* nobody is served before every call succeeded; failures are counted to the limit; waits end.

## 2. The models

### Reactor

`srv` and `wpc` are the program counters of the two tasks. An action ends where the code makes
something visible to the other task: a queue operation, a `select`, a `close`.

| action | code |
|---|---|
| `Select` | main.cpp:106-112 |
| `AcceptNew`, `AcceptNone` | main.cpp:112-129; one accept a pass, the first event posted directly |
| `PostRead`, `PostWrite` | main.cpp:130-145; ascending, the read of a descriptor before its write |
| `Drain`, `EndPass` | main.cpp:147-168; requests applied one by one until the queue is empty |
| `Take` | worker.cpp:201-209 |
| `SendOk`, `SendTimesOut` | one `sendtoque` (worker.cpp:15-23), and what `publish_by_topic` tries next (worker.cpp:127-140) |
| `TlsAllocFails`, `HandshakeFails`, `HandshakeStep` | worker.cpp:211-278 |
| `PacketDrops`, `PacketAnswered`, `PacketPublished`, `PacketIgnored`, `Takeover` | worker.cpp:280-774, split by what the handler sends |
| `Evict`, `CloseDropped`, `ResetSlot` | the takeover's end (worker.cpp:380-407); `drop_conn` after its `delall` (worker.cpp:149-176) |
| `WriteQueued` | worker.cpp:776-856 |
| `PeerSend` | external: a record, or the end of the stream, arrives |

A handler is a list of requests still to send (`todo`) and the place it goes on afterwards (`after`).
`Proceed` is the common end of all of them. `unwatched` is a history variable: the sockets an
event or a request of which the code gave up. `tls[s]` records whether the slot's session was made
on the connection that the descriptor stands for now; closing a descriptor without
`drop_conn` or a takeover (`TlsAllocFails`) leaves the rest of the slot alone.

Abstracted: what a packet says, so that any handler may run on any packet, and which sockets a
publication addresses (any list of at most `MaxFanout`). Both make the model allow more than the code does, so
safety results carry over. External code (lwIP, FreeRTOS queues, ESP-TLS) is modelled by how
`src/` uses it. An open socket is taken to be writable and a TLS write to end.

`ConnLifecycle` is the abstract specification. Each descriptor is closed, accepted, in its own
handshake, or in MQTT. `Stage` is the refinement mapping. A slot that `drop_conn` has closed but
not yet reset counts as the stage of its descriptor: closed, or accepted if a new connection has
come in between.

### PubStore

`Add`, `AddNoMemory`, `Hold` and `Release` are what `worker.cpp` does with the store, each with the
whole call: growth and rehash are inside `Add`. `knuth_hash` is the exact 32-bit computation, written so
that no intermediate value leaves TLC's integers. `Place` and `Find` are what the probing
loops end with: the loops increment `id` where `cur_id` is meant (Publishhashmap.cpp:16, 45,
Publishhashmap.hpp:28), so they look at the home slot and the next one only. `Rehashed` fills
the new table in slot order with the same two-slot probing, by a recursive function.

### Sessions

`up[s]` is the MQTT phase of a slot, `cid[s]` the id it has logged in with, `session[c]` the `Client` of an
id in `client_store`, `gone[s]` that the slot's client pointer dangles.

| action | code |
|---|---|
| `HandshakeDone`, `CloseUnknown` | the ends of `Reactor`'s TLS phases; a drop before any CONNECT is accepted |
| `ConnectNew`, `TakeOver`, `Resume` | CONNECT, worker.cpp:354-407: no such client, a client with a socket, one without |
| `Subscribe`, `Publish` | whether the client has the one topic; `publish_by_topic` and the offline subscribers it marks |
| `Drop`, `Disconnect` | `drop_conn` (worker.cpp:149-176) with its will; DISCONNECT (worker.cpp:768-774) |
| `FreedUse` | a slot uses a client that was destroyed: several outcomes, as C++ leaves it open |
| `Panic` | a login, a growing `client_store`, a takeover, a write before an array or a freed client ends in a reboot |

`sock` is written only when a client is made, and set to -1 when a persistent one is dropped. So a resumed
client has no socket, and after a takeover the recorded socket is the old one. Properties say
what is safe nevertheless. `OnlyTakeoverMisroutes` is the sharpest: the recorded socket comes to be
another connection's only by a takeover of that very descriptor.

### Delivery

`packs[s]` is `packid_state`, `store` the publication store, `retained` the ids kept for topics and `armed[s]`
the events the server is asked for.

| action | code |
|---|---|
| `Publish` | worker.cpp:409-502: the sender's own entry, the retained copy, `publish_by_topic` (worker.cpp:97-147) |
| `Puback`, `Pubrec`, `Pubrel`, `Pubcomp` | worker.cpp:503-635, when an entry waits for it |
| `MalformedAck` | the acknowledgement of a wrong length that sends the message again |
| `Subscribe`, `Unsubscribe` | worker.cpp:636-757: the level granted, and the retained message queued |
| `WriteNothing`, `WriteAck`, `WritePublish` | worker.cpp:776-856: the first entry to send, and the event asked for next |
| `Drop`, `DropWithWill` | the entries stay in the slot; the will becomes a publication |
| `Connect` | the read event of a new client |

An acknowledgement that nobody waits for drops the connection: it is a `Drop`. `PublishByTopic` holds a
reference while it looks for subscribers, as the code does. The store is seen through what `PubStore` shows
of it: `Added` takes a free node,
writes over one, or fails, and growth before it (`Moved`) may lose any nodes; which node of an id `get` finds is open. `Noted` is
`retained_sub_msg`, which may lack memory for a topic or grow and be emptied. History variables
say what the client owes (`owed`), which ids lost a message (`lost`), and which ids were
published again while in use (`mixed`); the field `msg` names the publication an entry was made for and the one a
node holds (0 for bytes that are no PUBLISH of that id: what a will, or a failed `add`, leaves there).

### ChainMap, Topics, SubscriptionSet

`ChainMap` is `myhashmap`, a map being a value: its chains and the count it keeps. `Rehashed` moves nothing,
because the loop runs to the size of the old vector and that is 0 (`reserve` does not set it). `Hash` is a
constant, since `fnv1a_hash` looks at the first and last characters only and collides freely.

`Topics` holds the children of the root of one client's tree. No loop of Subscription.cpp steps over a '/',
so a topic of one level is a child of the root, and a topic with more shows its first level and
then only empty ones: `SubscribeDeep` may leave such a chain and always answers with an error.
`UnsubscribeUnknown` dereferences a null child, and `UnsubscribeDeep` may loop for ever (`hung`).
`SubscriptionSet` is the abstract specification: each topic of one level has a level of its own or none, and
changes one at a time, or all are lost at once. The mapping is `MaxQos`, the level the tree keeps for a filter.

Filters may be wildcards (`Wild`); messages have a topic that is none (`Plain`), as MQTT demands of publishers and the code does not check. `is_subed_to` is the lookup of the code, which
finds the node of that very name. `MaxQos` is about what the tree keeps, and holds of wildcards as of any filter.
`NothingUnasked` is about what is matched, and is written for a broker as README.md:5 of the repository describes it: a message may go to a
client by its own name or by a wildcard the client was granted. That the code never matches by a wildcard is no part of it.

### Boot

`StartWifi`, `WaitReturns` are `wifi_init_sta` and `app_main`; `StaStart`, `GotIp`, `Disconnected` the event handler
(wificonfig.cpp:26-57); `Try` and `error_check` the calls of `tcp_server_task` (main.cpp:40-94) and the check
after each loop (main.cpp:8-18). `error_check` sees the count only, so a last try that succeeds is thrown away
after as many errors as are allowed. `drops` and `fails` are history variables counting what
really failed; the properties compare them with the program's own counters.

## 3. The runs

| run | instance | shows |
|---|---|---|
| `reactor_safety` | 2 descriptors, queues of 1, 1 record, 1 packet a record, fan-out 1 | `TypeOK`, `SlotOwnsConnection`, `NoSilentLoss`, refinement of `ConnLifecycle`, no deadlock; 3.9 million states |
| `reactor_live` | 1 descriptor, queues of 2, up to 2 packets a record | `WorkerReturns`, `AcceptedIsServed`, `SelectRecovers`, `BufferedIsRead` under `LiveSpec` |
| `reactor_overflow` | 3 descriptors, queues of 2 | **violated** `EveryClientWatched`: README.md:9 promises 64 concurrent clients, queues hold 50 events, a full queue forgets an open connection |
| `reactor_silent_peer` | 2 descriptors | **violated** `EventsAreTaken` under `FairSpec`: README.md:3 calls the logic asynchronous, but one silent peer stops the worker for all |
| `pubstore` | ids 2, 5, 8, 10, 16, capacities 2 to 8, counts to 2 | `TypeOK`, `LiveIsFound`, `SizeCoversLive`, `OnlyCrowdingLoses`, no deadlock |
| `pubstore_probing` | the same ids, capacity 4 to 8 | **violated** `OnlyReleaseLoses`: Publishhashmap.hpp:4 expects probing of up to O(n) slots, the third id of a home slot overwrites the second |
| `sessions` | 2 client ids, 3 descriptors | `TypeOK`, `RecordedSocketIsOnly`, `MarkedHasNoSocket`, `OwnSocketIsSafe`, `OnlyTakeoverMisroutes`, no deadlock; 390 thousand states |
| `session_present` | the same | **violated** `SessionPresentIsTold`: worker.cpp:48 says the byte depends on the stored session, the code always sends 0 |
| `delivery` | 2 interchangeable clients, 2 interchangeable ids, QoS 1, 2 nodes, 1 entry a slot, 2 publications, counts to 3 | `TypeOK`, `HonestAckIsFound`, `CountsCover`, `RightMessage`, no deadlock; 1.3 million states |
| `delivery_live` | 1 client, QoS 1 and 2, 1 node, 2 entries, 2 publications | `HonestAckIsFound`, `SendsAreArmed`, and under `LiveSpec` `QueuedIsSent` |
| `topics` | 4 first levels, one of them empty and one a wildcard, in chains that `SmallHash` makes collide; 3 nodes a chain before growth | `TypeOK`, `NothingUnasked`, `FewAreKept`, `WalkSeesAll`, refinement of `SubscriptionSet` |
| `boot` | both limits 10, as in the code | `TypeOK`, `GivenUpAfterRetries`, `RestartsForOneCall`, `CallsSucceed`, `WaitEnds`, `ServerSettles` |

**Why the bounds are enough.** With two descriptors and queues of one message every pairwise
interference occurs: a full queue in either direction, a stale event for a reused descriptor, a takeover of the
descriptor whose event is queued, a fan-out to the very socket being handled. The safety
results of all the runs do not rest on the bounds at all, because they are proved for every value of the
constants (section 5). `reactor_live` keeps a single descriptor because liveness checking is
costly; it still has reuse of the descriptor, full queues, failing selects and stale requests, but no
fan-out to another descriptor and no takeover. In `pubstore`, ids 2, 5 and 10 share their first home slot and 8 has the last
one, so crowding, wrap-around from the last slot, two rehashes, and growth refused for lack of
memory all occur. The counts go to 2 because `Add` starts at 1 or 2 and only "more than one holder" matters.

In `sessions`, three descriptors let one be recorded while two share its client, which is what it takes for a
drop of one to destroy the client of another, and for a recorded descriptor to serve the other id. In `delivery`, two ids
and two nodes give ids used by both clients at once, a node overwritten while it is referred to, an add that fails
next to a node of its id, and a fan-out to the publisher and another. One entry a slot makes
`packid_state` run out of memory at once. Full exchanges of QoS 2, and entries behind others, are in `delivery_live`.
`MaxCount` is the only bound that cuts behaviour of a kind: a `Publish` or `Subscribe` that would need more
references is not taken. In `topics` four names are one more than
a chain holds without growth, so the map grows and loses its nodes. The code grows at four nodes a chain instead
of three; nothing else depends on the number. `boot` uses the program's own limits.

**Deadlock** is checked in the passing runs but two. The broker's loop always has a next step. `topics`
may stop because the worker may hang (`hung`), and `boot` because once the server serves and the link
has been given up nothing more happens in start-up.

## 4. Fairness

`WF(Server)` and `WF(Worker)`: both tasks have the same priority (main.cpp:185-186) and FreeRTOS shares
the processor between ready tasks of equal priority. Each blocks only in calls that the model's
guards express (a full queue, an empty queue, a silent peer). `LiveSpec` adds weak fairness of each
peer's sending, which MQTT's keep-alive pings provide as long as a client lives, and a client that dies
ends its stream or is reset, which a read finds as well. The broker itself enforces no keep-alive, so
`FairSpec`, without the peers, is what the code alone justifies: `reactor_silent_peer` shows the
difference.

`Delivery!LiveSpec` has weak fairness of each connection's write event. The worker gets to every event
that is asked for, which `Reactor` justifies where queues have room and where peers go on sending: the only worker blocks in
reads of a silent one (`reactor_silent_peer`), and then no write event is handled either. `QueuedIsSent` so rests on the
same assumption about peers as `AcceptedIsServed`. No fairness is assumed of clients' packets, drops or publications.

`Boot!LiveSpec` has weak fairness of the handler's first call (`StaStart`), of the driver's answer to a
connection that was asked for (esp_wifi_connect always ends in one of the two events), and of the two tasks
(`WaitReturns`, `Task`: `xEventGroupWaitBits` returns once a bit is set, and the delays between tries are
finite). A driver that never disconnects is allowed.

## 5. The proofs

Every safety property, action property and refinement that a passing run checks is proved. Eight modules hold the
proofs: `ReactorProofs`, `PubStoreProofs`, `SessionsProofs`, `DeliveryProofs`, `DeliveryMessageProofs`,
`DeliveryCountProofs`, `TopicsProofs`, `BootProofs`. Each assumes only the named assumptions on constants of the module it is about; TLC evaluates them in the runs.

### Reactor

`ReactorProofs` assumes only `SocksAssumption` (descriptors are numbers and the listening one is not
among those accept hands out) and `BoundsAssumption` (queues hold at least one message, a record
holds at least one packet, the other bounds are naturals). TLC evaluates both on every run.

| theorem | statement |
|---|---|
| `TypeCorrect` | `Spec => []TypeOK` |
| `SlotOwns` | `Spec => []SlotOwnsConnection` |
| `NoConnectionForgotten` | `Spec => []NoSilentLoss` |
| `LifecycleImplemented` | `Spec => ImplementsLifecycle` |

*The argument.* `TInv` is `TypeOK` with `WorkerControl`, which ties the worker's place to its message,
its list and its victim (it is sending exactly while something is left to send; an eviction has a
victim other than the socket being handled, whose slot is in MQTT). Types alone are not
inductive: `ResetSlot` writes a slot and needs to know the message is about a socket. Every
handler ends in `Proceed`, so `ProceedTInv` proves preservation once for all of them. `SInv` adds
`SlotOwnsConnection`, preserved because each close resets the slot or leaves the
worker in `Resetting` for that socket, and accept hands out only descriptors that are closed.

`NInv` adds `NoSilentLoss`. Its heart is the pair `Rearms`, `Spares`: a list of requests applied in order
leaves a bit set if its last word on the socket is an arming one, or if it says nothing and the
bit is set before. `HeadDecides` and `LastDecides` describe how these change when the list
loses its head (the server applies a request, the worker sends one) or gains a tail (the worker's
request enters the queue). Then each step moves the token from one disjunct of
`NoSilentLoss` to the next.

The refinement is proved by `SInv`: every step that changes a `Stage` does so for one descriptor and
as one action of `ConnLifecycle`, and every other step stutters.

### PubStore

| theorem | statement |
|---|---|
| `HashIsExact` | `knuth_hash` equals the product and shift in 32 bits of Publishhashmap.hpp:8-13 |
| `StoreTypes` | `Spec => []TypeOK` |
| `HeldIsFound` | `Spec => []LiveIsFound` |
| `GrowsInTime` | `Spec => []SizeCoversLive` |
| `CrowdingLoses` | `Spec => OnlyCrowdingLoses` |

From `IdsAssumption` (ids are 16-bit numbers and not 0) and `PowersAssumption`. The inductive invariant is
`StoreInv`: a taken slot is one of the two its id may have, a free one is `Free`, and the number of taken slots is at most `size`, which is at most the capacity. `LiveIsFound` alone is not
inductive: an id found today may be in a slot that a rehash would not look at. The hard step is `Rehashed`, which is defined by a
recursive function over the slots of the old table. `MovesExist` shows that there is such a function and
`RehashedIs` that the definition denotes it; `OneMoved` then says what one step does to the new table and
`RehashedOK` sums it up over all slots (`MovedOK`): every node is in one of its two slots, no more are taken than
nodes have been moved, and of the messages of an id none is missing unless some id crowds it. The induction is `UpTo`: a set that has 0 and with each number below N the next one has all
of them. It is proved from the well-founded order of the naturals (`WFMin`) and needs no
operator as a parameter.

### Sessions

| theorem | statement |
|---|---|
| `TypeCorrect` | `Spec => []TypeOK` |
| `RecordedIsOnly` | `Spec => []RecordedSocketIsOnly` |
| `MarkedIsOffline` | `Spec => []MarkedHasNoSocket` |
| `OwnSocketSafe` | `Spec => OwnSocketIsSafe` |
| `MisrouteNeedsTakeover` | `Spec => OnlyTakeoverMisroutes` |

From `NamesAssumption` (the three "nothing" values are none of the others). The inductive invariant is
`IInv`: `TypeOK`, `PointersValid` (a slot with a login whose client is not marked `gone` has one stored under its id),
`RecordedSocketIsOnly` and `MarkedHasNoSocket`. `PointersValid` is needed because `drop_conn` reads the client it is about to
destroy: without it a `Drop` could act on an id that has no client. `RoutedKeeps` says once that `publish_by_topic`
changes neither sockets nor `clean_session` and marks only a client without a socket, for `Publish` and for the will inside `Drop`.

### Delivery

| theorem | statement |
|---|---|
| `TypeCorrect` | `Spec => []TypeOK` |
| `HonestAcks` | `Spec => []HonestAckIsFound` |
| `MessagesMatch` (in `DeliveryMessageProofs`) | `Spec => []RightMessage` |
| `CountsSuffice` (in `DeliveryCountProofs`) | `Spec => []CountsCover` |
| `WritesAreArmed` (in `DeliveryCountProofs`) | `Spec => []SendsAreArmed` |

From `SocksAssumption` (finitely many descriptors), `IdsAssumption` (neither 0 nor `None` is an id), `QosAssumption` and
`BoundsAssumption`. `IInv` is `TypeOK`, `StoreOK` (a node that holds a message has a count of at least one,
without which giving back a reference could leave a count of -1) and `HonestAckIsFound`. The last compares
two numbers, so its argument is about cardinalities: adding an entry keeps every waiting entry where it
is (`AddKeeps`), leaving entries behind keeps them too (`LeftKeeps`), so nothing but an answer removes
one (`KeptHonest`); an answer removes one entry and one debt of the same state and id, and what is sent adds one of
each (`OneHonest`). This is why left-over entries of an earlier client on the
descriptor, and ids shared by publishers, do no harm to a client that answers what it was sent.

`RightMessage` compares an entry with a node, and a step that makes an entry would have to know what the other
entries of the id hold. `OneMessage` says it of all at once: outside `mixed`, all entries still to be sent under an id
and all nodes of it hold one message, or bytes that are none. Each operation is then described by what it adds
(`EntriesFrom`, `NodesFrom`): nothing, or the new message under the id it is published with. A publication
under an id in use puts it into `mixed`; under an unused id nothing else is held (`NewMessage`).

`CountsCover` compares the size of three sets that a handler changes together. `CountInv` is `IInv` with `CountsCover` and with `TopicsOK`
(only finitely many topics retain an id: `Topics` may be any set). Each operation
is described by how many references, retaining topics and uses of an id it adds or takes away: a hold adds one use, an
entry one reference, a release takes one of each. The fan-out of `publish_by_topic` adds an entry and a use for each subscriber
at once, so its set of new references is mapped onto its set of new uses. What the handler holds itself while it looks for subscribers
is the one use to spare. `SendsAreArmed` rests on it: an entry of the client's own is to be sent, so it refers to a count, so the
write handler finds the node and does not stop before it. `ArmInv` adds `SendsAreArmed` and
`LeftIsNotOwn` (no entry left over on a descriptor counts as its new client's), without which a new client could inherit something to send
that nobody asks an event for.

### ChainMap and Topics

| theorem | statement |
|---|---|
| `NodesAreFound` | `Spec => []TypeOK` |
| `NobodyElsesTopics` | `Spec => []NothingUnasked` |
| `FewTopicsStay` | `Spec => []FewAreKept` |
| `LoopsSeeAll` | `Spec => []WalkSeesAll` |
| `SetImplemented` | `Spec => ImplementsSet` |

From `HashAssumption` (a hash is a natural number, a chain may hold at least one node) and `TopicsAssumption`, for any hash.
The first part of `TopicsProofs` is about `myhashmap` alone. `MapOK(m, c)` says that `m` has `c` chains of nodes of their
hash, each key once, and counts at least its nodes; `Sees` is what `get` finds. `LinkedOK`, `ErasedOK`,
`ChangedOK`, `EmptiedOK` and `AddOK` say of each operation what it sees afterwards and how count and nodes
change. `TInv` then has the map `Good`, `OwnLevels` (a node is at the level last granted for its name or at none, from which `NothingUnasked` follows),
and, while the names ever asked for fit in one chain, `Exact`: the map
counts its nodes and no more. `Exact` is what `FewAreKept` needs to be inductive: a map that has grown once counts nodes
it has lost and may grow again at once. `NodesPerKey` is the reason why it does not grow before: there are no more
nodes than names. `SubMoves` says what a step does to `MaxQos`: nothing, all of it, or one
filter, and the refinement follows.

`LoopsSeeAll` orders the positions of a map by chain and place. `AfterIs` says that `operator++` adds just its own position
to those behind it, so after i steps i nodes are behind the iterator (`WalkStands`, by `UpTo`), and after as many steps as there
are nodes it can only be at the end.

### Boot

| theorem | statement |
|---|---|
| `TypeCorrect` | `Spec => []TypeOK` |
| `GivenUp` | `Spec => []GivenUpAfterRetries` |
| `OneCallRestarts` | `Spec => RestartsForOneCall` |
| `EveryCallSucceeds` | `Spec => CallsSucceed` |

From `BootAssumption`, for every pair of limits. `LinkCounted` and `CallCounted` tie the program's counters to the
history: `s_retry_num` is the number of disconnections since the last address, `error_count` the number of failures of
this call but for the last one, which is not counted yet.

### Model-checked only

Liveness: `WorkerReturns`, `AcceptedIsServed`, `SelectRecovers`, `BufferedIsRead`, `QueuedIsSent`, `WaitEnds`, `ServerSettles`. It rests on fairness,
whose meaning (`ENABLED`) is out of the prover's reach. The runs that expect a violation are counterexamples and have nothing to prove.

## 6. Not modelled

- Undefined behaviour after an UNSUBSCRIBE with wrong reserved bits (worker.cpp:728-732 drops the
  connection and then goes on with it) and after a CONNECT that takes over its own
  descriptor (worker.cpp:380-386 drops itself and then uses what it cleared).
- Time: the one-second send is only its outcomes, and keep-alive plays no part (worker.cpp:939 computes it and nothing uses it).
- Memory: a failed allocation is a nondeterministic outcome where the code handles it; leaks are not counted.
- In `PubStore`: packet id 0 (what a free slot holds; a random QoS 0 id may be 0), more than 255 holders
  of one publication, and the 2^32 rounds that a probe from the last slot may take.
- Wildcards that match: README.md:5 of the repository says wildcards are supported, but Subscription.cpp looks '+' and '#' up as
  they stand, so a client that was granted one is sent nothing by it. The code and that line disagree. `Topics` has the lookup of the code,
  and no property states that wildcards do, or do not, match.
- In `Delivery`: clients without a socket (they are in `Sessions`, where one topic stands for all), full queues
  (in `Reactor`), id 0, and counts that wrap at 256. A fan-out clears the read bit (worker.cpp:127), and in the model the
  client is not read until the write it has asked for is done; a read event that was in `pending_socks` by then is
  handled all the same, and the model has no such step. A stored message whose copy found no memory has a null `data.begin()`,
  which `publish` reads through (worker.cpp:62): a panic. In the model it is a message 0 and the run goes on. The panic would lead
  back to `Init` and adds no state, so the model allows more than the code.
- In `Sessions`: what the queued publications of an offline subscriber become (nothing sends them). In
  `Topics`: memory that ends between a level and its own empty map, and topics of length zero (for which `add_sub` marks the
  root itself). `WalkSeesAll` is checked on the map of a client's topics; the loop of `publish_by_topic` runs over
  `client_store`, another instance of the same template that starts with more chains. The lemmas about maps and
  about a walk are for any number of chains, the theorem starts from one.
- `myhashmap::update`, and the setters and hashing of `user_creds`: no code calls the former, and passwords are set by
  nobody; the one lookup there is always fails (`LoginCrashes`).
- Remaining length and the bounds checks on bytes of a packet (worker.cpp:297-352, 657-670), and the array of
  answers to an UNSUBSCRIBE (worker.cpp:738): arithmetic on one packet, on which no state of the models depends.
- Certificates, credentials and build files: constants.

## 7. What would come next

1. **Composition**: `Delivery` over `PubStore`'s own table in place of the abstract `Added` and `Found`, and over
   `Sessions` for offline subscribers.
2. **Proofs** that the composition implements `Delivery`: `Added`, `Found` and `Moved` against what `PubStoreProofs` says of `Add` and `Rehashed`.
3. **`RemainingLength`**: the decoder with its `uint16_t` multiplier against the definition in MQTT.
