------------------------------ MODULE Reactor ------------------------------
(***************************************************************************)
(* The two tasks of the broker and the two queues between them.            *)
(*                                                                         *)
(* tcp_server_task (main.cpp) owns the descriptor sets: it polls select,   *)
(* accepts, turns every ready descriptor into ONE message on pending_socks *)
(* and clears its bit, then applies the requests waiting on socks_for_fds. *)
(* worker (worker.cpp) takes the messages one by one, drives TLS and MQTT, *)
(* and asks for the bit again through socks_for_fds.  A connection whose   *)
(* bit nobody asks for again is never served again.                        *)
(*                                                                         *)
(* What the packets say is abstract: a handler may do whatever some packet *)
(* makes the code do.  Which sockets a publication addresses and which     *)
(* socket a reconnecting client takes over depend on session state that is *)
(* not in this module, so they are left open.                              *)
(*                                                                         *)
(* External, as the code uses it: lwIP sockets (select, accept, close,     *)
(* descriptor reuse), FreeRTOS queues, ESP-TLS.  Only the listening socket *)
(* is made non-blocking (main.cpp:60), so a TLS read on an accepted socket *)
(* waits for the peer.                                                     *)
(***************************************************************************)
EXTENDS Naturals, Sequences

CONSTANTS
  Socks,        \* descriptors accept can hand out and the slot table holds
  listen_sock,  \* the listening descriptor
  QLen,         \* length of either queue (50 in app_main)
  MaxRaw,       \* bound: TLS records waiting in a socket
  MaxBatch,     \* bound: MQTT packets in one TLS record
  MaxFanout     \* bound: sockets one publication addresses

ASSUME SocksAssumption == Socks \subseteq Nat /\ listen_sock \in Nat \ Socks
ASSUME BoundsAssumption ==
  /\ QLen \in Nat \ {0} /\ MaxRaw \in Nat
  /\ MaxBatch \in Nat \ {0} /\ MaxFanout \in Nat

VARIABLES
  pending_socks,    \* queue of events, server -> worker
  socks_for_fds,    \* queue of requests, worker -> server
  master_readfds, master_writefds,  \* bits select is asked about
  readfds, writefds,                \* what select answered, not yet posted
  srv,              \* where tcp_server_task is in its loop
  open,             \* open[s]: descriptor s stands for a connection
  raw,              \* raw[s]: records (or the FIN) in the socket's receive buffer
  buffered,         \* buffered[s]: packets already decrypted, not yet read
  phs,              \* phs[s]: sock_cid::phs of slot s
  tls,              \* tls[s]: the slot's TLS session was made on the connection
                    \* that descriptor s stands for now
  wpc,              \* where the worker is
  msg,              \* the message being handled
  todo,             \* requests the handler still has to send
  after,            \* where the worker goes when todo is empty
  victim,           \* slot being taken over
  unwatched         \* history: sockets an event or request of which was given up

queues == <<pending_socks, socks_for_fds>>
masters == <<master_readfds, master_writefds>>
snapshot == <<readfds, writefds>>
net == <<open, raw, buffered>>
slots == <<phs, tls>>
work == <<wpc, msg, todo, after, victim>>
vars == <<queues, masters, snapshot, srv, net, slots, work, unwatched>>

Phases == {"uninit", "tls_handshake", "mqtt"}
Events == [socket : Socks, op : {"read", "write"}]
Requests == [socket : Socks, op : {"read", "write", "delread", "delall"}]
\* What a handler has left to send.  "notify" is the delread-then-write pair of
\* publish_by_topic, "pub" its second half, which falls back to a read.
Sends == [socket : Socks, op : {"read", "write", "delall", "notify", "pub"}]

Ask(s, o) == [socket |-> s, op |-> o]
NoMsg == Ask(listen_sock, "read")
Fanouts == UNION {[1..n -> Socks] : n \in 0..MaxFanout}
Notify(targets) == [i \in DOMAIN targets |-> Ask(targets[i], "notify")]

Init ==
  /\ pending_socks = <<>> /\ socks_for_fds = <<>>
  /\ master_readfds = {listen_sock} /\ master_writefds = {}
  /\ readfds = {} /\ writefds = {}
  /\ srv = "select"
  /\ open = [s \in Socks |-> FALSE]
  /\ raw = [s \in Socks |-> 0]
  /\ buffered = [s \in Socks |-> 0]
  /\ phs = [s \in Socks |-> "uninit"]
  /\ tls = [s \in Socks |-> FALSE]
  /\ wpc = "idle" /\ msg = NoMsg /\ todo = <<>> /\ after = "idle"
  /\ victim = listen_sock
  /\ unwatched = {}

-----------------------------------------------------------------------------
(* The peers.                                                              *)

\* One more TLS record, or the end of the stream, which a read finds as well.
PeerSend(s) ==
  /\ open[s] /\ raw[s] < MaxRaw
  /\ raw' = [raw EXCEPT ![s] = @ + 1]
  /\ UNCHANGED <<open, buffered>>
  /\ UNCHANGED <<queues, masters, snapshot, srv, slots, work, unwatched>>

Peers == \E s \in Socks : PeerSend(s)

-----------------------------------------------------------------------------
(* tcp_server_task.                                                        *)

\* lwIP's select fails when a bit belongs to a closed descriptor, and then
\* leaves the sets it was given as they are; the code does not look at the
\* result (main.cpp:111), so every armed descriptor counts as ready.
BadDescriptor == \E s \in (master_readfds \cup master_writefds) \cap Socks : ~open[s]
\* Mutant: a failed select reports nothing, and the bad bit is never cleared.
ReadySetOrNothing(waiting) ==
  IF BadDescriptor THEN {}
                   ELSE {s \in master_readfds : IF s = listen_sock THEN waiting ELSE raw[s] > 0}

\* Bits select answers with: a peer may be waiting to be accepted or not, and
\* an open socket is taken to be writable.
ReadySet(waiting) ==
  IF BadDescriptor THEN master_readfds
                   ELSE {s \in master_readfds : IF s = listen_sock THEN waiting ELSE raw[s] > 0}

Select ==
  /\ srv = "select"
  /\ \E waiting \in BOOLEAN : readfds' = ReadySet(waiting)
  /\ writefds' = master_writefds
  /\ srv' = IF listen_sock \in readfds' THEN "accept" ELSE "post"
  /\ UNCHANGED <<queues, masters, net, slots, work, unwatched>>

\* Mutant: the queue is taken to have room.
PostUnchecked(s, o) == pending_socks' = Append(pending_socks, Ask(s, o)) /\ UNCHANGED unwatched

\* xQueueSendToBack(pending_socks, .., 0): a full queue drops the message, and
\* the code ignores the result.
Post(s, o) ==
  IF Len(pending_socks) < QLen
    THEN pending_socks' = Append(pending_socks, Ask(s, o)) /\ UNCHANGED unwatched
    ELSE unwatched' = unwatched \cup {s} /\ UNCHANGED pending_socks

\* Mutant: a new connection is left to select, which has no bit of it.
AcceptUnposted(s) ==
  /\ srv = "accept"
  /\ ~open[s] /\ \A t \in Socks : ~open[t] => s <= t
  /\ open' = [open EXCEPT ![s] = TRUE]
  /\ readfds' = readfds \ {listen_sock} /\ srv' = "post"
  /\ UNCHANGED <<raw, buffered, queues, masters, writefds, slots, work, unwatched>>

\* accept hands out the lowest free descriptor and no bit is set for it: the
\* first event, a write, is posted directly.
AcceptNew(s) ==
  /\ srv = "accept"
  /\ ~open[s] /\ \A t \in Socks : ~open[t] => s <= t
  /\ open' = [open EXCEPT ![s] = TRUE]
  /\ Post(s, "write")
  /\ readfds' = readfds \ {listen_sock} /\ srv' = "post"
  /\ UNCHANGED <<raw, buffered, socks_for_fds, masters, writefds, slots, work>>

\* accept found nothing (a failed select, a peer that gave up, no descriptor
\* left), or the descriptor handed out was above 63 and was closed at once.
AcceptNone ==
  /\ srv = "accept"
  /\ readfds' = readfds \ {listen_sock} /\ srv' = "post"
  /\ UNCHANGED <<queues, masters, writefds, net, slots, work, unwatched>>

\* The for loop over descriptors: ascending, read before write.
NextReady(s) == /\ s \in (readfds \cup writefds)
                /\ \A t \in readfds \cup writefds : s <= t

PostRead(s) ==
  /\ srv = "post" /\ NextReady(s) /\ s \in readfds
  /\ Post(s, "read")
  /\ readfds' = readfds \ {s}
  /\ master_readfds' = master_readfds \ {s}
  /\ UNCHANGED <<socks_for_fds, master_writefds, writefds, srv, net, slots, work>>

PostWrite(s) ==
  /\ srv = "post" /\ NextReady(s) /\ s \notin readfds
  /\ Post(s, "write")
  /\ writefds' = writefds \ {s}
  /\ master_writefds' = master_writefds \ {s}
  /\ UNCHANGED <<socks_for_fds, master_readfds, readfds, srv, net, slots, work>>

\* while (xQueueReceive(socks_for_fds, .., 0)): apply the oldest request.
Drain ==
  /\ srv = "post" /\ readfds \cup writefds = {} /\ socks_for_fds # <<>>
  /\ LET r == Head(socks_for_fds) IN
       /\ master_readfds' = CASE r.op = "read" -> master_readfds \cup {r.socket}
                              [] r.op = "write" -> master_readfds
                              [] OTHER -> master_readfds \ {r.socket}
       /\ master_writefds' = CASE r.op = "write" -> master_writefds \cup {r.socket}
                               [] r.op = "delall" -> master_writefds \ {r.socket}
                               [] OTHER -> master_writefds
  /\ socks_for_fds' = Tail(socks_for_fds)
  /\ UNCHANGED <<pending_socks, snapshot, srv, net, slots, work, unwatched>>

EndPass ==
  /\ srv = "post" /\ readfds \cup writefds = {} /\ socks_for_fds = <<>>
  /\ srv' = "select"
  /\ UNCHANGED <<queues, masters, snapshot, net, slots, work, unwatched>>

Server ==
  \/ Select \/ AcceptNone \/ Drain \/ EndPass
  \/ \E s \in Socks : AcceptNew(s) \/ PostRead(s) \/ PostWrite(s)

-----------------------------------------------------------------------------
(* worker.                                                                 *)

\* Send these requests one by one, then go on at the place named.  A handler
\* that ends forgets its message; drop_conn overwrites the operation in it.
Proceed(sends, next) ==
  /\ todo' = sends
  /\ after' = IF sends = <<>> THEN "idle" ELSE next
  /\ wpc' = IF sends = <<>> THEN next ELSE "sending"
  /\ msg' = CASE next = "idle" -> NoMsg
              [] next = "closing" -> Ask(msg.socket, "delall")
              [] OTHER -> msg

\* closesocket: the descriptor is free for the next accept.
Close(s) ==
  /\ open' = [open EXCEPT ![s] = FALSE]
  /\ raw' = [raw EXCEPT ![s] = 0]
  /\ buffered' = [buffered EXCEPT ![s] = 0]
  /\ unwatched' = unwatched \ {s}

Take ==
  /\ wpc = "idle" /\ pending_socks # <<>>
  /\ msg' = Head(pending_socks)
  /\ pending_socks' = Tail(pending_socks)
  /\ wpc' = "got"
  /\ UNCHANGED <<socks_for_fds, todo, after, victim>>
  /\ UNCHANGED <<masters, snapshot, srv, net, slots, unwatched>>

\* The request that stands for r on socks_for_fds.
Request(r) == CASE r.op = "notify" -> Ask(r.socket, "delread")
                [] r.op = "pub" -> Ask(r.socket, "write")
                [] OTHER -> r

\* One call of sendtoque: it waits for room, and gives up after a second.
SendOk ==
  /\ wpc = "sending" /\ Len(socks_for_fds) < QLen
  /\ LET r == Head(todo) IN
       /\ socks_for_fds' = Append(socks_for_fds, Request(r))
       /\ Proceed((IF r.op = "notify" THEN <<Ask(r.socket, "pub")>> ELSE <<>>) \o Tail(todo),
                  after)
  /\ UNCHANGED <<pending_socks, masters, snapshot, srv, net, slots, victim, unwatched>>

\* Mutant: a subscriber's bit was cleared and no request sets it again.
FallBackNone(r) == IF r.op = "notify" THEN <<Ask(r.socket, "pub")>> ELSE <<>>

\* What is left to try when a send timed out: publish_by_topic goes on after a
\* failed delread, and asks to read after a failed write.
FallBack(r) == CASE r.op = "notify" -> <<Ask(r.socket, "pub")>>
                 [] r.op = "pub" -> <<Ask(r.socket, "read")>>
                 [] OTHER -> <<>>

SendTimesOut ==
  /\ wpc = "sending" /\ Len(socks_for_fds) >= QLen
  /\ LET r == Head(todo) IN
       /\ Proceed(FallBack(r) \o Tail(todo), after)
       /\ unwatched' = IF r.op \in {"read", "write"} THEN unwatched \cup {r.socket}
                                                    ELSE unwatched
  /\ UNCHANGED <<queues, masters, snapshot, srv, net, slots, victim>>

\* A TLS read or handshake step on an open blocking socket waits for the peer.
ReadRecord(s) == raw' = [raw EXCEPT ![s] = @ - 1]

Handshaking(s) == wpc = "got" /\ msg.socket = s /\ phs[s] \in {"uninit", "tls_handshake"}

\* esp_tls_init returned null: the descriptor is closed and its bits are not cleared.
TlsAllocFails(s) ==
  /\ Handshaking(s) /\ phs[s] = "uninit"
  /\ Close(s)
  /\ Proceed(<<>>, "idle")
  /\ UNCHANGED <<queues, masters, snapshot, srv, slots, victim>>

\* The session is set up on whatever connection the descriptor stands for now.
SessionOn(s) == [tls EXCEPT ![s] = IF phs[s] = "uninit" THEN open[s] ELSE @]

\* drop_conn up to its first blocking point: delall is queued before the close.
DropConn(s) == Proceed(<<Ask(s, "delall")>>, "closing")

HandshakeFails(s) ==
  /\ Handshaking(s) /\ (open[s] => raw[s] > 0)
  /\ tls' = SessionOn(s)
  /\ DropConn(s)
  /\ UNCHANGED <<phs, queues, masters, snapshot, srv, net, victim, unwatched>>

\* code 0: the mqtt phase begins.  WANT_WRITE, WANT_READ: one more round trip.
HandshakeStep(s, phase, op) ==
  /\ Handshaking(s) /\ open[s] /\ raw[s] > 0
  /\ phase = "mqtt" => op = "read"
  /\ ReadRecord(s)
  /\ tls' = SessionOn(s)
  /\ phs' = [phs EXCEPT ![s] = phase]
  /\ Proceed(<<Ask(s, op)>>, "idle")
  /\ UNCHANGED <<open, buffered>>
  /\ UNCHANGED <<queues, masters, snapshot, srv, victim, unwatched>>

Reading(s) == wpc = "got" /\ msg = Ask(s, "read") /\ phs[s] = "mqtt"

\* One MQTT packet: a packet TLS has already decrypted, or the first of the
\* k packets of the next record.
ReadPacket(s) ==
  /\ \/ /\ buffered[s] > 0
        /\ buffered' = [buffered EXCEPT ![s] = @ - 1]
        /\ UNCHANGED raw
     \/ /\ buffered[s] = 0 /\ raw[s] > 0
        /\ ReadRecord(s)
        /\ \E k \in 1..MaxBatch : buffered' = [buffered EXCEPT ![s] = k - 1]
  /\ UNCHANGED open

\* The peer is gone, CONNECT is refused, a length is malformed, nobody waits
\* for this acknowledgement, reserved bits are set, DISCONNECT.  A SUBSCRIBE
\* may have asked to write before it fails.
PacketDrops(s) ==
  /\ Reading(s) /\ ReadPacket(s)
  /\ \E sent \in {<<>>, <<Ask(s, "write")>>} :
       Proceed(sent \o <<Ask(s, "delall")>>, "closing")
  /\ UNCHANGED <<queues, masters, snapshot, srv, slots, victim, unwatched>>

\* Mutant: an answer asks for no event.
PacketAnsweredOnly(s) ==
  /\ Reading(s) /\ ReadPacket(s)
  /\ Proceed(<<>>, "idle")
  /\ UNCHANGED <<queues, masters, snapshot, srv, slots, victim, unwatched>>

\* Every packet that is answered asks for exactly one more event, except a
\* SUBSCRIBE that finds a retained message, which asks for both (bound: one
\* such message per SUBSCRIBE).
PacketAnswered(s) ==
  /\ Reading(s) /\ ReadPacket(s)
  /\ \E ops \in {<<"read">>, <<"write">>, <<"write", "read">>} :
       Proceed([i \in DOMAIN ops |-> Ask(s, ops[i])], "idle")
  /\ UNCHANGED <<queues, masters, snapshot, srv, slots, victim, unwatched>>

\* PUBLISH: the sender's own request first, then publish_by_topic.
PacketPublished(s) ==
  /\ Reading(s) /\ ReadPacket(s)
  /\ \E targets \in Fanouts, op \in {"read", "write"} :
       Proceed(<<Ask(s, op)>> \o Notify(targets), "idle")
  /\ UNCHANGED <<queues, masters, snapshot, srv, slots, victim, unwatched>>

\* No branch matches (a second CONNECT, say), or an acknowledgement with a
\* wrong length is answered by sending the publication again: the handler ends
\* without asking for anything.
PacketIgnored(s) ==
  /\ Reading(s) /\ ReadPacket(s)
  /\ Proceed(<<>>, "idle")
  /\ unwatched' = unwatched \cup {s}
  /\ UNCHANGED <<queues, masters, snapshot, srv, slots, victim>>

\* CONNECT of a client that has a socket already.
Takeover(s, t) ==
  /\ Reading(s) /\ ReadPacket(s) /\ t # s
  /\ victim' = t
  /\ Proceed(<<Ask(t, "delall")>>, "evicting")
  /\ UNCHANGED <<queues, masters, snapshot, srv, slots, unwatched>>

\* Mutant: the slot of the old socket keeps its phase.
EvictKeepsPhase ==
  /\ wpc = "evicting"
  /\ tls' = [tls EXCEPT ![victim] = FALSE]
  /\ Close(victim)
  /\ victim' = listen_sock
  /\ \E op \in {"read", "write"} : Proceed(<<Ask(msg.socket, op)>>, "idle")
  /\ UNCHANGED <<phs, queues, masters, snapshot, srv>>

\* The end of a takeover: the old socket is dropped and the CONNECT answered.
Evict ==
  /\ wpc = "evicting"
  /\ phs' = [phs EXCEPT ![victim] = "uninit"]
  /\ tls' = [tls EXCEPT ![victim] = FALSE]
  /\ Close(victim)
  /\ victim' = listen_sock
  /\ \E op \in {"read", "write"} : Proceed(<<Ask(msg.socket, op)>>, "idle")
  /\ UNCHANGED <<queues, masters, snapshot, srv>>

\* Mutant: the handler goes on with the next packet itself.
WriteAgain(s) ==
  /\ wpc = "got" /\ msg = Ask(s, "write") /\ phs[s] = "mqtt"
  /\ Proceed(<<Ask(s, "write")>>, "got")
  /\ UNCHANGED <<queues, masters, snapshot, srv, net, slots, victim, unwatched>>

\* A write event: send one packet at most, then ask to write while some are
\* left and to read otherwise.
WriteQueued(s) ==
  /\ wpc = "got" /\ msg = Ask(s, "write") /\ phs[s] = "mqtt"
  /\ \E op \in {"read", "write"} : Proceed(<<Ask(s, op)>>, "idle")
  /\ UNCHANGED <<queues, masters, snapshot, srv, net, slots, victim, unwatched>>

\* drop_conn after its delall: close, then publish the will if there is one.
CloseDropped ==
  /\ wpc = "closing"
  /\ tls' = [tls EXCEPT ![msg.socket] = FALSE]
  /\ Close(msg.socket)
  /\ \E targets \in Fanouts :
       /\ phs[msg.socket] # "mqtt" => targets = <<>>
       /\ Proceed(Notify(targets), "resetting")
  /\ UNCHANGED <<phs, queues, masters, snapshot, srv, victim>>

\* Mutant: the phase of a dropped slot is not reset.
ResetNothing ==
  /\ wpc = "resetting"
  /\ Proceed(<<>>, "idle")
  /\ UNCHANGED <<slots, queues, masters, snapshot, srv, net, victim, unwatched>>

ResetSlot ==
  /\ wpc = "resetting"
  /\ phs' = [phs EXCEPT ![msg.socket] = "uninit"]
  /\ Proceed(<<>>, "idle")
  /\ UNCHANGED <<tls, queues, masters, snapshot, srv, net, victim, unwatched>>

Handshake(s) ==
  \/ TlsAllocFails(s) \/ HandshakeFails(s)
  \/ \E op \in {"read", "write"} :
       HandshakeStep(s, "mqtt", op) \/ HandshakeStep(s, "tls_handshake", op)

HandlePacket(s) ==
  \/ PacketDrops(s) \/ PacketAnswered(s)
  \/ PacketPublished(s) \/ PacketIgnored(s)
  \/ \E t \in Socks : Takeover(s, t)

Worker ==
  \/ Take \/ SendOk \/ SendTimesOut \/ CloseDropped \/ ResetSlot \/ Evict
  \/ \E s \in Socks : Handshake(s) \/ HandlePacket(s) \/ WriteQueued(s)

Next == Peers \/ Server \/ Worker

Spec == Init /\ [][Next]_vars

-----------------------------------------------------------------------------
(* What must hold.                                                         *)

TypeOK ==
  /\ pending_socks \in Seq(Events) /\ Len(pending_socks) <= QLen
  /\ socks_for_fds \in Seq(Requests) /\ Len(socks_for_fds) <= QLen
  /\ master_readfds \subseteq Socks \cup {listen_sock} /\ master_writefds \subseteq Socks
  /\ readfds \subseteq Socks \cup {listen_sock} /\ writefds \subseteq Socks
  /\ srv \in {"select", "accept", "post"}
  /\ open \in [Socks -> BOOLEAN]
  /\ raw \in [Socks -> 0..MaxRaw]
  /\ buffered \in [Socks -> 0..(MaxBatch - 1)]
  /\ phs \in [Socks -> Phases] /\ tls \in [Socks -> BOOLEAN]
  /\ wpc \in {"idle", "got", "sending", "closing", "resetting", "evicting"}
  /\ msg \in Requests \cup {NoMsg}
  /\ todo \in Seq(Sends)
  /\ after \in {"idle", "closing", "resetting", "evicting"}
  /\ victim \in Socks \cup {listen_sock}
  /\ unwatched \subseteq Socks

\* The socket drop_conn has closed already and whose slot it resets last.
Resetting(s) == msg.socket = s /\ (wpc = "resetting" \/ (wpc = "sending" /\ after = "resetting"))

\* A slot in a TLS or MQTT phase works for the connection its descriptor
\* stands for, whatever the stale events, reused descriptors and takeovers
\* before it; only while drop_conn publishes the will (worker.cpp:154-173) is
\* the slot behind its descriptor.
SlotOwnsConnection ==
  \A s \in Socks : phs[s] # "uninit" /\ ~Resetting(s) => open[s] /\ tls[s]

Arms(r, s) == r.socket = s /\ r.op \in {"read", "write", "notify", "pub"}
Disarms(r, s) == r.socket = s /\ r.op \in {"delread", "delall"}
\* After these requests a bit of s that was set before them is still set.
Spares(q, s) == \A i \in DOMAIN q : ~Disarms(q[i], s)
\* These requests leave a bit of s set.
Rearms(q, s) == \E i \in DOMAIN q :
                  Arms(q[i], s) /\ \A j \in DOMAIN q : j > i => ~Disarms(q[j], s)

Watched(s) == \/ Rearms(todo, s)
              \/ /\ Spares(todo, s)
                 /\ \/ Rearms(socks_for_fds, s)
                    \/ /\ Spares(socks_for_fds, s)
                       /\ s \in (master_readfds \cup master_writefds)
EventQueued(s) == \E i \in DOMAIN pending_socks : pending_socks[i].socket = s
\* The worker has yet to send the last word about s.
InHand(s) ==
  \/ /\ s = msg.socket
     /\ \/ wpc \in {"got", "closing", "evicting"}
        \/ wpc = "sending" /\ after \in {"closing", "evicting"}
  \/ /\ s = victim
     /\ \/ wpc = "evicting"
        \/ wpc = "sending" /\ after = "evicting"

\* An open connection is never forgotten: some event of it is queued, or the
\* worker has it in hand, or select watches it or is about to.  The places
\* where an event or a request is given up (main.cpp:127,137,143 and
\* worker.cpp:17, a handler that ends without a request) are the only way out.
NoSilentLoss ==
  \A s \in Socks : open[s] => \/ EventQueued(s) \/ InHand(s) \/ Watched(s)
                                  \/ s \in unwatched

\* Each descriptor goes through the phases of ConnLifecycle.  While drop_conn
\* publishes the will, the slot's phase is still that of the closed connection,
\* and a connection accepted meanwhile is only accepted.
Stage(s) == CASE ~open[s] -> "closed"
              [] open[s] /\ (phs[s] = "uninit" \/ Resetting(s)) -> "accepted"
              [] OTHER -> phs[s]
Lifecycle == INSTANCE ConnLifecycle WITH stage <- [s \in Socks |-> Stage(s)]

\* The phases of a connection are its own: whatever the reuse of descriptors
\* and the stale events, a connection reaches TLS and MQTT only by its own
\* handshake (worker.cpp:211-278).
ImplementsLifecycle == Lifecycle!Spec

\* The README's 64 concurrent clients (README.md:9) for fewer queue slots
\* than descriptors: no open connection is ever given up.
EveryClientWatched ==
  \A s \in Socks : open[s] => EventQueued(s) \/ InHand(s) \/ Watched(s)

-----------------------------------------------------------------------------
(* Liveness.  FreeRTOS shares the processor between the two tasks, which    *)
(* have the same priority (main.cpp:185-186).                              *)

TaskFairness == WF_vars(Server) /\ WF_vars(Worker)
FairSpec == Spec /\ TaskFairness
\* Every client keeps sending (the keep-alive pings of MQTT).
PeersSend == \A s \in Socks : WF_vars(PeerSend(s))
LiveSpec == FairSpec /\ PeersSend

\* The handler of one message ends: no reply loop, no wait for the server.
WorkerReturns == wpc # "idle" ~> wpc = "idle"

\* An accepted connection gets its TLS handshake started, is closed, or had
\* its only event dropped.
AcceptedIsServed ==
  \A s \in Socks : open[s] /\ ~tls[s] ~> ~open[s] \/ tls[s] \/ s \in unwatched

\* Descriptors closed while their bits were set make select fail and every
\* armed descriptor look ready (main.cpp:108-111); posting clears those bits,
\* so the failure does not last.
SelectRecovers == BadDescriptor ~> ~BadDescriptor

\* select does not see packets that TLS has decrypted already (worker.cpp:283):
\* they wait for the next record, and are read unless a message is lost or the
\* connection has something to write for ever (worker.cpp:851-855).
BufferedIsRead ==
  \A s \in Socks :
    <>[](buffered[s] > 0 /\ s \notin unwatched) => []<>(msg = Ask(s, "write"))

\* One worker serves the clients asynchronously (README.md:3): an event of one
\* client is not kept waiting by the silence of another.
EventsAreTaken ==
  \A s \in Socks : EventQueued(s) ~> wpc = "got" /\ msg.socket = s
=============================================================================
