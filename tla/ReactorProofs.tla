--------------------------- MODULE ReactorProofs ---------------------------
(***************************************************************************)
(* Proofs about Reactor, for every set of descriptors, every queue length  *)
(* and every bound.                                                        *)
(***************************************************************************)
EXTENDS Reactor, TLAPS

-----------------------------------------------------------------------------
(* Lemmas about request sequences.                                         *)

\* A request either sets a bit or clears one.
LEMMA ArmsOrDisarms == ASSUME NEW r, NEW s PROVE ~(Arms(r, s) /\ Disarms(r, s))
  BY DEF Arms, Disarms

\* The request at the head counts for a socket unless a later one decides.
LEMMA HeadDecides ==
  ASSUME NEW S, NEW q \in Seq(S), q # <<>>, NEW s
  PROVE  /\ Spares(q, s) <=> ~Disarms(Head(q), s) /\ Spares(Tail(q), s)
         /\ Rearms(q, s) <=> \/ Rearms(Tail(q), s)
                             \/ Arms(Head(q), s) /\ Spares(Tail(q), s)
<1>1. /\ Len(q) \in Nat /\ Len(q) >= 1 /\ DOMAIN q = 1..Len(q) /\ Head(q) = q[1]
      /\ Tail(q) \in Seq(S) /\ DOMAIN Tail(q) = 1..(Len(q) - 1)
      /\ \A i \in 1..(Len(q) - 1) : Tail(q)[i] = q[i + 1]
  OBVIOUS
<1>2. \A i \in DOMAIN q : i = 1 \/ (i - 1) \in DOMAIN Tail(q)
  BY <1>1
<1>3. \A i \in DOMAIN Tail(q) : i + 1 \in DOMAIN q /\ Tail(q)[i] = q[i + 1]
  BY <1>1
<1>4. Spares(q, s) <=> ~Disarms(Head(q), s) /\ Spares(Tail(q), s)
  BY <1>1, <1>2, <1>3 DEF Spares
<1>5. ASSUME Rearms(q, s)
      PROVE  Rearms(Tail(q), s) \/ (Arms(Head(q), s) /\ Spares(Tail(q), s))
  <2>1. PICK i \in DOMAIN q : Arms(q[i], s) /\ \A j \in DOMAIN q : j > i => ~Disarms(q[j], s)
    BY <1>5 DEF Rearms
  <2>2. CASE i = 1
    BY <2>1, <2>2, <1>1, <1>3 DEF Spares
  <2>3. CASE i # 1
    <3>1. i - 1 \in DOMAIN Tail(q) /\ Tail(q)[i - 1] = q[i]
      BY <2>3, <1>1
    <3>2. \A j \in DOMAIN Tail(q) : j > i - 1 => ~Disarms(Tail(q)[j], s)
      BY <2>1, <1>1, <1>3
    <3>3. QED BY <2>1, <3>1, <3>2 DEF Rearms
  <2>4. QED BY <2>2, <2>3
<1>6. ASSUME Rearms(Tail(q), s) PROVE Rearms(q, s)
  <2>1. PICK i \in DOMAIN Tail(q) :
          Arms(Tail(q)[i], s) /\ \A j \in DOMAIN Tail(q) : j > i => ~Disarms(Tail(q)[j], s)
    BY <1>6 DEF Rearms
  <2>2. i + 1 \in DOMAIN q /\ Arms(q[i + 1], s)
    BY <2>1, <1>3
  <2>3. \A j \in DOMAIN q : j > i + 1 => ~Disarms(q[j], s)
    <3>1. TAKE j \in DOMAIN q
    <3>2. HAVE j > i + 1
    <3>3. j - 1 \in DOMAIN Tail(q) /\ j - 1 > i /\ Tail(q)[j - 1] = q[j]
      BY <2>1, <3>2, <1>1
    <3>4. QED BY <2>1, <3>3
  <2>4. QED BY <2>2, <2>3 DEF Rearms
<1>7. ASSUME Arms(Head(q), s), Spares(Tail(q), s) PROVE Rearms(q, s)
  <2>1. \A j \in DOMAIN q : j > 1 => ~Disarms(q[j], s)
    <3>1. TAKE j \in DOMAIN q
    <3>2. HAVE j > 1
    <3>3. j - 1 \in DOMAIN Tail(q) /\ Tail(q)[j - 1] = q[j]
      BY <3>2, <1>1
    <3>4. QED BY <1>7, <3>3 DEF Spares
  <2>2. QED BY <1>7, <1>1, <2>1 DEF Rearms
<1>8. QED BY <1>4, <1>5, <1>6, <1>7

\* The last request decides for its own socket.
LEMMA LastDecides ==
  ASSUME NEW S, NEW q \in Seq(S), NEW r \in S, NEW s
  PROVE  /\ Spares(Append(q, r), s) <=> Spares(q, s) /\ ~Disarms(r, s)
         /\ Arms(r, s) => Rearms(Append(q, r), s)
         /\ Rearms(q, s) /\ ~Disarms(r, s) => Rearms(Append(q, r), s)
<1> DEFINE p == Append(q, r)
<1>1. /\ Len(q) \in Nat /\ DOMAIN q = 1..Len(q) /\ DOMAIN p = 1..(Len(q) + 1)
      /\ p[Len(q) + 1] = r /\ \A i \in DOMAIN q : p[i] = q[i]
  OBVIOUS
<1> HIDE DEF p
<1>2. \A i \in DOMAIN p : i = Len(q) + 1 \/ (i \in DOMAIN q /\ p[i] = q[i])
  BY <1>1
<1>3. Spares(p, s) <=> Spares(q, s) /\ ~Disarms(r, s)
  BY <1>1, <1>2 DEF Spares
<1>4. ASSUME Arms(r, s) PROVE Rearms(p, s)
  BY <1>4, <1>1 DEF Rearms
<1>5. ASSUME Rearms(q, s), ~Disarms(r, s) PROVE Rearms(p, s)
  BY <1>5, <1>1, <1>2 DEF Rearms
<1>6. QED BY <1>3, <1>4, <1>5 DEF p

-----------------------------------------------------------------------------
(* Types.                                                                  *)

\* What the worker's program counter says about the rest of its state.
WorkerControl ==
  /\ wpc = "sending" <=> todo # <<>>
  /\ wpc = "got" => msg \in Events
  /\ wpc \in {"closing", "resetting", "evicting"} => msg.socket \in Socks
  /\ wpc = "sending" /\ after # "idle" => msg.socket \in Socks
  /\ wpc = "evicting" \/ (wpc = "sending" /\ after = "evicting")
       => victim \in Socks /\ victim # msg.socket /\ phs[msg.socket] = "mqtt"

TInv == TypeOK /\ WorkerControl

Places == {"idle", "closing", "resetting", "evicting"}

LEMMA ProceedType ==
  ASSUME msg \in Requests \cup {NoMsg}, NEW sends \in Seq(Sends), NEW next \in Places,
         next # "idle" => msg.socket \in Socks, Proceed(sends, next)
  PROVE  /\ todo' \in Seq(Sends) /\ after' \in Places
         /\ wpc' \in Places \cup {"sending"} /\ msg' \in Requests \cup {NoMsg}
         /\ wpc' = "sending" <=> todo' # <<>>
         /\ next # "idle" => msg'.socket = msg.socket
         /\ wpc' # "sending" => wpc' = next
         /\ wpc' = "sending" => after' = next
  BY DEF Proceed, Places, Ask, Requests

LEMMA NotifyType ==
  ASSUME NEW targets \in Fanouts
  PROVE  Notify(targets) \in Seq(Sends) /\ \A s : Spares(Notify(targets), s)
<1>1. PICK n \in 0..MaxFanout : targets \in [1..n -> Socks]
  BY DEF Fanouts
<1>2. Notify(targets) \in [1..n -> Sends]
  BY <1>1 DEF Notify, Ask, Sends
<1>3. n \in Nat
  BY BoundsAssumption
<1>4. \A s : Spares(Notify(targets), s)
  BY <1>1 DEF Notify, Spares, Disarms, Ask
<1>5. QED BY <1>2, <1>3, <1>4

LEMMA RequestType ==
  ASSUME NEW r \in Sends
  PROVE  Request(r) \in Requests /\ FallBack(r) \in Seq(Sends)
<1>1. PICK s \in Socks, o \in {"read", "write", "delall", "notify", "pub"} :
        r = [socket |-> s, op |-> o]
  BY DEF Sends
<1>2. Request(r) \in Requests
  BY <1>1 DEF Request, Requests, Ask
<1>3. \A e \in Sends : <<e>> \in Seq(Sends)
  OBVIOUS
<1>4. Ask(s, "pub") \in Sends /\ Ask(s, "read") \in Sends
  BY DEF Ask, Sends
<1>5. FallBack(r) \in Seq(Sends)
  BY <1>1, <1>3, <1>4 DEF FallBack
<1>6. QED BY <1>2, <1>5

LEMMA InitTInv == Init => TInv
  BY SocksAssumption, BoundsAssumption
  DEF Init, TInv, TypeOK, WorkerControl, NoMsg, Ask, Phases

LEMMA CloseType ==
  ASSUME TypeOK, NEW s, Close(s)
  PROVE  /\ open' \in [Socks -> BOOLEAN] /\ raw' \in [Socks -> 0..MaxRaw]
         /\ buffered' \in [Socks -> 0..(MaxBatch - 1)] /\ unwatched' \subseteq Socks
<1>1. 0 \in 0..MaxRaw /\ 0 \in 0..(MaxBatch - 1)
  BY BoundsAssumption
<1>2. open' \in [Socks -> BOOLEAN] /\ unwatched' \subseteq Socks
  BY DEF TypeOK, Close
<1>3. raw' \in [Socks -> 0..MaxRaw] /\ buffered' \in [Socks -> 0..(MaxBatch - 1)]
  BY <1>1 DEF TypeOK, Close
<1>4. QED BY <1>2, <1>3

LEMMA PostType ==
  ASSUME TypeOK, NEW s \in Socks, NEW o \in {"read", "write"}, Post(s, o)
  PROVE  pending_socks' \in Seq(Events) /\ Len(pending_socks') <= QLen /\ unwatched' \subseteq Socks
<1>1. Ask(s, o) \in Events
  BY DEF Ask, Events
<1>2. /\ Append(pending_socks, Ask(s, o)) \in Seq(Events)
      /\ Len(Append(pending_socks, Ask(s, o))) = Len(pending_socks) + 1
      /\ Len(pending_socks) \in Nat
  BY <1>1 DEF TypeOK
<1>3. CASE Len(pending_socks) < QLen
  <2>1. Len(pending_socks) + 1 <= QLen
    BY <1>2, <1>3, BoundsAssumption
  <2>2. QED BY <1>2, <1>3, <2>1 DEF Post, TypeOK
<1>4. CASE ~(Len(pending_socks) < QLen)
  BY <1>4 DEF Post, TypeOK
<1>5. QED BY <1>3, <1>4

\* The steps of the peers and of the server.
LEMMA ServerTInv == ASSUME TInv, Peers \/ Server PROVE TInv'
<1> USE DEF TInv
<1>1. ASSUME NEW s \in Socks, PeerSend(s) PROVE TInv'
  BY <1>1, BoundsAssumption
  DEF PeerSend, TypeOK, WorkerControl, queues, masters, snapshot, slots, work
<1>2. CASE Select
  <2>1. readfds' \subseteq Socks \cup {listen_sock}
    BY <1>2 DEF Select, ReadySet, TypeOK
  <2>2. QED BY <2>1, <1>2
            DEF Select, TypeOK, WorkerControl, queues, masters, net, slots, work
<1>3. ASSUME NEW s \in Socks, AcceptNew(s) PROVE TInv'
  <2>1. /\ pending_socks' \in Seq(Events) /\ Len(pending_socks') <= QLen
        /\ unwatched' \subseteq Socks
    BY <1>3, PostType DEF AcceptNew
  <2>2. open' \in [Socks -> BOOLEAN] /\ readfds' \subseteq Socks \cup {listen_sock}
    BY <1>3 DEF AcceptNew, TypeOK
  <2>3. QED BY <2>1, <2>2, <1>3 DEF AcceptNew, TypeOK, WorkerControl, masters, slots, work
<1>4. CASE AcceptNone
  BY <1>4 DEF AcceptNone, TypeOK, WorkerControl, queues, masters, net, slots, work
<1>5. ASSUME NEW s \in Socks, PostRead(s) PROVE TInv'
  <2>1. /\ pending_socks' \in Seq(Events) /\ Len(pending_socks') <= QLen
        /\ unwatched' \subseteq Socks
    BY <1>5, PostType DEF PostRead
  <2>2. QED BY <2>1, <1>5 DEF PostRead, TypeOK, WorkerControl, net, slots, work
<1>6. ASSUME NEW s \in Socks, PostWrite(s) PROVE TInv'
  <2>1. /\ pending_socks' \in Seq(Events) /\ Len(pending_socks') <= QLen
        /\ unwatched' \subseteq Socks
    BY <1>6, PostType DEF PostWrite
  <2>2. QED BY <2>1, <1>6 DEF PostWrite, TypeOK, WorkerControl, net, slots, work
<1>7. CASE Drain
  <2>1. /\ Head(socks_for_fds) \in Requests /\ Tail(socks_for_fds) \in Seq(Requests)
        /\ Len(Tail(socks_for_fds)) <= QLen
    BY <1>7, BoundsAssumption DEF Drain, TypeOK
  <2>2. /\ master_readfds' \subseteq Socks \cup {listen_sock}
        /\ master_writefds' \subseteq Socks /\ socks_for_fds' = Tail(socks_for_fds)
    BY <2>1, <1>7 DEF Drain, TypeOK, Requests
  <2>3. QED BY <2>1, <2>2, <1>7
            DEF Drain, TypeOK, WorkerControl, snapshot, net, slots, work
<1>8. CASE EndPass
  BY <1>8 DEF EndPass, TypeOK, WorkerControl, queues, masters, snapshot, net, slots, work
<1>9. QED BY <1>1, <1>2, <1>3, <1>4, <1>5, <1>6, <1>7, <1>8 DEF Peers, Server

\* The steps of the worker.
LEMMA ConsType ==
  ASSUME NEW s \in Socks, NEW o \in {"read", "write", "delall", "notify", "pub"},
         NEW q \in Seq(Sends)
  PROVE  /\ Ask(s, o) \in Sends /\ <<Ask(s, o)>> \in Seq(Sends) /\ <<Ask(s, o)>> \o q \in Seq(Sends)
         /\ <<Ask(s, o)>> \o q # <<>>
         /\ Head(<<Ask(s, o)>> \o q) = Ask(s, o) /\ Tail(<<Ask(s, o)>> \o q) = q
<1>1. Ask(s, o) \in Sends
  BY DEF Ask, Sends
<1>2. QED BY <1>1

\* Every handler ends in Proceed; what is left is that each passes it sends of
\* the right type and keeps the rest of the types.
LEMMA ProceedTInv ==
  ASSUME TInv, NEW sends \in Seq(Sends), NEW next \in Places, Proceed(sends, next),
         next # "idle" => msg.socket \in Socks,
         next = "evicting" => /\ victim' \in Socks /\ victim' # msg.socket
                              /\ phs'[msg.socket] = "mqtt",
         pending_socks' \in Seq(Events) /\ Len(pending_socks') <= QLen,
         socks_for_fds' \in Seq(Requests) /\ Len(socks_for_fds') <= QLen,
         UNCHANGED <<masters, snapshot, srv>>,
         open' \in [Socks -> BOOLEAN] /\ raw' \in [Socks -> 0..MaxRaw],
         buffered' \in [Socks -> 0..(MaxBatch - 1)],
         phs' \in [Socks -> Phases] /\ tls' \in [Socks -> BOOLEAN],
         victim' \in Socks \cup {listen_sock}, unwatched' \subseteq Socks
  PROVE  TInv'
<1>1. msg \in Requests \cup {NoMsg}
  BY DEF TInv, TypeOK
<1>2. /\ todo' \in Seq(Sends) /\ after' \in Places
      /\ wpc' \in Places \cup {"sending"} /\ msg' \in Requests \cup {NoMsg}
      /\ wpc' = "sending" <=> todo' # <<>>
      /\ next # "idle" => msg'.socket = msg.socket
      /\ wpc' # "sending" => wpc' = next
      /\ wpc' = "sending" => after' = next
  BY <1>1, ProceedType
<1>3. TypeOK'
  BY <1>2 DEF TInv, TypeOK, Places, masters, snapshot
<1>4. WorkerControl'
  BY <1>2 DEF WorkerControl, Places
<1>5. QED BY <1>3, <1>4 DEF TInv

\* What the handlers' sends look like.
LEMMA SendsType ==
  ASSUME NEW s \in Socks
  PROVE  /\ \A o \in {"read", "write", "delall", "notify", "pub"} : <<Ask(s, o)>> \in Seq(Sends)
         /\ <<>> \in Seq(Sends)
         /\ \A o \in {"read", "write"}, targets \in Fanouts :
              <<Ask(s, o)>> \o Notify(targets) \in Seq(Sends)
         /\ <<Ask(s, "write")>> \o <<Ask(s, "delall")>> \in Seq(Sends)
         /\ <<>> \o <<Ask(s, "delall")>> = <<Ask(s, "delall")>>
         /\ \A ops \in {<<"read">>, <<"write">>, <<"write", "read">>} :
              [i \in DOMAIN ops |-> Ask(s, ops[i])] \in Seq(Sends)
<1>1. \A o \in {"read", "write", "delall", "notify", "pub"} : <<Ask(s, o)>> \in Seq(Sends)
  BY DEF Ask, Sends
<1>2. \A targets \in Fanouts : Notify(targets) \in Seq(Sends)
  BY NotifyType
<1>3. \A o \in {"read", "write"}, targets \in Fanouts :
        <<Ask(s, o)>> \o Notify(targets) \in Seq(Sends)
  BY <1>2, ConsType
<1>4. <<Ask(s, "write")>> \o <<Ask(s, "delall")>> \in Seq(Sends)
  <2>1. <<Ask(s, "delall")>> \in Seq(Sends)
    BY <1>1
  <2>2. \A q \in Seq(Sends) : <<Ask(s, "write")>> \o q \in Seq(Sends)
    BY ConsType
  <2>3. QED BY <2>1, <2>2
<1>5. \A ops \in {<<"read">>, <<"write">>, <<"write", "read">>} :
        [i \in DOMAIN ops |-> Ask(s, ops[i])] \in Seq(Sends)
  <2>1. \A o \in {"read", "write"} : Ask(s, o) \in Sends
    BY DEF Ask, Sends
  <2>2. TAKE ops \in {<<"read">>, <<"write">>, <<"write", "read">>}
  <2>3. PICK n \in {1, 2} : DOMAIN ops = 1..n /\ \A i \in 1..n : ops[i] \in {"read", "write"}
    <3>1. CASE ops = <<"read">>
      BY <3>1
    <3>2. CASE ops = <<"write">>
      BY <3>2
    <3>3. CASE ops = <<"write", "read">>
      BY <3>3
    <3>4. QED BY <2>2, <3>1, <3>2, <3>3
  <2>4. [i \in DOMAIN ops |-> Ask(s, ops[i])] \in [1..n -> Sends]
    BY <2>1, <2>3
  <2>5. QED BY <2>3, <2>4
<1>6. <<>> \in Seq(Sends) /\ <<>> \o <<Ask(s, "delall")>> = <<Ask(s, "delall")>>
  BY <1>1
<1>7. QED BY <1>1, <1>3, <1>4, <1>5, <1>6

LEMMA ReadPacketType ==
  ASSUME TInv, NEW s \in Socks, ReadPacket(s)
  PROVE  /\ open' \in [Socks -> BOOLEAN] /\ raw' \in [Socks -> 0..MaxRaw]
         /\ buffered' \in [Socks -> 0..(MaxBatch - 1)]
<1>0. MaxBatch \in Nat \ {0} /\ MaxRaw \in Nat
  BY BoundsAssumption
<1>1. open \in [Socks -> BOOLEAN] /\ raw \in [Socks -> 0..MaxRaw]
      /\ buffered \in [Socks -> 0..(MaxBatch - 1)]
  BY DEF TInv, TypeOK
<1>2. CASE buffered[s] > 0
  <2>1. buffered[s] - 1 \in 0..(MaxBatch - 1)
    BY <1>0, <1>1, <1>2
  <2>2. QED BY <1>1, <1>2, <2>1 DEF ReadPacket
<1>3. CASE ~(buffered[s] > 0)
  <2>1. raw[s] > 0 => raw[s] - 1 \in 0..MaxRaw
    BY <1>0, <1>1
  <2>2. \A k \in 1..MaxBatch : k - 1 \in 0..(MaxBatch - 1)
    BY <1>0
  <2>3. QED BY <1>1, <1>3, <2>1, <2>2 DEF ReadPacket, ReadRecord
<1>4. QED BY <1>2, <1>3

LEMMA PacketTInv == ASSUME TInv, NEW s \in Socks, HandlePacket(s) PROVE TInv'
<1> USE DEF Places
<1>1. Reading(s) /\ ReadPacket(s) /\ UNCHANGED <<queues, masters, snapshot, srv, slots>>
  BY DEF HandlePacket, PacketDrops, PacketAnswered, PacketPublished, PacketIgnored, Takeover
<1>2. /\ open' \in [Socks -> BOOLEAN] /\ raw' \in [Socks -> 0..MaxRaw]
      /\ buffered' \in [Socks -> 0..(MaxBatch - 1)]
  BY <1>1, ReadPacketType
<1>3. /\ msg = Ask(s, "read") /\ msg.socket = s /\ phs[s] = "mqtt"
      /\ pending_socks' = pending_socks /\ socks_for_fds' = socks_for_fds
      /\ phs' = phs /\ tls' = tls
  BY <1>1 DEF Reading, Ask, queues, slots
<1>4. /\ pending_socks' \in Seq(Events) /\ Len(pending_socks') <= QLen
      /\ socks_for_fds' \in Seq(Requests) /\ Len(socks_for_fds') <= QLen
      /\ phs' \in [Socks -> Phases] /\ tls' \in [Socks -> BOOLEAN]
      /\ victim \in Socks \cup {listen_sock} /\ unwatched \subseteq Socks
  BY <1>3 DEF TInv, TypeOK
<1> USE <1>1, <1>2, <1>3, <1>4
<1>5. CASE PacketDrops(s)
  <2>1. PICK sent \in {<<>>, <<Ask(s, "write")>>} :
          Proceed(sent \o <<Ask(s, "delall")>>, "closing")
    BY <1>5 DEF PacketDrops
  <2>2. sent \o <<Ask(s, "delall")>> \in Seq(Sends)
    BY SendsType
  <2>3. QED BY <1>5, <2>1, <2>2, ProceedTInv DEF PacketDrops
<1>6. CASE PacketAnswered(s)
  <2>1. PICK ops \in {<<"read">>, <<"write">>, <<"write", "read">>} :
          Proceed([i \in DOMAIN ops |-> Ask(s, ops[i])], "idle")
    BY <1>6 DEF PacketAnswered
  <2>2. [i \in DOMAIN ops |-> Ask(s, ops[i])] \in Seq(Sends)
    BY SendsType
  <2>3. QED BY <1>6, <2>1, <2>2, ProceedTInv DEF PacketAnswered
<1>7. CASE PacketPublished(s)
  <2>1. PICK targets \in Fanouts, op \in {"read", "write"} :
          Proceed(<<Ask(s, op)>> \o Notify(targets), "idle")
    BY <1>7 DEF PacketPublished
  <2>2. <<Ask(s, op)>> \o Notify(targets) \in Seq(Sends)
    BY SendsType
  <2>3. QED BY <1>7, <2>1, <2>2, ProceedTInv DEF PacketPublished
<1>8. CASE PacketIgnored(s)
  <2>1. <<>> \in Seq(Sends) /\ unwatched' \subseteq Socks /\ victim' = victim
    BY <1>8 DEF PacketIgnored
  <2>2. QED BY <1>8, <2>1, ProceedTInv DEF PacketIgnored
<1>9. ASSUME NEW t \in Socks, Takeover(s, t) PROVE TInv'
  <2>1. <<Ask(t, "delall")>> \in Seq(Sends)
    BY SendsType
  <2>2. QED BY <1>9, <2>1, ProceedTInv DEF Takeover
<1>10. QED BY <1>5, <1>6, <1>7, <1>8, <1>9 DEF HandlePacket

LEMMA HandshakeTInv == ASSUME TInv, NEW s \in Socks, Handshake(s) PROVE TInv'
<1> USE DEF Places
<1>1. /\ wpc = "got" /\ msg.socket = s /\ phs[s] \in {"uninit", "tls_handshake"}
      /\ pending_socks' = pending_socks /\ socks_for_fds' = socks_for_fds
      /\ UNCHANGED <<masters, snapshot, srv>> /\ victim' = victim
  BY DEF Handshake, TlsAllocFails, HandshakeFails, HandshakeStep, Handshaking, queues
<1>2. /\ pending_socks' \in Seq(Events) /\ Len(pending_socks') <= QLen
      /\ socks_for_fds' \in Seq(Requests) /\ Len(socks_for_fds') <= QLen
      /\ phs \in [Socks -> Phases] /\ tls \in [Socks -> BOOLEAN]
      /\ open \in [Socks -> BOOLEAN] /\ raw \in [Socks -> 0..MaxRaw]
      /\ buffered \in [Socks -> 0..(MaxBatch - 1)]
      /\ victim' \in Socks \cup {listen_sock} /\ unwatched \subseteq Socks
  BY <1>1 DEF TInv, TypeOK
<1>3. SessionOn(s) \in [Socks -> BOOLEAN]
  BY <1>2 DEF SessionOn
<1> USE <1>1, <1>2
<1>4. CASE TlsAllocFails(s)
  <2>1. /\ open' \in [Socks -> BOOLEAN] /\ raw' \in [Socks -> 0..MaxRaw]
        /\ buffered' \in [Socks -> 0..(MaxBatch - 1)] /\ unwatched' \subseteq Socks
    BY <1>4, CloseType DEF TlsAllocFails, TInv
  <2>2. phs' = phs /\ tls' = tls /\ Proceed(<<>>, "idle") /\ <<>> \in Seq(Sends)
    BY <1>4 DEF TlsAllocFails, slots
  <2>3. QED BY <2>1, <2>2, ProceedTInv
<1>5. CASE HandshakeFails(s)
  <2>1. <<Ask(s, "delall")>> \in Seq(Sends)
    BY SendsType
  <2>2. UNCHANGED <<phs, open, raw, buffered, unwatched>> /\ tls' = SessionOn(s)
    BY <1>5 DEF HandshakeFails, net
  <2>3. QED BY <1>5, <2>1, <2>2, <1>3, ProceedTInv DEF HandshakeFails, DropConn
<1>6. ASSUME NEW phase \in {"mqtt", "tls_handshake"}, NEW op \in {"read", "write"},
             HandshakeStep(s, phase, op)
      PROVE  TInv'
  <2>1. <<Ask(s, op)>> \in Seq(Sends)
    BY SendsType
  <2>2. raw' \in [Socks -> 0..MaxRaw]
    BY <1>6, BoundsAssumption DEF HandshakeStep, ReadRecord
  <2>3. phs' \in [Socks -> Phases]
    BY <1>6 DEF HandshakeStep, Phases
  <2>4. QED BY <1>6, <2>1, <2>2, <2>3, <1>3, ProceedTInv DEF HandshakeStep
<1>7. QED BY <1>4, <1>5, <1>6 DEF Handshake

LEMMA SendTInv == ASSUME TInv, SendOk \/ SendTimesOut PROVE TInv'
<1> USE DEF Places
<1> DEFINE r == Head(todo)
<1>1. /\ wpc = "sending" /\ todo # <<>> /\ todo \in Seq(Sends) /\ after \in Places
      /\ pending_socks' = pending_socks /\ UNCHANGED <<masters, snapshot, srv>>
      /\ UNCHANGED <<open, raw, buffered, phs, tls, victim>>
  BY DEF SendOk, SendTimesOut, TInv, WorkerControl, TypeOK, queues, net, slots
<1>2. r \in Sends /\ Tail(todo) \in Seq(Sends)
  BY <1>1
<1>3. /\ Request(r) \in Requests
      /\ FallBack(r) \o Tail(todo) \in Seq(Sends)
      /\ (IF r.op = "notify" THEN <<Ask(r.socket, "pub")>> ELSE <<>>) \o Tail(todo) \in Seq(Sends)
  <2>1. r.socket \in Socks
    BY <1>2 DEF Sends
  <2>2. <<Ask(r.socket, "pub")>> \in Seq(Sends) /\ <<>> \in Seq(Sends)
    BY <2>1, SendsType
  <2>3. \A p \in Seq(Sends) : p \o Tail(todo) \in Seq(Sends)
    BY <1>2
  <2>4. QED BY <1>2, <2>2, <2>3, RequestType
<1>4. /\ pending_socks' \in Seq(Events) /\ Len(pending_socks') <= QLen
      /\ phs' \in [Socks -> Phases] /\ tls' \in [Socks -> BOOLEAN]
      /\ open' \in [Socks -> BOOLEAN] /\ raw' \in [Socks -> 0..MaxRaw]
      /\ buffered' \in [Socks -> 0..(MaxBatch - 1)]
      /\ victim' \in Socks \cup {listen_sock}
      /\ after # "idle" => msg.socket \in Socks
      /\ after = "evicting" => /\ victim' \in Socks /\ victim' # msg.socket
                               /\ phs'[msg.socket] = "mqtt"
  BY <1>1 DEF TInv, TypeOK, WorkerControl
<1>5. CASE SendOk
  <2>1. socks_for_fds' = Append(socks_for_fds, Request(r)) /\ unwatched' = unwatched
    BY <1>5 DEF SendOk
  <2>2. socks_for_fds' \in Seq(Requests) /\ Len(socks_for_fds') <= QLen
    <3>1. /\ socks_for_fds \in Seq(Requests) /\ Len(socks_for_fds) < QLen
          /\ Len(socks_for_fds) \in Nat
      BY <1>5 DEF SendOk, TInv, TypeOK
    <3>2. QED BY <3>1, <2>1, <1>3, BoundsAssumption
  <2>3. unwatched' \subseteq Socks
    BY <2>1 DEF TInv, TypeOK
  <2>4. Proceed((IF r.op = "notify" THEN <<Ask(r.socket, "pub")>> ELSE <<>>) \o Tail(todo), after)
    BY <1>5 DEF SendOk
  <2> HIDE DEF r
  <2>5. QED BY <1>1, <1>3, <1>4, <2>2, <2>3, <2>4, ProceedTInv
<1>6. CASE SendTimesOut
  <2>1. /\ socks_for_fds' = socks_for_fds
        /\ Proceed(FallBack(r) \o Tail(todo), after)
        /\ unwatched' \subseteq unwatched \cup {r.socket}
    BY <1>6 DEF SendTimesOut, queues
  <2>2. /\ socks_for_fds' \in Seq(Requests) /\ Len(socks_for_fds') <= QLen
        /\ unwatched' \subseteq Socks
    BY <1>2, <2>1 DEF TInv, TypeOK, Sends
  <2> HIDE DEF r
  <2>3. QED BY <1>1, <1>3, <1>4, <2>1, <2>2, ProceedTInv
<1>7. QED BY <1>5, <1>6

LEMMA WorkerTInv == ASSUME TInv, Worker PROVE TInv'
<1> USE DEF Places
<1>0. /\ pending_socks \in Seq(Events) /\ Len(pending_socks) <= QLen
      /\ socks_for_fds \in Seq(Requests) /\ Len(socks_for_fds) <= QLen
      /\ phs \in [Socks -> Phases] /\ tls \in [Socks -> BOOLEAN]
      /\ open \in [Socks -> BOOLEAN] /\ raw \in [Socks -> 0..MaxRaw]
      /\ buffered \in [Socks -> 0..(MaxBatch - 1)]
      /\ victim \in Socks \cup {listen_sock} /\ unwatched \subseteq Socks
  BY DEF TInv, TypeOK
<1>1. CASE Take
  <2>1. /\ Head(pending_socks) \in Events /\ Tail(pending_socks) \in Seq(Events)
        /\ Len(Tail(pending_socks)) <= QLen
    BY <1>0, <1>1, BoundsAssumption DEF Take
  <2>2. Events \subseteq Requests /\ todo = <<>>
    BY <1>1 DEF Events, Requests, Take, TInv, WorkerControl
  <2>3. TypeOK'
    BY <2>1, <2>2, <1>1 DEF TInv, Take, TypeOK, masters, snapshot, net, slots
  <2>4. WorkerControl'
    BY <2>1, <2>2, <1>1 DEF Take, WorkerControl
  <2>5. QED BY <2>3, <2>4 DEF TInv
<1>2. CASE SendOk \/ SendTimesOut
  BY <1>2, SendTInv
<1>3. CASE CloseDropped
  <2>1. msg.socket \in Socks
    BY <1>3 DEF CloseDropped, TInv, WorkerControl
  <2>2. PICK targets \in Fanouts : Proceed(Notify(targets), "resetting")
    BY <1>3 DEF CloseDropped
  <2>3. Notify(targets) \in Seq(Sends)
    BY NotifyType
  <2>4. /\ open' \in [Socks -> BOOLEAN] /\ raw' \in [Socks -> 0..MaxRaw]
        /\ buffered' \in [Socks -> 0..(MaxBatch - 1)] /\ unwatched' \subseteq Socks
    BY <1>3, CloseType DEF CloseDropped, TInv
  <2>5. tls' \in [Socks -> BOOLEAN] /\ phs' = phs
    BY <1>0, <1>3 DEF CloseDropped
  <2>6. QED BY <1>0, <1>3, <2>1, <2>2, <2>3, <2>4, <2>5, ProceedTInv DEF CloseDropped, queues
<1>4. CASE ResetSlot
  <2>1. phs' \in [Socks -> Phases]
    BY <1>0, <1>4 DEF ResetSlot, Phases
  <2>2. <<>> \in Seq(Sends)
    OBVIOUS
  <2>3. QED BY <1>0, <1>4, <2>1, <2>2, ProceedTInv DEF ResetSlot, queues, net
<1>5. CASE Evict
  <2>1. msg.socket \in Socks
    BY <1>5 DEF Evict, TInv, WorkerControl
  <2>2. PICK op \in {"read", "write"} : Proceed(<<Ask(msg.socket, op)>>, "idle")
    BY <1>5 DEF Evict
  <2>3. <<Ask(msg.socket, op)>> \in Seq(Sends)
    BY <2>1, SendsType
  <2>4. /\ open' \in [Socks -> BOOLEAN] /\ raw' \in [Socks -> 0..MaxRaw]
        /\ buffered' \in [Socks -> 0..(MaxBatch - 1)] /\ unwatched' \subseteq Socks
    BY <1>5, CloseType DEF Evict, TInv
  <2>5. tls' \in [Socks -> BOOLEAN] /\ phs' \in [Socks -> Phases]
    BY <1>0, <1>5 DEF Evict, Phases
  <2>6. QED BY <1>0, <1>5, <2>2, <2>3, <2>4, <2>5, ProceedTInv DEF Evict, queues
<1>6. ASSUME NEW s \in Socks, WriteQueued(s) PROVE TInv'
  <2>1. PICK op \in {"read", "write"} : Proceed(<<Ask(s, op)>>, "idle")
    BY <1>6 DEF WriteQueued
  <2>2. <<Ask(s, op)>> \in Seq(Sends)
    BY SendsType
  <2>3. QED BY <1>0, <1>6, <2>1, <2>2, ProceedTInv DEF WriteQueued, queues, net, slots
<1>7. QED BY <1>1, <1>2, <1>3, <1>4, <1>5, <1>6, HandshakeTInv, PacketTInv DEF Worker

LEMMA StutterTInv == ASSUME TInv, UNCHANGED vars PROVE TInv'
  BY DEF TInv, TypeOK, WorkerControl, vars, queues, masters, snapshot, net, slots, work

LEMMA TInvariant == Spec => []TInv
<1>1. TInv /\ [Next]_vars => TInv'
  BY ServerTInv, WorkerTInv, StutterTInv DEF Next
<1>2. QED BY InitTInv, <1>1, PTL DEF Spec

\* Type correctness: in particular neither queue ever holds more than QLen
\* messages (main.cpp:178-179), whatever the sockets do.
THEOREM TypeCorrect == Spec => []TypeOK
<1>1. TInv => TypeOK
  BY DEF TInv
<1>2. QED BY TInvariant, <1>1, PTL

-----------------------------------------------------------------------------
(* The slot and the connection.                                            *)

SInv == TInv /\ SlotOwnsConnection

LEMMA SlotOwnsStep == ASSUME TInv, TInv', SlotOwnsConnection, [Next]_vars
                      PROVE  SlotOwnsConnection'
<1> USE DEF SlotOwnsConnection, Resetting
<1>0. phs \in [Socks -> Phases] /\ tls \in [Socks -> BOOLEAN] /\ open \in [Socks -> BOOLEAN]
  BY DEF TInv, TypeOK
\* A step that leaves the slots and the descriptors alone, and starts and ends
\* no will publication.
<1>1. ASSUME UNCHANGED <<phs, tls, open>>, \A s \in Socks : Resetting(s) => Resetting(s)'
      PROVE  SlotOwnsConnection'
  BY <1>1
<1>2. ASSUME NEW s \in Socks, PeerSend(s) PROVE SlotOwnsConnection'
  BY <1>2 DEF PeerSend, slots, work
<1>3. CASE Select \/ AcceptNone \/ Drain \/ EndPass
  BY <1>3 DEF Select, AcceptNone, Drain, EndPass, net, slots, work
<1>4. ASSUME NEW s \in Socks, PostRead(s) \/ PostWrite(s) PROVE SlotOwnsConnection'
  BY <1>4 DEF PostRead, PostWrite, net, slots, work
<1>5. ASSUME NEW s \in Socks, AcceptNew(s) PROVE SlotOwnsConnection'
  BY <1>0, <1>5 DEF AcceptNew, slots, work
<1>6. CASE Take
  BY <1>6 DEF Take, net, slots
<1>7. CASE SendOk \/ SendTimesOut
  <2>1. UNCHANGED <<phs, tls, open>> /\ wpc = "sending"
    BY <1>7 DEF SendOk, SendTimesOut, net, slots
  <2>2. PICK sends : Proceed(sends, after)
    BY <1>7 DEF SendOk, SendTimesOut
  <2>3. \A s : Resetting(s) => Resetting(s)'
    BY <2>1, <2>2 DEF Proceed
  <2>4. QED BY <2>1, <2>3, <1>1
<1>8. CASE CloseDropped
  <2>1. \A s \in Socks : s # msg.socket => phs'[s] = phs[s] /\ tls'[s] = tls[s] /\ open'[s] = open[s]
    BY <1>0, <1>8 DEF CloseDropped, Close
  <2>2. PICK sends : Proceed(sends, "resetting")
    BY <1>8 DEF CloseDropped
  <2>3. \A s : s = msg.socket => Resetting(s)'
    BY <2>2 DEF Proceed
  <2>4. \A s : ~Resetting(s)
    BY <1>8 DEF CloseDropped
  <2>5. QED BY <2>1, <2>3, <2>4
<1>9. CASE ResetSlot
  <2>1. phs'[msg.socket] = "uninit"
    BY <1>0, <1>9 DEF ResetSlot, TInv, WorkerControl
  <2>2. \A s \in Socks : s # msg.socket => phs'[s] = phs[s]
    BY <1>0, <1>9 DEF ResetSlot
  <2>3. tls' = tls /\ open' = open
    BY <1>9 DEF ResetSlot, net
  <2>4. QED BY <2>1, <2>2, <2>3
<1>10. CASE Evict
  <2>1. phs'[victim] = "uninit"
    BY <1>0, <1>10 DEF Evict, TInv, WorkerControl
  <2>2. \A s \in Socks : s # victim => phs'[s] = phs[s] /\ tls'[s] = tls[s] /\ open'[s] = open[s]
    BY <1>0, <1>10 DEF Evict, Close
  <2>3. \A s : ~Resetting(s)
    BY <1>10 DEF Evict
  <2>4. QED BY <2>1, <2>2, <2>3
<1>11. ASSUME NEW s \in Socks, Handshake(s) PROVE SlotOwnsConnection'
  <2>1. wpc = "got" /\ \A t : ~Resetting(t)
    BY <1>11 DEF Handshake, TlsAllocFails, HandshakeFails, HandshakeStep, Handshaking
  <2>2. CASE TlsAllocFails(s)
    BY <1>0, <2>1, <2>2 DEF TlsAllocFails, Handshaking, Close, slots
  <2>3. CASE HandshakeFails(s)
    BY <1>0, <2>1, <2>3 DEF HandshakeFails, Handshaking, SessionOn, net
  <2>4. ASSUME NEW phase \in {"mqtt", "tls_handshake"}, NEW op \in {"read", "write"},
               HandshakeStep(s, phase, op)
        PROVE  SlotOwnsConnection'
    <3>1. open' = open /\ open[s] /\ tls'[s]
      BY <1>0, <2>1, <2>4 DEF HandshakeStep, Handshaking, SessionOn
    <3>2. \A t \in Socks : t # s => phs'[t] = phs[t] /\ tls'[t] = tls[t]
      BY <1>0, <2>4 DEF HandshakeStep, SessionOn
    <3>3. QED BY <2>1, <3>1, <3>2
  <2>5. QED BY <1>11, <2>2, <2>3, <2>4 DEF Handshake
<1>12. ASSUME NEW s \in Socks, HandlePacket(s) \/ WriteQueued(s) PROVE SlotOwnsConnection'
  <2>1. UNCHANGED <<phs, tls, open>> /\ wpc = "got"
    BY <1>12 DEF HandlePacket, PacketDrops, PacketAnswered, PacketPublished, PacketIgnored,
                 Takeover, WriteQueued, Reading, ReadPacket, net, slots
  <2>2. QED BY <2>1
<1>13. CASE UNCHANGED vars
  BY <1>13 DEF vars, net, slots, work
<1>14. QED BY <1>2, <1>3, <1>4, <1>5, <1>6, <1>7, <1>8, <1>9, <1>10, <1>11, <1>12, <1>13
           DEF Next, Peers, Server, Worker

LEMMA SInvariant == Spec => []SInv
<1>1. Init => SInv
  BY InitTInv DEF Init, SInv, SlotOwnsConnection
<1>2. SInv /\ [Next]_vars => SInv'
  <2>1. TInv /\ [Next]_vars => TInv'
    BY ServerTInv, WorkerTInv, StutterTInv DEF Next
  <2>2. QED BY <2>1, SlotOwnsStep DEF SInv
<1>3. QED BY <1>1, <1>2, PTL DEF Spec

\* A slot in a TLS or MQTT phase works for the connection its descriptor stands
\* for (worker.cpp:211-278 with 149-178 and 375-392), for every number of
\* descriptors, queue length and fan-out.
THEOREM SlotOwns == Spec => []SlotOwnsConnection
<1>1. SInv => SlotOwnsConnection
  BY DEF SInv
<1>2. QED BY SInvariant, <1>1, PTL

-----------------------------------------------------------------------------
(* Refinement of ConnLifecycle.                                            *)

\* The stage of a descriptor depends on these alone.
LEMMA StageOf ==
  ASSUME TInv, NEW s \in Socks
  PROVE  /\ ~open[s] => Stage(s) = "closed"
         /\ open[s] /\ phs[s] = "uninit" => Stage(s) = "accepted"
         /\ open[s] /\ Resetting(s) => Stage(s) = "accepted"
         /\ open[s] /\ phs[s] # "uninit" /\ ~Resetting(s) => Stage(s) = phs[s]
  BY DEF Stage

LEMMA LifecycleStep ==
  ASSUME SInv, SInv', [Next]_vars
  PROVE  [Lifecycle!Next]_[s \in Socks |-> Stage(s)]
<1> DEFINE st == [s \in Socks |-> Stage(s)]
<1> SUFFICES [Lifecycle!Next]_st
  OBVIOUS
<1>0. /\ phs \in [Socks -> Phases] /\ tls \in [Socks -> BOOLEAN] /\ open \in [Socks -> BOOLEAN]
      /\ phs' \in [Socks -> Phases] /\ open' \in [Socks -> BOOLEAN]
      /\ TInv /\ TInv' /\ SlotOwnsConnection
  BY DEF SInv, TInv, TypeOK
\* A step changes nothing, or the stage of one descriptor along an edge.
<1>1. ASSUME \A s \in Socks : Stage(s)' = Stage(s) PROVE st' = st
  BY <1>1
<1>2. ASSUME NEW s \in Socks, \A t \in Socks : t # s => Stage(t)' = Stage(t),
             \/ Stage(s) = "closed" /\ Stage(s)' = "accepted"
             \/ Stage(s) \in {"accepted", "tls_handshake"} /\ Stage(s)' \in {"tls_handshake", "mqtt"}
             \/ Stage(s)' = "closed"
      PROVE  [Lifecycle!Next]_st
  <2>1. st' = [st EXCEPT ![s] = Stage(s)']
    BY <1>2
  <2>2. CASE Stage(s)' = Stage(s)
    BY <1>1, <1>2, <2>2
  <2>3. CASE Stage(s)' # Stage(s)
    BY <1>2, <2>1, <2>3
    DEF Lifecycle!Next, Lifecycle!Accept, Lifecycle!Handshake, Lifecycle!Close
  <2>4. QED BY <2>2, <2>3
<1> HIDE DEF st
<1>3. ASSUME UNCHANGED <<phs, open>>, \A s \in Socks : Resetting(s) <=> Resetting(s)'
      PROVE  st' = st
  BY <1>3, <1>1 DEF Stage
<1>4. CASE Peers \/ Select \/ AcceptNone \/ Drain \/ EndPass \/ UNCHANGED vars
  <2>1. UNCHANGED <<phs, open, wpc, msg, after>>
    BY <1>4 DEF Peers, PeerSend, Select, AcceptNone, Drain, EndPass, vars, net, slots, work
  <2>2. QED BY <2>1, <1>3 DEF Resetting
<1>5. ASSUME NEW s \in Socks, PostRead(s) \/ PostWrite(s) PROVE [Lifecycle!Next]_st
  <2>1. UNCHANGED <<phs, open, wpc, msg, after>>
    BY <1>5 DEF PostRead, PostWrite, net, slots, work
  <2>2. QED BY <2>1, <1>3 DEF Resetting
<1>6. ASSUME NEW s \in Socks, AcceptNew(s) PROVE [Lifecycle!Next]_st
  <2>1. /\ ~open[s] /\ open' = [open EXCEPT ![s] = TRUE] /\ UNCHANGED <<phs, wpc, msg, after>>
    BY <1>6 DEF AcceptNew, slots, work
  <2>2. phs[s] = "uninit" \/ Resetting(s)
    BY <2>1, <1>0 DEF SlotOwnsConnection
  <2>3. Stage(s) = "closed" /\ Stage(s)' = "accepted"
    BY <2>1, <2>2, <1>0 DEF Stage, Resetting
  <2>4. \A t \in Socks : t # s => Stage(t)' = Stage(t)
    BY <2>1, <1>0 DEF Stage, Resetting
  <2>5. QED BY <2>3, <2>4, <1>2
<1>7. CASE Take
  <2>1. UNCHANGED <<phs, open>> /\ \A s : ~Resetting(s) /\ ~Resetting(s)'
    BY <1>7 DEF Take, Resetting, net, slots
  <2>2. QED BY <2>1, <1>3
<1>8. CASE SendOk \/ SendTimesOut
  <2>1. UNCHANGED <<phs, open>> /\ wpc = "sending"
    BY <1>8 DEF SendOk, SendTimesOut, net, slots
  <2>2. PICK sends : Proceed(sends, after)
    BY <1>8 DEF SendOk, SendTimesOut
  <2>3. \A s : Resetting(s) <=> Resetting(s)'
    BY <2>1, <2>2, <1>0 DEF Proceed, Resetting, TInv, TypeOK
  <2>4. QED BY <2>1, <2>3, <1>3
<1>9. CASE CloseDropped
  <2>1. msg.socket \in Socks /\ \A s : ~Resetting(s)
    BY <1>9, <1>0 DEF CloseDropped, Resetting, TInv, WorkerControl
  <2>2. open' = [open EXCEPT ![msg.socket] = FALSE] /\ phs' = phs
    BY <1>9 DEF CloseDropped, Close
  <2>3. PICK sends : Proceed(sends, "resetting")
    BY <1>9 DEF CloseDropped
  <2>4. \A s : s # msg.socket => ~Resetting(s)'
    BY <2>3 DEF Proceed, Resetting
  <2>5. \A t \in Socks : t # msg.socket => Stage(t)' = Stage(t)
    BY <2>1, <2>2, <2>4, <1>0 DEF Stage
  <2>6. \A t \in Socks : t = msg.socket => Stage(t)' = "closed"
    BY <2>2, <1>0 DEF Stage
  <2>7. PICK s \in Socks : s = msg.socket
    BY <2>1
  <2>8. QED BY <2>5, <2>6, <2>7, <1>2
<1>10. CASE ResetSlot
  <2>1. msg.socket \in Socks /\ open' = open
    BY <1>10, <1>0 DEF ResetSlot, TInv, WorkerControl, net
  <2>2. \A s : (s = msg.socket <=> Resetting(s)) /\ ~Resetting(s)'
    BY <1>10 DEF ResetSlot, Proceed, Resetting
  <2>3. phs' = [phs EXCEPT ![msg.socket] = "uninit"]
    BY <1>10 DEF ResetSlot
  <2>4. \A s \in Socks : Stage(s)' = Stage(s)
    BY <2>1, <2>2, <2>3, <1>0 DEF Stage
  <2>5. QED BY <2>4, <1>1
<1>11. CASE Evict
  <2>1. victim \in Socks /\ \A s : ~Resetting(s) /\ ~Resetting(s)'
    BY <1>11, <1>0 DEF Evict, Resetting, Proceed, TInv, WorkerControl
  <2>2. open' = [open EXCEPT ![victim] = FALSE] /\ phs' = [phs EXCEPT ![victim] = "uninit"]
    BY <1>11 DEF Evict, Close
  <2>3. \A t \in Socks : t # victim => Stage(t)' = Stage(t)
    BY <2>1, <2>2, <1>0 DEF Stage
  <2>4. \A t \in Socks : t = victim => Stage(t)' = "closed"
    BY <2>2, <1>0 DEF Stage
  <2>5. PICK s \in Socks : s = victim
    BY <2>1
  <2>6. QED BY <2>3, <2>4, <2>5, <1>2
<1>12. ASSUME NEW s \in Socks, Handshake(s) PROVE [Lifecycle!Next]_st
  <2>1. phs[s] \in {"uninit", "tls_handshake"} /\ \A t : ~Resetting(t)
    BY <1>12 DEF Handshake, TlsAllocFails, HandshakeFails, HandshakeStep, Handshaking, Resetting
  <2>2. CASE TlsAllocFails(s)
    <3>1. open' = [open EXCEPT ![s] = FALSE] /\ phs' = phs /\ \A t : ~Resetting(t)'
      BY <2>2 DEF TlsAllocFails, Close, slots, Proceed, Resetting
    <3>2. Stage(s)' = "closed" /\ \A t \in Socks : t # s => Stage(t)' = Stage(t)
      BY <2>1, <3>1, <1>0 DEF Stage
    <3>3. QED BY <3>2, <1>2
  <2>3. CASE HandshakeFails(s)
    <3>1. UNCHANGED <<phs, open>> /\ \A t : ~Resetting(t)'
      BY <2>3 DEF HandshakeFails, DropConn, net, Proceed, Resetting
    <3>2. QED BY <2>1, <3>1, <1>3
  <2>4. ASSUME NEW phase \in {"mqtt", "tls_handshake"}, NEW op \in {"read", "write"},
               HandshakeStep(s, phase, op)
        PROVE  [Lifecycle!Next]_st
    <3>1. /\ open' = open /\ open[s] /\ phs' = [phs EXCEPT ![s] = phase]
          /\ \A t : ~Resetting(t)'
      BY <2>4 DEF HandshakeStep, Proceed, Resetting
    <3>2. Stage(s) \in {"accepted", "tls_handshake"} /\ Stage(s)' = phase
      BY <2>1, <3>1, <1>0 DEF Stage
    <3>3. \A t \in Socks : t # s => Stage(t)' = Stage(t)
      BY <2>1, <3>1, <1>0 DEF Stage
    <3>4. QED BY <3>2, <3>3, <1>2
  <2>5. QED BY <1>12, <2>2, <2>3, <2>4 DEF Handshake
<1>13. ASSUME NEW s \in Socks, HandlePacket(s) \/ WriteQueued(s) PROVE [Lifecycle!Next]_st
  <2>1. UNCHANGED <<phs, open>> /\ wpc = "got"
    BY <1>13 DEF HandlePacket, PacketDrops, PacketAnswered, PacketPublished, PacketIgnored,
                 Takeover, WriteQueued, Reading, ReadPacket, net, slots
  <2>2. ASSUME NEW sends, NEW next \in {"idle", "closing", "evicting"}, Proceed(sends, next)
        PROVE  \A t : ~Resetting(t)'
    BY <2>2 DEF Proceed, Resetting
  <2>3. \A t : ~Resetting(t) /\ ~Resetting(t)'
    BY <1>13, <2>1, <2>2
    DEF HandlePacket, PacketDrops, PacketAnswered, PacketPublished, PacketIgnored,
        Takeover, WriteQueued, Resetting
  <2>4. QED BY <2>1, <2>3, <1>3
<1>14. QED BY <1>4, <1>5, <1>6, <1>7, <1>8, <1>9, <1>10, <1>11, <1>12, <1>13
           DEF Next, Server, Worker

\* The two tasks together implement the life of a connection: every step of
\* theirs moves one descriptor along an edge of ConnLifecycle or none.
THEOREM LifecycleImplemented == Spec => ImplementsLifecycle
<1>1. Init => Lifecycle!Init
  BY DEF Init, Lifecycle!Init, Stage
<1>2. SInv /\ SInv' /\ [Next]_vars => [Lifecycle!Next]_[s \in Socks |-> Stage(s)]
  BY LifecycleStep
<1>3. QED BY SInvariant, <1>1, <1>2, PTL DEF Spec, ImplementsLifecycle, Lifecycle!Spec

-----------------------------------------------------------------------------
(* No connection is forgotten.                                             *)

Safe(s) == open[s] => EventQueued(s) \/ InHand(s) \/ Watched(s) \/ s \in unwatched

LEMMA SingleDecides ==
  ASSUME NEW r, NEW s
  PROVE  (Arms(r, s) => Rearms(<<r>>, s)) /\ (Spares(<<r>>, s) <=> ~Disarms(r, s))
<1> DEFINE q == <<r>>
<1>1. DOMAIN q = {1} /\ q[1] = r
  OBVIOUS
<1> HIDE DEF q
<1>2. Arms(r, s) => Rearms(q, s)
  BY <1>1 DEF Rearms
<1>3. Spares(q, s) <=> ~Disarms(r, s)
  BY <1>1 DEF Spares
<1>4. QED BY <1>2, <1>3 DEF q

\* The sends of a handler: they arm the handler's socket, and disarm nobody
\* but a socket that is being closed.
LEMMA SendsWatch ==
  ASSUME NEW s \in Socks
  PROVE  /\ \A o \in {"read", "write"} : /\ Rearms(<<Ask(s, o)>>, s)
                                         /\ \A t : Spares(<<Ask(s, o)>>, t)
         /\ \A o \in {"read", "write"}, targets \in Fanouts :
              /\ Rearms(<<Ask(s, o)>> \o Notify(targets), s)
              /\ \A t : Spares(<<Ask(s, o)>> \o Notify(targets), t)
         /\ \A ops \in {<<"read">>, <<"write">>, <<"write", "read">>} :
              /\ Rearms([i \in DOMAIN ops |-> Ask(s, ops[i])], s)
              /\ \A t : Spares([i \in DOMAIN ops |-> Ask(s, ops[i])], t)
         /\ \A t : t # s => /\ Spares(<<Ask(s, "delall")>>, t)
                            /\ Spares(<<Ask(s, "write")>> \o <<Ask(s, "delall")>>, t)
<1>0. \A o \in {"read", "write"} : Arms(Ask(s, o), s) /\ \A t : ~Disarms(Ask(s, o), t)
  BY DEF Arms, Disarms, Ask
<1>1. ASSUME NEW o \in {"read", "write"}
      PROVE  Rearms(<<Ask(s, o)>>, s) /\ \A t : Spares(<<Ask(s, o)>>, t)
  BY <1>0, SingleDecides
<1>2. ASSUME NEW o \in {"read", "write"}, NEW q \in Seq(Sends), \A t : Spares(q, t)
      PROVE  Rearms(<<Ask(s, o)>> \o q, s) /\ \A t : Spares(<<Ask(s, o)>> \o q, t)
  <2> DEFINE p == <<Ask(s, o)>> \o q
  <2>0. o \in {"read", "write", "delall", "notify", "pub"}
    OBVIOUS
  <2>1. p \in Seq(Sends) /\ p # <<>> /\ Head(p) = Ask(s, o) /\ Tail(p) = q
    BY <2>0, ConsType
  <2> HIDE DEF p
  <2>2. \A t : /\ Spares(p, t) <=> ~Disarms(Head(p), t) /\ Spares(Tail(p), t)
               /\ Rearms(p, t) <=> Rearms(Tail(p), t) \/ (Arms(Head(p), t) /\ Spares(Tail(p), t))
    BY <2>1, HeadDecides
  <2>3. Rearms(p, s) /\ \A t : Spares(p, t)
    BY <1>0, <1>2, <2>1, <2>2
  <2>4. QED BY <2>3 DEF p
<1>3. ASSUME NEW o \in {"read", "write"}, NEW targets \in Fanouts
      PROVE  /\ Rearms(<<Ask(s, o)>> \o Notify(targets), s)
             /\ \A t : Spares(<<Ask(s, o)>> \o Notify(targets), t)
  BY <1>2, NotifyType
<1>4. ASSUME NEW ops \in {<<"read">>, <<"write">>, <<"write", "read">>}
      PROVE  /\ Rearms([i \in DOMAIN ops |-> Ask(s, ops[i])], s)
             /\ \A t : Spares([i \in DOMAIN ops |-> Ask(s, ops[i])], t)
  <2>1. 1 \in DOMAIN ops /\ \A i \in DOMAIN ops : ops[i] \in {"read", "write"}
    <3>1. CASE ops = <<"read">>
      BY <3>1
    <3>2. CASE ops = <<"write">>
      BY <3>2
    <3>3. CASE ops = <<"write", "read">>
      BY <3>3
    <3>4. QED BY <1>4, <3>1, <3>2, <3>3
  <2>2. QED BY <1>0, <2>1 DEF Rearms, Spares
<1>5. ASSUME NEW t, t # s
      PROVE  /\ Spares(<<Ask(s, "delall")>>, t)
             /\ Spares(<<Ask(s, "write")>> \o <<Ask(s, "delall")>>, t)
  <2>1. Ask(s, "write") \in Sends /\ Ask(s, "delall") \in Sends
    BY DEF Ask, Sends
  <2>2. ~Disarms(Ask(s, "write"), t) /\ ~Disarms(Ask(s, "delall"), t)
    BY <1>5 DEF Disarms, Ask
  <2>3. \A i \in DOMAIN (<<Ask(s, "write")>> \o <<Ask(s, "delall")>>) :
          (<<Ask(s, "write")>> \o <<Ask(s, "delall")>>)[i] \in {Ask(s, "write"), Ask(s, "delall")}
    BY <2>1
  <2>4. QED BY <2>2, <2>3 DEF Spares
<1>6. QED BY <1>1, <1>3, <1>4, <1>5

LEMMA EmptyWatch == \A s : ~Rearms(<<>>, s) /\ Spares(<<>>, s)
  BY DEF Rearms, Spares

\* A step of the worker that queues nothing keeps what it does not disarm.
LEMMA KeptSafe ==
  ASSUME TInv, wpc # "sending", UNCHANGED <<pending_socks, socks_for_fds, masters>>,
         NEW t \in Socks, Safe(t), ~InHand(t), open'[t] => open[t],
         t \in unwatched => t \in unwatched', Spares(todo', t)
  PROVE  Safe(t)'
<1>1. todo = <<>>
  BY DEF TInv, WorkerControl
<1>2. CASE Watched(t)
  <2>1. Rearms(socks_for_fds, t) \/ (Spares(socks_for_fds, t) /\ t \in (master_readfds \cup master_writefds))
    BY <1>1, <1>2, EmptyWatch DEF Watched
  <2>2. Watched(t)'
    BY <2>1 DEF Watched, masters
  <2>3. QED BY <2>2 DEF Safe
<1>3. CASE EventQueued(t)
  <2>1. EventQueued(t)'
    BY <1>3 DEF EventQueued
  <2>2. QED BY <2>1 DEF Safe
<1>4. QED BY <1>2, <1>3 DEF Safe

LEMMA FirstDecides ==
  ASSUME NEW u \in Socks, NEW p \in {"pub", "read"}, NEW rest \in Seq(Sends), NEW s
  PROVE  /\ Spares(<<Ask(u, p)>> \o rest, s) <=> Spares(rest, s)
         /\ Rearms(<<Ask(u, p)>> \o rest, s) <=> Rearms(rest, s) \/ (u = s /\ Spares(rest, s))
<1> DEFINE q == <<Ask(u, p)>> \o rest
<1>1. p \in {"read", "write", "delall", "notify", "pub"}
  OBVIOUS
<1>2. q \in Seq(Sends) /\ q # <<>> /\ Head(q) = Ask(u, p) /\ Tail(q) = rest
  BY <1>1, ConsType
<1> HIDE DEF q
<1>3. /\ Spares(q, s) <=> ~Disarms(Ask(u, p), s) /\ Spares(rest, s)
      /\ Rearms(q, s) <=> Rearms(rest, s) \/ (Arms(Ask(u, p), s) /\ Spares(rest, s))
  BY <1>2, HeadDecides
<1>4. ~Disarms(Ask(u, p), s) /\ (Arms(Ask(u, p), s) <=> u = s)
  BY DEF Arms, Disarms, Ask
<1>5. QED BY <1>3, <1>4 DEF q

\* One send, made or given up: the rest of the sends and the queue say at least
\* what they said before, or the socket is given up.
LEMMA SendWatch ==
  ASSUME TInv, SendOk \/ SendTimesOut, NEW s \in Socks, Safe(s)
  PROVE  Safe(s)'
<1> DEFINE r == Head(todo)
           rest == Tail(todo)
<1>1. /\ wpc = "sending" /\ todo # <<>> /\ todo \in Seq(Sends) /\ r \in Sends
      /\ rest \in Seq(Sends) /\ after \in Places /\ socks_for_fds \in Seq(Requests)
      /\ UNCHANGED <<pending_socks, open, victim, master_readfds, master_writefds>>
  BY DEF SendOk, SendTimesOut, TInv, TypeOK, WorkerControl, Places, masters, net, queues
<1>2. PICK u \in Socks, o \in {"read", "write", "delall", "notify", "pub"} : r = Ask(u, o)
  BY <1>1 DEF Sends, Ask
<1>3. /\ Spares(todo, s) <=> ~Disarms(r, s) /\ Spares(rest, s)
      /\ Rearms(todo, s) <=> Rearms(rest, s) \/ (Arms(r, s) /\ Spares(rest, s))
  BY <1>1, HeadDecides
<1>4. \A p \in {"pub", "read"} :
        /\ Spares(<<Ask(u, p)>> \o rest, s) <=> Spares(rest, s)
        /\ Rearms(<<Ask(u, p)>> \o rest, s) <=> Rearms(rest, s) \/ (u = s /\ Spares(rest, s))
  BY <1>1, FirstDecides
<1>5. <<>> \o rest = rest
  BY <1>1
<1>0. r.socket = u /\ r.op = o
  BY <1>2 DEF Ask
<1> HIDE DEF r, rest
<1>6. PICK sends : Proceed(sends, after)
  BY DEF SendOk, SendTimesOut
<1>7. InHand(s) => InHand(s)'
  BY <1>1, <1>6 DEF Proceed, InHand, Places, Ask
<1>8. EventQueued(s) => EventQueued(s)'
  BY <1>1 DEF EventQueued
<1>9. ASSUME SendOk, Watched(s) PROVE Watched(s)'
  <2>0. Request(r) \in Requests
    BY <1>1, RequestType
  <2>1. /\ socks_for_fds' = Append(socks_for_fds, Request(r))
        /\ todo' = (IF o = "notify" THEN <<Ask(u, "pub")>> ELSE <<>>) \o rest
    BY <1>0, <1>9 DEF SendOk, Proceed, r, rest
  <2>2. /\ Spares(socks_for_fds', s) <=> Spares(socks_for_fds, s) /\ ~Disarms(Request(r), s)
        /\ Arms(Request(r), s) => Rearms(socks_for_fds', s)
        /\ Rearms(socks_for_fds, s) /\ ~Disarms(Request(r), s) => Rearms(socks_for_fds', s)
    BY <1>1, <2>0, <2>1, LastDecides
  <2>3. CASE o = "notify"
    <3>1. /\ todo' = <<Ask(u, "pub")>> \o rest
          /\ Disarms(Request(r), s) <=> u = s
          /\ Arms(r, s) <=> u = s
          /\ ~Disarms(r, s)
      BY <1>2, <2>1, <2>3 DEF Request, Arms, Disarms, Ask
    <3>2. QED BY <1>1, <1>3, <1>4, <1>9, <2>2, <3>1 DEF Watched
  <2>4. CASE o # "notify"
    <3>1. /\ todo' = rest
          /\ Disarms(Request(r), s) <=> Disarms(r, s)
          /\ Arms(r, s) => Arms(Request(r), s)
      BY <1>2, <1>5, <2>1, <2>4 DEF Request, Arms, Disarms, Ask
    <3>2. QED BY <1>1, <1>3, <1>9, <2>2, <3>1 DEF Watched
  <2>5. QED BY <2>3, <2>4
<1>10. ASSUME SendTimesOut, Watched(s) PROVE Watched(s)' \/ s \in unwatched'
  <2>1. /\ socks_for_fds' = socks_for_fds /\ todo' = FallBack(r) \o rest
        /\ o \in {"read", "write"} => u \in unwatched'
    BY <1>0, <1>10 DEF SendTimesOut, Proceed, r, rest, queues
  <2>2. CASE o \in {"notify", "pub"}
    <3>1. PICK p \in {"pub", "read"} : todo' = <<Ask(u, p)>> \o rest
      BY <1>2, <2>1, <2>2 DEF FallBack, Ask
    <3>2. ~Disarms(r, s) /\ (Arms(r, s) <=> u = s)
      BY <1>2, <2>2 DEF Arms, Disarms, Ask
    <3>3. QED BY <1>1, <1>3, <1>4, <1>10, <2>1, <3>1, <3>2 DEF Watched
  <2>3. CASE o \notin {"notify", "pub"}
    <3>1. todo' = rest
      BY <1>2, <1>5, <2>1, <2>3 DEF FallBack, Ask
    <3>2. Arms(r, s) => s \in unwatched'
      BY <1>2, <2>1, <2>3 DEF Arms, Ask
    <3>3. QED BY <1>1, <1>3, <1>10, <2>1, <3>1, <3>2 DEF Watched
  <2>4. QED BY <2>2, <2>3
<1>11. s \in unwatched => s \in unwatched'
  BY DEF SendOk, SendTimesOut
<1>12. QED BY <1>1, <1>7, <1>8, <1>9, <1>10, <1>11 DEF Safe

\* Applying the oldest request watches whom it watched before.
LEMMA DrainWatch == ASSUME TInv, Drain, NEW s \in Socks, Watched(s) PROVE Watched(s)'
<1> DEFINE r == Head(socks_for_fds)
<1>1. /\ socks_for_fds \in Seq(Requests) /\ socks_for_fds # <<>> /\ r \in Requests
      /\ socks_for_fds' = Tail(socks_for_fds) /\ todo' = todo
  BY DEF Drain, TInv, TypeOK, work
<1>2. /\ Spares(socks_for_fds, s) <=> ~Disarms(r, s) /\ Spares(Tail(socks_for_fds), s)
      /\ Rearms(socks_for_fds, s) <=> \/ Rearms(Tail(socks_for_fds), s)
                                      \/ Arms(r, s) /\ Spares(Tail(socks_for_fds), s)
  BY <1>1, HeadDecides
<1>3. Arms(r, s) => s \in (master_readfds' \cup master_writefds')
  BY <1>1 DEF Drain, Arms, Requests
<1>4. s \in (master_readfds \cup master_writefds) /\ ~Disarms(r, s)
        => s \in (master_readfds' \cup master_writefds')
  <2>1. CASE r.socket # s
    BY <2>1 DEF Drain
  <2>2. CASE r.socket = s /\ ~Disarms(r, s)
    BY <1>1, <1>3, <2>2 DEF Disarms, Arms, Requests
  <2>3. QED BY <2>1, <2>2
<1>5. CASE Rearms(todo, s)
  BY <1>1, <1>5 DEF Watched
<1>6. CASE Spares(todo, s) /\ Rearms(socks_for_fds, s)
  BY <1>1, <1>2, <1>3, <1>6 DEF Watched
<1>7. CASE /\ Spares(todo, s) /\ Spares(socks_for_fds, s)
           /\ s \in (master_readfds \cup master_writefds)
  BY <1>1, <1>2, <1>4, <1>7 DEF Watched
<1>8. QED BY <1>5, <1>6, <1>7 DEF Watched

\* The steps of the peers and of the server forget nobody.
LEMMA ServerWatch ==
  ASSUME TInv, Peers \/ Server, NEW s \in Socks, Safe(s)
  PROVE  Safe(s)'
<1>1. CASE Peers \/ Select \/ AcceptNone \/ EndPass
  <2>1. UNCHANGED <<queues, masters, open, work, unwatched>>
    BY <1>1 DEF Peers, PeerSend, Select, AcceptNone, EndPass, net
  <2>2. UNCHANGED <<pending_socks, socks_for_fds, master_readfds, master_writefds, open,
                    wpc, msg, todo, after, victim, unwatched>>
    BY <2>1 DEF queues, masters, work
  <2>3. Watched(s)' <=> Watched(s)
    BY <2>2 DEF Watched
  <2>4. (EventQueued(s)' <=> EventQueued(s)) /\ (InHand(s)' <=> InHand(s))
    BY <2>2 DEF EventQueued, InHand
  <2>5. QED BY <2>2, <2>3, <2>4 DEF Safe
<1>2. CASE Drain
  <2>1. Watched(s) => Watched(s)'
    BY <1>2, DrainWatch
  <2>2. UNCHANGED <<pending_socks, open, wpc, msg, after, victim, unwatched>>
    BY <1>2 DEF Drain, net, work
  <2>3. (EventQueued(s)' <=> EventQueued(s)) /\ (InHand(s)' <=> InHand(s))
    BY <2>2 DEF EventQueued, InHand
  <2>4. QED BY <2>1, <2>2, <2>3 DEF Safe
<1>3. ASSUME NEW t \in Socks, NEW o \in {"read", "write"}, Post(t, o),
             AcceptNew(t) \/ PostRead(t) \/ PostWrite(t)
      PROVE  Safe(s)'
  <2>1. /\ UNCHANGED <<socks_for_fds, wpc, msg, todo, after, victim>>
        /\ s # t => /\ s \in master_readfds => s \in master_readfds'
                    /\ s \in master_writefds => s \in master_writefds'
                    /\ open'[s] = open[s]
    BY <1>3 DEF AcceptNew, PostRead, PostWrite, masters, net, work, TInv, TypeOK
  <2>2. (\A u : EventQueued(u) => EventQueued(u)') /\ (EventQueued(t)' \/ t \in unwatched')
    <3>1. pending_socks \in Seq(Events) /\ Ask(t, o).socket = t
      BY DEF TInv, TypeOK, Ask
    <3>2. CASE Len(pending_socks) < QLen
      <4>1. pending_socks' = Append(pending_socks, Ask(t, o))
        BY <1>3, <3>2 DEF Post
      <4>2. /\ Len(pending_socks) + 1 \in DOMAIN pending_socks'
            /\ pending_socks'[Len(pending_socks) + 1] = Ask(t, o)
            /\ \A i \in DOMAIN pending_socks :
                 i \in DOMAIN pending_socks' /\ pending_socks'[i] = pending_socks[i]
        BY <3>1, <4>1
      <4>3. QED BY <3>1, <4>2 DEF EventQueued
    <3>3. CASE ~(Len(pending_socks) < QLen)
      BY <1>3, <3>3 DEF Post, EventQueued
    <3>4. QED BY <3>2, <3>3
  <2>3. s \in unwatched => s \in unwatched'
    BY <1>3 DEF Post
  <2>4. InHand(s)' <=> InHand(s)
    BY <2>1 DEF InHand
  <2>5. s # t /\ Watched(s) => Watched(s)'
    BY <2>1 DEF Watched
  <2>6. QED BY <2>1, <2>2, <2>3, <2>4, <2>5 DEF Safe
<1>4. ASSUME NEW t \in Socks, AcceptNew(t) \/ PostRead(t) \/ PostWrite(t) PROVE Safe(s)'
  <2>1. Post(t, "read") \/ Post(t, "write")
    BY <1>4 DEF AcceptNew, PostRead, PostWrite
  <2>2. QED BY <1>3, <1>4, <2>1
<1>5. QED BY <1>1, <1>2, <1>4 DEF Server

\* A handler that queues requests for its own socket, or keeps it in hand.
LEMMA OwnSafe ==
  ASSUME NEW s \in Socks, NEW sends, NEW next, Proceed(sends, next),
         \/ Rearms(sends, s) \/ s \in unwatched' \/ ~open'[s]
         \/ s = msg.socket /\ next \in {"closing", "evicting"}
         \/ s = victim' /\ next = "evicting"
  PROVE  Safe(s)'
<1>1. Rearms(sends, s) => Watched(s)'
  BY DEF Proceed, Watched
<1>2. s = msg.socket /\ next \in {"closing", "evicting"} => InHand(s)'
  BY DEF Proceed, InHand, Ask
<1>3. s = victim' /\ next = "evicting" => InHand(s)'
  BY DEF Proceed, InHand
<1>4. QED BY <1>1, <1>2, <1>3 DEF Safe

LEMMA PacketWatch ==
  ASSUME TInv, NEW s \in Socks, HandlePacket(s), NEW t \in Socks, Safe(t)
  PROVE  Safe(t)'
<1>0. /\ Reading(s) /\ ReadPacket(s) /\ UNCHANGED <<queues, masters>>
      /\ t \in unwatched => t \in unwatched'
  BY DEF HandlePacket, PacketDrops, PacketAnswered, PacketPublished, PacketIgnored, Takeover
<1>1. /\ wpc = "got" /\ msg = Ask(s, "read") /\ msg.socket = s
      /\ UNCHANGED <<pending_socks, socks_for_fds, masters, open>>
      /\ t \in unwatched => t \in unwatched'
  BY <1>0 DEF Reading, ReadPacket, Ask, queues
<1>2. t # s => ~InHand(t)
  BY <1>1 DEF InHand
<1>3. ASSUME NEW sends, Spares(sends, t), t # s, NEW next, Proceed(sends, next)
      PROVE  Safe(t)'
  <2>1. Spares(todo', t)
    BY <1>3 DEF Proceed
  <2>2. QED BY <1>1, <1>2, <1>3, <2>1, KeptSafe
<1>4. CASE PacketDrops(s)
  <2>1. PICK sent \in {<<>>, <<Ask(s, "write")>>} :
          Proceed(sent \o <<Ask(s, "delall")>>, "closing")
    BY <1>4 DEF PacketDrops
  <2>2. t # s => Spares(sent \o <<Ask(s, "delall")>>, t)
    BY SendsWatch, SendsType
  <2>3. CASE t = s
    BY <1>1, <2>1, <2>3, OwnSafe
  <2>4. CASE t # s
    BY <1>3, <2>1, <2>2, <2>4
  <2>5. QED BY <2>3, <2>4
<1>5. CASE PacketAnswered(s)
  <2>1. PICK ops \in {<<"read">>, <<"write">>, <<"write", "read">>} :
          Proceed([i \in DOMAIN ops |-> Ask(s, ops[i])], "idle")
    BY <1>5 DEF PacketAnswered
  <2>2. /\ Rearms([i \in DOMAIN ops |-> Ask(s, ops[i])], s)
        /\ Spares([i \in DOMAIN ops |-> Ask(s, ops[i])], t)
    BY SendsWatch
  <2>3. QED BY <1>3, <2>1, <2>2, OwnSafe
<1>6. CASE PacketPublished(s)
  <2>1. PICK targets \in Fanouts, op \in {"read", "write"} :
          Proceed(<<Ask(s, op)>> \o Notify(targets), "idle")
    BY <1>6 DEF PacketPublished
  <2>2. /\ Rearms(<<Ask(s, op)>> \o Notify(targets), s)
        /\ Spares(<<Ask(s, op)>> \o Notify(targets), t)
    BY SendsWatch
  <2>3. QED BY <1>3, <2>1, <2>2, OwnSafe
<1>7. CASE PacketIgnored(s)
  <2>1. Proceed(<<>>, "idle") /\ s \in unwatched' /\ Spares(<<>>, t)
    BY <1>7, EmptyWatch DEF PacketIgnored
  <2>2. QED BY <1>3, <2>1, OwnSafe
<1>8. ASSUME NEW u \in Socks, Takeover(s, u) PROVE Safe(t)'
  <2>1. victim' = u /\ Proceed(<<Ask(u, "delall")>>, "evicting")
    BY <1>8 DEF Takeover
  <2>2. CASE t \in {s, u}
    BY <1>1, <2>1, <2>2, OwnSafe
  <2>3. CASE t \notin {s, u}
    <3>1. Spares(<<Ask(u, "delall")>>, t)
      BY <2>3, SendsWatch
    <3>2. QED BY <1>3, <2>1, <2>3, <3>1
  <2>4. QED BY <2>2, <2>3
<1>9. QED BY <1>4, <1>5, <1>6, <1>7, <1>8 DEF HandlePacket

LEMMA HandshakeWatch ==
  ASSUME TInv, NEW s \in Socks, Handshake(s), NEW t \in Socks, Safe(t)
  PROVE  Safe(t)'
<1>1. /\ wpc = "got" /\ msg.socket = s /\ open \in [Socks -> BOOLEAN]
      /\ UNCHANGED <<pending_socks, socks_for_fds, masters>>
  BY DEF Handshake, TlsAllocFails, HandshakeFails, HandshakeStep, Handshaking, queues,
         TInv, TypeOK
<1>2. ASSUME NEW sends, Spares(sends, t), t # s, NEW next, Proceed(sends, next),
             open'[t] => open[t], t \in unwatched => t \in unwatched'
      PROVE  Safe(t)'
  <2>1. Spares(todo', t) /\ ~InHand(t)
    BY <1>1, <1>2 DEF Proceed, InHand
  <2>2. QED BY <1>1, <1>2, <2>1, KeptSafe
<1>3. CASE TlsAllocFails(s)
  <2>1. Close(s) /\ Proceed(<<>>, "idle") /\ Spares(<<>>, t)
    BY <1>3, EmptyWatch DEF TlsAllocFails
  <2>2. ~open'[s] /\ (open'[t] => open[t]) /\ (t # s /\ t \in unwatched => t \in unwatched')
    BY <1>1, <2>1 DEF Close
  <2>3. QED BY <1>2, <2>1, <2>2, OwnSafe
<1>4. CASE HandshakeFails(s)
  <2>1. Proceed(<<Ask(s, "delall")>>, "closing") /\ UNCHANGED <<open, unwatched>>
    BY <1>4 DEF HandshakeFails, DropConn, net
  <2>2. t # s => Spares(<<Ask(s, "delall")>>, t)
    BY SendsWatch
  <2>3. QED BY <1>1, <1>2, <2>1, <2>2, OwnSafe
<1>5. ASSUME NEW phase \in {"mqtt", "tls_handshake"}, NEW op \in {"read", "write"},
             HandshakeStep(s, phase, op)
      PROVE  Safe(t)'
  <2>1. Proceed(<<Ask(s, op)>>, "idle") /\ UNCHANGED <<open, unwatched>>
    BY <1>5 DEF HandshakeStep
  <2>2. Rearms(<<Ask(s, op)>>, s) /\ Spares(<<Ask(s, op)>>, t)
    BY SendsWatch
  <2>3. QED BY <1>2, <2>1, <2>2, OwnSafe
<1>6. QED BY <1>3, <1>4, <1>5 DEF Handshake

\* The end of a connection, and the events that are not packets.
LEMMA CloseWatch ==
  ASSUME TInv, CloseDropped \/ ResetSlot \/ Evict \/ \E s \in Socks : WriteQueued(s),
         NEW t \in Socks, Safe(t)
  PROVE  Safe(t)'
<1>0. UNCHANGED <<queues, masters>> /\ wpc \in {"got", "closing", "resetting", "evicting"}
  BY DEF CloseDropped, ResetSlot, Evict, WriteQueued
<1>1. /\ wpc \in {"got", "closing", "resetting", "evicting"} /\ open \in [Socks -> BOOLEAN]
      /\ UNCHANGED <<pending_socks, socks_for_fds, masters>> /\ msg.socket \in Socks
  BY <1>0 DEF TInv, TypeOK, WorkerControl, queues, Events
<1>2. ASSUME NEW sends, Spares(sends, t), ~InHand(t), NEW next, Proceed(sends, next),
             open'[t] => open[t], t \in unwatched => t \in unwatched'
      PROVE  Safe(t)'
  <2>1. Spares(todo', t)
    BY <1>2 DEF Proceed
  <2>2. QED BY <1>1, <1>2, <2>1, KeptSafe
<1>3. CASE CloseDropped
  <2>1. PICK targets \in Fanouts : Proceed(Notify(targets), "resetting")
    BY <1>3 DEF CloseDropped
  <2>2. Spares(Notify(targets), t)
    BY NotifyType
  <2>3. /\ t = msg.socket => ~open'[t]
        /\ t # msg.socket => /\ ~InHand(t) /\ open'[t] = open[t]
                             /\ t \in unwatched => t \in unwatched'
    BY <1>1, <1>3 DEF CloseDropped, Close, InHand
  <2>4. QED BY <1>2, <2>1, <2>2, <2>3, OwnSafe
<1>4. CASE ResetSlot
  <2>1. Proceed(<<>>, "idle") /\ UNCHANGED <<open, unwatched>> /\ ~InHand(t)
    BY <1>4 DEF ResetSlot, net, InHand
  <2>2. QED BY <1>2, <2>1, EmptyWatch
<1>5. CASE Evict
  <2>1. PICK op \in {"read", "write"} : Proceed(<<Ask(msg.socket, op)>>, "idle")
    BY <1>5 DEF Evict
  <2>2. Rearms(<<Ask(msg.socket, op)>>, msg.socket) /\ Spares(<<Ask(msg.socket, op)>>, t)
    BY <1>1, SendsWatch
  <2>3. /\ t = victim => ~open'[t]
        /\ t # victim /\ t # msg.socket => /\ ~InHand(t) /\ open'[t] = open[t]
                                           /\ t \in unwatched => t \in unwatched'
    BY <1>1, <1>5 DEF Evict, Close, InHand
  <2>4. QED BY <1>2, <2>1, <2>2, <2>3, OwnSafe
<1>6. ASSUME NEW s \in Socks, WriteQueued(s) PROVE Safe(t)'
  <2>1. PICK op \in {"read", "write"} : Proceed(<<Ask(s, op)>>, "idle")
    BY <1>6 DEF WriteQueued
  <2>2. Rearms(<<Ask(s, op)>>, s) /\ Spares(<<Ask(s, op)>>, t)
    BY SendsWatch
  <2>3. UNCHANGED <<open, unwatched>> /\ (t # s => ~InHand(t))
    BY <1>6 DEF WriteQueued, net, InHand, Ask
  <2>4. QED BY <1>2, <2>1, <2>2, <2>3, OwnSafe
<1>7. QED BY <1>3, <1>4, <1>5, <1>6

LEMMA TakeWatch == ASSUME TInv, Take, NEW t \in Socks, Safe(t) PROVE Safe(t)'
<1>1. /\ pending_socks \in Seq(Events) /\ pending_socks # <<>> /\ ~InHand(t)
      /\ pending_socks' = Tail(pending_socks) /\ msg' = Head(pending_socks) /\ wpc' = "got"
      /\ UNCHANGED <<socks_for_fds, master_readfds, master_writefds, todo, open, unwatched>>
  BY DEF Take, TInv, TypeOK, InHand, masters, net
<1>2. EventQueued(t) => InHand(t)' \/ EventQueued(t)'
  <2>1. HAVE EventQueued(t)
  <2>2. PICK i \in DOMAIN pending_socks : pending_socks[i].socket = t
    BY <2>1 DEF EventQueued
  <2>3. CASE i = 1
    BY <1>1, <2>2, <2>3 DEF InHand
  <2>4. CASE i # 1
    <3>1. i - 1 \in DOMAIN Tail(pending_socks) /\ Tail(pending_socks)[i - 1] = pending_socks[i]
      BY <1>1, <2>4
    <3>2. QED BY <1>1, <2>2, <3>1 DEF EventQueued
  <2>5. QED BY <2>3, <2>4
<1>3. Watched(t) => Watched(t)'
  BY <1>1 DEF Watched
<1>4. QED BY <1>1, <1>2, <1>3 DEF Safe

NInv == TInv /\ NoSilentLoss

LEMMA NInvariant == Spec => []NInv
<1>1. Init => NInv
  BY InitTInv DEF Init, NInv, NoSilentLoss
<1>2. ASSUME NInv, [Next]_vars PROVE NInv'
  <2>1. TInv'
    BY <1>2, ServerTInv, WorkerTInv, StutterTInv DEF NInv, Next
  <2>2. ASSUME NEW s \in Socks PROVE Safe(s)'
    <3>1. TInv /\ Safe(s)
      BY <1>2 DEF NInv, NoSilentLoss, Safe
    <3>2. CASE Peers \/ Server
      BY <3>1, <3>2, ServerWatch
    <3>3. CASE Worker
      BY <3>1, <3>3, TakeWatch, SendWatch, CloseWatch, HandshakeWatch, PacketWatch DEF Worker
    <3>4. CASE UNCHANGED vars
      <4>1. UNCHANGED <<pending_socks, socks_for_fds, master_readfds, master_writefds, open,
                        wpc, msg, todo, after, victim, unwatched>>
        BY <3>4 DEF vars, queues, masters, net, work
      <4>2. QED BY <3>1, <4>1 DEF Safe, EventQueued, InHand, Watched
    <3>5. QED BY <1>2, <3>2, <3>3, <3>4 DEF Next
  <2>3. QED BY <2>1, <2>2 DEF NInv, NoSilentLoss, Safe
<1>3. QED BY <1>1, <1>2, PTL DEF Spec

\* No open connection is forgotten, but where an event or a request is given up
\* (main.cpp:127,137,143, worker.cpp:17) or a handler ends without a request:
\* for every number of descriptors, queue length and fan-out.
THEOREM NoConnectionForgotten == Spec => []NoSilentLoss
<1>1. NInv => NoSilentLoss
  BY DEF NInv
<1>2. QED BY NInvariant, <1>1, PTL
=============================================================================
