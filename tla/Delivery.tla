------------------------------ MODULE Delivery ------------------------------
(***************************************************************************)
(* The exchanges of the worker: PUBLISH with its acknowledgements in both  *)
(* directions, the entries of packid_state that stand for them, retained   *)
(* and will messages, and the counts of publish_msg_store.                 *)
(*                                                                         *)
(* A publication is stored once under the packet id of its sender, and     *)
(* every subscriber gets an entry (that id, what to do next).  The message *)
(* itself is looked up by id when the entry is handled; the count of its   *)
(* node says how many entries and retained topics still need it.           *)
(*                                                                         *)
(* Each connection is a clean client with its own recorded socket (the     *)
(* other sessions are in Sessions), requests always find room (full queues *)
(* are in Reactor), and the store is what PubStore shows of it: add takes  *)
(* a free slot, or overwrites one when its two choices are taken, or fails;*)
(* growth may lose nodes; get finds a node of the id, which one is open.   *)
(***************************************************************************)
EXTENDS Integers, Sequences, FiniteSets

CONSTANTS
  Socks,       \* descriptors, each with its slot
  Topics,
  Ids,         \* packet ids in use
  Qos,         \* levels that are asked for
  MaxNodes,    \* bound: slots of the store there is memory for
  MaxEntries,  \* bound: entries of one packid_state there is memory for
  MaxPubs,     \* bound: publications
  MaxCount     \* bound: references to one node, a uint8_t

ASSUME SocksAssumption == IsFiniteSet(Socks)
None == -1
ASSUME IdsAssumption == Ids \cap {0, None} = {}  \* 0 is what a free entry holds
ASSUME QosAssumption == Qos \subseteq 0..2
ASSUME BoundsAssumption ==
  MaxNodes \in Nat /\ MaxEntries \in Nat /\ MaxPubs \in Nat /\ MaxCount \in Nat \ {0, 1}

VARIABLES
  up,        \* up[s]: a client is logged in on s
  armed,     \* armed[s]: the events of s that the server is asked for
  subs,      \* subs[s][t]: granted QoS, or None
  packs,     \* packs[s]: packid_state of slot s
  store,     \* publish_msg_store
  retained,  \* retained_sub_msg: the id under a topic, or None
  owed,      \* history: answers the client of s has yet to give, by state and id
  pubs,      \* publications so far; names them
  lost,      \* history: ids of which a node was overwritten or given up
  mixed      \* history: ids that were published again while in use

vars == <<up, armed, subs, packs, store, retained, owed, pubs, lost, mixed>>

Nodes == 1..MaxNodes
Gets == {"getpuback", "getpubrec", "getpubrel", "getpubcomp"}
SendStates == {"sendpublish", "sendpuback", "sendpubrec", "sendpubrel", "sendpubcomp"}
\* msg names the publication the entry was made for; own: on this connection.
Entries == [id : Ids, state : Gets \cup SendStates, qos : 0..2, own : BOOLEAN, msg : 0..MaxPubs]
FreeEntry == [id |-> 0, state |-> "getpuback", qos |-> 0, own |-> FALSE, msg |-> 0]
Slots == Entries \cup {FreeEntry}
\* msg 0 stands for bytes that are no PUBLISH packet of this id.
FreeNode == [id |-> 0, count |-> 0, qos |-> 0, msg |-> 0]

Init ==
  /\ up = [s \in Socks |-> FALSE]
  /\ armed = [s \in Socks |-> {}]
  /\ subs = [s \in Socks |-> [t \in Topics |-> None]]
  /\ packs = [s \in Socks |-> <<>>]
  /\ store = [j \in Nodes |-> FreeNode]
  /\ retained = [t \in Topics |-> None]
  /\ owed = [o \in Socks \X Gets \X Ids |-> 0]
  /\ pubs = 0 /\ lost = {} /\ mixed = {}

-----------------------------------------------------------------------------
(* packid_state.                                                            *)

First(S) == CHOOSE i \in S : \A k \in S : i <= k

\* push_back: without memory for a larger array nothing happens.
push_back(q, e) == IF Len(q) < MaxEntries THEN Append(q, e) ELSE q

\* Mutant: an entry of the same id is written over.
AddOverSameId(q, e) ==
  LET same == {i \in DOMAIN q : q[i].id \in {0, e.id}} IN
    IF same # {} THEN [q EXCEPT ![First(same)] = e] ELSE push_back(q, e)

\* add_packet_id: the first free entry, or a new one.
add_packet_id(q, e) ==
  LET unused == {i \in DOMAIN q : q[i].id = 0} IN
    IF unused # {} THEN [q EXCEPT ![First(unused)] = e] ELSE push_back(q, e)

Entry(x, state, qos, m) == [id |-> x, state |-> state, qos |-> qos, own |-> TRUE, msg |-> m]

Waiting(s, state, x) == {i \in DOMAIN packs[s] : packs[s][i].id = x /\ packs[s][i].state = state}
Sends(s) == {i \in DOMAIN packs[s] : packs[s][i].id # 0 /\ packs[s][i].state \in SendStates}

-----------------------------------------------------------------------------
(* publish_msg_store.                                                       *)

Found(st, x) == {j \in DOMAIN st : st[j].id = x}
InUse(x) == Found(store, x) # {} \/ \E s \in Socks : Waiting(s, "sendpublish", x) # {}

\* Mutant: the message of a taken node is written over, its id is not.
AddedKeepsId(st, x, n, q, m) ==
  {[st |-> [st EXCEPT ![j] = [id |-> IF @.id = 0 THEN x ELSE @.id, count |-> n, qos |-> q, msg |-> m]],
    ok |-> TRUE, over |-> {st[j].id} \ {0}] : j \in DOMAIN st}

\* rehash: nodes may be written over by others on their way to the larger table.
Moved(st) == {[j \in DOMAIN st |-> IF j \in D THEN FreeNode ELSE st[j]] :
                D \in SUBSET (DOMAIN st \ Found(st, 0))}
Dropped(st, moved) == {st[j].id : j \in {k \in DOMAIN st : moved[k] # st[k]}}

\* A node in the store it has room in: a free one, or any other.
Placed(st, node) ==
       {[st |-> [st EXCEPT ![First(Found(st, 0))] = node], over |-> {}] : j \in Found(st, 0)}
  \cup {[st |-> [st EXCEPT ![j] = node], over |-> {st[j].id}] : j \in DOMAIN st \ Found(st, 0)}

\* No memory: for the larger table, or for the message of the node chosen.
Spoilt(st) == {st} \cup {[st EXCEPT ![j].msg = 0] : j \in DOMAIN st \ Found(st, 0)}

\* add: how it may end, and whose nodes are lost.
Added(st, x, n, q, m) ==
  UNION {     {[st |-> r.st, ok |-> TRUE, over |-> r.over \cup Dropped(st, moved)] :
                 r \in Placed(moved, [id |-> x, count |-> n, qos |-> q, msg |-> m])}
         \cup {[st |-> r, ok |-> FALSE, over |-> Dropped(st, moved)] : r \in Spoilt(moved)} :
           moved \in Moved(st)}

\* Mutant: a node that nobody needs stays.
CountedKept(st, j, n) == [st EXCEPT ![j].count = @ + n]

\* The count of a node changes; at 0 the node is erased.
Counted(st, j, n) ==
  IF st[j].count + n = 0 THEN [st EXCEPT ![j] = FreeNode] ELSE [st EXCEPT ![j].count = @ + n]

\* One reference to x is given back, if x is found.
GivenBack(st, x) == IF Found(st, x) = {} THEN {st} ELSE {Counted(st, j, -1) : j \in Found(st, x)}

MinQos(a, b) == IF a < b THEN a ELSE b

\* publish_by_topic: one more reference while it looks for subscribers, one
\* for each of them; each is asked to be written to and not to be read.
PublishByTopic(st, pk, ar, live, t, x, q, m, gone) ==
  \E a \in Added(st, x, 1, q, m) :
    LET targets == {c \in live : subs[c][t] # None} IN
    \/ /\ Found(a.st, x) = {}
       /\ store' = a.st /\ packs' = pk /\ armed' = ar
       /\ lost' = lost \cup gone \cup a.over
    \/ \E j \in Found(a.st, x) :
       /\ a.st[j].count + Cardinality(targets) <= MaxCount
       /\ store' = Counted(a.st, j, Cardinality(targets) - 1)
       /\ packs' = [c \in Socks |-> IF c \in targets
                      THEN add_packet_id(pk[c], Entry(x, "sendpublish", MinQos(q, subs[c][t]), m))
                      ELSE pk[c]]
       /\ armed' = [c \in Socks |-> IF c \in targets THEN (ar[c] \ {"read"}) \cup {"write"}
                                                    ELSE ar[c]]
       /\ lost' = lost \cup gone \cup a.over \cup (IF a.ok THEN {} ELSE {x})

-----------------------------------------------------------------------------
(* Connections.                                                             *)

Connect(s) ==
  /\ ~up[s]
  /\ up' = [up EXCEPT ![s] = TRUE]
  /\ armed' = [armed EXCEPT ![s] = {"read"}]
  /\ UNCHANGED <<subs, packs, store, retained, owed, pubs, lost, mixed>>

\* What a slot keeps when its connection ends: every entry.
LeftBehind(q) == [i \in DOMAIN q |-> [q[i] EXCEPT !.own = FALSE]]

Gone(s) ==
  /\ up' = [up EXCEPT ![s] = FALSE]
  /\ subs' = [subs EXCEPT ![s] = [t \in Topics |-> None]]
  /\ owed' = [o \in DOMAIN owed |-> IF o[1] = s THEN 0 ELSE owed[o]]

\* The end of a connection without a will: end of stream, an acknowledgement
\* nobody waits for, DISCONNECT, a takeover.
Drop(s) ==
  /\ up[s] /\ Gone(s)
  /\ packs' = [packs EXCEPT ![s] = LeftBehind(@)]
  /\ armed' = [armed EXCEPT ![s] = {}]
  /\ UNCHANGED <<store, retained, pubs, lost, mixed>>

\* drop_conn with a will: the bytes of its message are stored without the
\* header of a PUBLISH packet, under a random id.
DropWithWill(s, t, x, q) ==
  /\ up[s] /\ Gone(s) /\ pubs < MaxPubs
  /\ pubs' = pubs + 1
  /\ mixed' = IF InUse(x) THEN mixed \cup {x} ELSE mixed
  /\ PublishByTopic(store, [packs EXCEPT ![s] = LeftBehind(@)], [armed EXCEPT ![s] = {}],
                    {c \in Socks \ {s} : up[c]}, t, x, q, 0, {})
  /\ UNCHANGED retained

-----------------------------------------------------------------------------
(* Read events.                                                             *)

Reads(s) == up[s] /\ "read" \in armed[s]

\* What happens to the sender's own entries and events before the fan-out.
Answered(q, level, x) ==
  CASE level = 0 -> q
    [] level = 1 -> add_packet_id(q, Entry(x, "sendpuback", 1, 0))
    [] level = 2 -> add_packet_id(q, Entry(x, "sendpubrec", 2, 0))

\* retained_sub_msg: the reference of the message replaced is given back.
Retain(t, x, r) ==
  IF r.ok /\ retained[t] # None THEN GivenBack(r.st, retained[t]) ELSE {r.st}

\* retained_sub_msg after the id x is put under t: a topic that is new to it
\* finds memory or not, and may make it grow, which empties it (see ChainMap).
Noted(t, x) ==
  {[retained EXCEPT ![t] = x]} \cup
    IF retained[t] # None THEN {} ELSE {retained, [u \in Topics |-> None]}

\* A retained publication is stored with two references, and then once more
\* by publish_by_topic; of the first two one is never given back.
Publish(s, t, x, q, retain) ==
  /\ Reads(s) /\ pubs < MaxPubs
  /\ pubs' = pubs + 1
  /\ mixed' = IF InUse(x) THEN mixed \cup {x} ELSE mixed
  /\ \E r \in IF retain THEN Added(store, x, 2, q, pubs + 1)
                        ELSE {[st |-> store, ok |-> FALSE, over |-> {}]} :
       /\ retained' \in IF r.ok THEN Noted(t, x) ELSE {retained}
       /\ \E st \in Retain(t, x, r) :
            PublishByTopic(st, [packs EXCEPT ![s] = Answered(@, q, x)],
                           [armed EXCEPT ![s] = IF q = 0 THEN @ ELSE (@ \ {"read"}) \cup {"write"}],
                           {c \in Socks : up[c]}, t, x, q, pubs + 1, r.over)
  /\ UNCHANGED <<up, subs, owed>>

\* SUBSCRIBE: a retained message is queued, and the client is read again.
Subscribe(s, t, q) ==
  /\ Reads(s)
  /\ subs' = [subs EXCEPT ![s][t] = q]
  /\ \/ /\ retained[t] = None \/ Found(store, retained[t]) = {}
        /\ UNCHANGED <<packs, store, armed>>
     \/ \E j \in Found(store, retained[t]) :
        /\ store[j].count < MaxCount
        /\ packs' = [packs EXCEPT ![s] = add_packet_id(@,
                       Entry(retained[t], "sendpublish", MinQos(q, store[j].qos), store[j].msg))]
        /\ store' = Counted(store, j, 1)
        /\ armed' = [armed EXCEPT ![s] = @ \cup {"write"}]
  /\ UNCHANGED <<up, retained, owed, pubs, lost, mixed>>

Unsubscribe(s, t) ==
  /\ Reads(s) /\ subs[s][t] # None
  /\ subs' = [subs EXCEPT ![s][t] = None]
  /\ UNCHANGED <<up, armed, packs, store, retained, owed, pubs, lost, mixed>>

\* The client has answered, once more than it had to perhaps.
Answer(s, state, x) == [owed EXCEPT ![<<s, state, x>>] = IF @ = 0 THEN 0 ELSE @ - 1]

\* An acknowledgement that is waited for: the next step of the exchange.
Acked(s, x, state, next, event) ==
  /\ Reads(s) /\ Waiting(s, state, x) # {}
  /\ LET i == First(Waiting(s, state, x)) IN
       packs' = [packs EXCEPT ![s][i] = IF next = "free" THEN FreeEntry ELSE [@ EXCEPT !.state = next]]
  /\ owed' = Answer(s, state, x)
  /\ armed' = [armed EXCEPT ![s] = (@ \ {"read"}) \cup {event}]
  /\ UNCHANGED <<up, subs, retained, pubs, lost, mixed>>

Puback(s, x) == Acked(s, x, "getpuback", "free", "read") /\ store' \in GivenBack(store, x)
Pubrec(s, x) == Acked(s, x, "getpubrec", "sendpubrel", "write") /\ store' \in GivenBack(store, x)
Pubcomp(s, x) == Acked(s, x, "getpubcomp", "free", "read") /\ UNCHANGED store
Pubrel(s, x) == Acked(s, x, "getpubrel", "sendpubcomp", "write") /\ UNCHANGED store

-----------------------------------------------------------------------------
(* Sending.                                                                 *)

Awaited(q) == IF q = 1 THEN "getpuback" ELSE "getpubrec"

\* Mutant: the reference is given back on sending and again on the answer.
SentGivesBack(s, i, j, q, ok) ==
  /\ packs' = [packs EXCEPT ![s][i] = IF ok /\ q > 0 THEN [@ EXCEPT !.state = Awaited(q)] ELSE FreeEntry]
  /\ store' = Counted(store, j, -1)

\* publish: the entry waits for the answer; or the write fails or nothing is
\* to be acknowledged, and the entry and its reference are given back.
Sent(s, i, j, q, ok) ==
  /\ packs' = [packs EXCEPT ![s][i] = IF ok /\ q > 0 THEN [@ EXCEPT !.state = Awaited(q)] ELSE FreeEntry]
  /\ store' = IF ok /\ q > 0 THEN store ELSE Counted(store, j, -1)

\* The client can tell which id it has to acknowledge.
Legible(j) == store[j].msg # 0 /\ store[j].qos > 0

\* A PUBACK or PUBREC of a wrong length: the message is sent again, with the
\* QoS it came with, and no event of the client is asked for.
MalformedAck(s, state, x, ok) ==
  /\ Reads(s) /\ Waiting(s, state, x) # {}
  /\ \E j \in Found(store, x) :
       LET i == First(Waiting(s, state, x))
           q == store[j].qos
           settled == Answer(s, state, x)
       IN /\ Sent(s, i, j, q, ok)
          /\ owed' = IF ok /\ Legible(j) THEN [settled EXCEPT ![<<s, Awaited(q), x>>] = @ + 1] ELSE settled
  /\ armed' = [armed EXCEPT ![s] = @ \ {"read"}]
  /\ UNCHANGED <<up, subs, retained, pubs, lost, mixed>>

\* Mutant: nobody looks whether more is to be sent.
RearmedToRead(s) == [armed EXCEPT ![s] = (@ \ {"write"}) \cup {"read"}]

\* The event asked for after a write: whatever entry comes after the one that
\* was handled makes it another write.
Rearmed(s) ==
  LET more == Sends(s) # {} /\ First(Sends(s)) < Len(packs[s]) IN
    [armed EXCEPT ![s] = (@ \ {"write"}) \cup {IF more THEN "write" ELSE "read"}]

Writes(s) == up[s] /\ "write" \in armed[s]

\* Nothing to send, or a publication that is no longer stored: its entry stays.
WriteNothing(s) ==
  /\ Writes(s)
  /\ \/ Sends(s) = {}
     \/ /\ Sends(s) # {}
        /\ LET e == packs[s][First(Sends(s))] IN e.state = "sendpublish" /\ Found(store, e.id) = {}
  /\ armed' = Rearmed(s)
  /\ UNCHANGED <<up, subs, packs, store, retained, owed, pubs, lost, mixed>>

\* Mutant: the PUBREC is sent and forgotten.
ForgetsPubrec(state) == IF state = "sendpubrel" THEN "getpubcomp" ELSE "free"

\* What an entry waits for once its acknowledgement is sent.
Next_state(state) ==
  CASE state = "sendpubrec" -> "getpubrel"
    [] state = "sendpubrel" -> "getpubcomp"
    [] OTHER -> "free"

\* What the protocol has the client answer to it.
AskedBy(state) == {answer \in Gets :
  <<state, answer>> \in {<<"sendpubrec", "getpubrel">>, <<"sendpubrel", "getpubcomp">>}}

WriteAck(s, ok) ==
  /\ Writes(s) /\ Sends(s) # {}
  /\ LET i == First(Sends(s))
         e == packs[s][i]
         next == Next_state(e.state)
         asked == IF ok THEN {s} \X AskedBy(e.state) \X {e.id} ELSE {}
     IN /\ e.state # "sendpublish"
        /\ packs' = [packs EXCEPT ![s][i] = IF next = "free" THEN FreeEntry ELSE [@ EXCEPT !.state = next]]
        /\ owed' = [o \in DOMAIN owed |-> IF o \in asked THEN owed[o] + 1 ELSE owed[o]]
  /\ armed' = Rearmed(s)
  /\ UNCHANGED <<up, subs, store, retained, pubs, lost, mixed>>

WritePublish(s, ok) ==
  /\ Writes(s) /\ Sends(s) # {}
  /\ LET i == First(Sends(s))
         e == packs[s][i]
     IN /\ e.state = "sendpublish"
        /\ \E j \in Found(store, e.id) :
             /\ Sent(s, i, j, e.qos, ok)
             /\ owed' = IF ok /\ e.qos > 0 /\ Legible(j)
                          THEN [owed EXCEPT ![<<s, Awaited(e.qos), e.id>>] = @ + 1]
                          ELSE owed
  /\ armed' = Rearmed(s)
  /\ UNCHANGED <<up, subs, retained, pubs, lost, mixed>>

Write(s) == WriteNothing(s) \/ \E ok \in BOOLEAN : WriteAck(s, ok) \/ WritePublish(s, ok)

Read(s) ==
  \/ \E t \in Topics, x \in Ids, q \in Qos, retain \in BOOLEAN : Publish(s, t, x, q, retain)
  \/ \E t \in Topics : Unsubscribe(s, t) \/ \E q \in Qos : Subscribe(s, t, q)
  \/ \E x \in Ids : Puback(s, x) \/ Pubrec(s, x) \/ Pubcomp(s, x) \/ Pubrel(s, x)
  \/ \E x \in Ids, state \in {"getpuback", "getpubrec"}, ok \in BOOLEAN :
       MalformedAck(s, state, x, ok)

Next == \E s \in Socks :
  \/ Connect(s) \/ Drop(s) \/ Read(s) \/ Write(s)
  \/ \E t \in Topics, x \in Ids, q \in Qos : DropWithWill(s, t, x, q)

Spec == Init /\ [][Next]_vars
\* The worker gets to every event that is asked for: where queues have room
\* and no peer keeps it in a read (see Reactor).
LiveSpec == Spec /\ \A s \in Socks : WF_vars(Write(s))

-----------------------------------------------------------------------------
(* What must hold.                                                          *)

TypeOK ==
  /\ up \in [Socks -> BOOLEAN]
  /\ armed \in [Socks -> SUBSET {"read", "write"}]
  /\ subs \in [Socks -> [Topics -> Qos \cup {None}]]
  /\ packs \in [Socks -> Seq(Slots)]
  /\ \A s \in Socks : Len(packs[s]) <= MaxEntries
  /\ store \in [Nodes -> [id : Ids \cup {0}, count : 0..MaxCount, qos : 0..2, msg : 0..MaxPubs]]
  /\ retained \in [Topics -> Ids \cup {None}]
  /\ owed \in [Socks \X Gets \X Ids -> Nat]
  /\ pubs \in 0..MaxPubs /\ lost \subseteq Ids /\ mixed \subseteq Ids

\* "since not ignoring the dup packid packets it must be found"
\* (worker.cpp:520, 558, 601, 628): a client that acknowledges what it was
\* sent, as often as it was sent, always finds an entry that waits, whatever
\* ids other clients use and whatever became of the messages.
HonestAckIsFound ==
  \A s \in Socks, state \in Gets, x \in Ids :
    owed[<<s, state, x>>] <= Cardinality(Waiting(s, state, x))

\* Who still needs the message stored under x.
References(x) ==
  UNION {{<<s, i>> : i \in UNION {Waiting(s, state, x) : state \in {"sendpublish", "getpuback", "getpubrec"}}} :
            s \in Socks}
Retainers(x) == {t \in Topics : retained[t] = x}
Uses(x) == {u \in Nodes \X (1..MaxCount) :
              store[u[1]].id = x /\ u[2] <= store[u[1]].count}

\* The counts of the nodes of an id cover everything that refers to it, unless
\* one of them was overwritten or an add failed while another node of the id
\* was there (worker.cpp:100-146): no message is erased too early.
CountsCover ==
  \A x \in Ids \ lost :
    Cardinality(References(x)) + Cardinality(Retainers(x)) <= Cardinality(Uses(x))

\* While no id is used again before its publication is done with, and none is
\* lost, what a subscriber is sent is what was queued for it (worker.cpp:839).
RightMessage ==
  \A s \in Socks, x \in Ids \ mixed : \A i \in Waiting(s, "sendpublish", x), j \in Found(store, x) :
    store[j].msg \in {packs[s][i].msg, 0} \/ packs[s][i].msg = 0

\* Something to send on this connection has a write event asked for, unless
\* the message is lost (worker.cpp:127-133, 479-494, 577, 631, 851-855).
SendsAreArmed ==
  \A s \in Socks : (\E i \in Sends(s) : packs[s][i].own /\ packs[s][i].id \notin lost)
                     => "write" \in armed[s]

\* An entry whose message is gone is never cleared (worker.cpp:841-848), and
\* while it is the first those behind it are not reached.
Blocked(s) ==
  /\ Sends(s) # {}
  /\ LET e == packs[s][First(Sends(s))] IN e.state = "sendpublish" /\ Found(store, e.id) = {}

\* The connection is given something new to send.
Queued(s) == Sends(s)' \ Sends(s) # {}

\* Whatever is queued on a connection is sent (worker.cpp:782-855): only new
\* entries, which take the slots of those already sent and go first, or an
\* entry whose message is gone can keep it waiting for ever.
QueuedIsSent ==
  \A s \in Socks :
    <>[](up[s] /\ ~Blocked(s) /\ \E i \in Sends(s) : packs[s][i].own) => []<><<Queued(s)>>_vars
=============================================================================
