------------------------------ MODULE Sessions ------------------------------
(***************************************************************************)
(* The clients of client_store and the slots that work for them.           *)
(*                                                                         *)
(* A CONNECT makes a Client under its client id, or finds the one that is  *)
(* there.  The Client records a descriptor (sock), which is how            *)
(* publish_by_topic reaches it and whom the next CONNECT of the id evicts; *)
(* it is set when the Client is made and never again.  The slot keeps a    *)
(* raw pointer to the Client, which whoever drops the client may destroy.  *)
(*                                                                         *)
(* A slot is up from the end of its TLS handshake (see Reactor) until it   *)
(* is closed.  One topic stands for all; what a queued publication becomes *)
(* is in Delivery.  A panic of the chip is a reboot, and nothing persists. *)
(***************************************************************************)
CONSTANTS
  ClientIds,   \* client identifiers
  Socks,       \* descriptors, each with its slot
  NoSock,      \* -1
  NoId,        \* clientid_len = 0
  NoSession    \* client_store has nothing under the id

VARIABLES
  up,        \* up[s]: the slot is in its MQTT phase
  cid,       \* cid[s]: the client id the slot has logged in with
  gone,      \* gone[s]: the slot's client pointer points to a destroyed Client
  session,   \* session[c]: the Client of id c in client_store
  connack    \* what the last CONNACK was about and what it said

slots == <<up, cid, gone>>
vars == <<slots, session, connack>>

Sessions == [sock : Socks \cup {NoSock},
             clean : BOOLEAN,   \* clean_session
             subs : BOOLEAN,    \* m_subscriptions holds the topic
             qued : BOOLEAN,    \* has_qued_msgs
             will : BOOLEAN]    \* will.presence_flag

ASSUME NamesAssumption ==
  NoSock \notin Socks /\ NoId \notin ClientIds /\ NoSession \notin Sessions

Stored == {c \in ClientIds : session[c] # NoSession}

NothingUp == [s \in Socks |-> FALSE]
NoLogins == [s \in Socks |-> NoId]
NoSessions == [c \in ClientIds |-> NoSession]
NoAnswer == [clean |-> TRUE, stored |-> FALSE, present |-> FALSE]

Init ==
  /\ up = NothingUp /\ cid = NoLogins /\ gone = NothingUp
  /\ session = NoSessions
  /\ connack = NoAnswer

Reboot ==
  /\ up' = NothingUp /\ cid' = NoLogins /\ gone' = NothingUp
  /\ session' = NoSessions
  /\ connack' = NoAnswer

-----------------------------------------------------------------------------
(* What several handlers do.                                                *)

Unknown(s) == up[s] /\ cid[s] = NoId
LoggedIn(s) == up[s] /\ cid[s] # NoId
Serves(s, c) == up[s] /\ cid[s] = c /\ ~gone[s]

\* Mutant: the client id of the last connection stays.
ClearSlotKeepsId(s) ==
  /\ up' = [up EXCEPT ![s] = FALSE]
  /\ gone' = [gone EXCEPT ![s] = FALSE]
  /\ UNCHANGED cid

\* The slot forgets its connection and its client.
ClearSlot(s) ==
  /\ up' = [up EXCEPT ![s] = FALSE]
  /\ cid' = [cid EXCEPT ![s] = NoId]
  /\ gone' = [gone EXCEPT ![s] = FALSE]

\* Subscribers publish_by_topic takes for reachable though they have no socket.
Offline(sess) == {c \in ClientIds : /\ sess[c] # NoSession /\ sess[c].sock = NoSock
                                    /\ ~sess[c].clean /\ sess[c].subs}

\* publish_by_topic: the first offline subscriber in the order of the hash
\* table is marked and ends the loop, after a write to sock_to_clientid[-1].
Routed(sess) == IF Offline(sess) = {} THEN {sess}
                ELSE {[sess EXCEPT ![c].qued = TRUE] : c \in Offline(sess)}

\* conn_ack inverts its flag, which for every accepted CONNECT is the constant
\* clean_session of the enum mqtt_conn_return: 1, whatever was asked or stored.
SessionPresent(session_present_flag) == ~session_present_flag
conn_ack(c, clean) == connack' = [clean |-> clean, stored |-> c \in Stored,
                                  present |-> SessionPresent(TRUE)]

\* The common end of an accepted CONNECT.
Accepted(sess, c, clean, will) ==
  [sess EXCEPT ![c].clean = clean, ![c].will = will, ![c].qued = FALSE]

-----------------------------------------------------------------------------
(* Connections.                                                             *)

HandshakeDone(s) ==
  /\ ~up[s]
  /\ up' = [up EXCEPT ![s] = TRUE]
  /\ UNCHANGED <<cid, gone, session, connack>>

\* The stream ends before a CONNECT, the CONNECT is refused, or there is no
\* memory for a Client: drop_conn of a slot that has none.
CloseUnknown(s) ==
  /\ Unknown(s)
  /\ ClearSlot(s)
  /\ UNCHANGED <<session, connack>>

ConnectNew(s, c, clean, will) ==
  /\ Unknown(s) /\ c \notin Stored
  /\ session' = [session EXCEPT ![c] = [sock |-> s, clean |-> clean, subs |-> FALSE,
                                        qued |-> FALSE, will |-> will]]
  /\ cid' = [cid EXCEPT ![s] = c]
  /\ conn_ack(c, clean)
  /\ UNCHANGED <<up, gone>>

\* Mutant: the slot of the descriptor taken over goes on.
TakesOverSilently(s, c, clean, will) ==
  /\ Unknown(s) /\ c \in Stored /\ session[c].sock \notin {NoSock, s}
  /\ cid' = [cid EXCEPT ![s] = c]
  /\ session' = Accepted(session, c, clean, will)
  /\ conn_ack(c, clean)
  /\ UNCHANGED <<up, gone>>

\* A client id that has a socket: whoever has that descriptor now is reset and
\* closed, and the socket stays recorded.
TakeOver(s, c, clean, will) ==
  /\ Unknown(s) /\ c \in Stored /\ session[c].sock \notin {NoSock, s}
  /\ LET t == session[c].sock IN
       /\ up' = [up EXCEPT ![t] = FALSE]
       /\ cid' = [cid EXCEPT ![t] = NoId, ![s] = c]
       /\ gone' = [gone EXCEPT ![t] = FALSE]
  /\ session' = Accepted([session EXCEPT ![c].subs = @ /\ ~session[c].clean], c, clean, will)
  /\ conn_ack(c, clean)

\* A client id without a socket: it gets none, and keeps its subscriptions
\* whatever the CONNECT asks.
Resume(s, c, clean, will) ==
  /\ Unknown(s) /\ c \in Stored /\ session[c].sock = NoSock
  /\ cid' = [cid EXCEPT ![s] = c]
  /\ session' = Accepted(session, c, clean, will)
  /\ conn_ack(c, clean)
  /\ UNCHANGED <<up, gone>>

Connect(s) == \E c \in ClientIds, clean, will \in BOOLEAN :
  ConnectNew(s, c, clean, will) \/ TakeOver(s, c, clean, will) \/ Resume(s, c, clean, will)

-----------------------------------------------------------------------------
(* A logged-in client.                                                      *)

Subscribe(s, b) ==
  /\ LoggedIn(s) /\ ~gone[s]
  /\ session' = [session EXCEPT ![cid[s]].subs = b]
  /\ UNCHANGED <<slots, connack>>

\* A publication needs no Client of its sender.
Publish(s) ==
  /\ LoggedIn(s)
  /\ session' \in Routed(session)
  /\ UNCHANGED <<slots, connack>>

\* erase of client_store destroys the Client; the other slots that serve it
\* keep their pointers.
Destroy(s, sess) ==
  /\ session' = [sess EXCEPT ![cid[s]] = NoSession]
  /\ up' = [up EXCEPT ![s] = FALSE]
  /\ cid' = [cid EXCEPT ![s] = NoId]
  /\ gone' = [t \in Socks |-> t # s /\ (gone[t] \/ cid[t] = cid[s])]

\* What the will finds: its own client without a socket.
WillRouted(c) == Routed([session EXCEPT ![c].sock = NoSock])

\* Mutant: a persistent client keeps its socket.
DropKeepsSocket(s) ==
  /\ LoggedIn(s) /\ ~gone[s]
  /\ LET c == cid[s] IN
       \E sess \in IF session[c].will THEN WillRouted(c) ELSE {session} :
         IF session[c].clean THEN Destroy(s, sess)
                             ELSE ClearSlot(s) /\ session' = [sess EXCEPT ![c].sock = session[c].sock]
  /\ UNCHANGED connack

\* drop_conn: the will if there is one, then a clean client is destroyed and a
\* persistent one loses its socket, whichever slot that was.
Drop(s) ==
  /\ LoggedIn(s) /\ ~gone[s]
  /\ LET c == cid[s] IN
       \E sess \in IF session[c].will THEN WillRouted(c) ELSE {session} :
         IF session[c].clean THEN Destroy(s, sess)
                             ELSE ClearSlot(s) /\ session' = [sess EXCEPT ![c].sock = NoSock]
  /\ UNCHANGED connack

\* DISCONNECT makes any session a clean one, then drops it without the will.
Disconnect(s) ==
  /\ LoggedIn(s) /\ ~gone[s]
  /\ Destroy(s, session)
  /\ UNCHANGED connack

\* A slot whose Client was destroyed uses it: the freed memory may look as it
\* did (the client of that id is erased, if there is one), be nobody's, or be
\* another Client by now.
FreedUse(s) ==
  /\ LoggedIn(s) /\ gone[s]
  /\ \/ /\ \E d \in Stored, b \in BOOLEAN : session' = [session EXCEPT ![d].subs = b]
        /\ UNCHANGED slots
     \/ Destroy(s, session)
     \/ /\ ClearSlot(s)
        /\ \/ UNCHANGED session
           \/ \E d \in Stored : session' = [session EXCEPT ![d].sock = NoSock]
           \/ \E d \in Stored : session' = [session EXCEPT ![d].clean = TRUE]
  /\ UNCHANGED connack

-----------------------------------------------------------------------------
(* What ends in a panic.                                                    *)

\* A CONNECT with a user name: no code adds users, and check_password reads
\* through the null pointer the lookup returns.
LoginCrashes(s) == Unknown(s)

\* A client_store that grows for a new Client loses all of them (see ChainMap),
\* and what the lookup of the new one returns is used unseen.
GrowthCrashes(s) == Unknown(s) /\ Stored # ClientIds

\* The takeover of a client whose recorded socket is the new connection's own
\* clears the client pointer it reads next; one of a descriptor closed since
\* may delete its TLS session a second time.
TakeoverCrashes(s) ==
  /\ Unknown(s)
  /\ \E c \in Stored : session[c].sock # NoSock /\ (session[c].sock = s \/ ~up[session[c].sock])

\* The write to sock_to_clientid[-1] hits something that matters.
RouteCrashes(s) ==
  /\ LoggedIn(s)
  /\ \/ Offline(session) # {}
     \/ ~gone[s] /\ session[cid[s]].will /\ Offline([session EXCEPT ![cid[s]].sock = NoSock]) # {}

FreedUseCrashes(s) == LoggedIn(s) /\ gone[s]

Panic(s) ==
  /\ LoginCrashes(s) \/ GrowthCrashes(s) \/ TakeoverCrashes(s) \/ RouteCrashes(s) \/ FreedUseCrashes(s)
  /\ Reboot

Next == \E s \in Socks :
  \/ HandshakeDone(s) \/ CloseUnknown(s) \/ Connect(s)
  \/ (\E b \in BOOLEAN : Subscribe(s, b)) \/ Publish(s)
  \/ Drop(s) \/ Disconnect(s) \/ FreedUse(s) \/ Panic(s)

Spec == Init /\ [][Next]_vars

-----------------------------------------------------------------------------
(* What must hold.                                                          *)

\* A slot that is not up has no client id, one without a client id no Client.
TypeOK ==
  /\ up \in [Socks -> BOOLEAN] /\ cid \in [Socks -> ClientIds \cup {NoId}]
  /\ gone \in [Socks -> BOOLEAN]
  /\ session \in [ClientIds -> Sessions \cup {NoSession}]
  /\ connack \in [clean : BOOLEAN, stored : BOOLEAN, present : BOOLEAN]
  /\ \A s \in Socks : (~up[s] => cid[s] = NoId) /\ (cid[s] = NoId => ~gone[s])

\* Resumed sessions and takeovers let several slots serve one Client, but
\* never one whose recorded socket is one of them: then it is the only one.
\* Publications for a client with a socket of its own have one way to go
\* (worker.cpp:120-133, 363-393).
RecordedSocketIsOnly ==
  \A s, t \in Socks, c \in ClientIds :
    Serves(s, c) /\ Serves(t, c) /\ session[c].sock = s => t = s

\* A client with publications queued for it has no socket, so that they are not
\* sent twice and the mark is met by the CONNECT that resumes it, never by a
\* takeover: also if the offline client was the one whose will was published,
\* which has its socket back before it is dropped (worker.cpp:120-126, 155-171).
MarkedHasNoSocket == \A c \in Stored : session[c].qued => session[c].sock = NoSock

\* drop_conn of one connection never destroys the Client a slot works with if
\* that slot's own descriptor is the one recorded (worker.cpp:165-168), unless
\* a slot was using a destroyed Client already.
OwnSocketIsSafe ==
  [][\A s \in Socks, c \in ClientIds :
       Serves(s, c) /\ session[c].sock = s /\ gone'[s] => \E t \in Socks : gone[t]]_vars

Stale(c) == /\ c \in Stored
            /\ session[c].sock # NoSock /\ ~Serves(session[c].sock, c)

\* The descriptor recorded for a client stops being its connection only by a
\* takeover of that descriptor, for this client id or for another one that
\* had it recorded (worker.cpp:373-386): no disconnect, will, reuse of the
\* descriptor or freed Client sends its publications to somebody else.
OnlyTakeoverMisroutes ==
  [][\A c \in ClientIds : ~Stale(c) /\ Stale(c)' =>
       \E s \in Socks, d \in ClientIds, clean, will \in BOOLEAN :
         TakeOver(s, d, clean, will) /\ session[d].sock = session[c].sock]_vars

\* "If the Server accepts a connection with CleanSession set to 0, the value
\* set in Session Present depends on whether the Server already has stored
\* Session state for the supplied client ID" (worker.cpp:48).
SessionPresentIsTold == ~connack.clean => connack.present = connack.stored
=============================================================================
