--------------------------- MODULE SessionsProofs ---------------------------
(* Proofs about Sessions, for any clients and any number of descriptors.    *)
EXTENDS Sessions, TLAPS

\* A slot that has a Client finds it in client_store (worker.cpp:363-372).
PointersValid == \A s \in Socks, c \in ClientIds : Serves(s, c) => c \in Stored

IInv == TypeOK /\ PointersValid /\ RecordedSocketIsOnly /\ MarkedHasNoSocket

\* publish_by_topic leaves the store, the sockets and the clean flags alone,
\* and marks only a client without a socket.
LEMMA RoutedKeeps ==
  ASSUME NEW sess \in [ClientIds -> Sessions \cup {NoSession}], NEW r \in Routed(sess)
  PROVE  /\ r \in [ClientIds -> Sessions \cup {NoSession}]
         /\ \A c \in ClientIds :
              /\ r[c] = NoSession <=> sess[c] = NoSession
              /\ sess[c] # NoSession => r[c].sock = sess[c].sock /\ r[c].clean = sess[c].clean
              /\ sess[c] # NoSession /\ r[c].qued => sess[c].qued \/ sess[c].sock = NoSock
<1>1. CASE Offline(sess) = {}
  BY <1>1 DEF Routed
<1>2. CASE Offline(sess) # {}
  <2>1. PICK d \in Offline(sess) : r = [sess EXCEPT ![d].qued = TRUE]
    BY <1>2 DEF Routed
  <2>2. d \in ClientIds /\ sess[d] \in Sessions /\ sess[d].sock = NoSock
    BY DEF Offline
  <2>3. [sess[d] EXCEPT !.qued = TRUE] \in Sessions
    BY <2>2 DEF Sessions
  <2> QED
    BY <2>1, <2>2, <2>3, NamesAssumption DEF Sessions
<1> QED
  BY <1>1, <1>2

\* An accepted CONNECT of a stored client changes only what it asks for.
LEMMA AcceptedKeeps ==
  ASSUME NEW sess \in [ClientIds -> Sessions \cup {NoSession}],
         NEW c \in ClientIds, sess[c] # NoSession,
         NEW clean \in BOOLEAN, NEW will \in BOOLEAN
  PROVE  /\ Accepted(sess, c, clean, will) \in [ClientIds -> Sessions \cup {NoSession}]
         /\ \A d \in ClientIds :
              /\ Accepted(sess, c, clean, will)[d] = NoSession <=> sess[d] = NoSession
              /\ sess[d] # NoSession => Accepted(sess, c, clean, will)[d].sock = sess[d].sock
              /\ sess[d] # NoSession /\ Accepted(sess, c, clean, will)[d].qued => sess[d].qued
<1>1. [sess[c] EXCEPT !.clean = clean, !.will = will, !.qued = FALSE] \in Sessions
  BY DEF Sessions
<1> QED
  BY <1>1, NamesAssumption DEF Sessions, Accepted

\* Before the will is published its own client loses its socket.
LEMMA UnsockedType ==
  ASSUME TypeOK, NEW c \in Stored
  PROVE  [session EXCEPT ![c].sock = NoSock] \in [ClientIds -> Sessions \cup {NoSession}]
<1>1. session[c] \in Sessions
  BY DEF TypeOK, Stored
<1>2. [session[c] EXCEPT !.sock = NoSock] \in Sessions
  BY <1>1 DEF Sessions
<1> QED
  BY <1>2 DEF TypeOK, Stored

\* What the end of a logged-in connection does to slots and sockets.
Ended(s) ==
  /\ up' = [up EXCEPT ![s] = FALSE] /\ cid' = [cid EXCEPT ![s] = NoId]
  /\ session' \in [ClientIds -> Sessions \cup {NoSession}]
  /\ \A d \in ClientIds : d # cid[s] =>
       /\ session'[d] = NoSession <=> session[d] = NoSession
       /\ session[d] # NoSession => session'[d].sock = session[d].sock
       /\ session[d] # NoSession /\ session'[d].qued => session[d].qued \/ session[d].sock = NoSock
  /\ \/ /\ session'[cid[s]] = NoSession
        /\ gone' = [t \in Socks |-> t # s /\ (gone[t] \/ cid[t] = cid[s])]
     \/ /\ session'[cid[s]] # NoSession /\ session'[cid[s]].sock = NoSock
        /\ gone' = [gone EXCEPT ![s] = FALSE]
  /\ connack' = connack

LEMMA DestroyEnds ==
  ASSUME TypeOK, NEW s \in Socks, cid[s] \in ClientIds,
         NEW sess \in [ClientIds -> Sessions \cup {NoSession}],
         \A d \in ClientIds : d # cid[s] =>
           /\ sess[d] = NoSession <=> session[d] = NoSession
           /\ session[d] # NoSession => sess[d].sock = session[d].sock
           /\ session[d] # NoSession /\ sess[d].qued => session[d].qued \/ session[d].sock = NoSock,
         Destroy(s, sess), UNCHANGED connack
  PROVE  Ended(s)
<1>1. session' = [sess EXCEPT ![cid[s]] = NoSession]
  BY DEF Destroy
<1>2. session'[cid[s]] = NoSession /\ session' \in [ClientIds -> Sessions \cup {NoSession}]
  BY <1>1
<1>3. \A d \in ClientIds : d # cid[s] => session'[d] = sess[d]
  BY <1>1
<1> QED
  BY <1>2, <1>3 DEF Destroy, Ended

LEMMA DropEnds ==
  ASSUME IInv, NEW s \in Socks, Drop(s) \/ Disconnect(s)
  PROVE  cid[s] \in ClientIds /\ up[s] /\ ~gone[s] /\ Ended(s)
<1> DEFINE c == cid[s]
<1>1. c \in ClientIds /\ up[s] /\ ~gone[s] /\ Serves(s, c)
  BY DEF IInv, TypeOK, Drop, Disconnect, LoggedIn, Serves
<1>2. c \in Stored /\ session[c] \in Sessions
  BY <1>1 DEF IInv, PointersValid, TypeOK, Stored
<1>3. CASE Disconnect(s)
  BY <1>1, <1>3, DestroyEnds DEF IInv, TypeOK, Disconnect
<1>4. CASE Drop(s)
  <2> DEFINE old == IF session[c].will THEN [session EXCEPT ![c].sock = NoSock] ELSE session
  <2>1. old \in [ClientIds -> Sessions \cup {NoSession}]
    BY <1>2, UnsockedType DEF IInv, TypeOK
  <2>2. \A d \in ClientIds : d # c => old[d] = session[d]
    OBVIOUS
  <2>3. old[c] # NoSession
    <3>1. old[c] \in Sessions
      BY <1>2 DEF Sessions, IInv, TypeOK
    <3> QED
      BY <3>1, NamesAssumption
  <2>4. PICK sess \in Routed(old) \cup {old} :
          /\ IF session[c].clean THEN Destroy(s, sess)
             ELSE ClearSlot(s) /\ session' = [sess EXCEPT ![c].sock = NoSock]
          /\ UNCHANGED connack
    BY <1>4 DEF Drop, WillRouted
  <2> HIDE DEF old
  <2>5. /\ sess \in [ClientIds -> Sessions \cup {NoSession}]
        /\ \A d \in ClientIds :
             /\ sess[d] = NoSession <=> old[d] = NoSession
             /\ old[d] # NoSession => sess[d].sock = old[d].sock
             /\ old[d] # NoSession /\ sess[d].qued => old[d].qued \/ old[d].sock = NoSock
    BY <2>1, <2>4, RoutedKeeps
  <2>6. CASE session[c].clean
    BY <1>1, <2>2, <2>4, <2>5, <2>6, DestroyEnds DEF IInv
  <2>7. CASE ~session[c].clean
    <3>1. session' = [sess EXCEPT ![c].sock = NoSock] /\ ClearSlot(s)
      BY <2>4, <2>7
    <3>2. sess[c] \in Sessions
      BY <1>1, <2>3, <2>5
    <3>3. session'[c] \in Sessions /\ session'[c].sock = NoSock
      BY <1>1, <2>5, <3>1, <3>2 DEF Sessions
    <3>4. \A d \in ClientIds : d # c => session'[d] = sess[d]
      BY <2>5, <3>1
    <3>5. session' \in [ClientIds -> Sessions \cup {NoSession}]
      BY <1>1, <2>5, <3>1, <3>3, <3>4
    <3> QED
      BY <1>1, <2>2, <2>4, <2>5, <3>1, <3>3, <3>4, <3>5, NamesAssumption DEF Ended, ClearSlot
  <2> QED
    BY <1>1, <2>6, <2>7
<1> QED
  BY <1>3, <1>4

\* A client ends; the others that served its Client lose it.
LEMMA EndedKeeps ==
  ASSUME IInv, NEW s \in Socks, cid[s] \in ClientIds, Ended(s)
  PROVE  IInv'
<1>1. TypeOK'
  <2>1. up' \in [Socks -> BOOLEAN] /\ cid' \in [Socks -> ClientIds \cup {NoId}]
    BY DEF IInv, TypeOK, Ended
  <2>2. /\ gone' \in [Socks -> BOOLEAN] /\ ~gone'[s]
        /\ \A t \in Socks : t # s /\ cid[t] = NoId => ~gone'[t]
    <3>1. CASE gone' = [t \in Socks |-> t # s /\ (gone[t] \/ cid[t] = cid[s])]
      BY <3>1, NamesAssumption DEF IInv, TypeOK
    <3>2. CASE gone' = [gone EXCEPT ![s] = FALSE]
      BY <3>2 DEF IInv, TypeOK
    <3> QED
      BY <3>1, <3>2 DEF Ended
  <2>3. \A t \in Socks : (~up'[t] => cid'[t] = NoId) /\ (cid'[t] = NoId => ~gone'[t])
    BY <2>2 DEF IInv, TypeOK, Ended
  <2> QED
    BY <2>1, <2>2, <2>3 DEF IInv, TypeOK, Ended
<1>2. \A t \in Socks, c \in ClientIds : Serves(t, c)' =>
        t # s /\ Serves(t, c) /\ (c = cid[s] => session'[c] # NoSession /\ session'[c].sock = NoSock)
  BY DEF IInv, TypeOK, Ended, Serves
<1>3. PointersValid'
  BY <1>2 DEF IInv, PointersValid, Ended, Stored
<1>4. RecordedSocketIsOnly'
  <2> SUFFICES ASSUME NEW t \in Socks, NEW u \in Socks, NEW c \in ClientIds,
                      Serves(t, c)', Serves(u, c)', session'[c].sock = t
               PROVE  u = t
    BY DEF RecordedSocketIsOnly
  <2>1. Serves(t, c) /\ Serves(u, c) /\ c # cid[s]
    BY <1>2, NamesAssumption
  <2>2. session[c].sock = t
    BY <2>1 DEF Ended, IInv, PointersValid, Stored
  <2> QED
    BY <2>1, <2>2 DEF IInv, RecordedSocketIsOnly
<1>5. MarkedHasNoSocket'
  BY DEF IInv, MarkedHasNoSocket, Ended, Stored
<1> QED
  BY <1>1, <1>3, <1>4, <1>5 DEF IInv

\* One field of one Client changes, or none: not which clients there are, and
\* none is marked that keeps a socket.
Touched(sess) ==
  /\ sess \in [ClientIds -> Sessions \cup {NoSession}]
  /\ \A c \in ClientIds :
       /\ sess[c] = NoSession <=> session[c] = NoSession
       /\ session[c] # NoSession => sess[c].sock \in {session[c].sock, NoSock}
       /\ session[c] # NoSession /\ sess[c].qued => session[c].qued \/ sess[c].sock = NoSock

\* What a slot may do to a Client its stale pointer leads to.
LEMMA AliasTouches ==
  ASSUME TypeOK, NEW d \in Stored, NEW b \in BOOLEAN
  PROVE  /\ Touched([session EXCEPT ![d].subs = b])
         /\ Touched([session EXCEPT ![d].sock = NoSock])
         /\ Touched([session EXCEPT ![d].clean = b])
<1>1. d \in ClientIds /\ session[d] \in Sessions
  BY DEF Stored, TypeOK
<1>2. /\ [session[d] EXCEPT !.subs = b] \in Sessions
      /\ [session[d] EXCEPT !.sock = NoSock] \in Sessions
      /\ [session[d] EXCEPT !.clean = b] \in Sessions
  BY <1>1 DEF Sessions
<1> QED
  BY <1>1, <1>2, NamesAssumption DEF Touched, TypeOK, Sessions

\* Slots that are kept or cleared, with no Client destroyed.
LEMMA TouchedKeeps ==
  ASSUME IInv, Touched(session'), UNCHANGED connack,
         UNCHANGED slots \/ \E s \in Socks : ClearSlot(s)
  PROVE  IInv'
<1>1. TypeOK'
  BY DEF IInv, TypeOK, Touched, slots, ClearSlot
<1>2. \A t \in Socks, c \in ClientIds : Serves(t, c)' => Serves(t, c)
  BY NamesAssumption DEF IInv, TypeOK, Serves, slots, ClearSlot
<1>3. PointersValid'
  BY <1>2 DEF IInv, PointersValid, Touched, Stored
<1>4. RecordedSocketIsOnly'
  BY <1>2, NamesAssumption DEF IInv, PointersValid, RecordedSocketIsOnly, Touched, Stored
<1>5. MarkedHasNoSocket'
  BY DEF IInv, MarkedHasNoSocket, Touched, Stored
<1> QED
  BY <1>1, <1>3, <1>4, <1>5 DEF IInv

LEMMA ConnectNewKeeps ==
  ASSUME IInv, NEW s \in Socks, NEW c \in ClientIds, NEW clean \in BOOLEAN,
         NEW will \in BOOLEAN, ConnectNew(s, c, clean, will)
  PROVE  IInv'
<1> DEFINE new == [sock |-> s, clean |-> clean, subs |-> FALSE, qued |-> FALSE, will |-> will]
<1>1. new \in Sessions /\ new # NoSession /\ new.sock = s /\ ~new.qued
  <2>1. new \in Sessions /\ new.sock = s /\ ~new.qued
    BY DEF Sessions
  <2> QED
    BY <2>1, NamesAssumption
<1>2. session' = [session EXCEPT ![c] = new] /\ cid' = [cid EXCEPT ![s] = c]
  BY DEF ConnectNew
<1>3. up' = up /\ gone' = gone /\ cid[s] = NoId /\ up[s] /\ session[c] = NoSession
  BY DEF ConnectNew, Unknown, Stored
<1> HIDE DEF new
<1>4. connack' \in [clean : BOOLEAN, stored : BOOLEAN, present : BOOLEAN]
  BY DEF ConnectNew, conn_ack, SessionPresent
<1>5. TypeOK'
  BY <1>1, <1>2, <1>3, <1>4, NamesAssumption DEF IInv, TypeOK
<1>6. \A t \in Socks, d \in ClientIds : Serves(t, d)' =>
        (t = s /\ d = c) \/ (d # c /\ d \in Stored /\ Serves(t, d))
  BY <1>2, <1>3 DEF IInv, TypeOK, PointersValid, Serves, Stored
<1>7. PointersValid'
  BY <1>1, <1>2, <1>6 DEF IInv, TypeOK, PointersValid, Stored
<1>8. RecordedSocketIsOnly'
  BY <1>1, <1>2, <1>6 DEF IInv, TypeOK, RecordedSocketIsOnly
<1>9. MarkedHasNoSocket'
  BY <1>1, <1>2 DEF IInv, TypeOK, MarkedHasNoSocket, Stored
<1> QED
  BY <1>5, <1>7, <1>8, <1>9 DEF IInv

LEMMA ResumeKeeps ==
  ASSUME IInv, NEW s \in Socks, NEW c \in ClientIds, NEW clean \in BOOLEAN,
         NEW will \in BOOLEAN, Resume(s, c, clean, will)
  PROVE  IInv'
<1>1. session[c] # NoSession /\ session[c].sock = NoSock
  BY DEF Resume, Stored
<1>2. session' = Accepted(session, c, clean, will)
  BY DEF Resume
<1>3. /\ session' \in [ClientIds -> Sessions \cup {NoSession}]
      /\ \A d \in ClientIds : /\ session'[d] = NoSession <=> session[d] = NoSession
                              /\ session[d] # NoSession => session'[d].sock = session[d].sock
                              /\ session[d] # NoSession /\ session'[d].qued => session[d].qued
  <2>1. session \in [ClientIds -> Sessions \cup {NoSession}]
    BY DEF IInv, TypeOK
  <2> QED
    BY <1>1, <1>2, <2>1, AcceptedKeeps
<1>4. up' = up /\ gone' = gone /\ cid' = [cid EXCEPT ![s] = c] /\ cid[s] = NoId /\ up[s]
  BY DEF Resume, Unknown
<1>5. connack' \in [clean : BOOLEAN, stored : BOOLEAN, present : BOOLEAN]
  BY DEF Resume, conn_ack, SessionPresent
<1>6. TypeOK'
  BY <1>3, <1>4, <1>5, NamesAssumption DEF IInv, TypeOK
<1>7. \A t \in Socks, d \in ClientIds : Serves(t, d)' => (t = s /\ d = c) \/ Serves(t, d)
  BY <1>4 DEF IInv, TypeOK, Serves
<1>8. PointersValid'
  BY <1>1, <1>3, <1>7 DEF IInv, PointersValid, Stored
<1>9. RecordedSocketIsOnly'
  BY <1>1, <1>3, <1>7, NamesAssumption DEF IInv, PointersValid, RecordedSocketIsOnly, Stored
<1>10. MarkedHasNoSocket'
  BY <1>3 DEF IInv, MarkedHasNoSocket, Stored
<1> QED
  BY <1>6, <1>8, <1>9, <1>10 DEF IInv

\* What a takeover does to slots and sockets.
LEMMA TakeOverEffect ==
  ASSUME IInv, NEW s \in Socks, NEW c \in ClientIds, NEW clean \in BOOLEAN,
         NEW will \in BOOLEAN, TakeOver(s, c, clean, will)
  PROVE  \E t \in Socks :
           /\ t # s /\ session[c] # NoSession /\ session[c].sock = t
           /\ up[s] /\ cid[s] = NoId
           /\ up' = [up EXCEPT ![t] = FALSE]
           /\ cid' = [cid EXCEPT ![t] = NoId, ![s] = c]
           /\ gone' = [gone EXCEPT ![t] = FALSE]
           /\ session' \in [ClientIds -> Sessions \cup {NoSession}]
           /\ \A d \in ClientIds :
                /\ session'[d] = NoSession <=> session[d] = NoSession
                /\ session[d] # NoSession => session'[d].sock = session[d].sock
                /\ session[d] # NoSession /\ session'[d].qued => session[d].qued
<1> DEFINE t == session[c].sock
           kept == [session EXCEPT ![c].subs = @ /\ ~session[c].clean]
<1>1. session[c] # NoSession /\ session[c] \in Sessions
  BY DEF TakeOver, Stored, IInv, TypeOK
<1>2. t \in Socks /\ t # s
  BY <1>1 DEF TakeOver, Sessions
<1>3. [session[c] EXCEPT !.subs = @ /\ ~session[c].clean] \in Sessions
  <2>1. (session[c].subs /\ ~session[c].clean) \in BOOLEAN
    OBVIOUS
  <2> QED
    BY <1>1, <2>1 DEF Sessions
<1>4. /\ kept \in [ClientIds -> Sessions \cup {NoSession}]
      /\ \A d \in ClientIds : d # c => kept[d] = session[d]
      /\ kept[c] # NoSession /\ kept[c].sock = session[c].sock /\ kept[c].qued = session[c].qued
  BY <1>1, <1>3, NamesAssumption DEF IInv, TypeOK, Sessions
<1>5. session' = Accepted(kept, c, clean, will)
  BY DEF TakeOver
<1> HIDE DEF kept
<1>6. /\ session' \in [ClientIds -> Sessions \cup {NoSession}]
      /\ \A d \in ClientIds :
           /\ session'[d] = NoSession <=> session[d] = NoSession
           /\ session[d] # NoSession => session'[d].sock = session[d].sock
           /\ session[d] # NoSession /\ session'[d].qued => session[d].qued
  BY <1>1, <1>4, <1>5, AcceptedKeeps
<1> QED
  BY <1>1, <1>2, <1>6 DEF TakeOver, Unknown

LEMMA TakeOverKeeps ==
  ASSUME IInv, NEW s \in Socks, NEW c \in ClientIds, NEW clean \in BOOLEAN,
         NEW will \in BOOLEAN, TakeOver(s, c, clean, will)
  PROVE  IInv'
<1>1. PICK t \in Socks :
           /\ t # s /\ session[c] # NoSession /\ session[c].sock = t
           /\ up[s] /\ cid[s] = NoId
           /\ up' = [up EXCEPT ![t] = FALSE]
           /\ cid' = [cid EXCEPT ![t] = NoId, ![s] = c]
           /\ gone' = [gone EXCEPT ![t] = FALSE]
           /\ session' \in [ClientIds -> Sessions \cup {NoSession}]
           /\ \A d \in ClientIds :
                /\ session'[d] = NoSession <=> session[d] = NoSession
                /\ session[d] # NoSession => session'[d].sock = session[d].sock
                /\ session[d] # NoSession /\ session'[d].qued => session[d].qued
  BY TakeOverEffect
<1>2. connack' \in [clean : BOOLEAN, stored : BOOLEAN, present : BOOLEAN]
  BY DEF TakeOver, conn_ack, SessionPresent
<1>3. TypeOK'
  BY <1>1, <1>2, NamesAssumption DEF IInv, TypeOK
<1>4. \A u \in Socks, d \in ClientIds : Serves(u, d)' =>
        u # t /\ ((u = s /\ d = c) \/ Serves(u, d))
  BY <1>1, NamesAssumption DEF IInv, TypeOK, Serves
<1>5. PointersValid'
  BY <1>1, <1>4 DEF IInv, PointersValid, Stored
<1>6. RecordedSocketIsOnly'
  BY <1>1, <1>4 DEF IInv, PointersValid, RecordedSocketIsOnly, Stored
<1>7. MarkedHasNoSocket'
  BY <1>1 DEF IInv, MarkedHasNoSocket, Stored
<1> QED
  BY <1>3, <1>5, <1>6, <1>7 DEF IInv

LEMMA FreedUseEffect ==
  ASSUME IInv, NEW s \in Socks, FreedUse(s)
  PROVE  /\ cid[s] \in ClientIds /\ up[s] /\ gone[s]
         /\ \/ Ended(s)
            \/ /\ Touched(session') /\ UNCHANGED connack
               /\ UNCHANGED slots \/ ClearSlot(s)
<1>1. cid[s] \in ClientIds /\ up[s] /\ gone[s]
  BY DEF IInv, TypeOK, FreedUse, LoggedIn
<1>2. Destroy(s, session) /\ UNCHANGED connack => Ended(s)
  BY <1>1, DestroyEnds DEF IInv, TypeOK
<1>3. Touched(session)
  BY DEF Touched, IInv, TypeOK
<1> QED
  BY <1>1, <1>2, <1>3, AliasTouches DEF FreedUse, IInv

\* Every step keeps the invariant.
LEMMA StepKeeps ==
  ASSUME IInv, [Next]_vars
  PROVE  IInv'
<1>1. CASE UNCHANGED vars
  BY <1>1 DEF vars, slots, IInv, TypeOK, PointersValid, RecordedSocketIsOnly, MarkedHasNoSocket, Serves, Stored
<1>2. CASE Next
  <2>1. PICK s \in Socks :
          \/ HandshakeDone(s) \/ CloseUnknown(s) \/ Connect(s)
          \/ (\E b \in BOOLEAN : Subscribe(s, b)) \/ Publish(s)
          \/ Drop(s) \/ Disconnect(s) \/ FreedUse(s) \/ Panic(s)
    BY <1>2 DEF Next
  <2>2. CASE HandshakeDone(s)
    <3>1. \A t \in Socks, c \in ClientIds : Serves(t, c)' => Serves(t, c)
      BY <2>2, NamesAssumption DEF HandshakeDone, IInv, TypeOK, Serves
    <3> QED
      BY <2>2, <3>1
         DEF HandshakeDone, IInv, TypeOK, PointersValid, RecordedSocketIsOnly,
             MarkedHasNoSocket, Stored
  <2>3. CASE CloseUnknown(s)
    <3>1. Touched(session') /\ UNCHANGED connack /\ ClearSlot(s)
      BY <2>3 DEF CloseUnknown, Touched, IInv, TypeOK
    <3> QED
      BY <3>1, TouchedKeeps
  <2>4. CASE Connect(s)
    BY <2>4, ConnectNewKeeps, TakeOverKeeps, ResumeKeeps DEF Connect
  <2>5. CASE \E b \in BOOLEAN : Subscribe(s, b)
    <3>1. PICK b \in BOOLEAN : Subscribe(s, b)
      BY <2>5
    <3>2. cid[s] \in Stored
      BY <3>1 DEF Subscribe, LoggedIn, IInv, TypeOK, PointersValid, Serves
    <3>3. Touched(session') /\ UNCHANGED connack /\ UNCHANGED slots
      BY <3>1, <3>2, AliasTouches DEF Subscribe, IInv
    <3> QED
      BY <3>3, TouchedKeeps
  <2>6. CASE Publish(s)
    <3>1. Touched(session') /\ UNCHANGED connack /\ UNCHANGED slots
      BY <2>6, RoutedKeeps DEF Publish, Touched, IInv, TypeOK
    <3> QED
      BY <3>1, TouchedKeeps
  <2>7. CASE Drop(s) \/ Disconnect(s)
    BY <2>7, DropEnds, EndedKeeps
  <2>8. CASE FreedUse(s)
    BY <2>8, FreedUseEffect, EndedKeeps, TouchedKeeps
  <2>9. CASE Panic(s)
    BY <2>9, NamesAssumption
       DEF Panic, Reboot, NothingUp, NoLogins, NoSessions, NoAnswer,
           IInv, TypeOK, PointersValid, RecordedSocketIsOnly, MarkedHasNoSocket, Serves, Stored
  <2> QED
    BY <2>1, <2>2, <2>3, <2>4, <2>5, <2>6, <2>7, <2>8, <2>9
<1> QED
  BY <1>1, <1>2

LEMMA Invariance == Spec => []IInv
<1>1. Init => IInv
  BY NamesAssumption
     DEF Init, NothingUp, NoLogins, NoSessions, NoAnswer,
         IInv, TypeOK, PointersValid, RecordedSocketIsOnly, MarkedHasNoSocket, Serves, Stored
<1>2. IInv /\ [Next]_vars => IInv'
  BY StepKeeps
<1> QED
  BY <1>1, <1>2, PTL DEF Spec

\* Types, and slots that are not up are clear.
THEOREM TypeCorrect == Spec => []TypeOK
<1>1. IInv => TypeOK
  BY DEF IInv
<1> QED
  BY <1>1, Invariance, PTL

\* A client whose recorded socket serves it is served by that slot only.
THEOREM RecordedIsOnly == Spec => []RecordedSocketIsOnly
<1>1. IInv => RecordedSocketIsOnly
  BY DEF IInv
<1> QED
  BY <1>1, Invariance, PTL

\* A client marked for queued publications has no socket.
THEOREM MarkedIsOffline == Spec => []MarkedHasNoSocket
<1>1. IInv => MarkedHasNoSocket
  BY DEF IInv
<1> QED
  BY <1>1, Invariance, PTL

\* No other connection destroys the Client of a slot on its recorded socket.
THEOREM OwnSocketSafe == Spec => OwnSocketIsSafe
<1> DEFINE Safe == \A s \in Socks, c \in ClientIds :
       Serves(s, c) /\ session[c].sock = s /\ gone'[s] => \E t \in Socks : gone[t]
<1>1. IInv /\ [Next]_vars => [Safe]_vars
  <2> SUFFICES ASSUME IInv, Next, NEW s \in Socks, NEW c \in ClientIds,
                      Serves(s, c), session[c].sock = s, gone'[s],
                      \A t \in Socks : ~gone[t]
               PROVE  FALSE
    OBVIOUS
  <2>1. PICK t \in Socks :
          \/ HandshakeDone(t) \/ CloseUnknown(t) \/ Connect(t)
          \/ (\E b \in BOOLEAN : Subscribe(t, b)) \/ Publish(t)
          \/ Drop(t) \/ Disconnect(t) \/ FreedUse(t) \/ Panic(t)
    BY DEF Next
  <2>2. ~(HandshakeDone(t) \/ (\E b \in BOOLEAN : Subscribe(t, b)) \/ Publish(t))
    BY DEF HandshakeDone, Subscribe, Publish, slots
  <2>3. ~CloseUnknown(t) /\ ~Panic(t)
    BY DEF CloseUnknown, ClearSlot, Panic, Reboot, NothingUp, IInv, TypeOK
  <2>4. ~Connect(t)
    BY DEF Connect, ConnectNew, TakeOver, Resume, IInv, TypeOK
  <2>5. ~FreedUse(t)
    BY DEF FreedUse
  <2>6. ASSUME Drop(t) \/ Disconnect(t) PROVE FALSE
    <3>1. cid[t] \in ClientIds /\ up[t] /\ Ended(t)
      BY <2>6, DropEnds
    <3>2. t # s /\ cid[t] = cid[s]
      BY <3>1 DEF Ended, IInv, TypeOK
    <3>3. Serves(t, c)
      BY <3>1, <3>2 DEF Serves
    <3> QED
      BY <3>2, <3>3 DEF IInv, RecordedSocketIsOnly
  <2> QED
    BY <2>1, <2>2, <2>3, <2>4, <2>5, <2>6
<1> QED
  BY <1>1, Invariance, PTL DEF Spec, OwnSocketIsSafe

\* Connections that end, and Clients that are touched, mislead nobody.
LEMMA EndedMisroutesNone ==
  ASSUME IInv, NEW t \in Socks, cid[t] \in ClientIds, Ended(t),
         NEW c \in ClientIds, ~Stale(c)
  PROVE  ~Stale(c)'
<1>1. CASE c = cid[t]
  BY <1>1 DEF Ended, Stale, Stored
<1>2. CASE c # cid[t] /\ session[c] # NoSession /\ session[c].sock # NoSock
  <2>1. Serves(session[c].sock, c) /\ session[c].sock \in Socks
    BY <1>2, NamesAssumption DEF Stale, Stored, IInv, TypeOK, Sessions
  <2>2. Serves(session[c].sock, c)'
    BY <1>2, <2>1 DEF Ended, Serves, IInv, TypeOK
  <2> QED
    BY <1>2, <2>2 DEF Ended, Stale, Stored
<1>3. CASE c # cid[t] /\ (session[c] = NoSession \/ session[c].sock = NoSock)
  BY <1>3 DEF Ended, Stale, Stored
<1> QED
  BY <1>1, <1>2, <1>3

LEMMA TouchedMisroutesNone ==
  ASSUME IInv, Touched(session'),
         UNCHANGED slots \/ \E t \in Socks : ClearSlot(t) /\ (gone[t] \/ cid[t] = NoId),
         NEW c \in ClientIds, ~Stale(c)
  PROVE  ~Stale(c)'
<1>1. CASE session[c] # NoSession /\ session[c].sock # NoSock
  <2>1. Serves(session[c].sock, c) /\ session[c].sock \in Socks
    BY <1>1, NamesAssumption DEF Stale, Stored, IInv, TypeOK, Sessions
  <2>2. /\ up'[session[c].sock] = up[session[c].sock]
        /\ cid'[session[c].sock] = cid[session[c].sock]
        /\ gone'[session[c].sock] = gone[session[c].sock]
    <3>1. CASE UNCHANGED slots
      BY <3>1 DEF slots
    <3>2. CASE \E t \in Socks : ClearSlot(t) /\ (gone[t] \/ cid[t] = NoId)
      <4>1. PICK t \in Socks : ClearSlot(t) /\ (gone[t] \/ cid[t] = NoId)
        BY <3>2
      <4>2. t # session[c].sock
        BY <2>1, <4>1, NamesAssumption DEF Serves
      <4> QED
        BY <2>1, <4>1, <4>2 DEF ClearSlot, IInv, TypeOK
    <3> QED
      BY <3>1, <3>2
  <2>3. session'[c].sock = NoSock \/ session'[c].sock = session[c].sock
    BY <1>1 DEF Touched
  <2>4. session'[c].sock = session[c].sock => Serves(session[c].sock, c)'
    BY <2>1, <2>2 DEF Serves
  <2> QED
    BY <2>3, <2>4 DEF Stale
<1>2. CASE session[c] = NoSession \/ session[c].sock = NoSock
  BY <1>2 DEF Touched, Stale, Stored
<1> QED
  BY <1>1, <1>2

\* Publications go astray only after a takeover of the recorded descriptor.
THEOREM MisrouteNeedsTakeover == Spec => OnlyTakeoverMisroutes
<1> DEFINE Causes(c) == \E s \in Socks, d \in ClientIds, clean, will \in BOOLEAN :
                          TakeOver(s, d, clean, will) /\ session[d].sock = session[c].sock
           Step == \A c \in ClientIds : ~Stale(c) /\ Stale(c)' => Causes(c)
<1>1. IInv /\ [Next]_vars => [Step]_vars
  <2> SUFFICES ASSUME IInv, Next, NEW c \in ClientIds, ~Stale(c), Stale(c)'
               PROVE  Causes(c)
    OBVIOUS
  <2>1. PICK t \in Socks :
          \/ HandshakeDone(t) \/ CloseUnknown(t) \/ Connect(t)
          \/ (\E b \in BOOLEAN : Subscribe(t, b)) \/ Publish(t)
          \/ Drop(t) \/ Disconnect(t) \/ FreedUse(t) \/ Panic(t)
    BY DEF Next
  <2>2. session[c] # NoSession /\ session[c].sock # NoSock =>
          Serves(session[c].sock, c) /\ session[c].sock \in Socks
    BY NamesAssumption DEF Stale, Stored, IInv, TypeOK, Sessions
  <2>3. ~HandshakeDone(t)
    BY <2>2 DEF HandshakeDone, Stale, Stored, Serves, IInv, TypeOK
  <2>4. ~CloseUnknown(t)
    <3>1. CloseUnknown(t) => Touched(session') /\ ClearSlot(t) /\ cid[t] = NoId
      BY DEF CloseUnknown, Unknown, Touched, IInv, TypeOK
    <3> QED
      BY <3>1, TouchedMisroutesNone
  <2>5. ASSUME Connect(t) PROVE Causes(c)
    <3>1. PICK d \in ClientIds, clean \in BOOLEAN, will \in BOOLEAN :
            ConnectNew(t, d, clean, will) \/ TakeOver(t, d, clean, will) \/ Resume(t, d, clean, will)
      BY <2>5 DEF Connect
    <3>2. ~ConnectNew(t, d, clean, will)
      <4> SUFFICES ASSUME ConnectNew(t, d, clean, will) PROVE FALSE
        OBVIOUS
      <4>1. CASE c = d
        <5>1. session'[c].sock = t /\ Serves(t, c)'
          BY <4>1 DEF ConnectNew, Unknown, Serves, IInv, TypeOK
        <5> QED
          BY <5>1 DEF Stale
      <4>2. CASE c # d
        <5>1. session'[c] = session[c]
          BY <4>2 DEF ConnectNew, IInv, TypeOK
        <5>2. Serves(session[c].sock, c)
          BY <2>2, <5>1 DEF Stale, Stored
        <5>3. Serves(session[c].sock, c)'
          BY <2>2, <5>1, <5>2, NamesAssumption
             DEF ConnectNew, Unknown, Stale, Stored, Serves, IInv, TypeOK
        <5> QED
          BY <5>1, <5>3 DEF Stale
      <4> QED
        BY <4>1, <4>2
    <3>3. ~Resume(t, d, clean, will)
      <4> SUFFICES ASSUME Resume(t, d, clean, will) PROVE FALSE
        OBVIOUS
      <4>1. session' = Accepted(session, d, clean, will) /\ session[d] # NoSession
        BY DEF Resume, Stored
      <4>2. /\ session'[c] = NoSession <=> session[c] = NoSession
            /\ session[c] # NoSession => session'[c].sock = session[c].sock
        <5>1. session \in [ClientIds -> Sessions \cup {NoSession}]
          BY DEF IInv, TypeOK
        <5> QED
          BY <4>1, <5>1, AcceptedKeeps
      <4>3. Serves(session[c].sock, c)
        BY <2>2, <4>2 DEF Stale, Stored
      <4>4. Serves(session[c].sock, c)'
        BY <2>2, <4>2, <4>3, NamesAssumption DEF Resume, Unknown, Stale, Stored, Serves, IInv, TypeOK
      <4> QED
        BY <4>2, <4>4 DEF Stale, Stored
    <3>4. ASSUME TakeOver(t, d, clean, will) PROVE session[d].sock = session[c].sock
      <4>1. PICK v \in Socks :
           /\ v # t /\ session[d] # NoSession /\ session[d].sock = v
           /\ up[t] /\ cid[t] = NoId
           /\ up' = [up EXCEPT ![v] = FALSE]
           /\ cid' = [cid EXCEPT ![v] = NoId, ![t] = d]
           /\ gone' = [gone EXCEPT ![v] = FALSE]
           /\ session' \in [ClientIds -> Sessions \cup {NoSession}]
           /\ \A e \in ClientIds :
                /\ session'[e] = NoSession <=> session[e] = NoSession
                /\ session[e] # NoSession => session'[e].sock = session[e].sock
        BY <3>4, TakeOverEffect
      <4>2. session[c] # NoSession /\ session'[c].sock = session[c].sock /\ session[c].sock # NoSock
        BY <4>1 DEF Stale, Stored
      <4>3. Serves(session[c].sock, c) /\ ~Serves(session[c].sock, c)' /\ session[c].sock \in Socks
        BY <2>2, <4>2 DEF Stale, Stored
      <4> QED
        BY <4>1, <4>3, NamesAssumption DEF Serves, IInv, TypeOK
    <3> QED
      BY <3>1, <3>2, <3>3, <3>4
  <2>6. ~(\E b \in BOOLEAN : Subscribe(t, b))
    <3> SUFFICES ASSUME NEW b \in BOOLEAN, Subscribe(t, b) PROVE FALSE
      OBVIOUS
    <3>1. cid[t] \in Stored
      BY DEF Subscribe, LoggedIn, IInv, TypeOK, PointersValid, Serves
    <3>2. Touched(session') /\ UNCHANGED slots
      BY <3>1, AliasTouches DEF Subscribe, IInv
    <3> QED
      BY <3>2, TouchedMisroutesNone
  <2>7. ~Publish(t)
    <3>1. Publish(t) => Touched(session') /\ UNCHANGED slots
      BY RoutedKeeps DEF Publish, Touched, IInv, TypeOK
    <3> QED
      BY <3>1, TouchedMisroutesNone
  <2>8. ~(Drop(t) \/ Disconnect(t))
    BY DropEnds, EndedMisroutesNone
  <2>9. ~FreedUse(t)
    BY FreedUseEffect, EndedMisroutesNone, TouchedMisroutesNone
  <2>10. ~Panic(t)
    BY DEF Panic, Reboot, NoSessions, Stale, Stored
  <2> QED
    BY <2>1, <2>3, <2>4, <2>5, <2>6, <2>7, <2>8, <2>9, <2>10
<1> QED
  BY <1>1, Invariance, PTL DEF Spec, OnlyTakeoverMisroutes
=============================================================================
