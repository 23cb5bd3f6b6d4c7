----------------------------- MODULE BootProofs -----------------------------
(***************************************************************************)
(* What start-up promises for every number of errors and retries.  The     *)
(* invariant ties the two counters of the code to what really happened:    *)
(* disconnections since the last address, failures of the call at hand.    *)
(***************************************************************************)
EXTENDS Boot, TLAPS

\* The retries are the disconnections, until there is one too many.
LinkCounted ==
  /\ link # "off" => drops = s_retry_num
  /\ GivenUpAfterRetries

\* The errors are the failures of this call, the last one not yet counted.
CallCounted ==
  /\ phase # "server" => last = "none"
  /\ last = "none" => error_count = 0 /\ fails = 0
  /\ last = "ok" => fails = error_count
  /\ last = "failed" => fails = error_count + 1

IInv == TypeOK /\ LinkCounted /\ CallCounted

USE DEF FirstPhase, LastStep

\* The state after a restart is an initial one.
LEMMA RestartKeeps == ASSUME Restart PROVE IInv'
  BY BootAssumption DEF Restart, IInv, TypeOK, LinkCounted, GivenUpAfterRetries, CallCounted

\* Steps of the event handler leave the server's counters alone.
LEMMA DriverKeeps == ASSUME IInv, Driver PROVE IInv'
<1>1. CASE GotIp
  BY <1>1, BootAssumption
     DEF GotIp, server, IInv, TypeOK, LinkCounted, GivenUpAfterRetries, CallCounted
<1>2. CASE Disconnected
  <2>1. drops = s_retry_num /\ "WIFI_FAIL_BIT" \notin bits
    BY <1>2 DEF Disconnected, Retries, IInv, LinkCounted, GivenUpAfterRetries
  <2>2. LinkCounted'
    <3>1. CASE s_retry_num < EXAMPLE_ESP_MAXIMUM_RETRY
      BY <1>2, <2>1, <3>1
         DEF Disconnected, Retries, LinkCounted, GivenUpAfterRetries
    <3>2. CASE s_retry_num = EXAMPLE_ESP_MAXIMUM_RETRY
      BY <1>2, <2>1, <3>2, BootAssumption
         DEF Disconnected, Retries, LinkCounted, GivenUpAfterRetries
    <3> QED BY <3>1, <3>2, BootAssumption DEF IInv, TypeOK
  <2>3. link' \in {"connecting", "off"} /\ s_retry_num' \in 0..EXAMPLE_ESP_MAXIMUM_RETRY
    <3>1. CASE s_retry_num < EXAMPLE_ESP_MAXIMUM_RETRY
      <4>1. link' = "connecting" /\ s_retry_num' = s_retry_num + 1
        BY <1>2, <3>1 DEF Disconnected, Retries
      <4> QED BY <3>1, <4>1, BootAssumption DEF IInv, TypeOK
    <3>2. CASE ~(s_retry_num < EXAMPLE_ESP_MAXIMUM_RETRY)
      <4>1. link' = "off" /\ s_retry_num' = s_retry_num
        BY <1>2, <3>2 DEF Disconnected, Retries
      <4> QED BY <4>1 DEF IInv, TypeOK
    <3> QED BY <3>1, <3>2
  <2>4. bits' \subseteq {"WIFI_CONNECTED_BIT", "WIFI_FAIL_BIT"} /\ drops' \in Nat
    <3>1. bits' \in {bits, bits \cup {"WIFI_FAIL_BIT"}} /\ drops' = drops + 1
      BY <1>2 DEF Disconnected, Retries
    <3> QED BY <3>1 DEF IInv, TypeOK
  <2>5. UNCHANGED <<phase, step, last, error_count, fails>>
    BY <1>2 DEF Disconnected, Retries, server
  <2> QED BY <2>2, <2>3, <2>4, <2>5 DEF IInv, TypeOK, CallCounted
<1> QED BY <1>1, <1>2 DEF Driver

\* Steps of tcp_server_task leave the Wi-Fi state alone, or restart.
LEMMA TaskKeeps == ASSUME IInv, Task PROVE IInv'
<1>1. CASE error_check
  <2>1. CASE Restart
    BY <2>1, RestartKeeps
  <2>2. CASE GoesOn /\ error_count' = 0
    BY <1>1, <2>2, BootAssumption
       DEF error_check, LoopEnds, GoesOn, wifi, IInv, TypeOK, LinkCounted, GivenUpAfterRetries, CallCounted
  <2> QED BY <1>1, <2>1, <2>2 DEF error_check
<1>2. ASSUME NEW result \in {"ok", "failed"}, Try(result) PROVE IInv'
  BY <1>2, BootAssumption
     DEF Try, wifi, IInv, TypeOK, LinkCounted, GivenUpAfterRetries, CallCounted
<1> QED BY <1>1, <1>2 DEF Task

LEMMA StepKeeps == ASSUME IInv, [Next]_vars PROVE IInv'
<1>1. CASE StartWifi
  <2>1. CASE Restart
    BY <2>1, RestartKeeps
  <2>2. CASE phase' = "waiting" /\ UNCHANGED <<wifi, server>>
    BY <1>1, <2>2
       DEF StartWifi, wifi, server, IInv, TypeOK, LinkCounted, GivenUpAfterRetries, CallCounted
  <2> QED BY <1>1, <2>1, <2>2 DEF StartWifi
<1>2. CASE StaStart
  BY <1>2 DEF StaStart, server, IInv, TypeOK, LinkCounted, GivenUpAfterRetries, CallCounted
<1>3. CASE WaitReturns
  <2>1. CASE Restart
    BY <2>1, RestartKeeps
  <2>2. CASE phase' = "server" /\ UNCHANGED <<wifi, server>>
    BY <1>3, <2>2
       DEF WaitReturns, wifi, server, IInv, TypeOK, LinkCounted, GivenUpAfterRetries, CallCounted
  <2> QED BY <1>3, <2>1, <2>2 DEF WaitReturns
<1>4. CASE UNCHANGED vars
  BY <1>4 DEF vars, wifi, server, IInv, TypeOK, LinkCounted, GivenUpAfterRetries, CallCounted
<1> QED BY <1>1, <1>2, <1>3, <1>4, DriverKeeps, TaskKeeps DEF Next

LEMMA Invariance == Spec => []IInv
<1>1. Init => IInv
  BY BootAssumption DEF Init, IInv, TypeOK, LinkCounted, GivenUpAfterRetries, CallCounted
<1> QED BY <1>1, StepKeeps, PTL DEF Spec

\* Every variable of start-up keeps its type, the counters their bounds.
THEOREM TypeCorrect == Spec => []TypeOK
<1>1. IInv => TypeOK BY DEF IInv
<1> QED BY <1>1, Invariance, PTL

\* The Wi-Fi link is given up only after every retry (wificonfig.cpp:37-46).
THEOREM GivenUp == Spec => []GivenUpAfterRetries
<1>1. IInv => GivenUpAfterRetries BY DEF IInv, LinkCounted
<1> QED BY <1>1, Invariance, PTL

\* The server restarts the device only for failures of one call
\* (main.cpp:8-18).
THEOREM OneCallRestarts == Spec => RestartsForOneCall
<1>1. IInv /\ [Next]_vars =>
        [phase = "server" /\ phase' = FirstPhase => fails >= MAX_ERRORS_BEFORE_RESTART]_vars
  <2> SUFFICES ASSUME IInv, Next, phase = "server", phase' = FirstPhase
               PROVE  fails >= MAX_ERRORS_BEFORE_RESTART
    BY DEF vars
  <2>1. error_check /\ error_count >= MAX_ERRORS_BEFORE_RESTART
    BY DEF Next, StartWifi, StaStart, Driver, GotIp, Disconnected, Retries, WaitReturns, Task, Try,
           error_check, GoesOn
  <2> QED BY <2>1, BootAssumption DEF error_check, LoopEnds, IInv, TypeOK, CallCounted
<1> QED BY <1>1, Invariance, PTL DEF Spec, RestartsForOneCall

\* Every call has succeeded before the next one is made, and the last before
\* anybody is served (main.cpp:40-94).
THEOREM EveryCallSucceeds == Spec => CallsSucceed
<1>1. IInv /\ [Next]_vars =>
        [(phase = "server" /\ step' > step) \/ (phase' = "serving" /\ phase # "serving")
           => last = "ok"]_vars
  <2> SUFFICES ASSUME IInv, Next,
                      (phase = "server" /\ step' > step) \/ (phase' = "serving" /\ phase # "serving")
               PROVE  last = "ok"
    BY DEF vars
  <2>1. ~Restart
    BY DEF Restart, IInv, TypeOK
  <2>2. error_check /\ ~(error_count >= MAX_ERRORS_BEFORE_RESTART)
    BY <2>1 DEF Next, StartWifi, StaStart, Driver, GotIp, Disconnected, Retries, WaitReturns, Task,
                Try, error_check, server, IInv, TypeOK
  <2> QED BY <2>2 DEF error_check, LoopEnds
<1> QED BY <1>1, Invariance, PTL DEF Spec, CallsSucceed
=============================================================================
