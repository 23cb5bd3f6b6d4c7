-------------------------------- MODULE Boot --------------------------------
(***************************************************************************)
(* Start-up (main.cpp, wificonfig.cpp): app_main waits for the Wi-Fi event *)
(* handler to report an address or to give up, then tcp_server_task takes  *)
(* the five calls that make the listening socket, each tried again up to   *)
(* MAX_ERRORS_BEFORE_RESTART times.  A failed ESP_ERROR_CHECK and          *)
(* esp_restart both start the device from the beginning.                   *)
(*                                                                         *)
(* The driver answers every esp_wifi_connect with an address or with a     *)
(* disconnection, and may disconnect later.  The handler goes on while the *)
(* server runs.                                                            *)
(***************************************************************************)
EXTENDS Integers

CONSTANTS
  MAX_ERRORS_BEFORE_RESTART,
  EXAMPLE_ESP_MAXIMUM_RETRY

ASSUME BootAssumption ==
  MAX_ERRORS_BEFORE_RESTART \in Nat \ {0} /\ EXAMPLE_ESP_MAXIMUM_RETRY \in Nat

VARIABLES
  phase,        \* "init": not waiting yet; "waiting"; "server"; "serving"
  link,         \* "idle", "connecting", "up", or "off": nobody connects it again
  s_retry_num,
  bits,         \* s_wifi_event_group
  step,         \* the call of tcp_server_task: 1 socket, 2, 3 fcntl, 4 bind, 5 listen
  last,         \* what the last try of it returned
  error_count,
  drops,        \* history: disconnections since the last address
  fails         \* history: failed tries of this call

wifi == <<link, s_retry_num, bits, drops>>
server == <<step, last, error_count, fails>>
vars == <<phase, wifi, server>>

FirstPhase == "init"
LastStep == 5

Init ==
  /\ phase = FirstPhase
  /\ link = "idle" /\ s_retry_num = 0 /\ bits = {} /\ drops = 0
  /\ step = 1 /\ last = "none" /\ error_count = 0 /\ fails = 0

Restart ==
  /\ phase' = FirstPhase
  /\ link' = "idle" /\ s_retry_num' = 0 /\ bits' = {} /\ drops' = 0
  /\ step' = 1 /\ last' = "none" /\ error_count' = 0 /\ fails' = 0

-----------------------------------------------------------------------------
(* wifi_init_sta and the event handler.                                     *)

\* The set-up ends with esp_wifi_start, or one of its checks fails.
StartWifi ==
  /\ phase = "init"
  /\ \/ Restart
     \/ phase' = "waiting" /\ UNCHANGED <<wifi, server>>

StaStart ==
  /\ phase # "init" /\ link = "idle"
  /\ link' = "connecting"
  /\ UNCHANGED <<phase, s_retry_num, bits, drops, server>>

\* Mutant: the retries of all times are added up.
GotIpKeepsRetries ==
  /\ link = "connecting"
  /\ link' = "up" /\ bits' = bits \cup {"WIFI_CONNECTED_BIT"} /\ drops' = 0
  /\ UNCHANGED <<phase, s_retry_num, server>>

GotIp ==
  /\ link = "connecting"
  /\ link' = "up" /\ s_retry_num' = 0 /\ bits' = bits \cup {"WIFI_CONNECTED_BIT"} /\ drops' = 0
  /\ UNCHANGED <<phase, server>>

\* A disconnection: the connection is tried again, limit times.
Retries(limit) ==
  /\ link \in {"connecting", "up"}
  /\ drops' = drops + 1
  /\ IF s_retry_num < limit
       THEN link' = "connecting" /\ s_retry_num' = s_retry_num + 1 /\ UNCHANGED bits
       ELSE link' = "off" /\ bits' = bits \cup {"WIFI_FAIL_BIT"} /\ UNCHANGED s_retry_num
  /\ UNCHANGED <<phase, server>>

\* Mutant: once more than allowed.
DisconnectedOnceMore == Retries(EXAMPLE_ESP_MAXIMUM_RETRY + 1)

Disconnected == Retries(EXAMPLE_ESP_MAXIMUM_RETRY)

\* Mutant: only an address is waited for.
WaitForAddress ==
  /\ phase = "waiting" /\ "WIFI_CONNECTED_BIT" \in bits
  /\ \/ phase' = "server" /\ UNCHANGED <<wifi, server>>
     \/ Restart

\* xEventGroupWaitBits and what app_main makes of it: the tasks are created if
\* there has ever been an address, and if there is memory for the queues.
WaitReturns ==
  /\ phase = "waiting" /\ bits # {}
  /\ \/ "WIFI_CONNECTED_BIT" \in bits /\ phase' = "server" /\ UNCHANGED <<wifi, server>>
     \/ Restart

-----------------------------------------------------------------------------
(* tcp_server_task.                                                         *)

\* Mutant: the count starts again before the limit.
TryWraps(result) ==
  /\ phase = "server" /\ last # "ok"
  /\ error_count' = IF last = "none" THEN error_count ELSE (error_count + 1) % MAX_ERRORS_BEFORE_RESTART
  /\ last' = result
  /\ fails' = IF result = "failed" THEN error_count' + 1 ELSE fails
  /\ UNCHANGED <<phase, wifi, step>>

\* The call is tried the first time, or again after the delay.
Try(result) ==
  /\ phase = "server"
  /\ \/ last = "none" /\ UNCHANGED error_count
     \/ last = "failed" /\ error_count < MAX_ERRORS_BEFORE_RESTART /\ error_count' = error_count + 1
  /\ last' = result
  /\ fails' = IF result = "failed" THEN fails + 1 ELSE fails
  /\ UNCHANGED <<phase, wifi, step>>

LoopEnds == phase = "server" /\ (last = "ok" \/ (last = "failed" /\ error_count >= MAX_ERRORS_BEFORE_RESTART))

\* On to the next call, or to the select loop.
GoesOn ==
  /\ last' = "none" /\ fails' = 0
  /\ step' = IF step = LastStep THEN step ELSE step + 1
  /\ phase' = IF step = LastStep THEN "serving" ELSE phase
  /\ UNCHANGED wifi

\* Mutant: errors of earlier calls count.
error_checkAddsUp ==
  /\ LoopEnds
  /\ IF error_count >= MAX_ERRORS_BEFORE_RESTART THEN Restart ELSE GoesOn /\ UNCHANGED error_count

\* Mutant: one more error is let through.
error_checkLate ==
  /\ LoopEnds
  /\ IF error_count > MAX_ERRORS_BEFORE_RESTART THEN Restart ELSE GoesOn /\ error_count' = 0

\* error_check knows the count only, not how the last try ended: after as many
\* errors as are allowed it restarts even if the last try was a success.
error_check ==
  /\ LoopEnds
  /\ IF error_count >= MAX_ERRORS_BEFORE_RESTART THEN Restart ELSE GoesOn /\ error_count' = 0

Driver == GotIp \/ Disconnected
Task == error_check \/ \E result \in {"ok", "failed"} : Try(result)

Next == StartWifi \/ StaStart \/ Driver \/ WaitReturns \/ Task

Spec == Init /\ [][Next]_vars

\* The tasks run, and the driver answers a connection that was asked for; it
\* need not ever take one down.
LiveSpec ==
  /\ Spec
  /\ WF_vars(StaStart) /\ WF_vars(link = "connecting" /\ Driver)
  /\ WF_vars(WaitReturns) /\ WF_vars(Task)

-----------------------------------------------------------------------------
(* What must hold.                                                          *)

TypeOK ==
  /\ phase \in {"init", "waiting", "server", "serving"}
  /\ link \in {"idle", "connecting", "up", "off"}
  /\ s_retry_num \in 0..EXAMPLE_ESP_MAXIMUM_RETRY
  /\ bits \subseteq {"WIFI_CONNECTED_BIT", "WIFI_FAIL_BIT"}
  /\ step \in 1..LastStep
  /\ last \in {"none", "ok", "failed"}
  /\ error_count \in 0..MAX_ERRORS_BEFORE_RESTART
  /\ drops \in Nat /\ fails \in Nat

\* The link is given up only after a disconnection and all the retries, one
\* after the other, without an address in between (wificonfig.cpp:37-46, 53).
GivenUpAfterRetries ==
  (link = "off" => drops = EXAMPLE_ESP_MAXIMUM_RETRY + 1) /\ ("WIFI_FAIL_BIT" \in bits => link = "off")

\* The server restarts the device, but for ten failures of one call: what
\* went wrong with the calls before it does not count (main.cpp:8-18).
RestartsForOneCall ==
  [][phase = "server" /\ phase' = FirstPhase => fails >= MAX_ERRORS_BEFORE_RESTART]_vars

\* No call is made before the one it needs has succeeded, and nobody is served
\* before all have (main.cpp:40-94), whatever the Wi-Fi does meanwhile.
CallsSucceed ==
  [][(phase = "server" /\ step' > step) \/ (phase' = "serving" /\ phase # "serving") => last = "ok"]_vars

\* The wait of app_main ends (wificonfig.cpp:97-103), and the server serves or
\* the device starts again.
WaitEnds == phase = "waiting" ~> phase # "waiting"
ServerSettles == phase = "server" ~> phase # "server"
=============================================================================
