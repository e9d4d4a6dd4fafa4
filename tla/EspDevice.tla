------------------------------ MODULE EspDevice ------------------------------
(***************************************************************************)
(* The measuring device of src/esp-device: app_main and the measuring task *)
(* it starts (main.c), the event handler that keeps the Wi-Fi connected    *)
(* (network.c), which the event loop task runs, and the Wi-Fi driver below *)
(* them.  error_check exits on any error, which reboots the chip: that is  *)
(* the device's only way to recover.                                       *)
(***************************************************************************)
EXTENDS Naturals, Sequences

CONSTANTS MaxRetry,    \* MAXIMUM_RETRY_COUNT
          MaxSockets   \* sockets that the IP stack can have open

ASSUME MaxRetryAssumption == MaxRetry \in Nat
ASSUME MaxSocketsAssumption == MaxSockets \in Nat

VARIABLES
  phase,    \* the next call of app_main, then of vTaskPms5003
  link,     \* the station as the Wi-Fi driver sees it
  events,   \* what the driver has posted to the event loop
  bits,     \* s_wifi_event_group
  retry,    \* s_retry_num
  sockets,  \* sockets that post_data has left open
  env,      \* what works in the world: access point, server and time, hardware
  drops     \* history: disconnections handled since boot or the last address

vars == <<phase, link, events, bits, retry, sockets, env, drops>>

Phases == {"nvs", "wifi", "wait", "sntp", "uart", "read", "post", "delay"}
Measuring == {"read", "post", "delay"}
Links == {"off", "idle", "connecting", "associated", "up"}
Events == {"start", "disconnected", "gotip"}
World == {"ap", "net", "hw"}

Works(what) == what \in env
Online == link = "up" /\ Works("net")

\* exit(1): nothing but the world outlives a reboot.
Reboot ==
  /\ phase' = "nvs"
  /\ link' = "off"
  /\ events' = <<>>
  /\ bits' = {}
  /\ retry' = 0
  /\ sockets' = 0
  /\ drops' = 0
  /\ UNCHANGED env

Init ==
  /\ phase = "nvs"
  /\ link = "off"
  /\ events = <<>>
  /\ bits = {}
  /\ retry = 0
  /\ sockets = 0
  /\ env \in SUBSET World
  /\ drops = 0

-----------------------------------------------------------------------------
\* app_main and vTaskPms5003: a call succeeds or error_check reboots.

Enter(p) == phase' = p

\* The flash is erased and initialized again when it cannot be initialized.
InitNvs ==
  /\ phase = "nvs"
  /\ IF Works("hw")
       THEN Enter("wifi") /\ UNCHANGED <<link, events, bits, retry, sockets, env, drops>>
       ELSE Reboot

\* initialize_network up to esp_wifi_start.
StartWifi ==
  /\ phase = "wifi"
  /\ IF Works("hw")
       THEN /\ Enter("wait")
            /\ link' = "idle"
            /\ events' = <<"start">>
            /\ UNCHANGED <<bits, retry, sockets, env, drops>>
       ELSE Reboot

\* Mutant: only the connected bit is awaited.
MutAwaitNetworkOne ==
  /\ phase = "wait"
  /\ "connected" \in bits
  /\ Enter("sntp")
  /\ UNCHANGED <<link, events, bits, retry, sockets, env, drops>>

\* xEventGroupWaitBits returns on either bit and clears none; the connected bit
\* is looked at first.
AwaitNetwork ==
  /\ phase = "wait"
  /\ bits # {}
  /\ IF "connected" \in bits
       THEN Enter("sntp") /\ UNCHANGED <<link, events, bits, retry, sockets, env, drops>>
       ELSE Reboot

SyncTime ==
  /\ phase = "sntp"
  /\ IF Online
       THEN Enter("uart") /\ UNCHANGED <<link, events, bits, retry, sockets, env, drops>>
       ELSE Reboot

InitUart ==
  /\ phase = "uart"
  /\ IF Works("hw")
       THEN Enter("read") /\ UNCHANGED <<link, events, bits, retry, sockets, env, drops>>
       ELSE Reboot

\* A frame that validates is posted at once; none, or a malformed one, is
\* skipped until the next period.
ReadFrame(valid) ==
  /\ phase = "read"
  /\ IF Works("hw")
       THEN /\ Enter(IF valid THEN "post" ELSE "delay")
            /\ UNCHANGED <<link, events, bits, retry, sockets, env, drops>>
       ELSE Reboot

\* Mutant: the error of post_data is not looked at.
MutPost ==
  /\ phase = "post"
  /\ Enter("delay")
  /\ sockets' = IF Online /\ sockets < MaxSockets THEN sockets + 1 ELSE sockets
  /\ UNCHANGED <<link, events, bits, retry, env, drops>>

\* post_data never cleans its client up, so the socket stays open.  Any answer
\* of the server is a success, whatever its status.
Post ==
  /\ phase = "post"
  /\ IF Online /\ sockets < MaxSockets
       THEN /\ Enter("delay")
            /\ sockets' = sockets + 1
            /\ UNCHANGED <<link, events, bits, retry, env, drops>>
       ELSE Reboot

Posted == phase = "post" /\ phase' = "delay"

Wake ==
  /\ phase = "delay"
  /\ Enter("read")
  /\ UNCHANGED <<link, events, bits, retry, sockets, env, drops>>

-----------------------------------------------------------------------------
\* event_handler, in the event loop task.

Handling(event) ==
  /\ events # <<>>
  /\ Head(events) = event
  /\ events' = Tail(events)

OnStart ==
  /\ Handling("start")
  /\ link' = "connecting"
  /\ UNCHANGED <<phase, bits, retry, sockets, env, drops>>

\* Mutants: one retry too many is counted; the last one is counted but not made;
\* the handler sets the bit and connects all the same.
MutOnDisconnectedMore ==
  /\ Handling("disconnected")
  /\ drops' = drops + 1
  /\ IF retry <= MaxRetry
       THEN link' = "connecting" /\ retry' = retry + 1 /\ UNCHANGED bits
       ELSE bits' = bits \union {"fail"} /\ UNCHANGED <<link, retry>>
  /\ UNCHANGED <<phase, sockets, env>>

MutOnDisconnectedLast ==
  /\ Handling("disconnected")
  /\ drops' = drops + 1
  /\ IF retry < MaxRetry
       THEN /\ link' = IF retry + 1 < MaxRetry THEN "connecting" ELSE link
            /\ retry' = retry + 1
            /\ UNCHANGED bits
       ELSE bits' = bits \union {"fail"} /\ UNCHANGED <<link, retry>>
  /\ UNCHANGED <<phase, sockets, env>>

MutOnDisconnectedGoOn ==
  /\ Handling("disconnected")
  /\ drops' = drops + 1
  /\ link' = "connecting"
  /\ IF retry < MaxRetry
       THEN retry' = retry + 1 /\ UNCHANGED bits
       ELSE bits' = bits \union {"fail"} /\ UNCHANGED retry
  /\ UNCHANGED <<phase, sockets, env>>

OnDisconnected ==
  /\ Handling("disconnected")
  /\ drops' = drops + 1
  /\ IF retry < MaxRetry
       THEN link' = "connecting" /\ retry' = retry + 1 /\ UNCHANGED bits
       ELSE bits' = bits \union {"fail"} /\ UNCHANGED <<link, retry>>
  /\ UNCHANGED <<phase, sockets, env>>

\* Mutant: the retries are not counted afresh.
MutOnGotIp ==
  /\ Handling("gotip")
  /\ drops' = 0
  /\ bits' = bits \union {"connected"}
  /\ UNCHANGED <<phase, link, retry, sockets, env>>

OnGotIp ==
  /\ Handling("gotip")
  /\ drops' = 0
  /\ retry' = 0
  /\ bits' = bits \union {"connected"}
  /\ UNCHANGED <<phase, link, sockets, env>>

-----------------------------------------------------------------------------
\* The Wi-Fi driver, and the world.

Associate ==
  /\ link = "connecting"
  /\ Works("ap")
  /\ link' = "associated"
  /\ UNCHANGED <<phase, events, bits, retry, sockets, env, drops>>

GetAddress ==
  /\ link = "associated"
  /\ Works("ap")
  /\ link' = "up"
  /\ events' = Append(events, "gotip")
  /\ UNCHANGED <<phase, bits, retry, sockets, env, drops>>

\* A connection attempt fails or a connection is lost.
Disconnect ==
  /\ link \in {"connecting", "associated", "up"}
  /\ ~Works("ap")
  /\ link' = "idle"
  /\ events' = Append(events, "disconnected")
  /\ UNCHANGED <<phase, bits, retry, sockets, env, drops>>

Change ==
  /\ env' \in SUBSET World
  /\ env' # env
  /\ UNCHANGED <<phase, link, events, bits, retry, sockets, drops>>

-----------------------------------------------------------------------------
Main == \/ InitNvs \/ StartWifi \/ AwaitNetwork \/ SyncTime \/ InitUart
        \/ Post \/ Wake
        \/ \E valid \in BOOLEAN : ReadFrame(valid)

EventLoop == OnStart \/ OnDisconnected \/ OnGotIp

Driver == Associate \/ GetAddress \/ Disconnect

Next == Main \/ EventLoop \/ Driver \/ Change

Spec == Init /\ [][Next]_vars

\* The scheduler of FreeRTOS runs each task that is ready while the others
\* block, and the driver ends each attempt.  The sensor, read again and again,
\* sends a valid frame again and again.
Fairness ==
  /\ WF_vars(Main)
  /\ SF_vars(ReadFrame(TRUE))
  /\ WF_vars(EventLoop)
  /\ WF_vars(Driver)

FairSpec == Spec /\ Fairness

-----------------------------------------------------------------------------
TypeOK ==
  /\ phase \in Phases
  /\ link \in Links
  /\ events \in Seq(Events)
  /\ bits \subseteq {"connected", "fail"}
  /\ retry \in 0..MaxRetry
  /\ sockets \in 0..MaxSockets
  /\ env \subseteq World
  /\ drops \in 0..(MaxRetry + 1)

\* The handler gives up only after MaxRetry + 1 disconnections in a row, with
\* no address between them, and counts them right until then (event_handler).
GiveUpJustified ==
  IF "fail" \in bits THEN drops = MaxRetry + 1 ELSE drops = retry

\* Once started, the station is never left unconnected with no event on its way
\* that would make the handler connect it, unless the handler gave up.
NeverStranded ==
  phase \notin {"nvs", "wifi"} /\ link = "idle" /\ events = <<>> => "fail" \in bits

\* The task measures only if the station had an address since boot: app_main
\* gets no further on a failure (initialize_network).
MeasuresOnlyConnected ==
  phase \in Measuring \union {"sntp", "uart"} => "connected" \in bits

\* After giving up the handler never connects again: only a reboot clears the
\* fail bit and lets the station try (event_handler).
GiveUpIsFinal ==
  [][ "fail" \in bits /\ "fail" \in bits' => link' = "idle" ]_vars

\* A device that gave up, waiting for the network or measuring without it,
\* reboots in the end.
GiveUpReboots == "fail" \in bits ~> phase = "nvs"

\* If the world works from some time on, the device posts again and again,
\* whatever happened before and however many sockets it leaks: the reboots heal
\* both (main.c, error_check).
KeepsPosting == <>[](env = World) => []<><<Posted>>_vars
=============================================================================
