--------------------------- MODULE EspDeviceProofs ---------------------------
(***************************************************************************)
(* Proofs about EspDevice, for any retry limit and any number of sockets.  *)
(***************************************************************************)
EXTENDS EspDevice, TLAPS

\* The driver, the event queue and the event group together: the queue holds at
\* most an address and the loss of it.  NeverStranded alone is not inductive:
\* it says nothing of what is queued while the station is up.
Queued(n) == Len(events) = n

QueueInv ==
  /\ link \in {"off", "connecting", "associated"} => Queued(0)
  /\ link = "up" => Queued(0) \/ (Queued(1) /\ events[1] = "gotip")
  /\ link = "idle" =>
       \/ Queued(0) /\ "fail" \in bits
       \/ Queued(1) /\ events[1] \in {"start", "disconnected"}
       \/ Queued(2) /\ events[1] = "gotip" /\ events[2] = "disconnected"

BootInv ==
  /\ phase \in {"nvs", "wifi"} <=> link = "off"
  /\ link = "off" => bits = {} /\ retry = 0 /\ drops = 0
  /\ "fail" \in bits => link = "idle" /\ Queued(0)

IInv == TypeOK /\ QueueInv /\ BootInv /\ GiveUpJustified /\ MeasuresOnlyConnected

LEMMA InitIInv == Init => IInv
<1> SUFFICES ASSUME Init PROVE IInv
  OBVIOUS
<1>1. events \in Seq(Events) /\ Queued(0)
  BY DEF Init, Queued
<1> QED
  BY <1>1, MaxRetryAssumption, MaxSocketsAssumption
  DEF Init, IInv, TypeOK, QueueInv, BootInv, GiveUpJustified,
      MeasuresOnlyConnected, Phases, Measuring, Links

\* What a reboot leaves is an initial state.
LEMMA RebootIInv == ASSUME TypeOK, Reboot PROVE IInv'
<1>1. events' \in Seq(Events) /\ Queued(0)'
  BY DEF Reboot, Queued
<1> QED
  BY <1>1, MaxRetryAssumption, MaxSocketsAssumption
  DEF Reboot, IInv, TypeOK, QueueInv, BootInv, GiveUpJustified,
      MeasuresOnlyConnected, Phases, Measuring, Links

\* Nothing said of the queue and the counters changes with anything else.
LEMMA SameQueue ==
  ASSUME QueueInv, UNCHANGED <<link, events, bits>> PROVE QueueInv'
BY DEF QueueInv, Queued

LEMMA OneEvent ==
  ASSUME NEW e \in Events
  PROVE  <<e>> \in Seq(Events) /\ Len(<<e>>) = 1 /\ <<e>>[1] = e
OBVIOUS

LEMMA StepIInv == IInv /\ [Next]_vars => IInv'
<1> SUFFICES ASSUME IInv, [Next]_vars PROVE IInv'
  OBVIOUS
<1> USE MaxRetryAssumption, MaxSocketsAssumption
    DEF IInv, TypeOK, BootInv, GiveUpJustified, MeasuresOnlyConnected, Phases,
        Measuring, Links
<1>1. CASE Main
  <2> USE DEF Enter, Queued
  <2>1. CASE InitNvs
    BY <2>1, RebootIInv, SameQueue DEF InitNvs
  <2>2. CASE StartWifi
    <3>1. CASE Works("hw")
      <4>1. events' \in Seq(Events) /\ Len(events') = 1 /\ events'[1] = "start"
        BY <2>2, <3>1, OneEvent, "start" \in Events DEF StartWifi, Events
      <4>2. QueueInv'
        BY <2>2, <3>1, <4>1 DEF StartWifi, QueueInv
      <4> QED
        BY <2>2, <3>1, <4>1, <4>2 DEF StartWifi
    <3>2. CASE ~Works("hw")
      BY <2>2, <3>2, RebootIInv DEF StartWifi
    <3> QED
      BY <3>1, <3>2
  <2>3. CASE AwaitNetwork
    BY <2>3, RebootIInv, SameQueue DEF AwaitNetwork
  <2>4. CASE SyncTime
    BY <2>4, RebootIInv, SameQueue DEF SyncTime
  <2>5. CASE InitUart
    BY <2>5, RebootIInv, SameQueue DEF InitUart
  <2>6. ASSUME NEW valid \in BOOLEAN, ReadFrame(valid) PROVE IInv'
    BY <2>6, RebootIInv, SameQueue DEF ReadFrame
  <2>7. CASE Post
    <3>1. CASE Online /\ sockets < MaxSockets
      <4>1. /\ sockets' \in 0..MaxSockets /\ phase' = "delay" /\ phase = "post"
            /\ UNCHANGED <<link, events, bits, retry, env, drops>>
        BY <2>7, <3>1 DEF Post
      <4> QED
        BY <4>1, SameQueue
    <3>2. CASE ~(Online /\ sockets < MaxSockets)
      BY <2>7, <3>2, RebootIInv DEF Post
    <3> QED
      BY <3>1, <3>2
  <2>8. CASE Wake
    BY <2>8, SameQueue DEF Wake
  <2> QED
    BY <1>1, <2>1, <2>2, <2>3, <2>4, <2>5, <2>6, <2>7, <2>8 DEF Main
<1>2. CASE EventLoop
  <2>1. ASSUME NEW e \in Events, Handling(e)
        PROVE  /\ events' \in Seq(Events)
               /\ Len(events') = Len(events) - 1
               /\ events[1] = e
               /\ Len(events) = 2 => events'[1] = events[2]
               /\ Len(events) > 0 /\ "fail" \notin bits
    BY <2>1 DEF Handling, Queued
  <2>2. CASE OnStart
    BY <2>1, <2>2 DEF OnStart, QueueInv, Queued, Events
  <2>3. CASE OnDisconnected
    <3>1. Queued(1) /\ Queued(0)' /\ link = "idle" /\ "fail" \notin bits
      BY <2>1, <2>3 DEF OnDisconnected, QueueInv, Queued, Events
    <3>2. events' \in Seq(Events)
      BY <2>1, <2>3 DEF OnDisconnected, Events
    <3>3. QueueInv'
      BY <2>3, <3>1 DEF OnDisconnected, QueueInv
    <3>4. /\ retry' \in 0..MaxRetry /\ drops' \in 0..(MaxRetry + 1)
          /\ GiveUpJustified'
          /\ bits \subseteq bits' /\ bits' \subseteq {"connected", "fail"}
      <4>1. drops = retry /\ drops' = retry + 1 /\ retry \in 0..MaxRetry
        BY <2>3, <3>1 DEF OnDisconnected
      <4>2. CASE retry < MaxRetry
        <5>1. retry' = retry + 1 /\ bits' = bits
          BY <2>3, <4>2 DEF OnDisconnected
        <5>2. retry' \in 0..MaxRetry /\ drops' \in 0..(MaxRetry + 1)
          BY <4>1, <4>2, <5>1
        <5> QED
          BY <3>1, <4>1, <5>1, <5>2
      <4>3. CASE ~(retry < MaxRetry)
        <5>1. retry' = MaxRetry /\ drops' = MaxRetry + 1 /\ bits' = bits \union {"fail"}
          BY <2>3, <4>1, <4>3 DEF OnDisconnected
        <5> QED
          BY <5>1
      <4> QED
        BY <4>2, <4>3
    <3>5. /\ link' \in {"connecting", "idle"} /\ ("fail" \in bits' => link' = "idle")
          /\ UNCHANGED <<phase, sockets, env>>
      BY <2>3, <3>1 DEF OnDisconnected
    <3> QED
      BY <3>1, <3>2, <3>3, <3>4, <3>5
  <2>4. CASE OnGotIp
    <3>1. /\ events' \in Seq(Events) /\ Len(events') = Len(events) - 1
          /\ Len(events) > 0 /\ "fail" \notin bits /\ events[1] = "gotip"
          /\ Len(events) = 2 => events'[1] = events[2]
      BY <2>1, <2>4 DEF OnGotIp, Events
    <3>2. CASE link = "up"
      BY <2>4, <3>1, <3>2 DEF OnGotIp, QueueInv, Queued
    <3>3. CASE link = "idle"
      <4>1. Len(events') = 1 /\ events'[1] = "disconnected"
        BY <3>1, <3>3 DEF QueueInv, Queued
      <4> QED
        BY <2>4, <3>1, <3>3, <4>1 DEF OnGotIp, QueueInv, Queued
    <3>4. link \in {"up", "idle"}
      BY <3>1 DEF QueueInv, Queued
    <3> QED
      BY <3>2, <3>3, <3>4
  <2> QED
    BY <1>2, <2>2, <2>3, <2>4 DEF EventLoop
<1>3. CASE Driver
  <2>1. CASE Associate
    BY <2>1 DEF Associate, QueueInv, Queued
  <2>2. CASE GetAddress
    <3>1. Len(events) = 0 /\ "fail" \notin bits
      BY <2>2 DEF GetAddress, QueueInv, Queued
    <3>2. events' \in Seq(Events) /\ Len(events') = 1 /\ events'[1] = "gotip"
      BY <2>2, <3>1 DEF GetAddress, Events
    <3>3. QueueInv'
      BY <2>2, <3>2 DEF GetAddress, QueueInv, Queued
    <3> QED
      BY <2>2, <3>1, <3>2, <3>3 DEF GetAddress
  <2>3. CASE Disconnect
    <3>1. /\ Len(events) = 0 \/ (Len(events) = 1 /\ events[1] = "gotip")
          /\ "fail" \notin bits
      BY <2>3 DEF Disconnect, QueueInv, Queued
    <3>2. /\ events' \in Seq(Events)
          /\ \/ Len(events') = 1 /\ events'[1] = "disconnected"
             \/ Len(events') = 2 /\ events'[1] = "gotip" /\ events'[2] = "disconnected"
      BY <2>3, <3>1 DEF Disconnect, Events
    <3>3. QueueInv'
      BY <2>3, <3>2 DEF Disconnect, QueueInv, Queued
    <3> QED
      BY <2>3, <3>1, <3>2, <3>3 DEF Disconnect
  <2> QED
    BY <1>3, <2>1, <2>2, <2>3 DEF Driver
<1>4. CASE Change
  BY <1>4, SameQueue DEF Change, Queued
<1>5. CASE UNCHANGED vars
  BY <1>5, SameQueue DEF vars, Queued
<1> QED
  BY <1>1, <1>2, <1>3, <1>4, <1>5 DEF Next

\* The invariant that the theorems rest on.
THEOREM Invariance == Spec => []IInv
BY InitIInv, StepIInv, PTL DEF Spec

\* The variables keep their types (main.c, network.c).
THEOREM TypeCorrect == Spec => []TypeOK
<1>1. IInv => TypeOK
  BY DEF IInv
<1> QED
  BY <1>1, Invariance, PTL

\* The handler gives up only after MaxRetry + 1 disconnections in a row
\* (event_handler).
THEOREM GivingUpIsJustified == Spec => []GiveUpJustified
<1>1. IInv => GiveUpJustified
  BY DEF IInv
<1> QED
  BY <1>1, Invariance, PTL

\* The station is not left unconnected unless the handler gave up
\* (event_handler, initialize_network).
THEOREM StationIsNotStranded == Spec => []NeverStranded
<1>1. IInv => NeverStranded
  BY DEF IInv, TypeOK, QueueInv, Queued, NeverStranded
<1> QED
  BY <1>1, Invariance, PTL

\* Measuring needs an address since boot (app_main).
THEOREM MeasuringIsConnected == Spec => []MeasuresOnlyConnected
<1>1. IInv => MeasuresOnlyConnected
  BY DEF IInv
<1> QED
  BY <1>1, Invariance, PTL

\* Only a reboot connects a station that was given up (event_handler).
THEOREM GivingUpIsFinal == Spec => GiveUpIsFinal
<1>1. IInv /\ IInv' => ("fail" \in bits /\ "fail" \in bits' => link' = "idle")
  BY DEF IInv, BootInv
<1> QED
  BY <1>1, Invariance, PTL DEF GiveUpIsFinal
=============================================================================
