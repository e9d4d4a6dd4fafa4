---------------------------- MODULE StationProofs ----------------------------
(***************************************************************************)
(* Proofs about Station, for any devices, any numbers of measurements and  *)
(* of connection slots.  The server's part is what GoServerProofs proves   *)
(* of every behaviour of GoServer.                                         *)
(***************************************************************************)
EXTENDS Station, GoServerProofs

\* What a step of the station is for the server.
LEMMA ServerStep ==
  ASSUME [StationNext]_stationVars
  PROVE  [Next]_vars
<1>1. ASSUME NEW d \in Devices, DeviceStep(d) PROVE UNCHANGED vars
  BY <1>1 DEF DeviceStep, Measure, Hear, GiveUp, Boot
<1>2. ASSUME NEW r \in Req, Deliver(r) PROVE Next
  BY <1>2 DEF Deliver, Next
<1>3. ASSUME NEW r \in Req, Lose(r) PROVE UNCHANGED vars
  BY <1>3 DEF Lose
<1>4. ASSUME NEW r \in Req, Work(r) PROVE Next
  BY <1>4 DEF Work, Proceed, Break, Serve, Next
<1>5. CASE Crash
  BY <1>5 DEF Crash, Next
<1>6. CASE UNCHANGED stationVars
  BY <1>6 DEF stationVars
<1> QED
  BY <1>1, <1>2, <1>3, <1>4, <1>5, <1>6 DEF StationNext

\* The server of a station behaves as GoServer does, so that all that is proved
\* of GoServer holds in a station.
THEOREM ServesAsSpecified == StationSpec => Spec
<1>1. StationInit => Init
  BY DEF StationInit
<1>2. [StationNext]_stationVars => [Next]_vars
  BY ServerStep
<1> QED
  BY <1>1, <1>2, PTL DEF StationSpec, Spec

THEOREM ServerInvariance == StationSpec => []IInv
  BY ServesAsSpecified, Invariance, PTL

\* The identity of a measurement.
LEMMA Identity ==
  /\ \A r \in Req : /\ r[1] \in Devices
                    /\ r[2] \in 1..Measurements[r[1]]
                    /\ r = <<r[1], r[2]>>
  /\ \A d \in Devices, n \in Nat :
       n \in 1..Measurements[d] => <<d, n>> \in Req
<1>1. Req = UNION {{d} \X (1..Measurements[d]) : d \in Devices}
  BY StationAssumption
<1> QED
  BY <1>1

\* The station's variables keep their types (main.c and the network).
THEOREM StationTypeCorrect == StationSpec => []StationTypeOK
<1>1. StationInit => StationTypeOK
  BY StationAssumption DEF StationInit, StationTypeOK
<1>2. ASSUME StationTypeOK, [StationNext]_stationVars PROVE StationTypeOK'
  <2> USE <1>2 DEF StationTypeOK
  <2>1. ASSUME NEW d \in Devices, Measure(d) PROVE StationTypeOK'
    <3>1. Measurements[d] \in Nat
      BY StationAssumption
    <3>2. <<d, taken[d] + 1>> \in Req
      BY <2>1, <3>1, Identity DEF Measure
    <3> QED
      BY <2>1, <3>1, <3>2 DEF Measure
  <2>2. ASSUME NEW d \in Devices, Hear(d) PROVE StationTypeOK'
    BY <2>2 DEF Hear
  <2>3. ASSUME NEW d \in Devices, GiveUp(d) \/ Boot(d) PROVE StationTypeOK'
    BY <2>3 DEF GiveUp, Boot
  <2>4. ASSUME NEW r \in Req, Deliver(r) \/ Lose(r) \/ Work(r) PROVE StationTypeOK'
    BY <2>4 DEF Deliver, Lose, Work, deviceVars
  <2>5. CASE Crash
    BY <2>5 DEF Crash, deviceVars
  <2>6. CASE UNCHANGED stationVars
    BY <2>6 DEF stationVars, deviceVars
  <2> QED
    BY <2>1, <2>2, <2>3, <2>4, <2>5, <2>6 DEF StationNext, DeviceStep
<1> QED
  BY <1>1, <1>2, PTL DEF StationSpec

-----------------------------------------------------------------------------
(***************************************************************************)
(* The station's invariant.                                                *)
(***************************************************************************)

\* How far a measurement is, on its device's side and on the server's.
PostAt(r) ==
  /\ r[2] > taken[r[1]] => pc[r] = "idle" /\ heard[r] = "none"
  /\ r[2] < taken[r[1]] => heard[r] # "none"
  /\ r[2] = taken[r[1]] => (heard[r] = "none" <=> task[r[1]] = "posting")
  /\ heard[r] \in Statuses => reply[r] = heard[r]
  /\ r \in net => r[2] <= taken[r[1]]

PostInv == \A r \in Req : IsPost(r) /\ PostAt(r)

AckedPosts == {r \in Req : IsPost(r) /\ reply[r] = "200"}

\* What has been acknowledged takes a slot of this process or took one of an
\* earlier.
AckInv ==
  /\ IsFiniteSet(AckedPosts)
  /\ IsFiniteSet(accepted)
  /\ Cardinality(AckedPosts) <= MaxConn * restarts + Cardinality(accepted)

LEMMA PostStep ==
  ASSUME IInv, StationTypeOK, PostInv, [StationNext]_stationVars
  PROVE  PostInv'
<1>1. TypeOK /\ HandlerInv /\ [Next]_vars
  BY ServerStep DEF IInv
<1>2. /\ shape' = shape
      /\ \A r \in Req : reply[r] # "none" => reply'[r] = reply[r]
  BY <1>1, Stability
<1>3. \A r \in Req : IsPost(r)'
  BY <1>2 DEF PostInv, IsPost, Kind
<1> SUFFICES ASSUME NEW r \in Req PROVE PostAt(r)'
  BY <1>3 DEF PostInv
<1>4. /\ r[1] \in Devices /\ r[2] \in Nat /\ r[2] > 0 /\ r = <<r[1], r[2]>>
      /\ taken[r[1]] \in Nat
      /\ PostAt(r)
  <2>1. Measurements[r[1]] \in Nat /\ r[1] \in Devices
    BY Identity, StationAssumption
  <2> QED
    BY <2>1, Identity DEF StationTypeOK, PostInv
<1> USE <1>2, <1>4 DEF PostAt, StationTypeOK, Current
<1>5. ASSUME NEW d \in Devices, Measure(d) PROVE PostAt(r)'
  <2>1. UNCHANGED <<pc, reply, heard>>
    BY <1>5 DEF Measure, vars
  <2>2. CASE d = r[1]
    BY <1>5, <2>1, <2>2 DEF Measure
  <2>3. CASE d # r[1]
    BY <1>5, <2>1, <2>3 DEF Measure
  <2> QED
    BY <2>2, <2>3
<1>6. ASSUME NEW d \in Devices, Hear(d) PROVE PostAt(r)'
  <2>1. UNCHANGED <<pc, reply, taken, net>>
    BY <1>6 DEF Hear, vars
  <2>2. CASE d = r[1] /\ taken[d] = r[2]
    BY <1>6, <2>1, <2>2 DEF Hear, Statuses
  <2>3. CASE d = r[1] /\ taken[d] # r[2]
    BY <1>6, <2>1, <2>3 DEF Hear
  <2>4. CASE d # r[1]
    BY <1>6, <2>1, <2>4 DEF Hear
  <2> QED
    BY <2>2, <2>3, <2>4
<1>7. ASSUME NEW d \in Devices, GiveUp(d) PROVE PostAt(r)'
  <2>1. UNCHANGED <<pc, reply, taken, net>>
    BY <1>7 DEF GiveUp, vars
  <2>2. CASE d = r[1] /\ taken[d] = r[2]
    BY <1>7, <2>1, <2>2 DEF GiveUp, Statuses
  <2>3. CASE d = r[1] /\ taken[d] # r[2]
    BY <1>7, <2>1, <2>3 DEF GiveUp
  <2>4. CASE d # r[1]
    BY <1>7, <2>1, <2>4 DEF GiveUp
  <2> QED
    BY <2>2, <2>3, <2>4
<1>8. ASSUME NEW d \in Devices, Boot(d) PROVE PostAt(r)'
  <2>1. UNCHANGED <<pc, reply, taken, net, heard>>
    BY <1>8 DEF Boot, vars
  <2> QED
    BY <1>8, <2>1 DEF Boot
\* The steps of the network and the server leave the devices alone, and no
\* request that has not been sent begins.
<1>9. ASSUME UNCHANGED <<task, taken, heard>>, net' \subseteq net,
             pc[r] = "idle" => pc'[r] = "idle" \/ r \in net
      PROVE  PostAt(r)'
  <2>1. heard[r] \in Statuses => reply'[r] = reply[r]
    BY DEF Statuses
  <2> QED
    BY <1>9, <2>1
<1>10. ASSUME NEW q \in Req, Deliver(q) PROVE PostAt(r)'
  BY <1>1, <1>9, <1>10 DEF Deliver, Arrive, Goto, TypeOK
<1>11. ASSUME NEW q \in Req, Lose(q) PROVE PostAt(r)'
  BY <1>9, <1>11 DEF Lose, vars
<1>12. ASSUME NEW q \in Req, Work(q) PROVE PostAt(r)'
  <2>1. pc[q] # "idle" /\ (pc' = [pc EXCEPT ![q] = pc'[q]])
    BY <1>1, <1>12 DEF Work, Proceed, Break, Authenticate, Decode, Connect, Query,
       Respond, ConnectFails, QueryBreaks, Goto, Answer, TypeOK
  <2>2. pc[r] = "idle" => pc'[r] = "idle"
    BY <1>1, <2>1 DEF TypeOK
  <2> QED
    BY <1>9, <1>12, <2>2 DEF Work, deviceVars
<1>13. CASE Crash
  BY <1>1, <1>9, <1>13 DEF Crash, Restart, deviceVars, TypeOK
<1>14. CASE UNCHANGED stationVars
  BY <1>9, <1>14 DEF stationVars, deviceVars, vars
<1> QED
  BY <1>5, <1>6, <1>7, <1>8, <1>10, <1>11, <1>12, <1>13, <1>14
     DEF StationNext, DeviceStep

\* Only Respond acknowledges, and a restart forgets no more than a process can
\* have accepted.
LEMMA AckStep ==
  ASSUME IInv, IInv', PostInv, PostInv', AckInv, [Next]_vars
  PROVE  AckInv'
<1> DEFINE bound == MaxConn * restarts
<1>1. /\ TypeOK /\ TypeOK' /\ HandlerInv /\ SlotInv
      /\ restarts \in Nat /\ MaxConn \in Nat
      /\ bound \in Nat
      /\ \A r \in Req : IsPost(r) /\ IsPost(r)'
  BY MaxConnAssumption, MaxRestartsAssumption DEF IInv, TypeOK, PostInv
<1>2. /\ Cardinality(AckedPosts) \in Nat
      /\ Cardinality(accepted) \in Nat
      /\ IsFiniteSet(AckedPosts) /\ IsFiniteSet(accepted)
      /\ Cardinality(AckedPosts) <= bound + Cardinality(accepted)
  BY FS_CardinalityType DEF AckInv
<1>3. AckedPosts = {r \in Req : reply[r] = "200"} /\ AckedPosts' = {r \in Req : reply'[r] = "200"}
  BY <1>1 DEF AckedPosts
<1> HIDE DEF bound
<1>4. ASSUME AckedPosts' = AckedPosts, accepted' = accepted, restarts' = restarts
      PROVE  AckInv'
  BY <1>4 DEF AckInv
<1>5. ASSUME NEW r \in Req, Respond(r) PROVE AckInv'
  <2>1. /\ accepted' = accepted \union {r}
        /\ restarts' = restarts
        /\ pc[r] = "respond"
    BY <1>1, <1>5 DEF Respond
  <2>2. r \notin accepted
    BY <2>1, <1>1 DEF SlotInv
  <2>3. AckedPosts' \subseteq AckedPosts \union {r}
    BY <1>1, <1>3, <1>5 DEF Respond, Answer, TypeOK
  <2>4. IsFiniteSet(accepted') /\ Cardinality(accepted') = Cardinality(accepted) + 1
    BY <1>2, <2>1, <2>2, FS_AddElement
  <2>5. /\ IsFiniteSet(AckedPosts \union {r})
        /\ Cardinality(AckedPosts \union {r}) <= Cardinality(AckedPosts) + 1
    BY <1>2, FS_AddElement
  <2>6. /\ IsFiniteSet(AckedPosts')
        /\ Cardinality(AckedPosts') <= Cardinality(AckedPosts \union {r})
    BY <2>3, <2>5, FS_Subset
  <2>7. Cardinality(AckedPosts') \in Nat /\ Cardinality(AckedPosts \union {r}) \in Nat
    BY <2>5, <2>6, FS_CardinalityType
  <2>8. Cardinality(AckedPosts') <= bound + Cardinality(accepted')
    BY <1>1, <1>2, <2>4, <2>5, <2>6, <2>7
  <2> QED
    BY <2>1, <2>4, <2>6, <2>8 DEF AckInv, bound
<1>6. CASE Restart
  <2>1. restarts' = restarts + 1 /\ accepted' = {} /\ AckedPosts' = AckedPosts
    BY <1>1, <1>3, <1>6 DEF Restart, HandlerInv, ProgressAt, TypeOK
  <2>2. accepted \subseteq Held
    BY <1>1 DEF SlotInv, Held, TypeOK
  <2>3. Cardinality(accepted) <= MaxConn
    <3>1. IsFiniteSet(Held) /\ Cardinality(Held) <= MaxConn /\ Cardinality(Held) \in Nat
      BY <1>1, FS_CardinalityType DEF SlotInv
    <3> QED
      BY <1>1, <1>2, <2>2, <3>1, FS_Subset
  <2>4. MaxConn * (restarts + 1) = bound + MaxConn
    BY <1>1 DEF bound
  <2>5. Cardinality(AckedPosts) <= MaxConn * (restarts + 1) + 0
    BY <1>1, <1>2, <2>3, <2>4
  <2> QED
    BY <1>2, <2>1, <2>5, FS_EmptySet DEF AckInv
<1>7. ASSUME NEW r \in Req, Serve(r), ~Respond(r) PROVE AckInv'
  <2>1. accepted' = accepted /\ restarts' = restarts
    BY <1>7 DEF Serve, Authenticate, Decode, Connect, ConnectFails, Query,
       QueryRejected, QueryBreaks, StreamBreaks
  <2>2. \A q \in Req : reply'[q] = "200" <=> reply[q] = "200"
    BY <1>1, <1>7 DEF Serve, Authenticate, Decode, Connect, ConnectFails, Query,
       QueryRejected, QueryBreaks, StreamBreaks, Answer, TypeOK, IsPost, Kind, Reads,
       Writes, HandlerInv, ProgressAt
  <2> QED
    BY <1>3, <1>4, <2>1, <2>2
<1>8. ASSUME NEW r \in Req, Arrive(r) \/ Unsupported(r) \/ Reclaim(r) PROVE AckInv'
  BY <1>1, <1>3, <1>4, <1>8 DEF Arrive, Unsupported, Reclaim, IsPost, Kind
<1>9. CASE UNCHANGED vars
  BY <1>3, <1>4, <1>9 DEF vars
<1> QED
  BY <1>5, <1>6, <1>7, <1>8, <1>9 DEF Next

\* A row goes behind all others, so that an earlier measurement that is stored
\* later was still being handled when its device had moved on.
LEMMA OrderStep ==
  ASSUME IInv, StationTypeOK, PostInv, LateRowsAreOrphans, [StationNext]_stationVars
  PROVE  LateRowsAreOrphans'
<1>1. TypeOK /\ HandlerInv /\ HeapInv /\ [Next]_vars
  BY ServerStep DEF IInv
<1> SUFFICES ASSUME NEW r \in Req, NEW q \in Req, Stored(r)', Stored(q)',
                    r[1] = q[1], r[2] < q[2], stamp'[q] < stamp'[r]
             PROVE  heard'[r] = "nothing"
  BY DEF LateRowsAreOrphans, Recorded
<1>2. /\ r[1] \in Devices /\ r[2] \in Nat /\ q[2] \in Nat /\ taken[r[1]] \in Nat
      /\ PostAt(r) /\ PostAt(q)
      /\ heard[r] \in Statuses \union {"none", "nothing"}
  <2>1. /\ r[1] \in Devices /\ Measurements[r[1]] \in Nat
        /\ q[1] \in Devices /\ Measurements[q[1]] \in Nat
    BY Identity, StationAssumption
  <2> QED
    BY <2>1, Identity DEF StationTypeOK, PostInv
<1>3. heard[r] = "nothing" => heard'[r] = "nothing"
  <2>1. ASSUME NEW d \in Devices, Hear(d) \/ GiveUp(d), r = Current(d)
        PROVE  heard[r] # "nothing"
    BY <1>2, <2>1 DEF Hear, GiveUp, Current, PostAt
  <2>2. ASSUME NEW d \in Devices, DeviceStep(d), heard[r] = "nothing"
        PROVE  heard'[r] = "nothing"
    BY <2>1, <2>2 DEF DeviceStep, Measure, Hear, GiveUp, Boot, StationTypeOK
  <2> QED
    BY <2>2 DEF StationNext, Deliver, Lose, Work, Crash, deviceVars, stationVars
<1>4. CASE UNCHANGED stamp
  BY <1>3, <1>4 DEF LateRowsAreOrphans, Recorded, Stored
<1>5. ASSUME NEW p \in Req, Insert(p), pc[p] = "query" PROVE heard'[r] = "nothing"
  <2>1. /\ stamp'[p] = inserted + 1
        /\ \A x \in Req \ {p} : stamp'[x] = stamp[x]
        /\ \A x \in Req : stamp[x] <= inserted /\ stamp[x] \in Nat
        /\ inserted \in Nat
    BY <1>1, <1>5 DEF Insert, HeapInv, TypeOK
  <2>2. CASE p = r
    <3>1. Stored(q) /\ q # p
      BY <2>1, <2>2 DEF Stored
    <3>2. pc[q] # "idle" /\ reply[r] = "none"
      BY <1>1, <1>5, <2>2, <3>1 DEF HandlerInv, ProgressAt
    <3>3. r[2] < taken[r[1]]
      BY <1>2, <3>2 DEF PostAt
    <3>4. heard[r] = "nothing"
      BY <1>2, <3>2, <3>3 DEF PostAt, Statuses
    <3> QED
      BY <1>3, <3>4
  <2>3. CASE p # r
    <3>1. p # q
      BY <2>1, <2>3
    <3>2. Stored(r) /\ Stored(q) /\ stamp[q] < stamp[r]
      BY <2>1, <2>3, <3>1 DEF Stored
    <3> QED
      BY <1>3, <3>2 DEF LateRowsAreOrphans, Recorded
  <2> QED
    BY <2>2, <2>3
<1>6. ASSUME NEW p \in Req, Serve(p) PROVE heard'[r] = "nothing"
  BY <1>4, <1>5, <1>6 DEF Serve, Authenticate, Decode, Connect, ConnectFails, Query,
     QueryRejected, QueryBreaks, Respond, StreamBreaks
<1>7. CASE ~ \E p \in Req : Serve(p)
  BY <1>1, <1>4, <1>7 DEF Next, Arrive, Unsupported, Reclaim, Restart, vars
<1> QED
  BY <1>6, <1>7

-----------------------------------------------------------------------------
StationInv == PostInv /\ AckInv /\ LateRowsAreOrphans

\* The invariant of the station, on top of the server's.
THEOREM StationInvariance == StationSpec => []StationInv
<1>1. StationInit => StationInv
  <2> SUFFICES ASSUME StationInit PROVE StationInv
    OBVIOUS
  <2>1. PostInv
    <3> SUFFICES ASSUME NEW r \in Req PROVE IsPost(r) /\ PostAt(r)
      BY DEF PostInv
    <3>1. r[1] \in Devices /\ r[2] \in Nat /\ r[2] > 0
      BY Identity, StationAssumption
    <3> QED
      BY <3>1 DEF StationInit, Init, IsPost, PostAt, Statuses
  <2>2. AckedPosts = {} /\ accepted = {} /\ restarts = 0
    BY DEF StationInit, Init, AckedPosts
  <2>3. AckInv
    BY <2>2, FS_EmptySet, MaxConnAssumption DEF AckInv
  <2>4. LateRowsAreOrphans
    BY DEF StationInit, Init, LateRowsAreOrphans, Recorded, Stored
  <2> QED
    BY <2>1, <2>3, <2>4 DEF StationInv
<1>2. /\ IInv /\ IInv' /\ StationTypeOK /\ StationInv
      /\ [StationNext]_stationVars
      => StationInv'
  <2> SUFFICES ASSUME IInv, IInv', StationTypeOK, StationInv, [StationNext]_stationVars
               PROVE  StationInv'
    OBVIOUS
  <2>1. PostInv'
    BY PostStep DEF StationInv
  <2>2. AckInv'
    BY <2>1, AckStep, ServerStep DEF StationInv
  <2>3. LateRowsAreOrphans'
    BY OrderStep DEF StationInv
  <2> QED
    BY <2>1, <2>2, <2>3 DEF StationInv
<1> QED
  BY <1>1, <1>2, ServerInvariance, StationTypeCorrect, PTL DEF StationSpec

\* A device's rows are in the order of measuring, but for those it gave up on
\* (vTaskPms5003 of main.c against postMeasurements of main.go).
THEOREM LateRowsAreOfOrphans == StationSpec => []LateRowsAreOrphans
  BY StationInvariance, PTL DEF StationInv

\* What devices hear 200 for is bounded by the slots of the database and the
\* starts of the server (post_data of http_client.c).
THEOREM RecordingIsBounded == StationSpec => []RecordingBound
<1>1. IInv /\ StationInv => RecordingBound
  <2> SUFFICES ASSUME IInv, StationInv PROVE RecordingBound
    OBVIOUS
  <2> DEFINE heard200 == {r \in Req : heard[r] = "200"}
  <2>1. heard200 \subseteq AckedPosts
    BY DEF StationInv, PostInv, PostAt, AckedPosts, Statuses
  <2>2. /\ IsFiniteSet(AckedPosts) /\ IsFiniteSet(accepted)
        /\ Cardinality(AckedPosts) <= MaxConn * restarts + Cardinality(accepted)
    BY DEF StationInv, AckInv
  <2>3. Cardinality(heard200) <= Cardinality(AckedPosts)
    BY <2>1, <2>2, FS_Subset
  <2>4. accepted \subseteq Held /\ IsFiniteSet(Held) /\ Cardinality(Held) <= MaxConn
    BY DEF IInv, SlotInv, Held, TypeOK
  <2>5. Cardinality(accepted) <= Cardinality(Held)
    BY <2>4, FS_Subset
  <2>6. /\ Cardinality(heard200) \in Nat /\ Cardinality(AckedPosts) \in Nat
        /\ Cardinality(accepted) \in Nat /\ Cardinality(Held) \in Nat
    BY <2>1, <2>2, <2>4, FS_Subset, FS_CardinalityType
  <2>7. restarts \in Nat /\ MaxConn \in Nat
    BY MaxConnAssumption, MaxRestartsAssumption DEF IInv, TypeOK
  <2>8. MaxConn * (restarts + 1) = MaxConn * restarts + MaxConn /\ MaxConn * restarts \in Nat
    BY <2>7
  <2>9. Cardinality(heard200) <= MaxConn * (restarts + 1)
    BY <2>2, <2>3, <2>4, <2>5, <2>6, <2>7, <2>8
  <2> QED
    BY <2>9 DEF RecordingBound
<1> QED
  BY <1>1, StationInvariance, ServerInvariance, PTL
=============================================================================
