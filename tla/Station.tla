------------------------------- MODULE Station -------------------------------
(***************************************************************************)
(* The station as a whole: the measuring tasks of esp-device (main.c,      *)
(* http_client.c), the network, and go-server with its database, which is  *)
(* the module GoServer with a measurement as a request.  A device takes a  *)
(* measurement, posts it once and waits; any answer, whatever its status,  *)
(* ends the wait, and no answer reboots the chip, which forgets the        *)
(* measurement.  What it has sent may still arrive then, or its handler be *)
(* at work.                                                                *)
(*                                                                         *)
(* Start-up and Wi-Fi are EspDevice's; here a device that boots comes up.  *)
(***************************************************************************)
EXTENDS GoServer

CONSTANT Measurements   \* bound: measurements that each device takes

ASSUME StationAssumption ==
  /\ Measurements \in [Devices -> Nat]
  /\ Req = UNION {{d} \X (1..Measurements[d]) : d \in Devices}

VARIABLES
  task,    \* what each device's measuring task is doing
  taken,   \* the measurements it has taken since it was built
  net,     \* the requests on their way to the server
  heard,   \* what each measurement's device has heard of it
  calm     \* history: nothing has gone wrong yet but for a full database

deviceVars == <<task, taken, net, heard>>
stationVars == <<vars, deviceVars, calm>>

Statuses == {"200", "400", "401", "500"}

\* The measurement that d took last.
Current(d) == <<d, taken[d]>>

\* A measurement is a POST of its device, stamped with the time it was taken at,
\* which the server may find malformed: a value over 32767 (body).
StationInit ==
  /\ Init
  /\ \A r \in Req : /\ Kind(r) = "post"
                    /\ shape[r].flaws \subseteq {"body"}
                    /\ shape[r].device = r[1]
                    /\ shape[r].ts = r[2]
  /\ task = [d \in Devices |-> "idle"]
  /\ taken = [d \in Devices |-> 0]
  /\ net = {}
  /\ heard = [r \in Req |-> "none"]
  /\ calm = TRUE

-----------------------------------------------------------------------------
\* The devices.

\* Mutant: the post does not wait for its answer.
MutMeasure(d) ==
  /\ task[d] # "booting"
  /\ taken[d] < Measurements[d]
  /\ taken' = [taken EXCEPT ![d] = @ + 1]
  /\ task' = [task EXCEPT ![d] = "posting"]
  /\ net' = net \union {<<d, taken[d] + 1>>}
  /\ UNCHANGED <<vars, heard, calm>>

\* A valid frame has been read: it is stamped and posted.
Measure(d) ==
  /\ task[d] = "idle"
  /\ taken[d] < Measurements[d]
  /\ taken' = [taken EXCEPT ![d] = @ + 1]
  /\ task' = [task EXCEPT ![d] = "posting"]
  /\ net' = net \union {<<d, taken[d] + 1>>}
  /\ UNCHANGED <<vars, heard, calm>>

\* Mutant: a connection that was dropped counts as an answer.
MutHear(d) ==
  /\ task[d] = "posting"
  /\ reply[Current(d)] # "none"
  /\ heard' = [heard EXCEPT ![Current(d)] = reply[Current(d)]]
  /\ task' = [task EXCEPT ![d] = "idle"]
  /\ UNCHANGED <<vars, taken, net, calm>>

\* post_data logs the status and returns ESP_OK; the task sleeps.
Hear(d) ==
  /\ task[d] = "posting"
  /\ reply[Current(d)] \in Statuses
  /\ heard' = [heard EXCEPT ![Current(d)] = reply[Current(d)]]
  /\ task' = [task EXCEPT ![d] = "idle"]
  /\ UNCHANGED <<vars, taken, net, calm>>

\* No answer in time, or the connection is refused or dropped: error_check
\* exits, which reboots.
GiveUp(d) ==
  /\ task[d] = "posting"
  /\ heard' = [heard EXCEPT ![Current(d)] = "nothing"]
  /\ task' = [task EXCEPT ![d] = "booting"]
  /\ calm' = FALSE
  /\ UNCHANGED <<vars, taken, net>>

Boot(d) ==
  /\ task[d] = "booting"
  /\ task' = [task EXCEPT ![d] = "idle"]
  /\ UNCHANGED <<vars, taken, net, heard, calm>>

-----------------------------------------------------------------------------
\* The network, which delivers a request once or never, and the server.

Deliver(r) ==
  /\ r \in net
  /\ net' = net \ {r}
  /\ Arrive(r)
  /\ UNCHANGED <<task, taken, heard, calm>>

Lose(r) ==
  /\ r \in net
  /\ net' = net \ {r}
  /\ calm' = FALSE
  /\ UNCHANGED <<vars, task, taken, heard>>

\* The steps of a handler that nothing but a full database stands against.
Proceed(r) ==
  \/ Authenticate(r) \/ Decode(r) \/ Connect(r) \/ Query(r) \/ Respond(r)
  \/ ConnectFails(r) /\ Cardinality(Held) = MaxConn

Break(r) ==
  \/ QueryBreaks(r)
  \/ ConnectFails(r) /\ Cardinality(Held) # MaxConn

Work(r) ==
  /\ \/ Proceed(r) /\ UNCHANGED calm
     \/ Break(r) /\ calm' = FALSE
  /\ UNCHANGED deviceVars

Crash ==
  /\ Restart
  /\ calm' = FALSE
  /\ UNCHANGED deviceVars

DeviceStep(d) == Measure(d) \/ Hear(d) \/ GiveUp(d) \/ Boot(d)

StationNext ==
  \/ \E d \in Devices : DeviceStep(d)
  \/ \E r \in Req : Deliver(r) \/ Lose(r) \/ Work(r)
  \/ Crash

StationSpec == StationInit /\ [][StationNext]_stationVars

\* Each device's task runs and its client times out after five seconds, a
\* request on its way arrives or is lost, and goroutines are scheduled.
StationFairness ==
  /\ \A d \in Devices : WF_stationVars(DeviceStep(d))
  /\ \A r \in Req : /\ WF_stationVars(Deliver(r) \/ Lose(r))
                    /\ WF_stationVars(Work(r))

FairStation == StationSpec /\ StationFairness

-----------------------------------------------------------------------------
StationTypeOK ==
  /\ task \in [Devices -> {"idle", "posting", "booting"}]
  /\ taken \in [Devices -> Nat]
  /\ \A d \in Devices : taken[d] <= Measurements[d]
  /\ net \subseteq Req
  /\ heard \in [Req -> Statuses \union {"none", "nothing"}]
  /\ calm \in BOOLEAN

Recorded == {r \in Req : Stored(r)}

\* A device's rows are stored in the order in which they were measured, but for
\* those whose post it gave up on, before a reboot: their handlers may store
\* them after later ones, and nobody has heard of that (vTaskPms5003).
LateRowsAreOrphans ==
  \A r, q \in Recorded :
    r[1] = q[1] /\ r[2] < q[2] /\ stamp[q] < stamp[r] => heard[r] = "nothing"

\* However long the station runs, its devices hear 200 for no more measurements
\* than the database has slots, for each start of the server: any other status
\* is as good to them (post_data), and none asks for a restart.
RecordingBound ==
  Cardinality({r \in Req : heard[r] = "200"}) <= MaxConn * (restarts + 1)

Clean == {r \in Req : shape[r].flaws = {}}

\* The devices take all measurements, whatever is lost and however full the
\* database is; if nothing ever goes wrong, those stored are as many as there are
\* slots, or all that are well-formed when there are enough.
RecordsUntilFull ==
  <>[](/\ \A d \in Devices : taken[d] = Measurements[d] /\ task[d] = "idle"
       /\ calm => /\ Recorded \subseteq Clean
                  /\ \/ Cardinality(Recorded) = MaxConn
                     \/ Recorded = Clean /\ Cardinality(Clean) < MaxConn)
=============================================================================
