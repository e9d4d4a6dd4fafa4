------------------------------- MODULE Viewer -------------------------------
(***************************************************************************)
(* The app of src/frontend: the component Measurements, which App shows or *)
(* replaces by the settings, its two effects (the loader of the devices    *)
(* and the poll of their measurements) and the markers of Map.  JavaScript *)
(* runs one continuation at a time, so an action is what runs between two  *)
(* awaits.  The server below it is what MeasurementStore promises: rows    *)
(* are never lost, and an answer holds the rows there were at some time    *)
(* between the request and the answer.                                     *)
(***************************************************************************)
EXTENDS Integers, FiniteSets

CONSTANTS Devices,   \* device names
          Awkward,   \* those that a URL does not carry as they are
          Slots,     \* bound: polls under way at once
          Past,      \* how far the window reaches back
          Ahead,     \* and ahead of the time of mounting
          MaxTime    \* bound: the time

ASSUME ViewerAssumption ==
  /\ Awkward \subseteq Devices
  /\ Past \in Nat /\ Ahead \in Nat /\ MaxTime \in Nat

VARIABLES
  now,
  rows,       \* the server's: what was measured, as pairs of device and time
  places,     \* the server's: devices with a location
  open,       \* whether Measurements is mounted
  since,      \* the time at which it was mounted
  load,       \* the loader: "list", "places", "done" or "failed"
  names,      \* the devices that the loader has been told of
  todo,       \* those whose location it has yet to fetch
  listed,     \* devicesRef: the names
  shown,      \* devicesRef: the measurements of each name
  poll,       \* what each poll under way is waiting for
  answer,     \* what the server has answered it
  overtaken,  \* history: since it was sent another poll's answer was taken in
  blocked     \* history: an awkward name had a location when it was mounted

server == <<now, rows, places>>
loader == <<load, names, todo>>
polls == <<poll, answer, overtaken>>
vars == <<server, open, since, blocked, loader, listed, shown, polls>>

Row == Devices \X (0..MaxTime)

\* The rows of the window, which does not move while the component is mounted.
InWindow(r) == since - Past < r[2] /\ r[2] < since + Ahead
Window == {r \in rows : InWindow(r)}
Of(d, set) == {r \in set : r[1] = d}

Nothing == [d \in Devices |-> {}]

\* Mutant: the loader of the old component goes on in the new one.
MutFresh ==
  /\ names' = {}
  /\ listed' = {}
  /\ shown' = Nothing
  /\ poll' = [s \in Slots |-> "free"]
  /\ answer' = [s \in Slots |-> {}]
  /\ overtaken' = [s \in Slots |-> FALSE]
  /\ UNCHANGED <<load, todo>>

\* A component as it is when it is mounted.
Fresh ==
  /\ load' = "list"
  /\ names' = {}
  /\ todo' = {}
  /\ listed' = {}
  /\ shown' = Nothing
  /\ poll' = [s \in Slots |-> "free"]
  /\ answer' = [s \in Slots |-> {}]
  /\ overtaken' = [s \in Slots |-> FALSE]

Init ==
  /\ now = 0
  /\ rows = {}
  /\ places \in SUBSET Devices
  /\ open = TRUE
  /\ since = 0
  /\ blocked = (places \intersect Awkward # {})
  /\ load = "list"
  /\ names = {}
  /\ todo = {}
  /\ listed = {}
  /\ shown = Nothing
  /\ poll = [s \in Slots |-> "free"]
  /\ answer = [s \in Slots |-> {}]
  /\ overtaken = [s \in Slots |-> FALSE]

-----------------------------------------------------------------------------
\* The settings button of App.

Unmount ==
  /\ open
  /\ open' = FALSE
  /\ Fresh
  /\ UNCHANGED <<server, since, blocked>>

\* The old component's polls and loader may still end, without effect.
Mount ==
  /\ ~open
  /\ open' = TRUE
  /\ since' = now
  /\ blocked' = (places \intersect Awkward # {})
  /\ Fresh
  /\ UNCHANGED server

-----------------------------------------------------------------------------
\* The loader: the list of devices, then the location of each in turn.  Only
\* when it has all of them does it set the devices; an answer that is not JSON,
\* or none, ends it.

SetDevices ==
  /\ load' = "done"
  /\ listed' = names'
  /\ shown' = Nothing

ListDevices ==
  /\ open /\ load = "list"
  /\ names' = places
  /\ todo' = places
  /\ IF places = {} THEN SetDevices ELSE load' = "places" /\ UNCHANGED <<listed, shown>>
  /\ UNCHANGED <<server, open, since, blocked, polls>>

\* Mutant: a device whose location does not come is skipped.
MutFindPlace(d) ==
  /\ open /\ load = "places"
  /\ d \in todo
  /\ todo' = todo \ {d}
  /\ names' = IF d \in Awkward THEN names \ {d} ELSE names
  /\ IF todo' = {} THEN SetDevices ELSE UNCHANGED <<load, listed, shown>>
  /\ UNCHANGED <<server, open, since, blocked, polls>>

FindPlace(d) ==
  /\ open /\ load = "places"
  /\ d \in todo \ Awkward
  /\ todo' = todo \ {d}
  /\ UNCHANGED names
  /\ IF todo' = {} THEN SetDevices ELSE UNCHANGED <<load, listed, shown>>
  /\ UNCHANGED <<server, open, since, blocked, polls>>

\* The name is not encoded, so that the server is asked for another and answers
\* 500 with a text; or the request fails.
LoadFails ==
  /\ open /\ load \in {"list", "places"}
  /\ load' = "failed"
  /\ UNCHANGED <<server, open, since, blocked, names, todo, listed, shown, polls>>

-----------------------------------------------------------------------------
\* The polls, one every ten seconds whether or not others are under way.

\* Mutant: polling ends as soon as something is shown.
MutSendPoll(s) ==
  /\ open /\ poll[s] = "free"
  /\ shown = Nothing
  /\ poll' = [poll EXCEPT ![s] = "sent"]
  /\ UNCHANGED <<server, open, since, blocked, loader, listed, shown, answer, overtaken>>

SendPoll(s) ==
  /\ open /\ poll[s] = "free"
  /\ poll' = [poll EXCEPT ![s] = "sent"]
  /\ UNCHANGED <<server, open, since, blocked, loader, listed, shown, answer, overtaken>>

\* Mutants: the window ends when the poll is sent; the server answers with a
\* result that broke off.
MutAnswerPollOpen(s) ==
  /\ poll[s] = "sent"
  /\ poll' = [poll EXCEPT ![s] = "answered"]
  /\ answer' = [answer EXCEPT ![s] = {r \in rows : since - Past < r[2]}]
  /\ UNCHANGED <<server, open, since, blocked, loader, listed, shown, overtaken>>

MutAnswerPoll(s) ==
  /\ poll[s] = "sent"
  /\ poll' = [poll EXCEPT ![s] = "answered"]
  /\ \E part \in SUBSET Window : answer' = [answer EXCEPT ![s] = part]
  /\ UNCHANGED <<server, open, since, blocked, loader, listed, shown, overtaken>>

AnswerPoll(s) ==
  /\ poll[s] = "sent"
  /\ poll' = [poll EXCEPT ![s] = "answered"]
  /\ answer' = [answer EXCEPT ![s] = Window]
  /\ UNCHANGED <<server, open, since, blocked, loader, listed, shown, overtaken>>

Free(s) ==
  /\ poll' = [poll EXCEPT ![s] = "free"]
  /\ answer' = [answer EXCEPT ![s] = {}]

\* No answer, or one that is not JSON: the promise is rejected and nobody minds.
PollFails(s) ==
  /\ poll[s] = "sent"
  /\ Free(s)
  /\ overtaken' = [overtaken EXCEPT ![s] = FALSE]
  /\ UNCHANGED <<server, open, since, blocked, loader, listed, shown>>

\* The answer replaces the measurements of all devices there are by now.  A
\* result without rows comes as null, on which filter throws.
TakeIn(s) ==
  /\ poll[s] = "answered"
  /\ Free(s)
  /\ IF answer[s] = {} \/ listed = {}
       THEN /\ overtaken' = [overtaken EXCEPT ![s] = FALSE]
            /\ UNCHANGED shown
       ELSE /\ overtaken' = [x \in Slots |-> x # s /\ poll[x] # "free"]
            /\ shown' = [d \in Devices |->
                           IF d \in listed THEN Of(d, answer[s]) ELSE {}]
  /\ UNCHANGED <<server, open, since, blocked, loader, listed>>

-----------------------------------------------------------------------------
\* The station, and time.

Tick ==
  /\ now < MaxTime
  /\ now' = now + 1
  /\ UNCHANGED <<rows, places, open, since, blocked, loader, listed, shown, polls>>

\* A measurement is stored, possibly long after it was taken.
Store(r) ==
  /\ r \in Row \ rows
  /\ r[2] <= now
  /\ rows' = rows \union {r}
  /\ UNCHANGED <<now, places, open, since, blocked, loader, listed, shown, polls>>

Register(d) ==
  /\ d \notin places
  /\ places' = places \union {d}
  /\ UNCHANGED <<now, rows, open, since, blocked, loader, listed, shown, polls>>

Loading == ListDevices \/ LoadFails \/ \E d \in Devices : FindPlace(d)

Next ==
  \/ Mount \/ Unmount \/ Loading
  \/ \E s \in Slots : SendPoll(s) \/ AnswerPoll(s) \/ PollFails(s) \/ TakeIn(s)
  \/ Tick
  \/ \E r \in Row : Store(r)
  \/ \E d \in Devices : Register(d)

Spec == Init /\ [][Next]_vars

\* The interval fires, requests end, and of all polls not every one fails.
Fairness ==
  /\ WF_vars(Loading)
  /\ \A s \in Slots : /\ WF_vars(SendPoll(s))
                      /\ WF_vars(AnswerPoll(s) \/ PollFails(s))
                      /\ SF_vars(AnswerPoll(s))
                      /\ WF_vars(TakeIn(s))

FairSpec == Spec /\ Fairness

-----------------------------------------------------------------------------
TypeOK ==
  /\ now \in 0..MaxTime
  /\ rows \subseteq Row
  /\ places \subseteq Devices
  /\ open \in BOOLEAN
  /\ since \in 0..MaxTime
  /\ blocked \in BOOLEAN
  /\ load \in {"list", "places", "done", "failed"}
  /\ names \subseteq Devices
  /\ todo \subseteq names
  /\ listed \subseteq Devices
  /\ shown \in [Devices -> SUBSET rows]
  /\ poll \in [Slots -> {"free", "sent", "answered"}]
  /\ answer \in [Slots -> SUBSET rows]
  /\ overtaken \in [Slots -> BOOLEAN]

\* What is shown of a device was measured by it, in the window of the time at
\* which the component was mounted: nothing newer, however long it polls.
ShownIsOfWindow ==
  \A d \in Devices :
    /\ shown[d] \subseteq Of(d, Window)
    /\ shown[d] # {} => d \in listed

\* The step takes in an answer that another has overtaken.
LateAnswer ==
  \E s \in Slots : poll[s] = "answered" /\ overtaken[s] /\ poll'[s] = "free"

\* While the component is mounted measurements vanish from it only if polls
\* overlap, and one sent before the answer on display came in is taken in.
LostOnlyToOverlap ==
  [][open /\ open' /\ ~LateAnswer =>
       \A d \in Devices : shown[d] \subseteq shown'[d]]_vars

\* Mutant: sorted downwards.
MutMarker(d) == CHOOSE r \in shown[d] : \A q \in shown[d] : q[2] <= r[2]

\* The row that Map writes to the marker of d: measurements[0], sorted upwards.
Marker(d) == CHOOSE r \in shown[d] : \A q \in shown[d] : r[2] <= q[2]

\* A marker never moves on to a newer measurement, but by an overtaken answer:
\* what the map says of a device is the oldest of its window.
MarkerNeverAdvances ==
  [][open /\ open' /\ ~LateAnswer =>
       \A d \in Devices : shown[d] # {} => Marker(d)'[2] <= Marker(d)[2]]_vars

\* A device whose name a URL does not carry keeps all devices off the screen.
OneNameBlanksAll == open /\ blocked => listed = {}

\* A component that stays mounted and has its devices shows, from some time on,
\* all that is in its window, whatever order answers come in.
ShowsAll ==
  <>[](open /\ load = "done") =>
    <>[](\A d \in listed : shown[d] = Of(d, Window))
=============================================================================
