---------------------------- MODULE ViewerProofs ----------------------------
(***************************************************************************)
(* Proofs about Viewer, for any devices, any number of polls under way and *)
(* any window.                                                             *)
(***************************************************************************)
EXTENDS Viewer, TLAPS

\* The loader's steps, as far as they matter to what is shown.
LEMMA LoaderStep ==
  ASSUME TypeOK, Loading
  PROVE  /\ UNCHANGED <<now, rows, places, open, since, blocked, poll, answer, overtaken>>
         /\ open
         /\ load \in {"list", "places"}
         /\ \/ UNCHANGED <<listed, shown>> /\ load' # "done"
            \/ listed' = names' /\ shown' = Nothing /\ load' = "done"
<1>1. CASE ListDevices
  BY <1>1 DEF ListDevices, SetDevices, server, polls
<1>2. CASE LoadFails
  BY <1>2 DEF LoadFails, server, polls
<1>3. ASSUME NEW d \in Devices, FindPlace(d)
      PROVE  /\ UNCHANGED <<now, rows, places, open, since, blocked, poll, answer, overtaken>>
             /\ open /\ load = "places"
             /\ \/ UNCHANGED <<listed, shown>> /\ load' # "done"
                \/ listed' = names' /\ shown' = Nothing /\ load' = "done"
  BY <1>3 DEF FindPlace, SetDevices, server, polls
<1> QED
  BY <1>1, <1>2, <1>3 DEF Loading

\* The variables keep their types; what is shown and answered is stored.
THEOREM TypeCorrect == Spec => []TypeOK
<1>1. Init => TypeOK
  BY ViewerAssumption DEF Init, TypeOK, Nothing
<1>2. ASSUME TypeOK, [Next]_vars PROVE TypeOK'
  <2> USE <1>2 DEF TypeOK
  <2>1. CASE Unmount \/ Mount
    BY <2>1 DEF Unmount, Mount, Fresh, Nothing, server
  <2>2. CASE Loading
    <3>1. CASE ListDevices
      <4>1. UNCHANGED <<now, rows, places, open, since, blocked, poll, answer, overtaken>>
        BY <3>1 DEF ListDevices, server, polls
      <4>2. names' = places /\ todo' = places
        BY <3>1 DEF ListDevices
      <4>3. \/ load' = "places" /\ places # {} /\ UNCHANGED <<listed, shown>>
            \/ load' = "done" /\ listed' = names' /\ shown' = Nothing
        BY <3>1 DEF ListDevices, SetDevices
      <4>4. listed' \subseteq Devices /\ shown' \in [Devices -> SUBSET rows]
        BY <4>2, <4>3, <3>1 DEF Nothing
      <4> QED
        BY <4>1, <4>2, <4>3, <4>4
    <3>2. CASE LoadFails
      BY <3>2 DEF LoadFails, server, polls
    <3>3. ASSUME NEW d \in Devices, FindPlace(d) PROVE TypeOK'
      BY <3>3 DEF FindPlace, SetDevices, server, polls, Nothing
    <3> QED
      BY <2>2, <3>1, <3>2, <3>3 DEF Loading
  <2>3. ASSUME NEW s \in Slots, SendPoll(s) PROVE TypeOK'
    BY <2>3 DEF SendPoll, server, loader
  <2>4. ASSUME NEW s \in Slots, AnswerPoll(s) PROVE TypeOK'
    BY <2>4 DEF AnswerPoll, Window, server, loader
  <2>5. ASSUME NEW s \in Slots, PollFails(s) PROVE TypeOK'
    BY <2>5 DEF PollFails, Free, server, loader
  <2>6. ASSUME NEW s \in Slots, TakeIn(s) PROVE TypeOK'
    <3>1. shown' \in [Devices -> SUBSET rows]
      BY <2>6 DEF TakeIn, Of
    <3> QED
      BY <2>6, <3>1 DEF TakeIn, Free, server, loader
  <2>7. CASE Tick
    BY <2>7, ViewerAssumption DEF Tick, loader, polls
  <2>8. ASSUME NEW r \in Row, Store(r) PROVE TypeOK'
    BY <2>8 DEF Store, loader, polls
  <2>9. ASSUME NEW d \in Devices, Register(d) PROVE TypeOK'
    BY <2>9 DEF Register, loader, polls
  <2>10. CASE UNCHANGED vars
    BY <2>10 DEF vars, server, loader, polls
  <2> QED
    BY <2>1, <2>2, <2>3, <2>4, <2>5, <2>6, <2>7, <2>8, <2>9, <2>10 DEF Next
<1> QED
  BY <1>1, <1>2, PTL DEF Spec

-----------------------------------------------------------------------------
(***************************************************************************)
(* The invariant.                                                          *)
(***************************************************************************)

\* A poll that is not overtaken holds, once answered, all that is shown.
PollAt(s) ==
  /\ answer[s] \subseteq Window
  /\ poll[s] = "free" => answer[s] = {} /\ ~overtaken[s]
  /\ poll[s] = "answered" /\ ~overtaken[s] =>
       \A d \in Devices : shown[d] \subseteq answer[s]

PollInv == \A s \in Slots : PollAt(s)

\* What is shown, and when there is nothing to show it of.
ShowInv ==
  /\ ShownIsOfWindow
  /\ load # "done" => listed = {}

LEMMA ShowStep ==
  ASSUME TypeOK, TypeOK', ShowInv, PollInv, [Next]_vars
  PROVE  ShowInv'
<1> USE DEF TypeOK, ShowInv, ShownIsOfWindow, Window, InWindow, Of
<1>1. CASE Unmount \/ Mount
  BY <1>1 DEF Unmount, Mount, Fresh, Nothing
<1>2. CASE Loading
  <2>1. listed = {} /\ rows' = rows /\ since' = since
    BY <1>2, LoaderStep
  <2>2. CASE UNCHANGED <<listed, shown>>
    BY <2>1, <2>2
  <2>3. CASE shown' = Nothing /\ load' = "done"
    BY <2>3 DEF Nothing
  <2> QED
    BY <1>2, <2>2, <2>3, LoaderStep
<1>3. ASSUME NEW s \in Slots, TakeIn(s) PROVE ShowInv'
  <2>1. answer[s] \subseteq Window
    BY DEF PollInv, PollAt
  <2> QED
    BY <1>3, <2>1 DEF TakeIn, server, loader
<1>4. ASSUME NEW s \in Slots, SendPoll(s) \/ AnswerPoll(s) \/ PollFails(s) PROVE ShowInv'
  BY <1>4 DEF SendPoll, AnswerPoll, PollFails, server, loader
<1>5. CASE Tick
  BY <1>5 DEF Tick, loader
<1>6. ASSUME NEW r \in Row, Store(r) PROVE ShowInv'
  BY <1>6 DEF Store, loader
<1>7. ASSUME NEW d \in Devices, Register(d) PROVE ShowInv'
  BY <1>7 DEF Register, loader
<1>8. CASE UNCHANGED vars
  BY <1>8 DEF vars, server, loader
<1> QED
  BY <1>1, <1>2, <1>3, <1>4, <1>5, <1>6, <1>7, <1>8 DEF Next

LEMMA PollStep ==
  ASSUME TypeOK, TypeOK', ShowInv, PollInv, [Next]_vars
  PROVE  PollInv'
<1> SUFFICES ASSUME NEW x \in Slots PROVE PollAt(x)'
  BY DEF PollInv
<1>0. PollAt(x)
  BY DEF PollInv
<1> USE <1>0 DEF TypeOK, PollAt, Window, InWindow
<1>1. CASE Unmount \/ Mount
  BY <1>1 DEF Unmount, Mount, Fresh, Nothing
<1>2. CASE Loading
  BY <1>2, LoaderStep DEF Nothing
<1>3. ASSUME NEW s \in Slots, TakeIn(s) PROVE PollAt(x)'
  <2>1. CASE x = s
    BY <1>3, <2>1 DEF TakeIn, Free, server, loader
  <2>2. CASE x # s
    BY <1>3, <2>2 DEF TakeIn, Free, server, loader
  <2> QED
    BY <2>1, <2>2
<1>4. ASSUME NEW s \in Slots, AnswerPoll(s) PROVE PollAt(x)'
  <2>1. \A d \in Devices : shown[d] \subseteq Window
    BY DEF ShowInv, ShownIsOfWindow, Of
  <2> QED
    BY <1>4, <2>1 DEF AnswerPoll, server, loader
<1>5. ASSUME NEW s \in Slots, SendPoll(s) PROVE PollAt(x)'
  BY <1>5 DEF SendPoll, server, loader
<1>6. ASSUME NEW s \in Slots, PollFails(s) PROVE PollAt(x)'
  BY <1>6 DEF PollFails, Free, server, loader
<1>7. CASE Tick
  BY <1>7 DEF Tick, loader, polls
<1>8. ASSUME NEW r \in Row, Store(r) PROVE PollAt(x)'
  BY <1>8 DEF Store, loader, polls
<1>9. ASSUME NEW d \in Devices, Register(d) PROVE PollAt(x)'
  BY <1>9 DEF Register, loader, polls
<1>10. CASE UNCHANGED vars
  BY <1>10 DEF vars, server, loader, polls
<1> QED
  BY <1>1, <1>2, <1>3, <1>4, <1>5, <1>6, <1>7, <1>8, <1>9, <1>10 DEF Next

ViewInv == ShowInv /\ PollInv

THEOREM Invariance == Spec => []ViewInv
<1>1. Init => ViewInv
  BY DEF Init, ViewInv, ShowInv, PollInv, PollAt, ShownIsOfWindow, Nothing
<1>2. TypeOK /\ TypeOK' /\ ViewInv /\ [Next]_vars => ViewInv'
  BY ShowStep, PollStep DEF ViewInv
<1> QED
  BY <1>1, <1>2, TypeCorrect, PTL DEF Spec

\* What is shown was measured in the window of the mount (Measurements.tsx).
THEOREM ShownIsInWindow == Spec => []ShownIsOfWindow
  BY Invariance, PTL DEF ViewInv, ShowInv

-----------------------------------------------------------------------------
\* An answer that no other has overtaken holds all that is shown.
LEMMA NothingVanishes ==
  ASSUME TypeOK, ViewInv, [Next]_vars, open, open', ~LateAnswer
  PROVE  \A d \in Devices : shown[d] \subseteq shown'[d]
<1> USE DEF TypeOK
<1> SUFFICES ASSUME NEW d \in Devices PROVE shown[d] \subseteq shown'[d]
  OBVIOUS
<1>1. ASSUME NEW s \in Slots, TakeIn(s) PROVE shown[d] \subseteq shown'[d]
  <2>1. ~overtaken[s]
    BY <1>1 DEF LateAnswer, TakeIn, Free
  <2>2. shown[d] \subseteq answer[s]
    BY <1>1, <2>1 DEF ViewInv, PollInv, PollAt, TakeIn
  <2>3. shown[d] \subseteq Of(d, Window) /\ (shown[d] # {} => d \in listed)
    BY DEF ViewInv, ShowInv, ShownIsOfWindow
  <2> QED
    BY <1>1, <2>2, <2>3 DEF TakeIn, Of
<1>2. CASE Loading
  <2>1. listed = {}
    BY <1>2, LoaderStep DEF ViewInv, ShowInv
  <2>2. shown[d] = {}
    BY <2>1 DEF ViewInv, ShowInv, ShownIsOfWindow
  <2> QED
    BY <2>2
<1>3. ~Unmount /\ ~Mount
  BY DEF Unmount, Mount
<1>4. CASE UNCHANGED shown
  BY <1>4
<1> QED
  BY <1>1, <1>2, <1>3, <1>4 DEF Next, SendPoll, AnswerPoll, PollFails, Tick, Store,
     Register, vars

\* While the component is mounted nothing vanishes but by an overtaken answer
\* (the poll of Measurements.tsx).
THEOREM LossIsOverlap == Spec => LostOnlyToOverlap
<1>1. TypeOK /\ ViewInv /\ [Next]_vars =>
        [open /\ open' /\ ~LateAnswer =>
           \A d \in Devices : shown[d] \subseteq shown'[d]]_vars
  BY NothingVanishes
<1> QED
  BY <1>1, TypeCorrect, Invariance, PTL DEF Spec, LostOnlyToOverlap

\* Among any of the rows there is an oldest: rows are added one at a time.
OldestInv == \A S \in SUBSET rows : S # {} => \E r \in S : \A q \in S : r[2] <= q[2]

LEMMA Oldest == Spec => []OldestInv
<1>1. Init => OldestInv
  BY DEF Init, OldestInv
<1>2. ASSUME TypeOK, OldestInv, [Next]_vars PROVE OldestInv'
  <2>1. ASSUME NEW new \in Row, Store(new) PROVE OldestInv'
    <3> SUFFICES ASSUME NEW S \in SUBSET rows', S # {}
                 PROVE  \E r \in S : \A q \in S : r[2] <= q[2]
      BY DEF OldestInv
    <3>1. rows' = rows \union {new}
      BY <2>1 DEF Store
    <3>2. \A r \in S : r[2] \in Int
      BY <1>2, <3>1, ViewerAssumption DEF TypeOK, Row
    <3>3. CASE S \ {new} = {}
      BY <3>2, <3>3
    <3>4. CASE S \ {new} # {}
      <4>1. PICK r \in S \ {new} : \A q \in S \ {new} : r[2] <= q[2]
        BY <1>2, <3>1, <3>4 DEF OldestInv
      <4>2. CASE new \in S /\ new[2] <= r[2]
        BY <3>2, <4>1, <4>2
      <4>3. CASE ~(new \in S /\ new[2] <= r[2])
        BY <3>2, <4>1, <4>3
      <4> QED
        BY <4>2, <4>3
    <3> QED
      BY <3>3, <3>4
  <2>2. CASE Loading
    BY <1>2, <2>2, LoaderStep DEF OldestInv
  <2>3. CASE UNCHANGED rows
    BY <1>2, <2>3 DEF OldestInv
  <2> QED
    BY <1>2, <2>1, <2>2, <2>3 DEF Next, Mount, Unmount, SendPoll, AnswerPoll, PollFails,
       TakeIn, Tick, Register, server, vars
<1> QED
  BY <1>1, <1>2, TypeCorrect, PTL DEF Spec

\* A marker stays with the oldest row, or moves back to an older one (Map.tsx).
THEOREM MarkersStay == Spec => MarkerNeverAdvances
<1>1. ASSUME TypeOK, TypeOK', ViewInv, OldestInv, OldestInv', [Next]_vars,
             open, open', ~LateAnswer,
             NEW d \in Devices, shown[d] # {}
      PROVE  Marker(d)'[2] <= Marker(d)[2]
  <2>1. shown[d] \subseteq shown'[d]
    BY <1>1, NothingVanishes
  <2>2. \A r \in shown'[d] : r[2] \in Nat
    BY <1>1, ViewerAssumption DEF TypeOK, Row
  <2>3. Marker(d) \in shown[d]
    <3>1. \E r \in shown[d] : \A q \in shown[d] : r[2] <= q[2]
      BY <1>1 DEF OldestInv, TypeOK
    <3> QED
      BY <3>1 DEF Marker
  <2>4. \A q \in shown'[d] : Marker(d)'[2] <= q[2]
    <3>1. \E r \in shown'[d] : \A q \in shown'[d] : r[2] <= q[2]
      BY <1>1, <2>1 DEF OldestInv, TypeOK
    <3> QED
      BY <3>1 DEF Marker
  <2> QED
    BY <2>1, <2>3, <2>4
<1>2. TypeOK /\ TypeOK' /\ ViewInv /\ OldestInv /\ OldestInv' /\ [Next]_vars =>
        [open /\ open' /\ ~LateAnswer =>
           \A d \in Devices : shown[d] # {} => Marker(d)'[2] <= Marker(d)[2]]_vars
  BY <1>1
<1> QED
  BY <1>2, TypeCorrect, Invariance, Oldest, PTL DEF Spec, MarkerNeverAdvances

-----------------------------------------------------------------------------
\* One of the names that are to be looked up cannot be.
BlockInv ==
  open /\ blocked =>
    /\ places \intersect Awkward # {}
    /\ listed = {}
    /\ load # "done"
    /\ load = "places" => todo \intersect Awkward # {}

\* While such a name is there nothing is listed (the loader of Measurements.tsx).
THEOREM OneNameBlanks == Spec => []OneNameBlanksAll
<1>1. Init => BlockInv
  BY DEF Init, BlockInv
<1>2. ASSUME TypeOK, BlockInv, [Next]_vars PROVE BlockInv'
  <2> USE <1>2 DEF BlockInv, TypeOK
  <2>1. CASE Unmount \/ Mount
    BY <2>1 DEF Unmount, Mount, Fresh, server
  <2>2. CASE ListDevices
    BY <2>2 DEF ListDevices, server
  <2>3. CASE LoadFails
    BY <2>3 DEF LoadFails, server
  <2>4. ASSUME NEW d \in Devices, FindPlace(d) PROVE BlockInv'
    BY <2>4 DEF FindPlace, server
  <2>5. ASSUME NEW s \in Slots, SendPoll(s) \/ AnswerPoll(s) \/ PollFails(s) \/ TakeIn(s)
        PROVE  BlockInv'
    BY <2>5 DEF SendPoll, AnswerPoll, PollFails, TakeIn, server, loader
  <2>6. CASE Tick
    BY <2>6 DEF Tick, loader
  <2>7. ASSUME NEW r \in Row, Store(r) PROVE BlockInv'
    BY <2>7 DEF Store, loader
  <2>8. ASSUME NEW d \in Devices, Register(d) PROVE BlockInv'
    BY <2>8 DEF Register, loader
  <2>9. CASE UNCHANGED vars
    BY <2>9 DEF vars, server, loader
  <2> QED
    BY <2>1, <2>2, <2>3, <2>4, <2>5, <2>6, <2>7, <2>8, <2>9 DEF Next, Loading
<1>3. BlockInv => OneNameBlanksAll
  BY DEF BlockInv, OneNameBlanksAll
<1> QED
  BY <1>1, <1>2, <1>3, TypeCorrect, PTL DEF Spec
=============================================================================
