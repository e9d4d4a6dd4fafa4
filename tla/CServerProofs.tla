---------------------------- MODULE CServerProofs ----------------------------
(***************************************************************************)
(* Proofs about CServer, for any set of clients, any shapes of what they   *)
(* send and any numbers of descriptors and connection slots.               *)
(***************************************************************************)
EXTENDS CServer, FiniteSetTheorems, TLAPS

(***************************************************************************)
(* The inductive invariant.  TypeOK is not inductive alone: that a thread  *)
(* stores values at all rests on what it has made of its bytes.            *)
(***************************************************************************)

\* What the thread of c has heard, stored and answered at each point.
ThreadAt(c) ==
  /\ pc[c] = "route" => heard[c] # "none"
  /\ pc[c] \in {"connect", "query"} => heard[c] \in Understood
  /\ ~IsPost(c) => heard[c] \notin {"noauth", "unset"}
  /\ pc[c] \notin {"send", "done"} => ~Stored(c) /\ status[c] = "none"
  /\ IsPost(c) /\ status[c] = "200" => Stored(c)
  /\ IsPost(c) /\ status[c] \in {"400", "403", "404", "raw"} => ~Stored(c)

\* The descriptors and connections of c at each point, and what c was served.
HoldAt(c) ==
  /\ pc[c] \in {"new", "backlog"} => c \notin fd
  /\ pc[c] \in {"recv", "route", "connect", "query", "send"} => c \in fd
  /\ pc[c] \in {"new", "backlog", "recv", "route", "connect"} => c \notin conn
  /\ pc[c] = "query" => c \in conn
  /\ IsPost(c) /\ pc[c] = "send" /\ status[c] = "200" => c \in conn
  /\ ~up => c \notin fd \union conn /\ pc[c] \in {"new", "done"}
  /\ c \in served => c \in conn /\ pc[c] = "done"

ThreadInv == \A c \in Client : ThreadAt(c)
HoldInv == \A c \in Client : HoldAt(c)

BoundInv ==
  /\ IsFiniteSet(fd) /\ IsFiniteSet(conn)
  /\ Cardinality(conn) <= MaxConn
  /\ Descriptors <= MaxFds

IInv == TypeOK /\ ThreadInv /\ HoldInv /\ BoundInv

LEMMA InitIInv == Init => IInv
<1> SUFFICES ASSUME Init PROVE IInv
  OBVIOUS
<1>1. TypeOK
  BY MaxRestartsAssumption DEF Init, TypeOK, PCs, Hearings, Statuses
<1>2. ThreadInv /\ HoldInv
  BY DEF Init, ThreadInv, ThreadAt, HoldInv, HoldAt, Stored
<1>3. BoundInv
  BY FS_EmptySet, MaxConnAssumption, MaxFdsAssumption DEF Init, BoundInv, Descriptors
<1> QED
  BY <1>1, <1>2, <1>3 DEF IInv

\* Every step keeps the types and what each thread has done.
LEMMA ThreadStep ==
  ASSUME TypeOK, ThreadInv, HoldInv, [Next]_vars
  PROVE  TypeOK' /\ ThreadInv' /\ HoldInv'
<1> DEFINE Good == TypeOK' /\ ThreadInv' /\ HoldInv'
<1> USE DEF TypeOK, PCs, Hearings, Refused, Understood, Statuses, ThreadInv, ThreadAt, HoldInv, HoldAt,
            Goto, Kind, IsPost, Stored, resources, process
<1>1. ASSUME NEW c \in Client, Arrive(c) PROVE Good
  BY <1>1 DEF Arrive, Acked
<1>2. ASSUME NEW c \in Client, Accept(c) PROVE Good
  <2>1. up
    BY <1>2 DEF Accept
  <2>2. TypeOK' /\ ThreadInv'
    BY <1>2 DEF Accept
  <2>3. ASSUME NEW q \in Client PROVE HoldAt(q)'
    BY <1>2, <2>1, <2>3 DEF Accept
  <2> QED
    BY <2>2, <2>3
<1>3. ASSUME NEW c \in Client, ReceiveNothing(c) PROVE Good
  BY <1>3 DEF ReceiveNothing
<1>4. ASSUME NEW c \in Client, Serve(c) PROVE Good
  <2>1. CASE Receive(c)
    <3>1. PICK what : /\ what \in Sent(c) \/ what \in Garbled(c)
                      /\ heard' = [heard EXCEPT ![c] = what]
      BY <2>1 DEF Receive
    <3>2. /\ what \in Hearings \ {"none"}
          /\ ~IsPost(c) => what \notin {"noauth", "unset"}
      BY <3>1 DEF Garbled, Sent, Body, Stray
    <3> QED
      BY <2>1, <3>1, <3>2 DEF Receive
  <2>2. CASE Refuse(c)
    <3>1. Refusal(c) \in {"raw", "404", "403", "400"}
      BY <2>2 DEF Refuse, Refusal
    <3> QED
      BY <2>2, <3>1 DEF Refuse, Answer
  <2>3. CASE Proceed(c)
    <3>1. heard[c] \in Understood
      BY <2>3 DEF Proceed
    <3> QED
      BY <2>3, <3>1 DEF Proceed
  <2>4. CASE Crash(c) \/ CrashUnset(c)
    <3>1. End
      BY <2>4 DEF Crash, CrashUnset
    <3> QED
      BY <3>1 DEF End
  <2>5. CASE Connect(c)
    BY <2>5 DEF Connect
  <2>6. CASE ConnectFails(c)
    BY <2>6 DEF ConnectFails, Answer
  <2>7. CASE Write(c)
    BY <2>7 DEF Write, Answer, Insert
  <2>8. CASE WriteRejected(c)
    BY <2>8 DEF WriteRejected, Answer
  <2>9. CASE WriteBreaks(c)
    BY <2>9 DEF WriteBreaks, Answer, Insert
  <2>10. CASE Read(c)
    <3>1. PICK rows \in SUBSET Client : fetched' = [fetched EXCEPT ![c] = rows]
      BY <2>10 DEF Read, Selected
    <3> QED
      BY <2>10, <3>1 DEF Read, Answer
  <2>11. CASE ReadFails(c)
    BY <2>11 DEF ReadFails, Answer
  <2>12. CASE Send(c)
    BY <2>12 DEF Send, FromDatabase
  <2> QED
    BY <1>4, <2>1, <2>2, <2>3, <2>4, <2>5, <2>6, <2>7, <2>8, <2>9, <2>10,
       <2>11, <2>12 DEF Serve
<1>5. CASE Interrupt
  BY <1>5 DEF Interrupt, End
<1>6. CASE Start
  BY <1>6, MaxRestartsAssumption DEF Start
<1>7. CASE UNCHANGED vars
  BY <1>7 DEF vars
<1> QED
  BY <1>1, <1>2, <1>3, <1>4, <1>5, <1>6, <1>7 DEF Next

\* Only Accept and Connect take descriptors, and both look first.
LEMMA BoundStep ==
  ASSUME TypeOK, HoldInv, BoundInv, [Next]_vars
  PROVE  BoundInv'
<1> USE DEF BoundInv, Descriptors, resources
<1>0. Cardinality(fd) \in Nat /\ Cardinality(conn) \in Nat
  BY FS_CardinalityType
<1>1. ASSUME fd' \subseteq fd, conn' \subseteq conn PROVE BoundInv'
  <2>1. /\ IsFiniteSet(fd') /\ Cardinality(fd') <= Cardinality(fd)
        /\ IsFiniteSet(conn') /\ Cardinality(conn') <= Cardinality(conn)
    BY <1>1, FS_Subset
  <2>2. Cardinality(fd') \in Nat /\ Cardinality(conn') \in Nat
    BY <2>1, FS_CardinalityType
  <2> QED
    BY <1>0, <2>1, <2>2, MaxConnAssumption, MaxFdsAssumption
<1>2. ASSUME NEW c \in Client, Accept(c) PROVE BoundInv'
  <2>1. c \notin fd /\ fd' = fd \union {c} /\ conn' = conn
    BY <1>2 DEF Accept, HoldInv, HoldAt
  <2>2. IsFiniteSet(fd') /\ Cardinality(fd') = Cardinality(fd) + 1
    BY <2>1, FS_AddElement
  <2> QED
    BY <1>0, <1>2, <2>1, <2>2, MaxFdsAssumption DEF Accept
<1>3. ASSUME NEW c \in Client, Connect(c) PROVE BoundInv'
  <2>1. c \notin conn /\ conn' = conn \union {c} /\ fd' = fd
    BY <1>3 DEF Connect, HoldInv, HoldAt
  <2>2. IsFiniteSet(conn') /\ Cardinality(conn') = Cardinality(conn) + 1
    BY <2>1, FS_AddElement
  <2> QED
    BY <1>0, <1>3, <2>1, <2>2, MaxConnAssumption, MaxFdsAssumption DEF Connect
<1>4. ASSUME NEW c \in Client, Serve(c), ~Connect(c) PROVE BoundInv'
  <2>1. fd' \subseteq fd /\ conn' \subseteq conn
    BY <1>4 DEF Serve, Receive, Refuse, Proceed, Crash, CrashUnset, End, ConnectFails, Write,
       WriteRejected, WriteBreaks, Read, ReadFails, Send
  <2> QED
    BY <1>1, <2>1
<1>5. ASSUME NEW c \in Client, Arrive(c) \/ ReceiveNothing(c) PROVE BoundInv'
  BY <1>1, <1>5 DEF Arrive, ReceiveNothing
<1>6. CASE Interrupt \/ Start \/ UNCHANGED vars
  BY <1>1, <1>6 DEF Interrupt, End, Start, vars
<1> QED
  BY <1>2, <1>3, <1>4, <1>5, <1>6 DEF Next

\* The invariant that the theorems rest on.
THEOREM Invariance == Spec => []IInv
<1>1. IInv /\ [Next]_vars => IInv'
  BY ThreadStep, BoundStep DEF IInv
<1> QED
  BY <1>1, InitIInv, PTL DEF Spec

\* The variables keep their types (handle_client.c).
THEOREM TypeCorrect == Spec => []TypeOK
<1>1. IInv => TypeOK
  BY DEF IInv
<1> QED
  BY <1>1, Invariance, PTL

\* The status a writer gets is the truth about its row, however its bytes came in
\* and whatever the database did (_handle_post_request).
THEOREM StatusIsTruth == Spec => []StatusTellsTruth
<1>1. IInv => StatusTellsTruth
  BY DEF IInv, ThreadInv, ThreadAt, StatusTellsTruth
<1> QED
  BY <1>1, Invariance, PTL

\* Answers out of the database and silent clients use the process up
\* (handle_client, _database.c).
THEOREM ServiceIsBounded == Spec => []ServiceBound
<1>1. IInv => ServiceBound
  <2> SUFFICES ASSUME IInv PROVE ServiceBound
    OBVIOUS
  <2> USE DEF IInv, BoundInv, Descriptors
  <2>1. served \subseteq conn /\ Forgotten \subseteq fd
    BY DEF HoldInv, HoldAt, Forgotten, TypeOK
  <2>2. /\ IsFiniteSet(served) /\ Cardinality(served) <= Cardinality(conn)
        /\ IsFiniteSet(Forgotten) /\ Cardinality(Forgotten) <= Cardinality(fd)
    BY <2>1, FS_Subset
  <2>3. /\ Cardinality(served) \in Nat /\ Cardinality(conn) \in Nat
        /\ Cardinality(Forgotten) \in Nat /\ Cardinality(fd) \in Nat
    BY <2>2, FS_CardinalityType
  <2> QED
    BY <2>2, <2>3, MaxConnAssumption, MaxFdsAssumption DEF ServiceBound
<1> QED
  BY <1>1, Invariance, PTL

\* A database whose slots are all spent serves nobody as long as the process lives
\* (insert_PMS5003_measurement, get_PMS5003_measurements).
THEOREM FullDatabaseIsMute == Spec => FullDatabaseMute
<1> DEFINE Mute == Spent /\ up' =>
                     Spent' /\ \A c \in Client : status'[c] = "200" => status[c] = "200"
<1>1. IInv /\ [Next]_vars => Mute
  <2> SUFFICES ASSUME IInv, [Next]_vars, Spent, up'
               PROVE  Spent' /\ \A c \in Client : status'[c] = "200" => status[c] = "200"
    OBVIOUS
  <2> USE DEF IInv, TypeOK, Spent, Goto, resources
  <2>1. \A c \in Client : pc[c] # "query"
    BY DEF HoldInv, HoldAt
  <2>2. \A c \in Client : ~Connect(c)
    BY MaxConnAssumption DEF Connect
  <2>3. ASSUME conn' = conn,
               \A c \in conn : pc[c] \in {"send", "done"} => pc'[c] \in {"send", "done"},
               \A c \in Client : status'[c] = "200" => status[c] = "200"
        PROVE  Spent' /\ \A c \in Client : status'[c] = "200" => status[c] = "200"
    BY <2>3
  <2>4. ASSUME NEW c \in Client, Serve(c)
        PROVE  Spent' /\ \A q \in Client : status'[q] = "200" => status[q] = "200"
    <3>1. CASE Refuse(c)
      <4>1. Refusal(c) # "200"
        BY DEF Refusal
      <4> QED
        BY <2>3, <3>1, <4>1 DEF Refuse, Answer
    <3>2. CASE Receive(c) \/ Proceed(c) \/ ConnectFails(c) \/ Send(c)
      BY <2>3, <3>2 DEF Receive, Proceed, ConnectFails, Answer, Send
    <3>3. CASE Crash(c) \/ CrashUnset(c)
      BY <3>3 DEF Crash, CrashUnset, End
    <3>4. CASE Write(c) \/ WriteRejected(c) \/ WriteBreaks(c) \/ Read(c) \/ ReadFails(c)
      BY <2>1, <3>4 DEF Write, WriteRejected, WriteBreaks, Read, ReadFails
    <3> QED
      BY <2>2, <2>4, <3>1, <3>2, <3>3, <3>4 DEF Serve
  <2>5. ASSUME NEW c \in Client, Arrive(c) \/ Accept(c) \/ ReceiveNothing(c)
        PROVE  Spent' /\ \A q \in Client : status'[q] = "200" => status[q] = "200"
    BY <2>3, <2>5 DEF Arrive, Accept, ReceiveNothing
  <2>6. ~Interrupt
    BY DEF Interrupt, End
  <2>7. CASE Start \/ UNCHANGED vars
    BY <2>3, <2>7 DEF Start, vars
  <2> QED
    BY <2>4, <2>5, <2>6, <2>7 DEF Next
<1> QED
  BY <1>1, Invariance, PTL DEF Spec, FullDatabaseMute

-----------------------------------------------------------------------------
(***************************************************************************)
(* CServer implements MeasurementStore if reads do not fail, however       *)
(* requests are cut and whatever leftovers make of them.                   *)
(***************************************************************************)
Phases == [c \in Client |-> PhaseOf(pc[c])]
Outcomes == [c \in Client |-> OutcomeOf(c)]
Rows == {c \in Client : row[c] = "right"}
Writers == {c \in Client : IsPost(c)}
Wants == [g \in Client |-> {p \in Client : Matches(p, g)}]
Known == [g \in Client |-> {p \in seen[g] : Meant(p)}]
View == [g \in Client |-> IF Meant(g) THEN fetched[g] ELSE {}]

\* What is stored for a client that was heard right is what it sent, nothing right
\* is stored for another, and a read heard right that is to be answered has fetched
\* what had been acknowledged to clients heard right when it arrived.
HeardAt(c) ==
  /\ row[c] = "right" => heard[c] = "right" /\ IsPost(c)
  /\ row[c] = "wrong" => heard[c] # "right"
  /\ pc[c] \in {"new", "backlog", "recv"} => heard[c] = "none"
  /\ pc[c] \notin {"send", "done"} => fetched[c] = {}
  /\ seen[c] \subseteq Acked
  /\ ~IsPost(c) /\ status[c] = "200" /\ heard[c] = "right" =>
       Known[c] \intersect Wants[c] \subseteq fetched[c]

HeardInv == \A c \in Client : HeardAt(c)

\* Acknowledged is acknowledged, and what a client sent never changes.
LEMMA AckedStays ==
  ASSUME TypeOK, [Next]_vars
  PROVE  /\ Acked \subseteq Acked' /\ Wants' = Wants /\ Writers' = Writers
         /\ shape' = shape
         /\ \A c \in Client : pc[c] = "done" =>
              /\ pc'[c] = "done" /\ status'[c] = status[c]
              /\ heard'[c] = heard[c] /\ row'[c] = row[c]
<1> USE DEF TypeOK, Goto, Answer, Insert
<1>1. shape' = shape
  BY DEF Next, Arrive, Accept, ReceiveNothing, Serve, Receive, Refuse, Proceed,
     Crash, CrashUnset, Connect, ConnectFails, Write, WriteRejected, WriteBreaks,
     Read, ReadFails, Send, Interrupt, End, Start, vars
<1>2. ASSUME NEW c \in Client, pc[c] = "done"
      PROVE  /\ pc'[c] = "done" /\ status'[c] = status[c]
             /\ heard'[c] = heard[c] /\ row'[c] = row[c]
  <2>1. ASSUME NEW d \in Client, Serve(d)
        PROVE  /\ pc'[c] = "done" /\ status'[c] = status[c]
               /\ heard'[c] = heard[c] /\ row'[c] = row[c]
    BY <1>2, <2>1 DEF Serve, Receive, Refuse, Proceed, Crash, CrashUnset, Connect,
       ConnectFails, Write, WriteRejected, WriteBreaks, Read, ReadFails, Send, End
  <2>2. ASSUME NEW d \in Client, Arrive(d) \/ Accept(d) \/ ReceiveNothing(d)
        PROVE  /\ pc'[c] = "done" /\ status'[c] = status[c]
               /\ heard'[c] = heard[c] /\ row'[c] = row[c]
    BY <1>2, <2>2 DEF Arrive, Accept, ReceiveNothing
  <2>3. CASE Interrupt \/ Start \/ UNCHANGED vars
    BY <1>2, <2>3 DEF Interrupt, End, Start, vars
  <2> QED
    BY <2>1, <2>2, <2>3 DEF Next
<1> QED
  BY <1>1, <1>2 DEF Acked, Wants, Writers, Matches, IsPost, Kind

\* What a reader was told of writers stays what it was.
LEMMA KnownStays ==
  ASSUME TypeOK, HeardInv, [Next]_vars, NEW g \in Client, seen'[g] = seen[g]
  PROVE  Known'[g] = Known[g]
<1>1. \A p \in seen[g] : p \in Client /\ heard'[p] = heard[p]
  BY AckedStays DEF TypeOK, HeardInv, HeardAt, Acked
<1> QED
  BY <1>1 DEF Known, Meant

LEMMA HeardStep ==
  ASSUME "read" \notin Faults, TypeOK, ThreadInv, HeardInv, [Next]_vars
  PROVE  HeardInv'
<1> SUFFICES ASSUME NEW g \in Client PROVE HeardAt(g)'
  BY DEF HeardInv
<1> USE DEF TypeOK, HeardInv, HeardAt, Goto, Stored
<1>0. /\ Acked \subseteq Acked' /\ Wants' = Wants
      /\ \A c \in Client : IsPost(c)' = IsPost(c)
  BY AckedStays DEF IsPost, Kind
<1> USE <1>0
<1>1. ASSUME row'[g] = row[g], seen'[g] = seen[g], fetched'[g] = fetched[g],
             heard'[g] = heard[g],
             pc'[g] = pc[g] \/ pc'[g] \notin {"new", "backlog", "recv"}
               \/ (pc[g] \in {"new", "backlog", "recv"}),
             pc'[g] \in {"send", "done"} \/ pc[g] \notin {"send", "done"},
             status'[g] = status[g] \/ status'[g] # "200"
      PROVE  HeardAt(g)'
  <2>1. Known'[g] = Known[g]
    BY <1>1, KnownStays
  <2> QED
    BY <1>1, <2>1
<1>2. ASSUME NEW c \in Client, Arrive(c) PROVE HeardAt(g)'
  <2>1. CASE c = g
    BY <1>2, <2>1 DEF Arrive, ThreadInv, ThreadAt
  <2>2. CASE c # g
    BY <1>1, <1>2, <2>2 DEF Arrive
  <2> QED
    BY <2>1, <2>2
<1>3. ASSUME NEW c \in Client, Receive(c) PROVE HeardAt(g)'
  <2>1. CASE c = g
    BY <1>3, <2>1 DEF Receive, ThreadInv, ThreadAt
  <2>2. CASE c # g
    BY <1>1, <1>3, <2>2 DEF Receive
  <2> QED
    BY <2>1, <2>2
<1>4. ASSUME NEW c \in Client, Refuse(c) PROVE HeardAt(g)'
  <2>1. Refusal(c) # "200"
    BY DEF Refusal
  <2> QED
    BY <1>1, <1>4, <2>1 DEF Refuse, Answer
<1>5. ASSUME NEW c \in Client, Write(c) \/ WriteBreaks(c) PROVE HeardAt(g)'
  <2>1. CASE c = g
    BY <1>5, <2>1 DEF Write, WriteBreaks, Answer, Insert, ThreadInv, ThreadAt, Understood
  <2>2. CASE c # g
    BY <1>1, <1>5, <2>2 DEF Write, WriteBreaks, Answer, Insert
  <2> QED
    BY <2>1, <2>2
<1>6. ASSUME NEW c \in Client, Read(c) PROVE HeardAt(g)'
  <2>1. CASE c = g
    <3>1. ASSUME heard[g] = "right" PROVE Known[g] \intersect Wants[g] \subseteq fetched'[g]
      <4>1. fetched'[g] = Selected(g)
        BY <1>6, <2>1, <3>1 DEF Read
      <4>2. ASSUME NEW p \in Known[g] \intersect Wants[g] PROVE p \in Selected(g)
        <5>1. p \in Client /\ Matches(p, g) /\ heard[p] = "right" /\ p \in Acked
          BY DEF Known, Wants, Meant
        <5>2. row[p] = "right"
          BY <5>1 DEF Acked, ThreadInv, ThreadAt
        <5> QED
          BY <5>1, <5>2 DEF Selected
      <4> QED
        BY <4>1, <4>2
    <3>2. Known'[g] = Known[g]
      BY <1>6, KnownStays DEF Read
    <3> QED
      BY <1>6, <2>1, <3>1, <3>2 DEF Read, Answer
  <2>2. CASE c # g
    BY <1>1, <1>6, <2>2 DEF Read, Answer
  <2> QED
    BY <2>1, <2>2
<1>7. ASSUME NEW c \in Client,
             Proceed(c) \/ Connect(c) \/ ConnectFails(c) \/ WriteRejected(c) \/ Send(c)
               \/ Accept(c) \/ ReceiveNothing(c)
      PROVE  HeardAt(g)'
  BY <1>1, <1>7 DEF Proceed, Connect, ConnectFails, WriteRejected, Send, Accept,
     ReceiveNothing, Answer
<1>8. CASE End \/ Start \/ UNCHANGED vars
  BY <1>1, <1>8 DEF End, Start, vars
<1> QED
  BY <1>2, <1>3, <1>4, <1>5, <1>6, <1>7, <1>8
  DEF Next, Serve, Crash, CrashUnset, Interrupt, ReadFails

\* Clients that are left without an answer, or with one that tells them nothing,
\* end in doubt.
LEMMA DoubtStep ==
  ASSUME TypeOK, NEW lost \in SUBSET Client,
         \A c \in lost : pc[c] \notin {"new", "done"},
         \A c \in Client : pc'[c] = IF c \in lost THEN "done" ELSE pc[c],
         \A c \in lost : OutcomeOf(c)' = "doubt",
         \A c \in Client \ lost : OutcomeOf(c)' = OutcomeOf(c),
         pc' \in [Client -> PCs], Wants' = Wants, Writers' = Writers,
         Known' = Known, View' = View, row' = row
  PROVE  Store!Next
<1>1. \A c \in Client :
        /\ PhaseOf(pc'[c]) = IF c \in lost THEN "closed" ELSE Phases[c]
        /\ OutcomeOf(c)' = IF c \in lost THEN "doubt" ELSE Outcomes[c]
  BY DEF Phases, Outcomes, PhaseOf
<1>2. /\ Phases' = [c \in Client |-> IF c \in lost THEN "closed" ELSE Phases[c]]
      /\ Outcomes' = [c \in Client |-> IF c \in lost THEN "doubt" ELSE Outcomes[c]]
  BY <1>1, Zenon DEF Phases, Outcomes
<1>3. \A c \in lost : Phases[c] = "open"
  BY DEF Phases, PhaseOf
<1>4. Rows' = Rows
  BY DEF Rows
<1>5. \E late \in SUBSET (lost \intersect Writers) : Rows' = Rows \union late
  <2>1. {} \in SUBSET (lost \intersect Writers) /\ Rows' = Rows \union {}
    BY <1>4
  <2> QED
    BY <2>1
<1>6. Store!Fail(lost)
  BY <1>2, <1>3, <1>5 DEF Store!Fail, Phases, Outcomes, Rows, Writers, Wants, Known, View
<1> QED
  BY <1>6 DEF Store!Next

\* The end of one thread, as the store sees it.
LEMMA ClosedStep ==
  ASSUME TypeOK, NEW c \in Client, pc' = [pc EXCEPT ![c] = "done"], status' = status,
         heard' = heard
  PROVE  \A how : OutcomeOf(c)' = how =>
           /\ Phases' = [Phases EXCEPT ![c] = "closed"]
           /\ Outcomes' = [Outcomes EXCEPT ![c] = how]
<1> TAKE how
<1> HAVE OutcomeOf(c)' = how
<1>1. \A d \in Client : /\ PhaseOf(pc'[d]) = IF d = c THEN "closed" ELSE Phases[d]
                        /\ OutcomeOf(d)' = IF d = c THEN how ELSE Outcomes[d]
  BY DEF TypeOK, Phases, Outcomes, PhaseOf, OutcomeOf, Meant
<1>2. Phases' = [Phases EXCEPT ![c] = "closed"]
  BY <1>1, Zenon DEF Phases
<1>3. Outcomes' = [Outcomes EXCEPT ![c] = how]
  BY <1>1, Zenon DEF Outcomes
<1> QED
  BY <1>2, <1>3

\* Unless reads fail, every step is a step of the store, or none.
LEMMA StoreStep ==
  ASSUME "read" \notin Faults, TypeOK, ThreadInv, HeardInv, [Next]_vars, TypeOK'
  PROVE  [Store!Next]_(Store!vars)
<1> USE DEF TypeOK, Goto
<1>0. Wants' = Wants /\ Writers' = Writers /\ shape' = shape
  BY AckedStays
<1>1. ASSUME NEW c \in Client, pc[c] \notin {"new", "done"},
             pc'[c] \notin {"new", "done"}, \A d \in Client : d # c => pc'[d] = pc[d],
             \A d \in Client : d # c => status'[d] = status[d]
      PROVE  Phases' = Phases /\ Outcomes' = Outcomes /\ Phases[c] = "open"
  <2>1. \A d \in Client : PhaseOf(pc'[d]) = PhaseOf(pc[d]) /\ OutcomeOf(d)' = OutcomeOf(d)
    BY <1>1, AckedStays DEF PhaseOf, OutcomeOf, Meant
  <2>2. Phases' = Phases /\ Outcomes' = Outcomes
    BY <2>1, Zenon DEF Phases, Outcomes
  <2> QED
    BY <1>1, <2>2 DEF Phases, PhaseOf
<1>2. ASSUME seen' = seen PROVE Known' = Known
  <2>1. \A g \in Client : Known'[g] = Known[g]
    BY <1>2, KnownStays
  <2> QED
    BY <2>1 DEF Known
<1>3. ASSUME fetched' = fetched, heard' = heard PROVE View' = View
  BY <1>3 DEF View, Meant
<1>4. ASSUME Rows' = Rows, Known' = Known, View' = View, Phases' = Phases,
             Outcomes' = Outcomes
      PROVE  UNCHANGED Store!vars
  BY <1>0, <1>4 DEF Store!vars, Rows, Phases, Outcomes, Writers, Wants, Known, View
<1>5. ASSUME NEW c \in Client, Arrive(c) PROVE Store!Next
  <2>1. \A d \in Client : /\ PhaseOf(pc'[d]) = IF d = c THEN "open" ELSE Phases[d]
                          /\ OutcomeOf(d)' = Outcomes[d]
    BY <1>5 DEF Arrive, Phases, Outcomes, PhaseOf, OutcomeOf, Meant
  <2>2. Phases' = [Phases EXCEPT ![c] = "open"] /\ Outcomes' = Outcomes
    BY <2>1, Zenon DEF Phases, Outcomes
  <2>3. Phases[c] = "new"
    BY <1>5 DEF Arrive, Phases, PhaseOf
  <2>4. {p \in Acked : Meant(p)} = {p \in Writers : Outcomes[p] = "acked"}
    BY DEF Acked, Writers, Outcomes, OutcomeOf, Statuses
  <2>5. \A g \in Client : Known'[g] = IF g = c THEN {p \in Acked : Meant(p)} ELSE Known[g]
    BY <1>5 DEF Arrive, Known, Meant
  <2>6. Known' = [Known EXCEPT ![c] = {p \in Acked : Meant(p)}]
    BY <2>5, Zenon DEF Known
  <2>7. View' = View /\ Rows' = Rows
    BY <1>3, <1>5 DEF Arrive, Rows
  <2>8. Store!Open(c)
    BY <1>0, <2>2, <2>3, <2>4, <2>6, <2>7
    DEF Store!Open, Store!Acknowledged, Phases, Outcomes, Rows, Writers, Wants, Known, View
  <2> QED
    BY <2>8 DEF Store!Next
<1>6. ASSUME NEW c \in Client, Receive(c) PROVE UNCHANGED Store!vars
  <2>1. fetched[c] = {} /\ fetched' = fetched
    BY <1>6 DEF Receive, HeardInv, HeardAt
  <2>2. \A g \in Client : (IF Meant(g)' THEN fetched'[g] ELSE {}) = View[g]
    BY <1>6, <2>1 DEF Receive, View, Meant
  <2>3. View' = View
    BY <2>2, Zenon DEF View
  <2>4. Phases' = Phases /\ Outcomes' = Outcomes
    BY <1>1, <1>6 DEF Receive
  <2>5. Known' = Known /\ Rows' = Rows
    BY <1>2, <1>6 DEF Receive, Rows
  <2> QED
    BY <1>4, <2>3, <2>4, <2>5
<1>7. ASSUME NEW c \in Client,
             \/ Accept(c) \/ Refuse(c) \/ Proceed(c) \/ Connect(c)
             \/ ConnectFails(c) \/ WriteRejected(c)
      PROVE  UNCHANGED Store!vars
  <2>1. Phases' = Phases /\ Outcomes' = Outcomes
    BY <1>1, <1>7 DEF Accept, Refuse, Proceed, Connect, ConnectFails, WriteRejected, Answer
  <2>2. Known' = Known /\ View' = View /\ Rows' = Rows
    BY <1>2, <1>3, <1>7 DEF Accept, Refuse, Proceed, Connect, ConnectFails,
       WriteRejected, Rows
  <2> QED
    BY <1>4, <2>1, <2>2
<1>8. ASSUME NEW lost \in SUBSET Client,
             \A c \in lost : pc[c] \notin {"new", "done"},
             \A c \in Client : pc'[c] = IF c \in lost THEN "done" ELSE pc[c],
             \A c \in lost : OutcomeOf(c)' = "doubt",
             \A c \in Client \ lost : OutcomeOf(c)' = OutcomeOf(c),
             UNCHANGED <<row, seen, fetched, heard>>
      PROVE  Store!Next
  <2>1. Known' = Known /\ View' = View
    BY <1>2, <1>3, <1>8
  <2> QED
    BY <1>0, <1>8, <2>1, DoubtStep
<1>9. ASSUME NEW c \in Client, pc[c] \notin {"new", "done"}, pc' = [pc EXCEPT ![c] = "done"],
             OutcomeOf(c)' = "doubt", UNCHANGED <<status, row, seen, fetched, heard>>
      PROVE  Store!Next
  <2> DEFINE lost == {c}
  <2>1. lost \in SUBSET Client
    OBVIOUS
  <2>2. /\ \A d \in lost : pc[d] \notin {"new", "done"} /\ OutcomeOf(d)' = "doubt"
        /\ \A d \in Client : pc'[d] = IF d \in lost THEN "done" ELSE pc[d]
    BY <1>9
  <2>3. \A d \in Client \ lost : OutcomeOf(d)' = OutcomeOf(d)
    BY <1>9 DEF OutcomeOf, Meant
  <2> HIDE DEF lost
  <2> QED
    BY <1>8, <1>9, <2>1, <2>2, <2>3
<1>10. ASSUME NEW c \in Client, ReceiveNothing(c) PROVE Store!Next
  <2>1. OutcomeOf(c)' = "doubt"
    BY <1>10 DEF ReceiveNothing, ThreadInv, ThreadAt, OutcomeOf
  <2> QED
    BY <1>9, <1>10, <2>1 DEF ReceiveNothing
<1>11. CASE End
  <2> DEFINE lost == {c \in Client : pc[c] \notin {"new", "done"}}
  <2>1. /\ \A c \in Client : pc'[c] = IF c \in lost THEN "done" ELSE pc[c]
        /\ UNCHANGED <<row, seen, fetched, heard>>
    BY <1>11 DEF End
  <2>2. /\ \A c \in lost : OutcomeOf(c)' = "doubt"
        /\ \A c \in Client \ lost : OutcomeOf(c)' = OutcomeOf(c)
    BY <1>11 DEF End, OutcomeOf, Meant
  <2>3. lost \in SUBSET Client /\ \A c \in lost : pc[c] \notin {"new", "done"}
    OBVIOUS
  <2> HIDE DEF lost
  <2> QED
    BY <1>8, <2>1, <2>2, <2>3
<1>12. ASSUME NEW c \in Client, Write(c) \/ WriteBreaks(c) PROVE [Store!Next]_(Store!vars)
  <2>1. /\ Phases' = Phases /\ Outcomes' = Outcomes /\ Phases[c] = "open"
    BY <1>1, <1>12 DEF Write, WriteBreaks, Answer
  <2>2. Known' = Known /\ View' = View
    BY <1>2, <1>3, <1>12 DEF Write, WriteBreaks
  <2>3. CASE UNCHANGED row
    <3>1. Rows' = Rows
      BY <2>3 DEF Rows
    <3> QED
      BY <1>4, <2>1, <2>2, <3>1
  <2>4. CASE Insert(c) /\ heard[c] # "right"
    <3>1. row[c] = "none"
      BY <1>12 DEF Write, WriteBreaks, ThreadInv, ThreadAt, Stored
    <3>2. Rows' = Rows
      BY <2>4, <3>1 DEF Rows, Insert
    <3> QED
      BY <1>4, <2>1, <2>2, <3>2
  <2>5. CASE Insert(c) /\ heard[c] = "right"
    <3>1. row[c] = "none" /\ row' = [row EXCEPT ![c] = "right"]
      BY <1>12, <2>5 DEF Write, WriteBreaks, Insert, ThreadInv, ThreadAt, Stored
    <3>2. Rows' = Rows \union {c} /\ c \notin Rows
      BY <3>1 DEF Rows
    <3>3. c \in Writers
      BY <1>12 DEF Write, WriteBreaks, Writers
    <3>4. Store!Store(c)
      BY <1>0, <2>1, <2>2, <3>2, <3>3
      DEF Store!Store, Phases, Outcomes, Rows, Writers, Wants, Known, View
    <3> QED
      BY <3>4 DEF Store!Next
  <2> QED
    BY <1>12, <2>3, <2>4, <2>5 DEF Write, WriteBreaks
<1>13. ASSUME NEW c \in Client, Read(c) PROVE [Store!Next]_(Store!vars)
  <2>1. /\ Phases' = Phases /\ Outcomes' = Outcomes /\ Phases[c] = "open"
        /\ c \notin Writers
    BY <1>1, <1>13 DEF Read, Answer, Writers
  <2>2. Known' = Known /\ Rows' = Rows
    BY <1>2, <1>13 DEF Read, Rows
  <2>3. CASE heard[c] = "right"
    <3>1. Rows \intersect Wants[c] = Selected(c)
      BY DEF Rows, Wants, Selected
    <3>2. \A g \in Client : (IF Meant(g)' THEN fetched'[g] ELSE {})
                              = IF g = c THEN Rows \intersect Wants[c] ELSE View[g]
      BY <1>13, <2>3, <3>1 DEF Read, View, Meant
    <3>3. View' = [View EXCEPT ![c] = Rows \intersect Wants[c]]
      BY <3>2, Zenon DEF View
    <3>4. Store!Look(c)
      BY <1>0, <2>1, <2>2, <3>3
      DEF Store!Look, Phases, Outcomes, Rows, Writers, Wants, Known, View
    <3> QED
      BY <3>4 DEF Store!Next
  <2>4. CASE heard[c] # "right"
    <3>1. \A g \in Client : (IF Meant(g)' THEN fetched'[g] ELSE {}) = View[g]
      BY <1>13, <2>4 DEF Read, View, Meant
    <3>2. View' = View
      BY <3>1, Zenon DEF View
    <3> QED
      BY <1>4, <2>1, <2>2, <3>2
  <2> QED
    BY <2>3, <2>4
<1>14. ASSUME NEW c \in Client, Send(c) PROVE Store!Next
  <2>1. /\ pc[c] = "send" /\ pc' = [pc EXCEPT ![c] = "done"]
        /\ UNCHANGED <<status, heard, row, seen, fetched>>
    BY <1>14 DEF Send
  <2>2. Phases[c] = "open" /\ pc'[c] = "done"
    BY <2>1 DEF Phases, PhaseOf
  <2>3. Known' = Known /\ View' = View /\ Rows' = Rows
    BY <1>2, <1>3, <2>1 DEF Rows
  <2>4. OutcomeOf(c)' \in {"acked", "refused", "doubt"}
    BY <2>2 DEF OutcomeOf
  <2>5. CASE OutcomeOf(c)' = "doubt"
    BY <1>9, <2>1, <2>5
  <2>6. CASE OutcomeOf(c)' = "refused"
    <3>1. /\ Phases' = [Phases EXCEPT ![c] = "closed"]
          /\ Outcomes' = [Outcomes EXCEPT ![c] = "refused"]
      BY <2>1, <2>6, ClosedStep
    <3>2. status[c] \in {"400", "403", "404", "raw"}
      BY <2>1, <2>2, <2>6 DEF OutcomeOf
    <3>3. c \notin Rows
      BY <3>2 DEF Rows, ThreadInv, ThreadAt, HeardInv, HeardAt, Stored
    <3>4. Store!Refuse(c)
      BY <1>0, <2>2, <2>3, <3>1, <3>3 DEF Store!Refuse, Store!Close, Phases,
         Outcomes, Rows, Writers, Wants, Known, View
    <3> QED
      BY <3>4 DEF Store!Next
  <2>7. CASE OutcomeOf(c)' = "acked"
    <3>1. /\ Phases' = [Phases EXCEPT ![c] = "closed"]
          /\ Outcomes' = [Outcomes EXCEPT ![c] = "acked"]
      BY <2>1, <2>7, ClosedStep
    <3>2. status[c] = "200" /\ heard[c] = "right"
      BY <2>1, <2>2, <2>7 DEF OutcomeOf, Meant
    <3>3. CASE c \in Writers
      <4>1. c \in Rows
        BY <3>2, <3>3 DEF Rows, Writers, ThreadInv, ThreadAt, HeardInv, HeardAt, Stored
      <4>2. Store!Acknowledge(c)
        BY <1>0, <2>2, <2>3, <3>1, <3>3, <4>1 DEF Store!Acknowledge, Store!Close,
           Phases, Outcomes, Rows, Writers, Wants, Known, View
      <4> QED
        BY <4>2 DEF Store!Next
    <3>4. CASE c \notin Writers
      <4>1. Known[c] \intersect Wants[c] \subseteq View[c]
        BY <3>2, <3>4 DEF Writers, View, Meant, HeardInv, HeardAt
      <4>2. Store!Answer(c)
        BY <1>0, <2>2, <2>3, <3>1, <3>4, <4>1 DEF Store!Answer, Store!Close,
           Phases, Outcomes, Rows, Writers, Wants, Known, View
      <4> QED
        BY <4>2 DEF Store!Next
    <3> QED
      BY <3>3, <3>4
  <2> QED
    BY <2>4, <2>5, <2>6, <2>7
<1>15. CASE Start \/ UNCHANGED vars
  <2>1. UNCHANGED <<pc, status, heard, row, seen, fetched>>
    BY <1>15 DEF Start, vars
  <2>2. Phases' = Phases /\ Outcomes' = Outcomes /\ Rows' = Rows
    BY <2>1 DEF Phases, Outcomes, OutcomeOf, Meant, Rows
  <2> QED
    BY <1>2, <1>3, <1>4, <2>1, <2>2
<1> QED
  BY <1>5, <1>6, <1>7, <1>10, <1>11, <1>12, <1>13, <1>14, <1>15
  DEF Next, Serve, Crash, CrashUnset, Interrupt, ReadFails

\* Unless reads fail, the C server keeps the promise of MeasurementStore to the
\* clients it heard right, through every interleaving of its threads, every
\* failure of the database, every crash and whatever leftovers of earlier requests
\* make of later ones: what handle_client acknowledges to them is stored, and what
\* it answers to their reads holds what had been acknowledged before.
THEOREM Refinement ==
  ASSUME "read" \notin Faults
  PROVE  Spec => ImplementsStore
<1>1. Init => Store!Init /\ HeardInv
  <2> SUFFICES ASSUME Init PROVE Store!Init /\ HeardInv
    OBVIOUS
  <2>1. \A c \in Client : PhaseOf(pc[c]) = "new" /\ OutcomeOf(c) = "none"
    BY DEF Init, PhaseOf, OutcomeOf
  <2>2. /\ Phases = [c \in Client |-> "new"]
        /\ Outcomes = [c \in Client |-> "none"]
    BY <2>1, Zenon DEF Phases, Outcomes
  <2>3. Rows = {} /\ Writers \subseteq Client /\ Wants \in [Client -> SUBSET Client]
    BY DEF Init, Rows, Writers, Wants
  <2>4. HeardInv
    BY DEF Init, HeardInv, HeardAt
  <2>5. \A g \in Client : Known[g] = {} /\ View[g] = {}
    BY DEF Init, Known, View
  <2>6. Known = [g \in Client |-> {}] /\ View = [g \in Client |-> {}]
    BY <2>5 DEF Known, View
  <2> QED
    BY <2>2, <2>3, <2>4, <2>6
    DEF Store!Init, Phases, Outcomes, Rows, Writers, Wants, Known, View
<1>2. IInv /\ IInv' /\ HeardInv /\ [Next]_vars =>
        HeardInv' /\ [Store!Next]_(Store!vars)
  BY HeardStep, StoreStep DEF IInv
<1> QED
  BY <1>1, <1>2, Invariance, PTL DEF Spec, ImplementsStore, Store!Spec
=============================================================================
