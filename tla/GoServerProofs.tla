--------------------------- MODULE GoServerProofs ---------------------------
(***************************************************************************)
(* Proofs about GoServer, for any set of requests, any shapes of them and  *)
(* any number of connection slots.                                         *)
(***************************************************************************)
EXTENDS GoServer, FiniteSetTheorems, TLAPS

\* The variables keep their types (the handlers of main.go).
THEOREM TypeCorrect == Spec => []TypeOK
<1>1. Init => TypeOK
  BY MaxRestartsAssumption DEF Init, TypeOK, PCs, Conns, Replies
<1>2. TypeOK /\ [Next]_vars => TypeOK'
  <2> SUFFICES ASSUME TypeOK, [Next]_vars PROVE TypeOK'
    OBVIOUS
  <2> USE DEF TypeOK, PCs, Conns, Replies, Goto, SetConn
  <2>1. ASSUME NEW r \in Req, Arrive(r) PROVE TypeOK'
    BY <2>1 DEF Arrive, Acked
  <2>2. ASSUME NEW r \in Req, Unsupported(r) PROVE TypeOK'
    BY <2>2 DEF Unsupported, Answer
  <2>3. ASSUME NEW r \in Req, Serve(r) PROVE TypeOK'
    <3>1. CASE Authenticate(r)
      BY <3>1 DEF Authenticate, Answer
    <3>2. CASE Decode(r)
      BY <3>2 DEF Decode, Answer, DropIdle
    <3>3. CASE Connect(r)
      BY <3>3 DEF Connect
    <3>4. CASE ConnectFails(r)
      BY <3>4 DEF ConnectFails, Answer
    <3>5. CASE Query(r)
      BY <3>5 DEF Query, Insert, Selected
    <3>6. CASE QueryRejected(r)
      BY <3>6 DEF QueryRejected, Answer, DropIdle
    <3>7. CASE QueryBreaks(r)
      BY <3>7 DEF QueryBreaks, Answer, Insert
    <3>8. CASE Respond(r)
      BY <3>8 DEF Respond, Answer, ReadStatus
    <3>9. CASE StreamBreaks(r)
      BY <3>9 DEF StreamBreaks, Answer, ReadStatus
    <3> QED
      BY <2>3, <3>1, <3>2, <3>3, <3>4, <3>5, <3>6, <3>7, <3>8, <3>9 DEF Serve
  <2>4. ASSUME NEW r \in Req, Reclaim(r) PROVE TypeOK'
    BY <2>4 DEF Reclaim
  <2>5. CASE Restart
    BY <2>5, MaxRestartsAssumption DEF Restart
  <2>6. CASE UNCHANGED vars
    BY <2>6 DEF vars
  <2> QED
    BY <2>1, <2>2, <2>3, <2>4, <2>5, <2>6 DEF Next
<1> QED
  BY <1>1, <1>2, PTL DEF Spec

-----------------------------------------------------------------------------
(***************************************************************************)
(* The inductive invariant.                                                *)
(***************************************************************************)

\* Where the connection of r is at each point of its handler.
ConnAt(r) ==
  /\ pc[r] \in {"idle", "auth", "connect"} => conn[r] = "none"
  /\ pc[r] = "decode" => conn[r] = IF IsPost(r) THEN "none" ELSE "idle"
  /\ pc[r] = "query" => conn[r] = "idle"
  /\ pc[r] = "respond" => conn[r] = "busy"
  /\ conn[r] = "orphan" => pc[r] = "done" /\ Kind(r) = "put"
  /\ pc[r] = "done" /\ ~IsPost(r) => conn[r] \in {"none", "orphan"}

\* What the handler of r has done and said at each point.
ProgressAt(r) ==
  /\ pc[r] # "done" => reply[r] = "none"
  /\ pc[r] \in {"idle", "auth", "decode", "connect", "query"} => ~Stored(r)
  /\ pc[r] = "respond" /\ Kind(r) \in Writes => Stored(r)
  /\ Kind(r) \in Writes /\ reply[r] = "200" => Stored(r)
  /\ Kind(r) \in Writes /\ reply[r] \in {"400", "401"} => ~Stored(r)

HandlerInv == \A r \in Req : ConnAt(r) /\ ProgressAt(r)

\* An acknowledged POST of this process still lends its connection, and the
\* database does not lend more than it has.
SlotInv ==
  /\ \A r \in accepted : IsPost(r) /\ pc[r] = "done" /\ conn[r] = "busy"
  /\ IsFiniteSet(Held)
  /\ Cardinality(Held) <= MaxConn

\* The reads whose answer is whole: all of them if results do not break off.
Whole(g) == Kind(g) = "measurements" \/ (Kind(g) \in Reads /\ ~StreamFaults)

\* What such a read has fetched is what it may answer with.
FetchAt(g) ==
  /\ seen[g] \subseteq Acked
  /\ Whole(g) /\ (pc[g] = "respond" \/ reply[g] = "200")
       => /\ {p \in seen[g] : Matches(p, g)} \subseteq fetched[g]
          /\ fetched[g] \subseteq Selected(g)

FetchInv == \A g \in Req : FetchAt(g)

\* The heap orders the stored rows: any of them have a newest among them.
HasLast(S) == S # {} => \E p \in S : \A q \in S : stamp[q] <= stamp[p]

HeapInv ==
  /\ \A p \in Req : stamp[p] <= inserted
  /\ \A S \in SUBSET {p \in Req : Stored(p)} : HasLast(S)

-----------------------------------------------------------------------------
\* Every step keeps the connection and the progress of every handler.
LEMMA HandlerStep ==
  ASSUME TypeOK, HandlerInv, [Next]_vars
  PROVE  HandlerInv'
<1> USE DEF TypeOK, PCs, Conns, Replies, Goto, SetConn, HandlerInv, ConnAt,
            ProgressAt, IsPost, Kind, Stored, Has, Writes, Reads
<1>1. ASSUME NEW r \in Req, Arrive(r) PROVE HandlerInv'
  BY <1>1 DEF Arrive
<1>2. ASSUME NEW r \in Req, Unsupported(r) PROVE HandlerInv'
  BY <1>2 DEF Unsupported, Answer
<1>3. ASSUME NEW r \in Req, Serve(r) PROVE HandlerInv'
  <2>1. CASE Authenticate(r)
    BY <2>1 DEF Authenticate, Answer
  <2>2. CASE Decode(r)
    BY <2>2 DEF Decode, Answer, DropIdle
  <2>3. CASE Connect(r)
    BY <2>3 DEF Connect
  <2>4. CASE ConnectFails(r)
    BY <2>4 DEF ConnectFails, Answer
  <2>5. CASE Query(r)
    BY <2>5 DEF Query, Insert
  <2>6. CASE QueryRejected(r)
    BY <2>6 DEF QueryRejected, Answer, DropIdle
  <2>7. CASE QueryBreaks(r)
    BY <2>7 DEF QueryBreaks, Answer, Insert
  <2>8. CASE Respond(r)
    BY <2>8 DEF Respond, Answer, ReadStatus
  <2>9. CASE StreamBreaks(r)
    BY <2>9 DEF StreamBreaks, Answer, ReadStatus
  <2> QED
    BY <1>3, <2>1, <2>2, <2>3, <2>4, <2>5, <2>6, <2>7, <2>8, <2>9 DEF Serve
<1>4. ASSUME NEW r \in Req, Reclaim(r) PROVE HandlerInv'
  BY <1>4 DEF Reclaim
<1>5. CASE Restart
  BY <1>5 DEF Restart
<1>6. CASE UNCHANGED vars
  BY <1>6 DEF vars
<1> QED
  BY <1>1, <1>2, <1>3, <1>4, <1>5, <1>6 DEF Next

\* A row once stored and a reply once given stay, whoever steps.
LEMMA Stability ==
  ASSUME TypeOK, HandlerInv, [Next]_vars
  PROVE  /\ shape' = shape
         /\ \A r \in Req : Stored(r) => Stored(r)'
         /\ \A r \in Req : reply[r] # "none" => reply'[r] = reply[r]
<1> USE DEF TypeOK, Goto, HandlerInv, ProgressAt, Stored, Answer, Insert
<1>1. ASSUME NEW r \in Req, Serve(r)
      PROVE  /\ shape' = shape
             /\ \A q \in Req : Stored(q) => Stored(q)'
             /\ \A q \in Req : reply[q] # "none" => reply'[q] = reply[q]
  BY <1>1 DEF Serve, Authenticate, Decode, Connect, ConnectFails, Query,
              QueryRejected, QueryBreaks, Respond, StreamBreaks
<1>2. ASSUME NEW r \in Req, Arrive(r) \/ Unsupported(r) \/ Reclaim(r)
      PROVE  /\ shape' = shape
             /\ \A q \in Req : Stored(q) => Stored(q)'
             /\ \A q \in Req : reply[q] # "none" => reply'[q] = reply[q]
  BY <1>2 DEF Arrive, Unsupported, Reclaim
<1>3. CASE Restart
  BY <1>3 DEF Restart
<1>4. CASE UNCHANGED vars
  BY <1>4 DEF vars
<1> QED
  BY <1>1, <1>2, <1>3, <1>4 DEF Next

\* Only Connect takes a slot of the database.
LEMMA SlotStep ==
  ASSUME TypeOK, HandlerInv, SlotInv, [Next]_vars
  PROVE  SlotInv'
<1> USE DEF TypeOK, Goto, SetConn, HandlerInv, ConnAt, SlotInv, IsPost, Kind
<1>1. ASSUME Held' \subseteq Held,
             \A r \in accepted' : IsPost(r)' /\ pc'[r] = "done" /\ conn'[r] = "busy"
      PROVE  SlotInv'
  <2>1. IsFiniteSet(Held') /\ Cardinality(Held') <= Cardinality(Held)
    BY <1>1, FS_Subset
  <2>2. Cardinality(Held) \in Nat /\ Cardinality(Held') \in Nat
    BY <2>1, FS_CardinalityType
  <2> QED
    BY <1>1, <2>1, <2>2, MaxConnAssumption
<1>2. ASSUME NEW r \in Req, Connect(r) PROVE SlotInv'
  <2>1. r \notin Held /\ Held' = Held \union {r}
    BY <1>2 DEF Connect, Held
  <2>2. IsFiniteSet(Held') /\ Cardinality(Held') = Cardinality(Held) + 1
    BY <2>1, FS_AddElement
  <2>3. Cardinality(Held) \in Nat /\ Cardinality(Held) < MaxConn
    BY <1>2, FS_CardinalityType DEF Connect
  <2>4. \A q \in accepted' : IsPost(q)' /\ pc'[q] = "done" /\ conn'[q] = "busy"
    BY <1>2 DEF Connect
  <2> QED
    BY <2>2, <2>3, <2>4, MaxConnAssumption
<1>3. ASSUME NEW r \in Req, Serve(r), ~Connect(r) PROVE SlotInv'
  <2> USE DEF Answer, DropIdle, Held
  <2>1. CASE Authenticate(r)
    BY <1>1, <2>1 DEF Authenticate
  <2>2. CASE Decode(r)
    BY <1>1, <2>2 DEF Decode
  <2>3. CASE ConnectFails(r)
    BY <1>1, <2>3 DEF ConnectFails
  <2>4. CASE Query(r)
    BY <1>1, <2>4 DEF Query
  <2>5. CASE QueryRejected(r)
    BY <1>1, <2>5 DEF QueryRejected
  <2>6. CASE QueryBreaks(r)
    BY <1>1, <2>6 DEF QueryBreaks
  <2>7. CASE Respond(r)
    BY <1>1, <2>7 DEF Respond
  <2>8. CASE StreamBreaks(r)
    BY <1>1, <2>8 DEF StreamBreaks
  <2> QED
    BY <1>3, <2>1, <2>2, <2>3, <2>4, <2>5, <2>6, <2>7, <2>8 DEF Serve
<1>4. ASSUME NEW r \in Req, Arrive(r) \/ Unsupported(r) \/ Reclaim(r) PROVE SlotInv'
  BY <1>1, <1>4 DEF Arrive, Unsupported, Answer, Reclaim, Held
<1>5. CASE Restart
  BY <1>1, <1>5 DEF Restart, Held
<1>6. CASE UNCHANGED vars
  BY <1>1, <1>6 DEF vars, Held
<1> QED
  BY <1>2, <1>3, <1>4, <1>5, <1>6 DEF Next

\* Rows are never lost, so what a read fetched after its arrival stays right.
LEMMA FetchStep ==
  ASSUME TypeOK, HandlerInv, FetchInv, [Next]_vars
  PROVE  FetchInv'
<1> SUFFICES ASSUME NEW g \in Req PROVE FetchAt(g)'
  BY DEF FetchInv
<1> USE DEF TypeOK, FetchInv, FetchAt
<1>1. /\ shape' = shape
      /\ \A r \in Req : Stored(r) => Stored(r)'
      /\ \A r \in Req : reply[r] # "none" => reply'[r] = reply[r]
  BY Stability
<1>2. /\ Acked \subseteq Acked'
      /\ Selected(g) \subseteq Selected(g)'
      /\ \A p \in Req : Matches(p, g)' = Matches(p, g)
      /\ Whole(g)' = Whole(g)
  BY <1>1 DEF Acked, Selected, Matches, Whole, Kind, IsPost
<1>3. ASSUME UNCHANGED <<fetched, seen>>,
             pc'[g] = "respond" => pc[g] = "respond",
             reply'[g] = "200" => reply[g] = "200" \/ pc[g] = "respond"
                                    \/ ~Whole(g)
      PROVE  FetchAt(g)'
  BY <1>2, <1>3
<1>4. ASSUME NEW r \in Req, Arrive(r) PROVE FetchAt(g)'
  BY <1>2, <1>4 DEF Arrive, Goto, HandlerInv, ProgressAt
<1>5. ASSUME NEW r \in Req, Query(r) PROVE FetchAt(g)'
  <2>1. CASE r = g /\ Whole(g)
    <3>1. /\ fetched'[g] = Selected(g)
          /\ seen' = seen
      BY <1>5, <2>1 DEF Query, Writes, Reads, Whole
    <3>2. {p \in seen[g] : Matches(p, g)} \subseteq Selected(g)
      BY DEF Selected, Acked, HandlerInv, ProgressAt
    <3> QED
      BY <1>2, <3>1, <3>2
  <2>2. CASE r = g /\ ~Whole(g)
    BY <1>2, <1>5, <2>2 DEF Query
  <2>3. CASE r # g
    BY <1>2, <1>5, <2>3 DEF Query, Goto
  <2> QED
    BY <2>1, <2>2, <2>3
<1>6. ASSUME NEW r \in Req, StreamBreaks(r) PROVE FetchAt(g)'
  <2>1. CASE r = g
    BY <1>2, <1>6, <2>1 DEF StreamBreaks, Goto, Answer, IsPost, Kind, Whole, Reads, HandlerInv, ProgressAt
  <2>2. CASE r # g
    BY <1>2, <1>6, <2>2 DEF StreamBreaks, Goto, Answer
  <2> QED
    BY <2>1, <2>2
<1>7. ASSUME NEW r \in Req, Serve(r), ~Query(r), ~StreamBreaks(r) PROVE FetchAt(g)'
  BY <1>3, <1>7 DEF Serve, Authenticate, Decode, Connect, ConnectFails,
     QueryRejected, QueryBreaks, Respond, Answer, Goto
<1>8. ASSUME NEW r \in Req, Unsupported(r) \/ Reclaim(r) PROVE FetchAt(g)'
  BY <1>3, <1>8 DEF Unsupported, Reclaim, Answer, Goto, Kind, Whole, Reads
<1>9. CASE Restart
  BY <1>3, <1>9 DEF Restart
<1>10. CASE UNCHANGED vars
  BY <1>3, <1>10 DEF vars
<1> QED
  BY <1>4, <1>5, <1>6, <1>7, <1>8, <1>9, <1>10 DEF Next

\* A row is stored after all others.
LEMMA HeapStep ==
  ASSUME TypeOK, HandlerInv, HeapInv, [Next]_vars
  PROVE  HeapInv'
<1> USE DEF TypeOK, HeapInv, Stored
<1>1. CASE UNCHANGED <<stamp, inserted>>
  BY <1>1 DEF HasLast
<1>2. ASSUME NEW r \in Req, Insert(r), ~Stored(r) PROVE HeapInv'
  <2>1. /\ inserted' = inserted + 1
        /\ \A p \in Req : stamp'[p] = IF p = r THEN inserted + 1 ELSE stamp[p]
    BY <1>2 DEF Insert
  <2>2. ASSUME NEW S \in SUBSET {p \in Req : stamp'[p] > 0} PROVE HasLast(S)'
    <3>1. CASE r \in S
      BY <2>1, <3>1 DEF HasLast
    <3>2. CASE r \notin S
      <4>1. S \in SUBSET {p \in Req : stamp[p] > 0}
        BY <2>1, <3>2
      <4>2. HasLast(S)
        BY <4>1
      <4> QED
        BY <2>1, <3>2, <4>1, <4>2 DEF HasLast
    <3> QED
      BY <3>1, <3>2
  <2> QED
    BY <2>1, <2>2
<1>3. ASSUME NEW r \in Req, Query(r) \/ QueryBreaks(r) PROVE HeapInv'
  BY <1>1, <1>2, <1>3 DEF Query, QueryBreaks, HandlerInv, ProgressAt
<1>4. ASSUME NEW r \in Req, Serve(r), ~Query(r), ~QueryBreaks(r) PROVE HeapInv'
  BY <1>1, <1>4 DEF Serve, Authenticate, Decode, Connect, ConnectFails,
     QueryRejected, Respond, StreamBreaks
<1> QED
  BY <1>1, <1>3, <1>4 DEF Next, Arrive, Unsupported, Reclaim, Restart, vars

-----------------------------------------------------------------------------
IInv == TypeOK /\ HandlerInv /\ SlotInv /\ FetchInv /\ HeapInv

LEMMA InitIInv == Init => IInv
<1> SUFFICES ASSUME Init PROVE IInv
  OBVIOUS
<1>1. TypeOK
  BY MaxRestartsAssumption DEF Init, TypeOK, PCs, Conns, Replies
<1>2. HandlerInv
  BY DEF Init, HandlerInv, ConnAt, ProgressAt, Stored
<1>3. SlotInv
  <2>1. Held = {}
    BY DEF Init, Held
  <2> QED
    BY <2>1, FS_EmptySet, MaxConnAssumption DEF Init, SlotInv
<1>4. FetchInv
  BY DEF Init, FetchInv, FetchAt
<1>5. HeapInv
  BY DEF Init, HeapInv, HasLast, Stored
<1> QED
  BY <1>1, <1>2, <1>3, <1>4, <1>5 DEF IInv

\* The invariant that the safety theorems rest on.
THEOREM Invariance == Spec => []IInv
<1>1. TypeOK /\ TypeOK' /\ IInv /\ [Next]_vars => IInv'
  BY HandlerStep, SlotStep, FetchStep, HeapStep DEF IInv
<1> QED
  BY <1>1, InitIInv, TypeCorrect, PTL DEF Spec

\* The status a writer gets is the truth about its row (postMeasurements,
\* putLocation).
THEOREM StatusIsTruth == Spec => []StatusTellsTruth
<1>1. IInv => StatusTellsTruth
  BY DEF IInv, HandlerInv, ProgressAt, StatusTellsTruth
<1> QED
  BY <1>1, Invariance, PTL

\* An answered GET /pms5003 is exact (getMeasurements).
THEOREM MeasurementsAreExact == Spec => []MeasurementsExact
<1>1. IInv => MeasurementsExact
  BY DEF IInv, FetchInv, FetchAt, Whole, MeasurementsExact
<1> QED
  BY <1>1, Invariance, PTL

\* A located device is where the newest acknowledged PUT, or a newer one, put it,
\* if results do not break off (getLocation).
THEOREM LocationsAreLatest ==
  ASSUME ~StreamFaults
  PROVE  Spec => []LocationIsLatest
<1>1. IInv => LocationIsLatest
  <2> SUFFICES ASSUME IInv, NEW g \in Req, Kind(g) = "location", reply[g] = "200",
                      NEW p \in seen[g], Matches(p, g)
               PROVE  stamp[p] <= stamp[LastRow(fetched[g])]
    BY DEF LocationIsLatest
  <2>1. p \in fetched[g] /\ fetched[g] \subseteq Selected(g)
    BY DEF IInv, TypeOK, FetchInv, FetchAt, Whole, Reads
  <2>2. fetched[g] \in SUBSET {q \in Req : Stored(q)}
    BY <2>1 DEF Selected
  <2>3. \E l \in fetched[g] : \A q \in fetched[g] : stamp[q] <= stamp[l]
    BY <2>1, <2>2 DEF IInv, HeapInv, HasLast
  <2> QED
    BY <2>1, <2>3 DEF LastRow
<1> QED
  BY <1>1, Invariance, PTL

\* No handler but postMeasurements leaks a connection.
THEOREM ReadersDoNotLeak == Spec => []NoReaderLeak
<1>1. IInv => NoReaderLeak
  BY DEF IInv, HandlerInv, ConnAt, NoReaderLeak
<1> QED
  BY <1>1, Invariance, PTL

\* A process acknowledges at most MaxConn POSTs in its life (postMeasurements).
THEOREM AcceptanceIsBounded == Spec => []AcceptanceBound
<1>1. IInv => AcceptanceBound
  <2> SUFFICES ASSUME IInv PROVE AcceptanceBound
    OBVIOUS
  <2>1. accepted \subseteq Held
    BY DEF IInv, TypeOK, SlotInv, Held
  <2>2. IsFiniteSet(accepted) /\ Cardinality(accepted) <= Cardinality(Held)
    BY <2>1, FS_Subset DEF IInv, SlotInv
  <2>3. Cardinality(accepted) \in Nat /\ Cardinality(Held) \in Nat
    BY <2>2, FS_CardinalityType DEF IInv, SlotInv
  <2> QED
    BY <2>2, <2>3, MaxConnAssumption DEF IInv, SlotInv, AcceptanceBound
<1> QED
  BY <1>1, Invariance, PTL

\* Nothing the server does frees a pinned connection (postMeasurements).
THEOREM PinsLast == Spec => PinnedForever
<1>1. IInv /\ [Next]_vars => (restarts' = restarts => Pinned \subseteq Pinned')
  <2> SUFFICES ASSUME IInv, [Next]_vars, restarts' = restarts
               PROVE  Pinned \subseteq Pinned'
    OBVIOUS
  <2> USE DEF IInv, TypeOK, HandlerInv, ConnAt, Pinned, IsPost, Kind, SetConn
  <2>1. ASSUME NEW r \in Req, Serve(r) PROVE Pinned \subseteq Pinned'
    <3> USE DEF Goto
    <3>1. r \in Pinned => pc[r] = "respond"
      BY <2>1 DEF Serve, Authenticate, Decode, Connect, ConnectFails, Query,
         QueryRejected, QueryBreaks, Respond, StreamBreaks
    <3>2. CASE Authenticate(r) \/ Decode(r)
      BY <3>1, <3>2 DEF Authenticate, Decode, Answer, DropIdle
    <3>3. CASE Connect(r) \/ ConnectFails(r)
      BY <3>1, <3>3 DEF Connect, ConnectFails, Answer
    <3>4. CASE Query(r) \/ QueryRejected(r) \/ QueryBreaks(r)
      BY <3>1, <3>4 DEF Query, QueryRejected, QueryBreaks, Answer, DropIdle
    <3>5. CASE Respond(r) \/ StreamBreaks(r)
      BY <3>1, <3>5 DEF Respond, StreamBreaks, Answer, Reads
    <3> QED
      BY <2>1, <3>2, <3>3, <3>4, <3>5 DEF Serve
  <2>2. ASSUME NEW r \in Req, Arrive(r) \/ Unsupported(r) \/ Reclaim(r)
        PROVE  Pinned \subseteq Pinned'
    BY <2>2 DEF Arrive, Unsupported, Reclaim, Answer, Goto
  <2>3. ~Restart
    BY DEF Restart
  <2> QED
    BY <2>1, <2>2, <2>3 DEF Next, vars
<1> QED
  BY <1>1, Invariance, PTL DEF Spec, PinnedForever

\* A server whose slots are all pinned answers nobody else.
THEOREM FullPoolIsMute == Spec => FullPoolMute
<1> DEFINE Mute == Cardinality(Pinned) = MaxConn =>
                     \A r \in Req : reply[r] # "200" /\ reply'[r] = "200" =>
                       r \in Pinned \/ Kind(r) = "other"
<1>1. IInv /\ [Next]_vars => Mute
  <2> SUFFICES ASSUME IInv, [Next]_vars, Cardinality(Pinned) = MaxConn,
                      NEW r \in Req, reply[r] # "200", reply'[r] = "200",
                      Kind(r) # "other"
               PROVE  r \in Pinned
    OBVIOUS
  <2>1. Pinned \subseteq Held
    BY DEF Pinned, Held
  <2>2. Pinned = Held
    <3>1. Cardinality(Held) <= Cardinality(Pinned)
      BY DEF IInv, SlotInv
    <3>2. Cardinality(Held) \in Nat /\ Cardinality(Pinned) \in Nat
      BY MaxConnAssumption, FS_CardinalityType DEF IInv, SlotInv
    <3> QED
      BY <2>1, <3>1, <3>2, FS_Subset DEF IInv, SlotInv
  <2>3. conn[r] = "busy"
    <3> USE DEF IInv, TypeOK, HandlerInv, ConnAt, Answer, Kind
    <3>1. ASSUME NEW q \in Req, Serve(q) PROVE conn[r] = "busy"
      BY <3>1 DEF Serve, Authenticate, Decode, Connect, ConnectFails, Query,
         QueryRejected, QueryBreaks, Respond, StreamBreaks
    <3>2. ASSUME NEW q \in Req, Arrive(q) \/ Unsupported(q) \/ Reclaim(q)
          PROVE  conn[r] = "busy"
      BY <3>2 DEF Arrive, Unsupported, Reclaim
    <3>3. ~Restart /\ ~UNCHANGED vars
      BY DEF Restart, vars
    <3> QED
      BY <3>1, <3>2, <3>3 DEF Next
  <2> QED
    BY <2>2, <2>3 DEF Held
<1> QED
  BY <1>1, Invariance, PTL DEF Spec, FullPoolMute

-----------------------------------------------------------------------------
(***************************************************************************)
(* GoServer implements MeasurementStore.                                   *)
(***************************************************************************)
Phases == [r \in Req |-> PhaseOf(pc[r])]
Outcomes == [r \in Req |-> OutcomeOf(reply[r])]
Rows == {r \in Req : Stored(r)}
Writers == {r \in Req : Kind(r) \in Writes}
Wants == [g \in Req |-> Wanted(g)]

\* What requests are never changes.
LEMMA MappedDemand ==
  ASSUME shape' = shape
  PROVE  Writers' = Writers /\ Wants' = Wants
BY DEF Writers, Wants, Wanted, Matches, Kind, IsPost

\* A step of one handler moves its request to the phase and the outcome that
\* its label and its status stand for.
LEMMA MappedStep ==
  ASSUME TypeOK, NEW r \in Req,
         NEW label, pc' = [pc EXCEPT ![r] = label],
         NEW status, reply' = [reply EXCEPT ![r] = status]
  PROVE  /\ Phases' = [Phases EXCEPT ![r] = PhaseOf(label)]
         /\ Outcomes' = [Outcomes EXCEPT ![r] = OutcomeOf(status)]
<1>1. \A q \in Req : pc'[q] = IF q = r THEN label ELSE pc[q]
  BY DEF TypeOK
<1>2. \A q \in Req : reply'[q] = IF q = r THEN status ELSE reply[q]
  BY DEF TypeOK
<1>3. \A q \in Req : PhaseOf(pc'[q]) = IF q = r THEN PhaseOf(label) ELSE Phases[q]
  BY <1>1 DEF Phases
<1>4. \A q \in Req : OutcomeOf(reply'[q]) =
                      IF q = r THEN OutcomeOf(status) ELSE Outcomes[q]
  BY <1>2 DEF Outcomes
<1>5. Phases' = [Phases EXCEPT ![r] = PhaseOf(label)]
  BY <1>3, Zenon DEF Phases
<1>6. Outcomes' = [Outcomes EXCEPT ![r] = OutcomeOf(status)]
  BY <1>4, Zenon DEF Outcomes
<1> QED
  BY <1>5, <1>6

\* A handler that ends with status 500 or none, its row stored or not, is a
\* request that ends in doubt.
LEMMA FailingStep ==
  ASSUME TypeOK, NEW r \in Req, pc[r] \notin {"idle", "done"},
         pc' = [pc EXCEPT ![r] = "done"],
         NEW status \in {"500", "aborted"}, reply' = [reply EXCEPT ![r] = status],
         UNCHANGED <<shape, seen, fetched>>,
         Rows' = Rows \/ (Kind(r) \in Writes /\ Rows' = Rows \union {r})
  PROVE  Store!Next
<1>1. /\ Phases' = [Phases EXCEPT ![r] = "closed"]
      /\ Outcomes' = [Outcomes EXCEPT ![r] = "doubt"]
  BY MappedStep DEF PhaseOf, OutcomeOf
<1>2. Phases[r] = "open"
  BY DEF Phases, PhaseOf
<1>3. \E late \in SUBSET ({r} \intersect Writers) : Rows' = Rows \union late
  <2>1. CASE Rows' = Rows
    <3>1. Rows' = Rows \union {} /\ {} \in SUBSET ({r} \intersect Writers)
      BY <2>1
    <3> QED
      BY <3>1
  <2>2. CASE Kind(r) \in Writes /\ Rows' = Rows \union {r}
    <3>1. {r} \in SUBSET ({r} \intersect Writers)
      BY <2>2 DEF Writers
    <3> QED
      BY <2>2, <3>1
  <2> QED
    BY <2>1, <2>2
<1>4. Phases' = [q \in Req |-> IF q \in {r} THEN "closed" ELSE Phases[q]]
  BY <1>1 DEF Phases
<1>5. Outcomes' = [q \in Req |-> IF q \in {r} THEN "doubt" ELSE Outcomes[q]]
  BY <1>1 DEF Outcomes
<1>6. Store!Fail({r})
  BY <1>2, <1>3, <1>4, <1>5, MappedDemand
  DEF Store!Fail, Phases, Outcomes, Rows, Writers, Wants
<1> QED
  BY <1>6 DEF Store!Next

\* Every step of the server is a step of the store or none.
LEMMA StoreStep ==
  ASSUME ~StreamFaults, IInv, [Next]_vars
  PROVE  [Store!Next]_(Store!vars)
<1> USE DEF IInv, TypeOK
<1>0. ASSUME UNCHANGED <<shape, seen, fetched, reply>>, Rows' = Rows, Phases' = Phases
      PROVE  UNCHANGED Store!vars
  BY <1>0, MappedDemand DEF Store!vars, Rows, Phases, Outcomes, Writers, Wants
<1>1. ASSUME NEW r \in Req, Arrive(r) PROVE Store!Next
  <2>1. /\ Phases' = [Phases EXCEPT ![r] = "open"]
        /\ Phases[r] = "new"
    BY <1>1 DEF Arrive, Goto, Phases, PhaseOf
  <2>2. /\ UNCHANGED <<shape, reply, stamp, fetched>>
        /\ seen' = [seen EXCEPT ![r] = Acked]
    BY <1>1 DEF Arrive
  <2>3. Acked = {p \in Writers : Outcomes[p] = "acked"}
    BY DEF Acked, Writers, Outcomes, OutcomeOf, Replies
  <2>4. Rows' = Rows /\ Outcomes' = Outcomes
    BY <2>2 DEF Rows, Stored, Outcomes
  <2>5. Store!Open(r)
    BY <2>1, <2>2, <2>3, <2>4, MappedDemand
    DEF Store!Open, Store!Acknowledged, Phases, Outcomes, Rows, Writers, Wants
  <2> QED
    BY <2>5 DEF Store!Next
<1>2. ASSUME NEW r \in Req, Unsupported(r) PROVE Store!Next
  <2>1. /\ pc' = [pc EXCEPT ![r] = "done"]
        /\ reply' = [reply EXCEPT ![r] = "200"]
        /\ UNCHANGED <<shape, stamp, fetched, seen>>
    BY <1>2 DEF Unsupported, Answer, Goto, IsPost, Kind
  <2>2. /\ Phases' = [Phases EXCEPT ![r] = "closed"]
        /\ Outcomes' = [Outcomes EXCEPT ![r] = "acked"]
    BY <2>1, MappedStep DEF PhaseOf, OutcomeOf
  <2>3. Phases[r] = "new" /\ r \notin Writers /\ Wants[r] = {}
    BY <1>2 DEF Unsupported, Phases, PhaseOf, Writers, Writes, Wants, Wanted,
                Matches, Kind
  <2>4. Store!Ignore(r)
    BY <2>1, <2>2, <2>3, MappedDemand DEF Store!Ignore, Store!Close, Phases,
       Outcomes, Rows, Stored, Writers, Wants
  <2> QED
    BY <2>4 DEF Store!Next
<1>3. ASSUME NEW r \in Req, Serve(r) PROVE [Store!Next]_(Store!vars)
  <2> USE DEF Goto, PCs
  <2>1. ASSUME pc[r] \notin {"idle", "done"}, pc' = [pc EXCEPT ![r] = "done"],
               NEW status, reply' = [reply EXCEPT ![r] = status],
               status \in {"400", "401"}, ~Stored(r),
               UNCHANGED <<shape, seen, fetched, stamp>>
        PROVE  Store!Next
    <3>1. /\ Phases' = [Phases EXCEPT ![r] = "closed"]
          /\ Outcomes' = [Outcomes EXCEPT ![r] = "refused"]
      BY <2>1, MappedStep DEF PhaseOf, OutcomeOf
    <3>2. Phases[r] = "open" /\ r \notin Rows
      BY <2>1 DEF Phases, PhaseOf, Rows
    <3>3. Store!Refuse(r)
      BY <2>1, <3>1, <3>2, MappedDemand DEF Store!Refuse, Store!Close, Phases,
         Outcomes, Rows, Stored, Writers, Wants
    <3> QED
      BY <3>3 DEF Store!Next
  <2>2. ASSUME pc[r] \notin {"idle", "done"}, pc' = [pc EXCEPT ![r] = "done"],
               NEW status \in {"500", "aborted"},
               reply' = [reply EXCEPT ![r] = status],
               UNCHANGED <<shape, seen, fetched, stamp>>
        PROVE  Store!Next
    <3>1. Rows' = Rows
      BY <2>2 DEF Rows, Stored
    <3> QED
      BY <2>2, <3>1, FailingStep
  <2>3. ASSUME pc[r] \notin {"idle", "done"}, pc'[r] \notin {"idle", "done"},
               \A q \in Req : q # r => pc'[q] = pc[q]
        PROVE  Phases' = Phases
    BY <2>3 DEF Phases, PhaseOf
  <2>4. ASSUME UNCHANGED stamp PROVE Rows' = Rows
    BY <2>4 DEF Rows, Stored
  <2>5. CASE Authenticate(r)
    <3>1. CASE Has(r, "auth")
      <4>1. ~Stored(r)
        BY <2>5 DEF Authenticate, HandlerInv, ProgressAt
      <4>2. PICK status \in {"401", "500"} : reply' = [reply EXCEPT ![r] = status]
        BY <2>5, <3>1 DEF Authenticate, Answer
      <4> QED
        BY <2>5, <3>1, <2>1, <2>2, <4>1, <4>2 DEF Authenticate, Answer
    <3>2. CASE ~Has(r, "auth")
      BY <2>5, <3>2, <2>3, <2>4, <1>0 DEF Authenticate
    <3> QED
      BY <3>1, <3>2
  <2>6. CASE Decode(r)
    <3>1. CASE Has(r, "body") \/ Has(r, "truncated")
      <4>1. ~Stored(r)
        BY <2>6 DEF Decode, HandlerInv, ProgressAt
      <4>2. PICK status \in {"400", "500"} : reply' = [reply EXCEPT ![r] = status]
        BY <2>6, <3>1 DEF Decode, Answer
      <4> QED
        BY <2>6, <3>1, <2>1, <2>2, <4>1, <4>2 DEF Decode, Answer
    <3>2. CASE ~(Has(r, "body") \/ Has(r, "truncated"))
      BY <2>6, <3>2, <2>3, <2>4, <1>0 DEF Decode
    <3> QED
      BY <3>1, <3>2
  <2>7. CASE Connect(r)
    BY <2>7, <2>3, <2>4, <1>0 DEF Connect
  <2>8. CASE ConnectFails(r)
    BY <2>8, <2>2 DEF ConnectFails, Answer
  <2>9. CASE Query(r)
    <3>1. Phases' = Phases /\ Phases[r] = "open" /\ Outcomes' = Outcomes
      BY <2>9, <2>3 DEF Query, Phases, PhaseOf, Outcomes
    <3>2. CASE Kind(r) \in Writes
      <4>1. Rows' = Rows \union {r} /\ r \notin Rows
        BY <2>9, <3>2 DEF Query, Insert, Rows, Stored, HandlerInv, ProgressAt
      <4>2. Store!Store(r)
        BY <2>9, <3>1, <3>2, <4>1, MappedDemand DEF Query, Store!Store, Phases,
           Outcomes, Rows, Writers, Wants
      <4> QED
        BY <4>2 DEF Store!Next
    <3>3. CASE Kind(r) \notin Writes
      <4>1. Rows \intersect Wants[r] = Selected(r)
        BY DEF Rows, Wants, Wanted, Selected
      <4>2. fetched' = [fetched EXCEPT ![r] = Rows \intersect Wants[r]] /\ Rows' = Rows
        BY <2>9, <2>4, <3>3, <4>1 DEF Query
      <4>3. Store!Look(r)
        BY <2>9, <3>1, <3>3, <4>2, MappedDemand DEF Query, Store!Look, Phases,
           Outcomes, Rows, Writers, Wants
      <4> QED
        BY <4>3 DEF Store!Next
    <3> QED
      BY <3>2, <3>3
  <2>10. CASE QueryRejected(r)
    BY <2>10, <2>2 DEF QueryRejected, Answer
  <2>11. CASE QueryBreaks(r)
    <3>1. \/ Kind(r) \in Writes /\ Rows' = Rows \union {r}
          \/ Rows' = Rows
      BY <2>11 DEF QueryBreaks, Insert, Rows, Stored
    <3>2. reply' = [reply EXCEPT ![r] = "500"]
      BY <2>11 DEF QueryBreaks, Answer
    <3> QED
      BY <2>11, <3>1, <3>2, FailingStep DEF QueryBreaks, Answer
  <2>12. CASE Respond(r)
    <3>1. PICK status \in {"200", "500"} : reply' = [reply EXCEPT ![r] = status]
      BY <2>12 DEF Respond, Answer, ReadStatus
    <3>2. CASE status = "500"
      BY <2>12, <2>2, <3>1, <3>2 DEF Respond, Answer
    <3>3. CASE status = "200"
      <4>1. /\ Phases' = [Phases EXCEPT ![r] = "closed"]
            /\ Outcomes' = [Outcomes EXCEPT ![r] = "acked"]
        BY <2>12, <3>1, <3>3, MappedStep DEF Respond, Answer, PhaseOf, OutcomeOf
      <4>2. Phases[r] = "open"
        BY <2>12 DEF Respond, Phases, PhaseOf
      <4>3. UNCHANGED <<shape, stamp, seen, fetched>> /\ Rows' = Rows
        BY <2>12, <2>4 DEF Respond
      <4>4. CASE r \in Writers
        <5>1. r \in Rows
          BY <2>12, <4>4 DEF Respond, Writers, Rows, HandlerInv, ProgressAt
        <5>2. Store!Acknowledge(r)
          BY <4>1, <4>2, <4>3, <4>4, <5>1, MappedDemand DEF Store!Acknowledge,
             Store!Close, Phases, Outcomes, Rows, Writers, Wants
        <5> QED
          BY <5>2 DEF Store!Next
      <4>5. CASE r \notin Writers
        <5>1. seen[r] \intersect Wants[r] \subseteq fetched[r]
          <6>1. CASE Kind(r) \in Reads
            BY <2>12, <6>1 DEF Respond, FetchInv, FetchAt, Whole, Wants, Wanted
          <6>2. CASE Kind(r) \notin Reads
            BY <6>2 DEF Wants, Wanted, Matches, Reads
          <6> QED
            BY <6>1, <6>2
        <5>2. Store!Answer(r)
          BY <4>1, <4>2, <4>3, <4>5, <5>1, MappedDemand DEF Store!Answer,
             Store!Close, Phases, Outcomes, Rows, Writers, Wants
        <5> QED
          BY <5>2 DEF Store!Next
      <4> QED
        BY <4>4, <4>5
    <3> QED
      BY <3>2, <3>3
  <2> QED
    BY <1>3, <2>5, <2>6, <2>7, <2>8, <2>9, <2>10, <2>11, <2>12
    DEF Serve, StreamBreaks
<1>4. ASSUME NEW r \in Req, Reclaim(r) PROVE UNCHANGED Store!vars
  BY <1>0, <1>4 DEF Reclaim, Rows, Phases, Stored
<1>5. CASE Restart
  <2> DEFINE lost == {q \in Req : pc[q] \notin {"idle", "done"}}
  <2>1. \A q \in Req :
          /\ PhaseOf(pc'[q]) = IF q \in lost THEN "closed" ELSE Phases[q]
          /\ OutcomeOf(reply'[q]) = IF q \in lost THEN "doubt" ELSE Outcomes[q]
    BY <1>5 DEF Restart, Phases, Outcomes, PhaseOf, OutcomeOf, PCs
  <2>2. /\ Phases' = [q \in Req |-> IF q \in lost THEN "closed" ELSE Phases[q]]
        /\ Outcomes' = [q \in Req |-> IF q \in lost THEN "doubt" ELSE Outcomes[q]]
    BY <2>1, Zenon DEF Phases, Outcomes
  <2>3. \A q \in lost : Phases[q] = "open"
    BY DEF Phases, PhaseOf
  <2>4. UNCHANGED <<shape, seen, fetched>> /\ Rows' = Rows
    BY <1>5 DEF Restart, Rows, Stored
  <2>5. \E late \in SUBSET (lost \intersect Writers) : Rows' = Rows \union late
    <3>1. {} \in SUBSET (lost \intersect Writers) /\ Rows' = Rows \union {}
      BY <2>4
    <3> QED
      BY <3>1
  <2> HIDE DEF lost
  <2>6. Store!Fail(lost)
    BY <2>2, <2>3, <2>4, <2>5, MappedDemand DEF Store!Fail, Phases, Outcomes,
       Rows, Writers, Wants
  <2>7. lost \in SUBSET Req
    BY DEF lost
  <2> QED
    BY <2>6, <2>7 DEF Store!Next
<1>6. CASE UNCHANGED vars
  BY <1>0, <1>6 DEF vars, Rows, Phases, Stored
<1> QED
  BY <1>1, <1>2, <1>3, <1>4, <1>5, <1>6 DEF Next

\* Whatever handlers, failing connections and restarts do, a client sees the
\* store of MeasurementStore, if results do not break off (main.go).
THEOREM Refinement ==
  ASSUME ~StreamFaults
  PROVE  Spec => ImplementsStore
<1>1. Init => Store!Init
  <2> SUFFICES ASSUME Init PROVE Store!Init
    OBVIOUS
  <2> QED
    BY DEF Init, Store!Init, PhaseOf, OutcomeOf, Stored, Wanted
<1>2. IInv /\ [Next]_vars => [Store!Next]_(Store!vars)
  BY StoreStep
<1> QED
  BY <1>1, <1>2, Invariance, PTL DEF Spec, ImplementsStore, Store!Spec
=============================================================================
