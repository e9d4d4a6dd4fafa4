------------------------------ MODULE GoServer ------------------------------
(***************************************************************************)
(* The HTTP server of src/go-server/main.go.  net/http runs every request  *)
(* in a goroutine of its own, so a request is a process with a program     *)
(* counter, and one action is what its handler does up to the next point   *)
(* at which another goroutine or the database can be observed.  All that   *)
(* requests share is the database: its rows and its connection slots.      *)
(*                                                                         *)
(* A handler opens a connection pool per request (_connectToDb), so a      *)
(* request holds at most one connection of the database:                   *)
(*   "none"    no connection;                                              *)
(*   "idle"    open, no result pending;                                    *)
(*   "busy"    open, lent to a result (sql.Rows) that is not closed;       *)
(*   "orphan"  busy when its pool was closed: only the finalizer of the    *)
(*             garbage collector closes the socket.                        *)
(***************************************************************************)
EXTENDS Naturals, FiniteSets

CONSTANTS Req,          \* the requests that may arrive
          Shapes,       \* what a request may look like
          Devices,      \* device names
          MaxConn,      \* connection slots of the database
          MaxRestarts,  \* bound: restarts of the server process
          StreamFaults  \* whether a result may break off between two rows

Kinds == {"post", "put", "measurements", "location", "devices", "other"}
Writes == {"post", "put"}
Reads == {"measurements", "location", "devices"}

\* What can be wrong with a request: its body breaks off, no or bad
\* credentials, a body or parameters the handler refuses, values that the
\* database refuses (a name over 20 characters, a malformed query).
Flaws == {"truncated", "auth", "body", "sql"}

ShapeType == [kind: Kinds, flaws: SUBSET Flaws, device: Devices,
              ts: Nat, from: Nat, to: Nat]

ASSUME ShapesAssumption == Shapes \subseteq ShapeType
ASSUME MaxConnAssumption == MaxConn \in Nat
ASSUME MaxRestartsAssumption == MaxRestarts \in Nat
ASSUME StreamFaultsAssumption == StreamFaults \in BOOLEAN

VARIABLES
  shape,     \* what each request looks like
  pc,        \* where its handler is
  conn,      \* its database connection
  reply,     \* the status the client gets, "aborted" when it gets none
  stamp,     \* the position of its row in the heap, 0 when it stored none
  inserted,  \* rows stored so far
  fetched,   \* the rows a read has fetched, named by the write they are of
  seen,      \* history: the writes acknowledged when the request arrived
  accepted,  \* history: POSTs acknowledged by the running process
  restarts

vars == <<shape, pc, conn, reply, stamp, inserted, fetched, seen, accepted,
          restarts>>

PCs == {"idle", "auth", "decode", "connect", "query", "respond", "done"}
Conns == {"none", "idle", "busy", "orphan"}
Replies == {"none", "200", "400", "401", "500", "aborted"}

Kind(r) == shape[r].kind
Has(r, flaw) == flaw \in shape[r].flaws
IsPost(r) == Kind(r) = "post"
Stored(r) == stamp[r] > 0
Held == {r \in Req : conn[r] # "none"}
Acked == {r \in Req : Kind(r) \in Writes /\ reply[r] = "200"}

\* The WHERE clause of the read g, applied to the row that p writes.
Matches(p, g) ==
  \/ /\ Kind(g) = "measurements" /\ IsPost(p)
     /\ shape[g].from < shape[p].ts /\ shape[p].ts < shape[g].to
  \/ /\ Kind(g) = "location" /\ Kind(p) = "put"
     /\ shape[p].device = shape[g].device
  \/ Kind(g) = "devices" /\ Kind(p) = "put"

Selected(g) == {p \in Req : Stored(p) /\ Matches(p, g)}

\* Mutant: the first row instead of the last.
MutLastRow(S) == CHOOSE p \in S : \A q \in S : stamp[p] <= stamp[q]

\* The row that the scan loop of getLocation leaves in output: the last one.
LastRow(S) == CHOOSE p \in S : \A q \in S : stamp[q] <= stamp[p]

Init ==
  /\ shape \in [Req -> Shapes]
  /\ pc = [r \in Req |-> "idle"]
  /\ conn = [r \in Req |-> "none"]
  /\ reply = [r \in Req |-> "none"]
  /\ stamp = [r \in Req |-> 0]
  /\ inserted = 0
  /\ fetched = [r \in Req |-> {}]
  /\ seen = [r \in Req |-> {}]
  /\ accepted = {}
  /\ restarts = 0

-----------------------------------------------------------------------------
\* The handlers.

Goto(r, label) == pc' = [pc EXCEPT ![r] = label]
SetConn(r, c) == conn' = [conn EXCEPT ![r] = c]

\* The handler of r returns with a status.  The first WriteHeader wins: a POST
\* whose body breaks off has been sent 500 before anything else is looked at.
Answer(r, status) ==
  /\ Goto(r, "done")
  /\ reply' = [reply EXCEPT ![r] = IF IsPost(r) /\ Has(r, "truncated")
                                     THEN "500" ELSE status]

\* What a handler that returns early does with an unused connection: all but
\* postMeasurements have deferred db.Close().
DropIdle(r) == IF IsPost(r) THEN UNCHANGED conn ELSE SetConn(r, "none")

Arrive(r) ==
  /\ pc[r] = "idle"
  /\ Kind(r) # "other"
  /\ Goto(r, "auth")
  /\ seen' = [seen EXCEPT ![r] = Acked]
  /\ UNCHANGED <<shape, conn, reply, stamp, inserted, fetched, accepted, restarts>>

\* A method that the path does not have is answered 200, unauthenticated.
Unsupported(r) ==
  /\ pc[r] = "idle"
  /\ Kind(r) = "other"
  /\ Answer(r, "200")
  /\ UNCHANGED <<shape, conn, stamp, inserted, fetched, seen, accepted, restarts>>

Authenticate(r) ==
  /\ pc[r] = "auth"
  /\ IF Has(r, "auth")
       THEN Answer(r, "401")
       ELSE /\ Goto(r, IF IsPost(r) THEN "decode" ELSE "connect")
            /\ UNCHANGED reply
  /\ UNCHANGED <<shape, conn, stamp, inserted, fetched, seen, accepted, restarts>>

\* The body of a write or the parameters of a read.  postMeasurements looks at
\* them before it connects, the others after.
Decode(r) ==
  /\ pc[r] = "decode"
  /\ IF Has(r, "body") \/ Has(r, "truncated")
       THEN /\ Answer(r, IF Kind(r) \in Writes THEN "400" ELSE "500")
            /\ DropIdle(r)
       ELSE /\ Goto(r, IF IsPost(r) THEN "connect" ELSE "query")
            /\ UNCHANGED <<conn, reply>>
  /\ UNCHANGED <<shape, stamp, inserted, fetched, seen, accepted, restarts>>

\* _connectToDb returns a pool that holds one connection, opened by Ping.
Connect(r) ==
  /\ pc[r] = "connect"
  /\ Cardinality(Held) < MaxConn
  /\ SetConn(r, "idle")
  /\ Goto(r, IF IsPost(r) THEN "query" ELSE "decode")
  /\ UNCHANGED <<shape, reply, stamp, inserted, fetched, seen, accepted, restarts>>

\* Mutant: a read without a database is answered as if it had no rows.
MutConnectFailsEmpty(r) ==
  /\ pc[r] = "connect"
  /\ Answer(r, IF IsPost(r) THEN "500" ELSE "200")
  /\ UNCHANGED <<shape, conn, stamp, inserted, fetched, seen, accepted, restarts>>

\* Mutant: the handler tries again until there is a connection.
MutConnectFailsRetry(r) == pc[r] = "connect" /\ UNCHANGED vars

\* _connectToDb returns nil.  postMeasurements answers; the others have deferred
\* db.Close() on the nil pool, the panic of which makes net/http drop the
\* client's connection with the answer still in its buffer.
ConnectFails(r) ==
  /\ pc[r] = "connect"
  /\ IF IsPost(r)
       THEN Answer(r, "500")
       ELSE /\ Goto(r, "done")
            /\ reply' = [reply EXCEPT ![r] = "aborted"]
  /\ UNCHANGED <<shape, conn, stamp, inserted, fetched, seen, accepted, restarts>>

Insert(r) ==
  /\ inserted' = inserted + 1
  /\ stamp' = [stamp EXCEPT ![r] = inserted + 1]

\* Mutant: the statement runs in a transaction that nobody commits.
MutQuery(r) ==
  /\ pc[r] = "query"
  /\ ~Has(r, "sql")
  /\ SetConn(r, "busy")
  /\ Goto(r, "respond")
  /\ fetched' = [fetched EXCEPT ![r] = Selected(r)]
  /\ UNCHANGED <<shape, reply, stamp, inserted, seen, accepted, restarts>>

\* db.Query: a write has been committed when it returns, a read has its
\* snapshot.  Either way the connection is lent to the sql.Rows.
Query(r) ==
  /\ pc[r] = "query"
  /\ ~Has(r, "sql")
  /\ SetConn(r, "busy")
  /\ Goto(r, "respond")
  /\ IF Kind(r) \in Writes
       THEN Insert(r) /\ UNCHANGED fetched
       ELSE /\ fetched' = [fetched EXCEPT ![r] = Selected(r)]
            /\ UNCHANGED <<stamp, inserted>>
  /\ UNCHANGED <<shape, reply, seen, accepted, restarts>>

\* Mutants: the error of db.Query is not looked at.
MutQueryRejected(r) ==
  /\ pc[r] = "query"
  /\ Has(r, "sql")
  /\ Answer(r, "200")
  /\ DropIdle(r)
  /\ UNCHANGED <<shape, stamp, inserted, fetched, seen, accepted, restarts>>

MutQueryBreaks(r) ==
  /\ pc[r] = "query"
  /\ ~Has(r, "sql")
  /\ Goto(r, "respond")
  /\ SetConn(r, "none")
  /\ UNCHANGED <<shape, reply, stamp, inserted, fetched, seen, accepted, restarts>>

\* The database refuses the statement; the connection goes back to its pool.
QueryRejected(r) ==
  /\ pc[r] = "query"
  /\ Has(r, "sql")
  /\ Answer(r, "500")
  /\ DropIdle(r)
  /\ UNCHANGED <<shape, stamp, inserted, fetched, seen, accepted, restarts>>

\* The connection breaks under the query, before or after a write took effect.
QueryBreaks(r) ==
  /\ pc[r] = "query"
  /\ ~Has(r, "sql")
  /\ Answer(r, "500")
  /\ SetConn(r, "none")
  /\ \/ Kind(r) \in Writes /\ Insert(r)
     \/ UNCHANGED <<stamp, inserted>>
  /\ UNCHANGED <<shape, fetched, seen, accepted, restarts>>

\* Mutant: a status of its own for a result without rows.
MutReadStatus(r, rows) ==
  IF Kind(r) = "location" /\ rows = {} THEN "404" ELSE "200"

\* The status of a read whose loop over the rows has ended without an error it
\* looks at.
ReadStatus(r, rows) ==
  IF Kind(r) = "location" /\ rows = {} THEN "500" ELSE "200"

\* Mutant: putLocation without its deferred db.Close().
MutRespond(r) ==
  /\ pc[r] = "respond"
  /\ Answer(r, ReadStatus(r, fetched[r]))
  /\ IF Kind(r) \in Writes THEN UNCHANGED conn ELSE SetConn(r, "none")
  /\ accepted' = IF IsPost(r) THEN accepted \union {r} ELSE accepted
  /\ UNCHANGED <<shape, stamp, inserted, fetched, seen, restarts>>

\* The handler returns: the deferred rows.Close() and db.Close() of a read free
\* its connection; putLocation discarded its rows, so that db.Close() finds the
\* connection in use and leaves it; postMeasurements closes nothing.
Respond(r) ==
  /\ pc[r] = "respond"
  /\ Answer(r, ReadStatus(r, fetched[r]))
  /\ IF IsPost(r)
       THEN UNCHANGED conn
       ELSE SetConn(r, IF Kind(r) = "put" THEN "orphan" ELSE "none")
  /\ accepted' = IF IsPost(r) THEN accepted \union {r} ELSE accepted
  /\ UNCHANGED <<shape, stamp, inserted, fetched, seen, restarts>>

\* Mutant: getMeasurements does not look at rows.Err() either.
MutStreamBreaks(r) ==
  /\ StreamFaults
  /\ pc[r] = "respond"
  /\ Kind(r) \in Reads
  /\ \E n \in 0..inserted :
       LET prefix == {p \in fetched[r] : stamp[p] <= n} IN
       /\ fetched' = [fetched EXCEPT ![r] = prefix]
       /\ Answer(r, ReadStatus(r, prefix))
  /\ SetConn(r, "none")
  /\ UNCHANGED <<shape, stamp, inserted, seen, accepted, restarts>>

\* The result breaks off after some of its rows.  Only getMeasurements looks at
\* rows.Err(); the others answer with the rows they got.
StreamBreaks(r) ==
  /\ StreamFaults
  /\ pc[r] = "respond"
  /\ Kind(r) \in Reads
  /\ \E n \in 0..inserted :
       LET prefix == {p \in fetched[r] : stamp[p] <= n} IN
       /\ fetched' = [fetched EXCEPT ![r] = prefix]
       /\ Answer(r, IF Kind(r) = "measurements"
                      THEN "500" ELSE ReadStatus(r, prefix))
  /\ SetConn(r, "none")
  /\ UNCHANGED <<shape, stamp, inserted, seen, accepted, restarts>>

\* Mutant: the connection of an answered POST is finalized too.
MutReclaim(r) ==
  /\ conn[r] = "orphan" \/ (IsPost(r) /\ pc[r] = "done")
  /\ SetConn(r, "none")
  /\ UNCHANGED <<shape, pc, reply, stamp, inserted, fetched, seen, accepted, restarts>>

\* The garbage collector finalizes the socket of an unreachable connection.
\* The pool of a POST is never closed: its connectionOpener goroutine keeps the
\* pool, and with it the connection, reachable.
Reclaim(r) ==
  /\ conn[r] = "orphan"
  /\ SetConn(r, "none")
  /\ UNCHANGED <<shape, pc, reply, stamp, inserted, fetched, seen, accepted, restarts>>

\* The process ends and an operator starts it again (the service file sets no
\* Restart=).  Its sockets close; requests in flight get no answer.
Restart ==
  /\ restarts < MaxRestarts
  /\ restarts' = restarts + 1
  /\ conn' = [r \in Req |-> "none"]
  /\ pc' = [r \in Req |-> IF pc[r] = "idle" THEN "idle" ELSE "done"]
  /\ reply' = [r \in Req |-> IF pc[r] \in {"idle", "done"}
                               THEN reply[r] ELSE "aborted"]
  /\ accepted' = {}
  /\ UNCHANGED <<shape, stamp, inserted, fetched, seen>>

\* A step of the handler of r.
Serve(r) ==
  \/ Authenticate(r)
  \/ Decode(r)
  \/ Connect(r)
  \/ ConnectFails(r)
  \/ Query(r)
  \/ QueryRejected(r)
  \/ QueryBreaks(r)
  \/ Respond(r)
  \/ StreamBreaks(r)

Next ==
  \/ \E r \in Req : Arrive(r) \/ Unsupported(r) \/ Serve(r) \/ Reclaim(r)
  \/ Restart

Spec == Init /\ [][Next]_vars

\* Goroutines are scheduled and the runtime forces a collection every two
\* minutes.  Nothing is assumed of arrivals, restarts or of which of several
\* outcomes a step has.
Fairness == \A r \in Req : WF_vars(Serve(r)) /\ WF_vars(Reclaim(r))

FairSpec == Spec /\ Fairness

-----------------------------------------------------------------------------
TypeOK ==
  /\ shape \in [Req -> Shapes]
  /\ pc \in [Req -> PCs]
  /\ conn \in [Req -> Conns]
  /\ reply \in [Req -> Replies]
  /\ stamp \in [Req -> Nat]
  /\ inserted \in Nat
  /\ fetched \in [Req -> SUBSET Req]
  /\ seen \in [Req -> SUBSET Req]
  /\ accepted \subseteq Req
  /\ restarts \in 0..MaxRestarts

\* The status a writer gets tells what became of its row: 200 means that it is
\* stored, 400 and 401 that it is not (postMeasurements, putLocation).
StatusTellsTruth ==
  \A r \in Req : Kind(r) \in Writes =>
    /\ reply[r] = "200" => Stored(r)
    /\ reply[r] \in {"400", "401"} => ~Stored(r)

\* An answered GET /pms5003 holds every row of its window that had been
\* acknowledged when it arrived, and no row that is not stored or not in the
\* window, whatever happens to the result on the way (getMeasurements).
MeasurementsExact ==
  \A g \in Req : Kind(g) = "measurements" /\ reply[g] = "200" =>
    /\ {p \in seen[g] : Matches(p, g)} \subseteq fetched[g]
    /\ fetched[g] \subseteq Selected(g)

\* A located device is where the newest of the PUTs put it that had been
\* acknowledged when the GET arrived, or a newer one (getLocation: "we will
\* just get the last one").
LocationIsLatest ==
  \A g \in Req : Kind(g) = "location" /\ reply[g] = "200" =>
    \A p \in seen[g] : Matches(p, g) => stamp[p] <= stamp[LastRow(fetched[g])]

\* A handler other than postMeasurements that has returned keeps no
\* connection, but for the one putLocation leaves to the garbage collector.
NoReaderLeak ==
  \A r \in Req : pc[r] = "done" /\ ~IsPost(r) =>
    conn[r] = "none" \/ (Kind(r) = "put" /\ conn[r] = "orphan")

\* Every acknowledged POST costs a connection slot for the life of the process:
\* one process never acknowledges more POSTs than the database has slots.
AcceptanceBound == Cardinality(accepted) <= MaxConn

\* The POSTs whose connection nothing but the end of the process will free: lent
\* to rows that are never closed, or idle in a pool that is never closed.
Pinned == {r \in Req : /\ IsPost(r)
                       /\ conn[r] = "busy" \/ (conn[r] = "idle" /\ pc[r] = "done")}

\* No step of the server, however often it serves, frees a pinned connection.
PinnedForever ==
  [][restarts' = restarts => Pinned \subseteq Pinned']_vars

\* With every slot pinned the server is up and answers 200 to nobody but the
\* POSTs that hold the slots and requests of no supported method.
FullPoolMute ==
  [][Cardinality(Pinned) = MaxConn =>
       \A r \in Req : reply[r] # "200" /\ reply'[r] = "200" =>
         r \in Pinned \/ Kind(r) = "other"]_vars

\* What the nil check after each _connectToDb is written for: a read that finds
\* every slot pinned by POSTs acknowledged before it came gets an answer, while
\* the process lives.
NilDbAnswered ==
  restarts = 0 =>
    \A r \in Req : /\ Kind(r) \in Reads
                   /\ Cardinality(seen[r] \intersect Pinned) = MaxConn
                   => reply[r] # "aborted"

\* Every request that arrives ends, whatever the database does.
EveryRequestEnds ==
  \A r \in Req : pc[r] = "auth" ~> pc[r] = "done"

\* In the end all connections have been given back but those of POSTs.
OnlyPostsLeak ==
  <>[](\A r \in Req : conn[r] # "none" => IsPost(r))
-----------------------------------------------------------------------------
\* What a client of the server can rely on, as an abstract store: rows are the
\* stored ones, a request is closed when its handler has returned, and its
\* outcome is what the status tells.
PhaseOf(label) == IF label = "idle" THEN "new"
                  ELSE IF label = "done" THEN "closed" ELSE "open"

OutcomeOf(status) == IF status = "none" THEN "none"
                     ELSE IF status = "200" THEN "acked"
                     ELSE IF status \in {"400", "401"} THEN "refused"
                     ELSE "doubt"

Wanted(g) == {p \in Req : Matches(p, g)}

Store == INSTANCE MeasurementStore WITH
  writers <- {r \in Req : Kind(r) \in Writes},
  wants <- [g \in Req |-> Wanted(g)],
  rows <- {r \in Req : Stored(r)},
  phase <- [r \in Req |-> PhaseOf(pc[r])],
  outcome <- [r \in Req |-> OutcomeOf(reply[r])],
  known <- seen,
  view <- fetched

\* The server implements MeasurementStore: whatever handlers, restarts and
\* failing connections do, rows come from open writes and are never lost, the
\* status never lies, and an answered read saw all acknowledged rows it asked
\* for (main.go, the handlers together).  It needs results that do not break
\* off: StreamFaults = FALSE.
ImplementsStore == Store!Spec
=============================================================================
