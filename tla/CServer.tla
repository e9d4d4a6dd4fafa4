------------------------------ MODULE CServer ------------------------------
(***************************************************************************)
(* The older server of src/server, in C.  main accepts connections and     *)
(* starts a detached thread for each (handle_client), which reads once,    *)
(* answers and closes.  The threads share the process: its descriptors,    *)
(* its connections to the database, and its end when one of them crashes.  *)
(*                                                                         *)
(* A thread receives once, into memory that is neither cleared nor         *)
(* terminated: what it reads may end early, and even after a whole request *)
(* it goes on with what an earlier one left there, up to the next NUL.     *)
(* heard[c] is what the thread of c makes of it, in the order in which it  *)
(* looks:                                                                  *)
(*   "nomethod"  no request line of a supported method;                    *)
(*   "nopath"    a path that is not served;                                *)
(*   "noauth"    a POST without the right credentials;                     *)
(*   "null"      a POST without a blank line, and so without a body, or a  *)
(*               GET with a parameter that ends where its = would be;      *)
(*   "bad"       a body or parameters that do not parse;                   *)
(*   "unset"     five parameters that parse, none of them device_name,     *)
(*               whose pointer keeps what was on the stack;                *)
(*   "wrong"     values that parse, and are not the client's;              *)
(*   "right"     the client's values.                                      *)
(***************************************************************************)
EXTENDS Naturals, FiniteSets

CONSTANTS Client,       \* the connections that clients may make
          Shapes,       \* what they send over one
          MaxConn,      \* connection slots of the database
          MaxFds,       \* descriptors for clients and database connections
          MaxRestarts,  \* bound: restarts of the process
          Faults        \* "cut": requests come in pieces; "read": reads fail

Kinds == {"post", "get", "other", "silent"}
Flaws == {"path", "auth", "nobody", "body", "sql"}
ShapeType == [kind: Kinds, flaws: SUBSET Flaws, ts: Nat, from: Nat, to: Nat]

ASSUME ShapesAssumption == Shapes \subseteq ShapeType
ASSUME MaxConnAssumption == MaxConn \in Nat
ASSUME MaxFdsAssumption == MaxFds \in Nat
ASSUME MaxRestartsAssumption == MaxRestarts \in Nat
ASSUME FaultsAssumption == Faults \subseteq {"cut", "read"}

VARIABLES
  shape,    \* what each client sends
  pc,       \* where its connection, then its thread, is
  fd,       \* the clients whose descriptor is open
  conn,     \* the clients whose thread's database connection is open
  heard,    \* what the thread made of the bytes it received
  status,   \* its answer; the client has it when pc is "done"
  row,      \* what it stored: "none", "right" or "wrong" values
  fetched,  \* the rows a read has fetched
  seen,     \* history: the POSTs acknowledged when the client connected
  served,   \* history: clients this process has answered from the database
  up,       \* whether the process runs
  restarts

vars == <<shape, pc, fd, conn, heard, status, row, fetched, seen, served, up,
          restarts>>
resources == <<fd, conn>>
process == <<up, restarts>>

PCs == {"new", "backlog", "recv", "route", "connect", "query", "send", "done"}
Refused == {"nomethod", "nopath", "noauth", "bad"}
Understood == {"unset", "wrong", "right"}
Hearings == {"none", "null"} \union Refused \union Understood
Statuses == {"none", "200", "400", "403", "404", "500", "raw", "aborted"}

Kind(c) == shape[c].kind
Has(c, flaw) == flaw \in shape[c].flaws
IsPost(c) == Kind(c) = "post"
Stored(c) == row[c] # "none"
Acked == {c \in Client : IsPost(c) /\ pc[c] = "done" /\ status[c] = "200"}

\* A database connection takes a descriptor, too.
Descriptors == Cardinality(fd) + Cardinality(conn)

\* The WHERE clause of the read g, applied to the row that p sends.
Matches(p, g) ==
  /\ IsPost(p) /\ Kind(g) = "get"
  /\ shape[g].from < shape[p].ts /\ shape[p].ts < shape[g].to

\* The rows as they were sent; rows of wrong values are not followed any further.
Selected(g) == {p \in Client : row[p] = "right" /\ Matches(p, g)}

Init ==
  /\ shape \in [Client -> Shapes]
  /\ pc = [c \in Client |-> "new"]
  /\ fd = {}
  /\ conn = {}
  /\ heard = [c \in Client |-> "none"]
  /\ status = [c \in Client |-> "none"]
  /\ row = [c \in Client |-> "none"]
  /\ fetched = [c \in Client |-> {}]
  /\ seen = [c \in Client |-> {}]
  /\ served = {}
  /\ up = TRUE
  /\ restarts = 0

-----------------------------------------------------------------------------
\* The accept loop, and what a thread receives.

Goto(c, label) == pc' = [pc EXCEPT ![c] = label]

Arrive(c) ==
  /\ up
  /\ pc[c] = "new"
  /\ Goto(c, "backlog")
  /\ seen' = [seen EXCEPT ![c] = Acked]
  /\ UNCHANGED <<shape, resources, heard, status, row, fetched, served, process>>

\* Without a free descriptor accept fails, and main calls it again at once.
Accept(c) ==
  /\ pc[c] = "backlog"
  /\ Descriptors < MaxFds
  /\ fd' = fd \union {c}
  /\ Goto(c, "recv")
  /\ UNCHANGED <<shape, conn, heard, status, row, fetched, seen, served, process>>

\* What a whole request may be taken for.  The request line ends in itself, so
\* only the header that follows and the body, which runs to the next NUL, can go on
\* with leftovers: they lengthen the last value, add parameters, or hold the blank
\* line or the credentials that the request lacks.
Stray == {"bad", "unset", "wrong"}

Body(c) ==
  IF Has(c, "nobody") THEN Stray \union {"null"}
  ELSE IF Has(c, "body") THEN Stray
  ELSE {"right", "wrong", "bad"}

Sent(c) ==
  IF Kind(c) = "other" THEN {"nomethod"}
  ELSE IF Has(c, "path") THEN {"nopath"}
  ELSE IF IsPost(c)
    THEN IF Has(c, "auth") THEN {"noauth"} \union (Body(c) \ {"right"}) ELSE Body(c)
  ELSE {IF Has(c, "nobody") THEN "null" ELSE IF Has(c, "body") THEN "bad" ELSE "right"}

\* What a request that came in pieces may be taken for, if the name of its method
\* came whole: anything that there is for the method.
Garbled(c) ==
  IF Kind(c) = "other" THEN {"nomethod"}
  ELSE IF IsPost(c) THEN Hearings \ {"none"}
  ELSE Hearings \ {"none", "noauth", "unset"}

Receive(c) ==
  /\ pc[c] = "recv"
  /\ Kind(c) # "silent"
  /\ \E what \in Sent(c) \union (IF "cut" \in Faults THEN Garbled(c) ELSE {}) :
       heard' = [heard EXCEPT ![c] = what]
  /\ Goto(c, "route")
  /\ UNCHANGED <<shape, resources, status, row, fetched, seen, served, process>>

\* recv returns nothing when the client closes, and waits for as long as it does
\* not.  The descriptor is not closed.
ReceiveNothing(c) ==
  /\ pc[c] = "recv"
  /\ Kind(c) = "silent"
  /\ Goto(c, "done")
  /\ UNCHANGED <<shape, resources, heard, status, row, fetched, seen, served, process>>

-----------------------------------------------------------------------------
\* _handle_get_request and _handle_post_request.

Answer(c, s) == Goto(c, "send") /\ status' = [status EXCEPT ![c] = s]

\* The status of a request that does not get to the database.
Refusal(c) ==
  IF heard[c] = "nomethod" THEN "raw"
  ELSE IF heard[c] = "nopath" THEN "404"
  ELSE IF heard[c] = "noauth" THEN "403" ELSE "400"

Refuse(c) ==
  /\ pc[c] = "route"
  /\ heard[c] \in Refused
  /\ Answer(c, Refusal(c))
  /\ UNCHANGED <<shape, resources, heard, row, fetched, seen, served, process>>

\* Mutant: what parseInsertPMS5003Body returns is not looked at.
MutProceed(c) ==
  /\ pc[c] = "route"
  /\ heard[c] \in Understood \union {"bad"}
  /\ Goto(c, "connect")
  /\ UNCHANGED <<shape, resources, heard, status, row, fetched, seen, served, process>>

Proceed(c) ==
  /\ pc[c] = "route"
  /\ heard[c] \in Understood
  /\ Goto(c, "connect")
  /\ UNCHANGED <<shape, resources, heard, status, row, fetched, seen, served, process>>

\* The process ends, whatever its threads were doing.
End ==
  /\ up' = FALSE
  /\ fd' = {}
  /\ conn' = {}
  /\ served' = {}
  /\ pc' = [c \in Client |-> IF pc[c] = "new" THEN "new" ELSE "done"]
  /\ status' = [c \in Client |-> IF pc[c] \in {"new", "done"}
                                   THEN status[c] ELSE "aborted"]
  /\ UNCHANGED <<shape, heard, row, fetched, seen, restarts>>

\* strlen of the missing body in parseInsertPMS5003Body, or memcpy of -1 bytes in
\* extract_query_param.
Crash(c) ==
  /\ pc[c] = "route"
  /\ heard[c] = "null"
  /\ End

\* device_name was not set: printing it into the INSERT may end the process, and
\* so may free after the database has answered, whatever it answered.
CrashUnset(c) ==
  /\ pc[c] \in {"query", "send"}
  /\ heard[c] = "unset"
  /\ End

\* SIGINT.
Interrupt == up /\ restarts < MaxRestarts /\ End

\* Somebody runs run.sh again.
Start ==
  /\ ~up
  /\ restarts < MaxRestarts
  /\ up' = TRUE
  /\ restarts' = restarts + 1
  /\ UNCHANGED <<shape, pc, resources, heard, status, row, fetched, seen, served>>

Connect(c) ==
  /\ pc[c] = "connect"
  /\ Cardinality(conn) < MaxConn
  /\ Descriptors < MaxFds
  /\ conn' = conn \union {c}
  /\ Goto(c, "query")
  /\ UNCHANGED <<shape, fd, heard, status, row, fetched, seen, served, process>>

\* Mutant: the thread tries until there is a connection.
MutConnectFails(c) == pc[c] = "connect" /\ UNCHANGED vars

\* Mutant: what get_PMS5003_measurements returns is not looked at.
MutConnectFailsEmpty(c) ==
  /\ pc[c] = "connect"
  /\ Answer(c, IF IsPost(c) THEN "500" ELSE "200")
  /\ UNCHANGED <<shape, resources, heard, row, fetched, seen, served, process>>

\* The failed PGconn is finished.
ConnectFails(c) ==
  /\ pc[c] = "connect"
  /\ Answer(c, "500")
  /\ UNCHANGED <<shape, resources, heard, row, fetched, seen, served, process>>

Insert(c) ==
  row' = [row EXCEPT ![c] = IF heard[c] = "unset" THEN "wrong" ELSE heard[c]]

\* Whether the database takes the statement; values that are not the client's may
\* be such that it does or does not.
Valid(c) == heard[c] # "right" \/ ~Has(c, "sql")
Invalid(c) == heard[c] # "right" \/ Has(c, "sql")

\* insert_PMS5003_measurement.  Its PGconn is never finished.
Write(c) ==
  /\ pc[c] = "query"
  /\ IsPost(c) /\ Valid(c)
  /\ Insert(c)
  /\ Answer(c, "200")
  /\ UNCHANGED <<shape, resources, heard, fetched, seen, served, process>>

\* Mutant: PQresultStatus is not looked at.
MutWriteRejected(c) ==
  /\ pc[c] = "query"
  /\ IsPost(c) /\ Invalid(c)
  /\ Answer(c, "200")
  /\ UNCHANGED <<shape, resources, heard, row, fetched, seen, served, process>>

WriteRejected(c) ==
  /\ pc[c] = "query"
  /\ IsPost(c) /\ Invalid(c)
  /\ Answer(c, "500")
  /\ UNCHANGED <<shape, resources, heard, row, fetched, seen, served, process>>

\* Mutant: PGRES_FATAL_ERROR counts as success.
MutWriteBreaks(c) ==
  /\ pc[c] = "query"
  /\ IsPost(c)
  /\ (Valid(c) /\ Insert(c)) \/ UNCHANGED row
  /\ conn' = conn \ {c}
  /\ Answer(c, "200")
  /\ UNCHANGED <<shape, fd, heard, fetched, seen, served, process>>

\* The connection breaks under the INSERT, before or after it took effect; libpq
\* closes its socket.
WriteBreaks(c) ==
  /\ pc[c] = "query"
  /\ IsPost(c)
  /\ (Valid(c) /\ Insert(c)) \/ UNCHANGED row
  /\ conn' = conn \ {c}
  /\ Answer(c, "500")
  /\ UNCHANGED <<shape, fd, heard, fetched, seen, served, process>>

\* get_PMS5003_measurements: PQexec fetches the whole result.  A window that is
\* not the client's may hold any rows.
Read(c) ==
  /\ pc[c] = "query"
  /\ ~IsPost(c)
  /\ \E rows \in IF heard[c] = "right" THEN {Selected(c)}
                  ELSE SUBSET {p \in Client : row[p] = "right"} :
       fetched' = [fetched EXCEPT ![c] = rows]
  /\ Answer(c, "200")
  /\ UNCHANGED <<shape, resources, heard, row, seen, served, process>>

\* The SELECT fails, on a broken connection or not.  What _extract_tuples returns
\* is not looked at: the client gets an empty array.
ReadFails(c) ==
  /\ "read" \in Faults
  /\ pc[c] = "query"
  /\ ~IsPost(c)
  /\ fetched' = [fetched EXCEPT ![c] = {}]
  /\ Answer(c, "200")
  /\ conn' \in {conn, conn \ {c}}
  /\ UNCHANGED <<shape, fd, heard, row, seen, served, process>>

\* An answer to a read whose connection broke is 200, too, but not served.
FromDatabase(c) == status[c] = "200" /\ (IsPost(c) \/ c \in conn)

\* Mutant: close only after an answer that is a success.
MutSend(c) ==
  /\ pc[c] = "send"
  /\ Goto(c, "done")
  /\ fd' = IF status[c] = "200" THEN fd \ {c} ELSE fd
  /\ served' = IF FromDatabase(c) THEN served \union {c} ELSE served
  /\ UNCHANGED <<shape, conn, heard, status, row, fetched, seen, process>>

\* send and close; the thread ends.
Send(c) ==
  /\ pc[c] = "send"
  /\ Goto(c, "done")
  /\ fd' = fd \ {c}
  /\ served' = IF FromDatabase(c) THEN served \union {c} ELSE served
  /\ UNCHANGED <<shape, conn, heard, status, row, fetched, seen, process>>

\* A step of the thread of c that does not wait for its client.
Serve(c) ==
  \/ Receive(c)
  \/ Refuse(c) \/ Proceed(c) \/ Crash(c) \/ CrashUnset(c)
  \/ Connect(c) \/ ConnectFails(c)
  \/ Write(c) \/ WriteRejected(c) \/ WriteBreaks(c)
  \/ Read(c) \/ ReadFails(c)
  \/ Send(c)

Next ==
  \/ \E c \in Client : Arrive(c) \/ Accept(c) \/ ReceiveNothing(c) \/ Serve(c)
  \/ Interrupt \/ Start

Spec == Init /\ [][Next]_vars

\* Threads are scheduled, a client that sends has sent, and libpq returns.
Fairness == \A c \in Client : WF_vars(Serve(c))

FairSpec == Spec /\ Fairness

-----------------------------------------------------------------------------
TypeOK ==
  /\ shape \in [Client -> Shapes]
  /\ pc \in [Client -> PCs]
  /\ fd \subseteq Client
  /\ conn \subseteq Client
  /\ heard \in [Client -> Hearings]
  /\ status \in [Client -> Statuses]
  /\ row \in [Client -> {"none", "right", "wrong"}]
  /\ fetched \in [Client -> SUBSET Client]
  /\ seen \in [Client -> SUBSET Client]
  /\ served \subseteq Client
  /\ up \in BOOLEAN
  /\ restarts \in 0..MaxRestarts

\* The status tells a writer what became of its row, however its bytes came in:
\* 200 means that a row is stored, 400, 403, 404 and the message of an
\* unsupported protocol that none is (_handle_post_request).
StatusTellsTruth ==
  \A c \in Client : IsPost(c) /\ pc[c] = "done" =>
    /\ status[c] = "200" => Stored(c)
    /\ status[c] \in {"400", "403", "404", "raw"} => ~Stored(c)

\* The clients that sent nothing and are gone, whose descriptors stay open.
Forgotten == {c \in fd : pc[c] = "done"}

\* What serving costs: each answer out of the database takes a slot of the
\* database and a descriptor of the process for good, each silent client a
\* descriptor (handle_client, insert_PMS5003_measurement,
\* get_PMS5003_measurements).
ServiceBound ==
  /\ Cardinality(served) <= MaxConn
  /\ Cardinality(served) + Cardinality(Forgotten) <= MaxFds

\* Every slot of the database is lent to a thread that has its answer.
Spent == Cardinality(conn) = MaxConn /\ \A c \in conn : pc[c] \in {"send", "done"}

\* Once that is so it stays so for as long as the process lives, which goes on
\* accepting clients and has a 200 for none of them (insert_PMS5003_measurement,
\* get_PMS5003_measurements).
FullDatabaseMute ==
  [][ Spent /\ up' =>
        Spent' /\ \A c \in Client : status'[c] = "200" => status[c] = "200" ]_vars

\* An answered read holds every acknowledged row of its window
\* (get_PMS5003_measurements).
ReadsExact ==
  \A g \in Client : Kind(g) = "get" /\ pc[g] = "done" /\ status[g] = "200" =>
    {p \in seen[g] : row[p] = "right" /\ Matches(p, g)} \subseteq fetched[g]

\* Every client that sends something and has been accepted is done with in the
\* end, be it by the end of the process.
AcceptedEnds ==
  \A c \in Client : pc[c] = "recv" /\ Kind(c) # "silent" ~> pc[c] = "done"

\* In the end the process has only silent clients' descriptors open.
OnlySilentStay == <>[](\A c \in fd : Kind(c) = "silent")

-----------------------------------------------------------------------------
\* The abstract store of the rows that clients meant.  A client has its outcome
\* when it has its answer; an answer that is about other values than its own tells
\* it nothing, whatever the status.
Meant(c) == heard[c] = "right"

PhaseOf(label) == IF label = "new" THEN "new"
                  ELSE IF label = "done" THEN "closed" ELSE "open"

OutcomeOf(c) == IF pc[c] # "done" THEN "none"
                ELSE IF status[c] = "200" /\ Meant(c) THEN "acked"
                ELSE IF status[c] \in {"400", "403", "404", "raw"} THEN "refused"
                ELSE "doubt"

Store == INSTANCE MeasurementStore WITH
  Req <- Client,
  writers <- {c \in Client : IsPost(c)},
  wants <- [g \in Client |-> {p \in Client : Matches(p, g)}],
  rows <- {c \in Client : row[c] = "right"},
  phase <- [c \in Client |-> PhaseOf(pc[c])],
  outcome <- [c \in Client |-> OutcomeOf(c)],
  known <- [g \in Client |-> {p \in seen[g] : Meant(p)}],
  view <- [g \in Client |-> IF Meant(g) THEN fetched[g] ELSE {}]

\* To clients whose values came through unmixed the C server keeps the promise of
\* MeasurementStore, whatever leftovers make of the requests of others, threads,
\* crashes and restarts included (handle_client and what it calls).  It needs
\* reads that do not fail: "read" \notin Faults.
ImplementsStore == Store!Spec
=============================================================================
