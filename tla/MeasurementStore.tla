-------------------------- MODULE MeasurementStore --------------------------
(***************************************************************************)
(* What the station's server promises its clients, without handlers,       *)
(* connections or statuses: a durable store of rows.  A request opens,     *)
(* may store its row or look at the rows, and closes with an outcome:      *)
(*   "acked"    a write is stored, a read is answered;                     *)
(*   "refused"  nothing was or will be stored;                             *)
(*   "doubt"    the client cannot tell.                                    *)
(* A row comes from a write that is open, and is never lost.  A read that  *)
(* is answered saw every wanted row acknowledged before it opened.         *)
(***************************************************************************)
EXTENDS FiniteSets

CONSTANT Req          \* the requests that clients may send

VARIABLES
  writers,   \* the requests that are writes; never changes
  wants,     \* wants[g]: the writes whose rows the read g asks for
  rows,      \* the writes whose row is stored
  phase,     \* "new", "open" or "closed"
  outcome,   \* "none" until the request is closed
  known,     \* known[g]: the writes acknowledged when g opened
  view       \* view[g]: the rows that the read g last looked at

vars == <<writers, wants, rows, phase, outcome, known, view>>

Outcomes == {"acked", "refused", "doubt"}
Acknowledged == {p \in writers : outcome[p] = "acked"}

Init ==
  /\ writers \subseteq Req
  /\ wants \in [Req -> SUBSET Req]
  /\ rows = {}
  /\ phase = [r \in Req |-> "new"]
  /\ outcome = [r \in Req |-> "none"]
  /\ known = [r \in Req |-> {}]
  /\ view = [r \in Req |-> {}]

Open(r) ==
  /\ phase[r] = "new"
  /\ phase' = [phase EXCEPT ![r] = "open"]
  /\ known' = [known EXCEPT ![r] = Acknowledged]
  /\ UNCHANGED <<writers, wants, rows, outcome, view>>

Store(p) ==
  /\ phase[p] = "open"
  /\ p \in writers \ rows
  /\ rows' = rows \union {p}
  /\ UNCHANGED <<writers, wants, phase, outcome, known, view>>

Look(g) ==
  /\ phase[g] = "open"
  /\ g \notin writers
  /\ view' = [view EXCEPT ![g] = rows \intersect wants[g]]
  /\ UNCHANGED <<writers, wants, rows, phase, outcome, known>>

Close(r, how) ==
  /\ phase' = [phase EXCEPT ![r] = "closed"]
  /\ outcome' = [outcome EXCEPT ![r] = how]
  /\ UNCHANGED <<writers, wants, rows, known, view>>

Acknowledge(p) ==
  /\ phase[p] = "open"
  /\ p \in writers \intersect rows
  /\ Close(p, "acked")

Answer(g) ==
  /\ phase[g] = "open"
  /\ g \notin writers
  /\ known[g] \intersect wants[g] \subseteq view[g]
  /\ Close(g, "acked")

\* A request that asks for nothing.
Ignore(r) ==
  /\ phase[r] = "new"
  /\ r \notin writers
  /\ wants[r] = {}
  /\ Close(r, "acked")

Refuse(r) ==
  /\ phase[r] = "open"
  /\ r \notin rows
  /\ Close(r, "refused")

\* Any number of open requests end in doubt at once; what they had in hand may
\* have been stored.
Fail(lost) ==
  /\ \A r \in lost : phase[r] = "open"
  /\ phase' = [r \in Req |-> IF r \in lost THEN "closed" ELSE phase[r]]
  /\ outcome' = [r \in Req |-> IF r \in lost THEN "doubt" ELSE outcome[r]]
  /\ \E late \in SUBSET (lost \intersect writers) : rows' = rows \union late
  /\ UNCHANGED <<writers, wants, known, view>>

Next ==
  \/ \E r \in Req : \/ Open(r) \/ Store(r) \/ Look(r) \/ Acknowledge(r)
                    \/ Answer(r) \/ Ignore(r) \/ Refuse(r)
  \/ \E lost \in SUBSET Req : Fail(lost)

Spec == Init /\ [][Next]_vars
=============================================================================
