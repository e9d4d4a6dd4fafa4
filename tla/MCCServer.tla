----------------------------- MODULE MCCServer -----------------------------
(***************************************************************************)
(* Small instances of CServer for TLC.                                     *)
(***************************************************************************)
EXTENDS CServer, TLC

MCShape(k, f, t, a, b) == [kind |-> k, flaws |-> f, ts |-> t, from |-> a, to |-> b]

\* Each kind of client, clean and with each flaw its thread tells apart; a row
\* inside the window (1, 3) and one on its edge.
MCShapes ==
  {MCShape("post", f, 2, 0, 0) : f \in {{}, {"path"}, {"auth", "body"}, {"nobody"},
     {"auth", "nobody"}, {"body"}, {"sql"}}}
  \union {MCShape("post", {}, 3, 0, 0)}
  \union {MCShape("get", f, 0, 1, 3) : f \in {{}, {"path"}, {"body"}, {"nobody"}}}
  \union {MCShape("other", {}, 0, 0, 0), MCShape("silent", {}, 0, 0, 0)}

\* Where requests may come in pieces anyway: the flaws no cut can cause.
MCCutShapes ==
  {s \in MCShapes : s.ts # 3 /\ s.flaws \subseteq {"sql"}}

\* For refinement and liveness together: fewer flaws.  A POST without a body may
\* be taken for everything that one with a bad body may be taken for.
MCFewShapes ==
  {s \in MCShapes : \/ s.kind = "post" /\ s.ts = 2 /\ s.flaws \in {{}, {"nobody"}, {"sql"}}
                    \/ s.kind = "get" /\ s.flaws = {}
                    \/ s.kind = "silent"}

Symmetry == Permutations(Client)
=============================================================================
