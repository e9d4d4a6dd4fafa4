----------------------------- MODULE MCGoServer -----------------------------
(***************************************************************************)
(* Small instances of GoServer for TLC.                                    *)
(***************************************************************************)
EXTENDS GoServer, TLC

MCShape(k, f, d, t, a, b) ==
  [kind |-> k, flaws |-> f, device |-> d, ts |-> t, from |-> a, to |-> b]

\* A row inside the window (1, 3), one on its edge, and each kind of request,
\* clean and with each flaw that its handler tells apart.
MCShapes ==
  {MCShape("post", f, "d1", 2, 0, 0) : f \in {{}, {"auth"}, {"body"}, {"sql"},
     {"truncated"}, {"truncated", "auth"}}}
  \union {MCShape("post", {}, "d1", 3, 0, 0)}
  \union {MCShape("put", f, "d1", 0, 0, 0) : f \in {{}, {"body"}, {"sql"}}}
  \union {MCShape("put", {}, "d2", 0, 0, 0)}
  \union {MCShape("measurements", f, "d1", 0, 1, 3) : f \in {{}, {"body"}}}
  \union {MCShape("location", f, "d1", 0, 0, 0) : f \in {{}, {"auth"}}}
  \union {MCShape("devices", {}, "d1", 0, 0, 0)}
  \union {MCShape("other", {}, "d1", 0, 0, 0)}

\* Clean requests only, for runs with more of them.
MCCleanShapes == {s \in MCShapes : s.flaws = {} /\ s.ts < 3 /\ s.kind # "other"}
MCPlaceShapes == {s \in MCCleanShapes : s.kind \in {"put", "location"}}

\* For refinement and liveness together: each kind of write and of read, and a
\* POST that is refused with its connection in hand.
MCStoreShapes ==
  {s \in MCShapes : /\ s.ts < 3 /\ s.device = "d1"
                    /\ s.kind \notin {"devices", "other"}
                    /\ s.flaws = {} \/ (s.kind = "post" /\ s.flaws = {"sql"})}

Symmetry == Permutations(Req)
=============================================================================
