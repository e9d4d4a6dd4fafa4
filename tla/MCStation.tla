------------------------------ MODULE MCStation ------------------------------
(***************************************************************************)
(* A small instance of Station for TLC.                                    *)
(***************************************************************************)
EXTENDS Station

CONSTANTS d1, d2

\* Two measurements of one device and one of the other.
MCMeasurements == [d \in {d1, d2} |-> IF d = d1 THEN 2 ELSE 1]
MCReq == {<<d1, 1>>, <<d1, 2>>, <<d2, 1>>}

MCShapes ==
  {[kind |-> "post", flaws |-> f, device |-> r[1], ts |-> r[2], from |-> 0, to |-> 0] :
     f \in {{}, {"body"}}, r \in MCReq}
=============================================================================
