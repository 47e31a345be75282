----------------------------- MODULE MCComponents -----------------------------
(* Small instances of the components, one after the other.                    *)
EXTENDS Components, TLC

CONSTANTS n1, n2, n3

\* all virtual nodes apart, in any order on the circle, or crowded on two points
TLCHashFunctions ==
  {f \in [Virtual -> Hashes] : \A v, w \in Virtual : f[v] = f[w] => v = w} \cup [Virtual -> 0..1]
=============================================================================
