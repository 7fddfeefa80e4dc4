--------------------------- MODULE MCKeyRotation ---------------------------
(* Two keys; two requests of one conversation for models in different      *)
(* quota buckets: r1 a durable turn under gateway key g1, r2 a plain one   *)
(* under g2.  In MCGranted g1 is bound to both keys, so that a pin that is *)
(* lost shows, and g2 to the first; in MCGrantedUnlimited g2 is bound to   *)
(* none.                                                                   *)
EXTENDS KeyRotation, TLC

CONSTANTS k1, k2, b1, b2, g1, g2, s, r1, r2

MCGranted == (g1 :> {k1, k2}) @@ (g2 :> {k1})

MCGrantedUnlimited == (g1 :> {k1}) @@ (g2 :> {})

MCFrom ==
  (r1 :> [gateway |-> g1, session |-> s, bucket |-> b1, keys |-> {k1, k2}, durable |-> TRUE])
  @@ (r2 :> [gateway |-> g2, session |-> s, bucket |-> b2, keys |-> {k1, k2}, durable |-> FALSE])
============================================================================
