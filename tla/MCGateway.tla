----------------------------- MODULE MCGateway -----------------------------
(* One service with two instances, one of them registered without an id,   *)
(* or with that one alone.                                                 *)
EXTENDS Gateway, TLC

CONSTANTS s, i1, i2, d1, d2, t, x

MCNameOf == i1 :> s @@ i2 :> s
MCIdOf == i1 :> d1 @@ i2 :> d2
MCNameOf1 == i2 :> s
MCIdOf1 == i2 :> d2
MCRouteOf == t :> s @@ x :> NoRoute

Symmetry == Permutations(Admins)
=============================================================================
