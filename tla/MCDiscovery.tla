---------------------------- MODULE MCDiscovery ----------------------------
(* Discovery on small sets of names, ids, pointers and goroutines.         *)
EXTENDS Discovery, TLC

CONSTANTS a, b, x, i1, i2, c1, c2, w1

\* Two pointers with one id under two names; i1 comes from the configuration.
MCNameOf == i1 :> a @@ i2 :> b
MCIdOf == i1 :> x @@ i2 :> x

\* One pointer.
MCNameOf1 == i1 :> a
MCIdOf1 == i1 :> x

Symmetry == Permutations(Callers)
============================================================================
