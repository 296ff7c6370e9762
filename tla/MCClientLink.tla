---------------------------- MODULE MCClientLink ----------------------------
(* Instances of ClientLink for TLC.                                        *)
EXTENDS ClientLink, TLC

CONSTANTS k1, k2, m1, m2, m3, t1

OneKey == {k1}
TwoKeys == {k1, k2}

\* Both machines have the token.
SameToken == m1 :> t1 @@ m2 :> t1
\* With key and token, with a key but no token, with an empty key.
OneKeyless == m1 :> k1 @@ m2 :> k1 @@ m3 :> NoKey
MixedToken == m1 :> t1 @@ m2 :> NoToken @@ m3 :> t1
\* A machine for each of two keys.
OwnKeys == m1 :> k1 @@ m2 :> k2
SoleKey == m1 :> k1
SoleToken == m1 :> t1

Symmetry == Permutations(Conns) \cup Permutations(Callers)
=============================================================================
