----------------------------- MODULE MCPassport -----------------------------
(* Two browsers, an account and one to be created, two identities. *)
EXTENDS Passport, TLC

CONSTANTS u1, u2, s1, s2, e1, e2, b1, b2

MCSignIn == s1 :> e1 @@ s2 :> e2

\* The browsers are alike, and so are the identities, each with its address.
Alike    == s1 :> s1 @@ s2 :> s2 @@ e1 :> e1 @@ e2 :> e2
Swapped  == s1 :> s2 @@ s2 :> s1 @@ e1 :> e2 @@ e2 :> e1
MCSymmetry == {p @@ q : p \in Permutations({b1, b2}), q \in {Alike, Swapped}}
=============================================================================
