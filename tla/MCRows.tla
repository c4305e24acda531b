------------------------------- MODULE MCRows -------------------------------
(***************************************************************************)
(* Rows that several requests read and save: the reviews of an             *)
(* application, the row of an account, the collections of an owner.  Each  *)
(* has its module; a behaviour follows one of them, and the others stay as *)
(* they began.                                                             *)
(***************************************************************************)
EXTENDS Reviews, Accounts, Collections, TLC

CONSTANTS n1, n2, other, c1, c2, h1, h2

MCLower == (n1 :> n1) @@ (n2 :> n1) @@ (other :> other)

\* Requests are alike: only one of the two sets moves in a behaviour.
RowsSymmetry == Permutations({c1, c2}) \cup Permutations({h1, h2})

VARIABLE part

rowVars == <<part, vars, accountVars, collectionsVars>>

RowsInit ==
  /\ part \in {"reviews", "accounts", "collections"}
  /\ Init
  /\ AccountsInit
  /\ CollectionsInit
  /\ part # "accounts" =>
       \A u \in Founders : person[u].name = n1 /\ person[u].email = CHOOSE e \in Emails : TRUE
  /\ part # "collections" => \A c \in Custom : ~shelf[c].made

RowsNext ==
  \/ part = "reviews" /\ Next /\ UNCHANGED <<part, accountVars, collectionsVars>>
  \/ part = "accounts" /\ AccountsNext /\ UNCHANGED <<part, vars, collectionsVars>>
  \/ part = "collections" /\ CollectionsNext /\ UNCHANGED <<part, vars, accountVars>>

RowsSpec == RowsInit /\ [][RowsNext]_rowVars
=============================================================================
