------------------------------- MODULE MCBans -------------------------------
(***************************************************************************)
(* Who is kept out: bans and sessions of two browsers, or a request before *)
(* the rules of noSpam.  A behaviour follows one of the two modules, and   *)
(* the other stays as it began.                                            *)
(***************************************************************************)
EXTENDS Bans, Spam, TLC

VARIABLE part

KeepersInit ==
  /\ part \in {"bans", "spam"}
  /\ Init /\ SpamInit
  /\ part # "spam" => mode = "off"

KeepersNext ==
  \/ part = "bans" /\ Next /\ UNCHANGED <<part, spamVars>>
  \/ part = "spam" /\ SpamNext /\ UNCHANGED <<part, vars>>

KeepersSpec == KeepersInit /\ [][KeepersNext]_<<part, vars, spamVars>>

Alike == Permutations(Browsers) \cup Permutations(Workers)

\* A log rule of the highest priority, then a ban, a deletion, and a ban by rate
MCLooksAt == 1 :> "username_regex" @@ 2 :> "email_domain" @@ 3 :> "user_id_range"
               @@ 4 :> "request_rate_signal"
MCOrders  == 1 :> "log" @@ 2 :> "ban" @@ 3 :> "delete" @@ 4 :> "ban"
MCRank    == 1 :> 1 @@ 2 :> 2 @@ 3 :> 2 @@ 4 :> 1
=============================================================================
