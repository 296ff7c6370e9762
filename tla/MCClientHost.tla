----------------------------- MODULE MCClientHost -----------------------------
(***************************************************************************)
(* An instance of ClientHost: three versions, the second number of one     *)
(* having two digits; installs that give the token, the key, or nothing.   *)
(***************************************************************************)
EXTENDS ClientHost

MCReleases == {<<1, 9, 5>>, <<1, 10, 0>>, <<1, 10, 1>>}
MCFields == {"token", "key"}
MCValues == {"default", "t1", "k1"}
MCFlags ==
    {[token |-> "t1", key |-> "unset"], [token |-> "unset", key |-> "k1"],
     [token |-> "unset", key |-> "unset"]}
=============================================================================
