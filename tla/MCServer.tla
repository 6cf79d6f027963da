------------------------------ MODULE MCServer ------------------------------
(* An instance of Server for TLC.                                           *)
EXTENDS Server, TLC

Required ==
  [dev_mode : {Unset, "true"}, port : {Unset, "3000", "garbage"},
   base_url : {Unset, "set"}, origin_url : {Unset, "set"}, dns : BOOLEAN]
Optional ==
  {env \in [provider : {Unset, "vast", "static", "demo"}, endpoint : {Unset, "set"},
           store : {Unset, "redis"}, url : {Unset, "set"}, feature : BOOLEAN,
           ttl : {Unset, "zero"}, rpm : {Unset, "positive"}] :
     env.rpm = "positive" <=> env.ttl = "zero" /\ env.store = Unset}

Defaults ==
  [dev_mode |-> "true", port |-> Unset, base_url |-> Unset, origin_url |-> Unset, dns |-> FALSE]
NothingSet ==
  [provider |-> Unset, endpoint |-> Unset, store |-> Unset, url |-> Unset,
   feature |-> FALSE, ttl |-> Unset, rpm |-> Unset]

(* Everything that decides whether the environment is complete, with name   *)
(* servers and without, and, with the defaults of development, every choice *)
(* that can be made.                                                        *)
ManyEnvironments ==
  {required @@ NothingSet : required \in Required} \cup {Defaults @@ optional : optional \in Optional}
=============================================================================
