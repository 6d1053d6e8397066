----------------------------- MODULE MCServers ------------------------------
(***************************************************************************)
(* Two small instances of Server in one.  "again": a server may be brought *)
(* back while its old one is still being emptied, with one request and one *)
(* key at a time.  "over": two servers at most, and two requests that may  *)
(* hold items of two keys while a server exceeds its capacity.             *)
(***************************************************************************)
EXTENDS MCServer

VARIABLE scenario

KeysInUse == {item[i].key : i \in DOMAIN item}
             \cup {k \in Keys : \E s \in DOMAIN hash : hash[s][k] # <<>>}

Within ==
  \/ /\ scenario = "again"
     /\ Cardinality({r \in Requests : req[r].server # NoServer}) <= 1
     /\ Cardinality(KeysInUse) <= 1
  \/ scenario = "over" /\ Cardinality(DOMAIN srv) <= 2

ServersInit == Init /\ scenario \in {"again", "over"}

ServersNext == Next /\ UNCHANGED scenario /\ Within'

ServersSpec == ServersInit /\ [][ServersNext]_<<vars, scenario>>
=============================================================================
