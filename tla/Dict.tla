-------------------------------- MODULE Dict --------------------------------
(***************************************************************************)
(* What the servers need of their hash: a set of nodes in which a node is  *)
(* found by its id, if there is one with that id.                          *)
(***************************************************************************)
CONSTANTS Nodes, Ids, IdOf, None

VARIABLES
  held,     \* the nodes in the set
  asked,    \* the id of the last operation, if that was a search
  got       \* what it returned

Matches(id) == {n \in held : IdOf[n] = id}

Init == held = {} /\ asked = None /\ got = None

Add(n) == n \notin held /\ held' = held \cup {n} /\ asked' = None /\ got' = None

Get(id) ==
  /\ IF Matches(id) = {} THEN got' = None ELSE got' \in Matches(id)
  /\ asked' = id /\ held' = held

Del(n) == n \in held /\ held' = held \ {n} /\ asked' = None /\ got' = None

Next ==
  \/ \E n \in Nodes : Add(n) \/ Del(n)
  \/ \E id \in Ids : Get(id)

Spec == Init /\ [][Next]_<<held, asked, got>>
=============================================================================
