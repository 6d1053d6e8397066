------------------------------ MODULE MCServer ------------------------------
(* Small instances of Server for TLC.                                      *)
EXTENDS Server

(* No operator depends on which key or connection it is given. *)
Symmetry == Permutations(Keys) \cup Permutations(Requests)

Conf(files, capacity) == [files |-> files, capacity |-> capacity]

(* Space: one file that holds four items of three units, or one of nine    *)
(* (which takes ten) and none else but a gap.                              *)
SpaceCapacity == "f" :> 12
SpaceConf == Conf({"f"}, "p" :> 0)
SpaceConfs == {SpaceConf}

(* Devices: files of two units and of one, of which a reload keeps any.      *)
DevicesCapacity == "f" :> 2 @@ "g" :> 1
DevicesConf == Conf({"f"}, "p" :> 0)
DevicesConfs == {Conf(files, "p" :> 0) : files \in {{"f"}, {"g"}, {"f", "g"}}}

(* Servers: a reload removes the server on port q and switches the capacity *)
(* of the one on port p off; another undoes both.                           *)
ServersCapacity == "f" :> 2
ServersConf == Conf({"f"}, "p" :> 1 @@ "q" :> 0)
ServersConfs == {ServersConf, Conf({"f"}, "p" :> 0)}

(* Removal: servers that share a file and its LRU list, and another file;  *)
(* a reload may remove a server, or replace the file.                      *)
RemovalCapacity == "f" :> 2 @@ "g" :> 1
RemovalConf == Conf({"f"}, "p" :> 0 @@ "q" :> 0)
RemovalConfs == {RemovalConf, Conf({"f"}, "p" :> 0), Conf({"g"}, "p" :> 0 @@ "q" :> 0)}
=============================================================================
