------------------------------ MODULE MCFormat ------------------------------
(* Small instances of Format for TLC.                                      *)
EXTENDS Format

Conf(files, capacity) == [files |-> files, capacity |-> capacity]

(* A reload or a restart may bring in or leave out port p, or file g. *)
DumpCapacity == "f" :> 3 @@ "g" :> 3
DumpConf == Conf({"f"}, "q" :> 0)
DumpConfs == {DumpConf, Conf({"f"}, "p" :> 0 @@ "q" :> 0), Conf({"f", "g"}, "q" :> 0)}

(* The states of all of these are too many, so a behaviour is either one    *)
(* with two ports on one file, or one with one port on two files.           *)
VARIABLE scenario

Within ==
  CASE scenario = "ports" -> \A d \in DOMAIN dev : dev[d].file = "f"
    [] scenario = "files" -> \A s \in DOMAIN srv : srv[s].port = "q"

dvars == <<fvars, scenario>>

DumpInit == FormatInit /\ scenario \in {"ports", "files"}

DumpNext == FormatNext /\ UNCHANGED scenario /\ Within'

DumpSpec == DumpInit /\ [][DumpNext]_dvars
=============================================================================
