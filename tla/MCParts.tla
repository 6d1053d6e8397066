------------------------------- MODULE MCParts ------------------------------
(***************************************************************************)
(* The parts that share no state, each on a small instance: a behaviour    *)
(* runs the one that its initial state names, and leaves the others alone. *)
(***************************************************************************)
EXTENDS Hash, Timer, Reload, Slab, SizeClass, Request, Jstore, Conf, TLC

VARIABLE part

PartsInit ==
  /\ part \in {"hash", "timer", "reload", "slab", "size", "request", "jstore", "conf"}
  /\ HashInit /\ TimerInit /\ SlabInit /\ SizeInit /\ RequestInit /\ JstoreInit /\ ConfInit
  /\ ReloadInit /\ (part = "reload" \/ confs = CHOOSE h \in Histories : TRUE)

PartsNext ==
  \/ part = "hash" /\ HashNext /\ UNCHANGED <<part, timerVars, reloadVars, slabVars, sizeVars, requestVars, jstoreVars, confVars>>
  \/ part = "timer" /\ TimerNext /\ UNCHANGED <<part, hashVars, reloadVars, slabVars, sizeVars, requestVars, jstoreVars, confVars>>
  \/ part = "reload" /\ ReloadNext /\ UNCHANGED <<part, hashVars, timerVars, slabVars, sizeVars, requestVars, jstoreVars, confVars>>
  \/ part = "slab" /\ SlabNext /\ UNCHANGED <<part, hashVars, timerVars, reloadVars, sizeVars, requestVars, jstoreVars, confVars>>
  \/ part = "size" /\ SizeNext /\ UNCHANGED <<part, hashVars, timerVars, reloadVars, slabVars, requestVars, jstoreVars, confVars>>
  \/ part = "request" /\ RequestNext /\ UNCHANGED <<part, hashVars, timerVars, reloadVars, slabVars, sizeVars, jstoreVars, confVars>>
  \/ part = "jstore" /\ JstoreNext /\ UNCHANGED <<part, hashVars, timerVars, reloadVars, slabVars, sizeVars, requestVars, confVars>>
  \/ part = "conf" /\ ConfNext /\ UNCHANGED <<part, hashVars, timerVars, reloadVars, slabVars, sizeVars, requestVars, jstoreVars>>

PartsSpec ==
  PartsInit /\ [][PartsNext]_<<part, hashVars, timerVars, reloadVars, slabVars, sizeVars, requestVars, jstoreVars, confVars>>

(* Five nodes: two have the same id, and the hash of one id is another's   *)
(* plus a power of two.                                                    *)
FiveIds == (1 :> 1 @@ 2 :> 2 @@ 3 :> 3 @@ 4 :> 6 @@ 5 :> 1)

SameHashes == [i \in {1, 2, 3, 6} |-> i]

(* Configurations that add, remove and exchange devices, or servers and    *)
(* their logs, or list one twice.                                          *)
Server(port, log) == [port |-> port, log |-> log]

Plain(ports) == [n \in DOMAIN ports |-> Server(ports[n], "a")]

TwoHistories ==
  {[devices : {<<"f">>, <<"g", "f">>, <<"g">>, <<"g", "g">>}, servers : {Plain(<<"p">>)}],
   [devices : {<<"f">>},
    servers : {Plain(<<"p", "q", "r">>), Plain(<<"s", "t", "u">>), Plain(<<"q", "q">>),
               <<Server("q", "b"), Server("p", "a")>>, <<Server("p", "b")>>}]}

OneFailure ==
  {<<"none", "f">>, <<"error_log", "f">>, <<"stat", "f">>, <<"open", "g">>, <<"type", "g">>, <<"value", "p">>,
   <<"bind", "q">>, <<"hash", "q">>, <<"log", "q">>, <<"log", "p">>, <<"worker", "p">>}

(* Configuration files: defaults and settings of one server or of two, in  *)
(* one order or the other, with included files, with numbers at the limit  *)
(* and beyond it, and with lines that are refused.                         *)
Word(cmd) == [cmd |-> cmd]

Arg(cmd, arg) == [cmd |-> cmd, arg |-> arg]

Capacity(n, shift) == [cmd |-> "capacity", arg |-> n, shift |-> shift]

SomeTexts ==
  {<<Arg("device", "f"), Arg("listen", "p")>>,
   <<Arg("device", "f"), Capacity(3, 1), Arg("listen", "p"), Arg("listen", "q"), Capacity(5, 1)>>,
   <<Arg("threads", 1), Arg("device", "f"), Arg("listen", "q"), Capacity(2, 0), Arg("listen", "p")>>,
   <<Word("include"), Arg("device", "g"), Word("end"), Arg("listen", "q"), Word("include"), Capacity(3, 2), Word("end"), Capacity(1, 0)>>,
   <<Arg("device", "f"), Arg("listen", "p"), Capacity(6, 2)>>,
   <<Arg("device", "f"), Arg("listen", "q"), Arg("device", "f")>>,
   <<Arg("device", "f"), Arg("device", "f"), Arg("listen", "q"), Arg("connections_limit", 1), Arg("listen", "q")>>,
   <<Arg("device", "f"), Arg("listen", "q"), Word("include"), Word("include"), Arg("listen", "p")>>,
   <<Arg("connections_limit", 1), Arg("threads", 2)>>, <<Word("bad")>>}
=============================================================================
