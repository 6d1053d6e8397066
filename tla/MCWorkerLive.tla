---------------------------- MODULE MCWorkerLive -----------------------------
(***************************************************************************)
(* Two small instances of Worker in one, for the properties about what     *)
(* must come.  "quit": one worker and two requests, one of which may have  *)
(* to wait for the other's place in a pipe.  "retire": two workers, one of *)
(* which a reload may retire or replace, and one request.                  *)
(***************************************************************************)
EXTENDS Worker

VARIABLE scenario

lvars == <<vars, scenario>>

One == CHOOSE r \in Requests : TRUE

Within ==
  \/ scenario = "quit" /\ reloads = 0
  \/ scenario = "retire" /\ \A r \in Requests \ {One} : at[r] = "free"

LiveInit ==
  /\ scenario \in {"quit", "retire"}
  /\ Start(IF scenario = "quit" THEN 1 ELSE InitThreads)

LiveNext == Next /\ UNCHANGED scenario /\ Within'

LiveSpec == LiveInit /\ [][LiveNext]_lvars /\ Fairness
==============================================================================
