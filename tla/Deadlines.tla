----------------------------- MODULE Deadlines ------------------------------
(***************************************************************************)
(* What the event loops need of their timer: every connection has at most  *)
(* one alarm, and when the alarms are looked at, those that are due ring,  *)
(* and no other.                                                           *)
(***************************************************************************)
EXTENDS Integers, Functions

CONSTANTS Conns, Timeouts

VARIABLES
  time,     \* the time the loop goes by
  alarm     \* per connection that has one: when it rings, and its timeout

Init == time = 0 /\ alarm = [c \in {} |-> [at |-> 0, span |-> 0]]

Look == time' >= time /\ UNCHANGED alarm

(* A new alarm replaces the old one. *)
Arm(c, span) ==
  /\ alarm' = [d \in DOMAIN alarm \cup {c} |->
                 IF d = c THEN [at |-> time + span, span |-> span] ELSE alarm[d]]
  /\ UNCHANGED time

Disarm(c) ==
  /\ c \in DOMAIN alarm
  /\ alarm' = Restrict(alarm, DOMAIN alarm \ {c}) /\ UNCHANGED time

Ring ==
  /\ time' >= time
  /\ alarm' = Restrict(alarm, {c \in DOMAIN alarm : alarm[c].at > time'})

Next ==
  \/ Look \/ Ring
  \/ \E c \in Conns : Disarm(c) \/ \E span \in Timeouts : Arm(c, span)

Spec == Init /\ [][Next]_<<time, alarm>>
=============================================================================
