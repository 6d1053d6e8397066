------------------------------- MODULE Timer --------------------------------
(***************************************************************************)
(* The timer of an event loop (utils/timer.c) under the events of its      *)
(* connections (event.c).  Nodes with the same timeout are in one group,   *)
(* in the order in which they were armed, so that the group can be read up *)
(* to the first node that has not expired.                                 *)
(***************************************************************************)
EXTENDS Integers, FiniteSets, Sequences, SequencesExt

CONSTANTS
  Conns,       \* the requests of one thread
  Timeouts,    \* recv_timeout, send_timeout, keepalive_timeout of the servers
  MaxTime,     \* bound: the clock
  GroupFails   \* may malloc fail in timer_add?

ASSUME TimerAssumption ==
  Timeouts \subseteq Nat \ {0} /\ Timeouts # {} /\ MaxTime \in Nat /\ GroupFails \in BOOLEAN

VARIABLES
  clock,     \* time(NULL)
  now,       \* timer->now
  groups,    \* the timeouts that have a group: groups are never freed
  queue,     \* per timeout, the nodes of its group
  deadline,  \* per connection, tnode->timeout
  group,     \* per connection, tnode->group
  events,    \* per connection, r->events
  wild       \* has an unlinked node been unlinked?

timerVars == <<clock, now, groups, queue, deadline, group, events, wild>>

TimerInit ==
  /\ clock = 0 /\ now = 0 /\ groups = {} /\ queue = [t \in Timeouts |-> <<>>]
  /\ deadline = [c \in Conns |-> 0] /\ group \in [Conns -> {CHOOSE t \in Timeouts : TRUE}]
  /\ events = [c \in Conns |-> "none"] /\ wild = FALSE

(* A node is taken off the list that it is on. *)
list_del(q, c) ==
  LET k == CHOOSE n \in DOMAIN q : q[n] = c
  IN IF ~Contains(q, c) THEN q
     ELSE [n \in 1 .. Len(q) - 1 |-> IF n < k THEN q[n] ELSE q[n + 1]]

(* Where the operations on the lists work: queue and groups of a timer T. *)
timer_del(T, c) == [T EXCEPT !.queue = [t \in Timeouts |-> list_del(T.queue[t], c)]]

(* Without memory for a new group the node is not linked. *)
timer_add(T, c, timeout, mem) ==
  IF timeout \notin T.groups /\ ~mem THEN [T EXCEPT !.ok = FALSE]
  ELSE [ok |-> TRUE, groups |-> T.groups \cup {timeout},
        queue |-> [T.queue EXCEPT ![timeout] = Append(@, c)],
        deadline |-> [T.deadline EXCEPT ![c] = now + timeout],
        group |-> [T.group EXCEPT ![c] = timeout]]

(* Mutant: the node keeps its place in the group. *)
timer_update_InPlace(T, c, timeout, mem) ==
  IF timeout = T.group[c] THEN [T EXCEPT !.deadline[c] = now + timeout]
  ELSE timer_add(timer_del(T, c), c, timeout, mem)

(* Mutant: the node is not taken out of its old group. *)
timer_update_Twice(T, c, timeout, mem) ==
  IF timeout = T.group[c]
  THEN [T EXCEPT !.deadline[c] = now + timeout, !.queue[timeout] = Append(list_del(@, c), c)]
  ELSE timer_add(T, c, timeout, mem)

(* To the end of its group, or to another group. *)
timer_update(T, c, timeout, mem) ==
  IF timeout = T.group[c]
  THEN [T EXCEPT !.deadline[c] = now + timeout, !.queue[timeout] = Append(list_del(@, c), c)]
  ELSE timer_add(timer_del(T, c), c, timeout, mem)

Timer == [ok |-> TRUE, groups |-> groups, queue |-> queue, deadline |-> deadline, group |-> group]

TimerBecomes(T) == groups' = T.groups /\ queue' = T.queue /\ deadline' = T.deadline /\ group' = T.group

Linked(T, c) == \E t \in Timeouts : Contains(T.queue[t], c)

(* The result of an update for the same event is not looked at; otherwise   *)
(* a failure leaves events as it was.  (If epoll refuses the socket nothing *)
(* changes at all.)                                                         *)
event_add(c, event, timeout) ==
  \E mem \in {TRUE, ~GroupFails} :
    LET T == IF events[c] # "none" THEN timer_update(Timer, c, timeout, mem)
                                   ELSE timer_add(Timer, c, timeout, mem)
    IN /\ TimerBecomes(T)
       /\ events' = IF T.ok \/ events[c] = event THEN [events EXCEPT ![c] = event] ELSE events
       /\ wild' = (wild \/ (events[c] # "none" /\ ~Linked(Timer, c)))
       /\ UNCHANGED <<clock, now>>

event_del(c) ==
  /\ events[c] # "none"
  /\ TimerBecomes(timer_del(Timer, c))
  /\ events' = [events EXCEPT ![c] = "none"]
  /\ wild' = (wild \/ ~Linked(Timer, c))
  /\ UNCHANGED <<clock, now>>

(* A second passes. *)
Second == clock < MaxTime /\ clock' = clock + 1 /\ UNCHANGED <<now, groups, queue, deadline, group, events, wild>>

timer_refresh == now' = clock /\ UNCHANGED <<clock, groups, queue, deadline, group, events, wild>>

(* How many nodes of a group are before the first that has not expired. *)
Expired(q, time) ==
  CHOOSE n \in 0 .. Len(q) :
    /\ \A k \in 1 .. n : deadline[q[k]] <= time
    /\ n < Len(q) => deadline[q[n + 1]] > time

(* The rest of the loop: every connection that has expired is ended by      *)
(* request_timeout_handler, which deletes its event.                        *)
timer_expire ==
  /\ now' = clock
  /\ queue' = [t \in Timeouts |-> SubSeq(queue[t], Expired(queue[t], clock) + 1, Len(queue[t]))]
  /\ events' = [c \in Conns |->
                  IF \E t \in Timeouts : \E k \in 1 .. Expired(queue[t], clock) : queue[t][k] = c
                  THEN "none" ELSE events[c]]
  /\ UNCHANGED <<clock, groups, deadline, group, wild>>

TimerNext ==
  \/ Second \/ timer_refresh \/ timer_expire
  \/ \E c \in Conns : event_del(c)
                      \/ \E event \in {"read", "write"}, timeout \in Timeouts : event_add(c, event, timeout)

TimerSpec == TimerInit /\ [][TimerNext]_timerVars

-----------------------------------------------------------------------------
(* Properties.                                                             *)

(* A connection waits for an event exactly when its node is linked, in the *)
(* group of its timeout and there once: event_del never unlinks a node     *)
(* twice, and no connection waits without a timeout.                       *)
LinkedWhileWaiting ==
  /\ ~wild
  /\ \A c \in Conns, t \in Timeouts :
       Cardinality({i \in DOMAIN queue[t] : queue[t][i] = c}) =
         IF events[c] # "none" /\ group[c] = t THEN 1 ELSE 0

Alarms == INSTANCE Deadlines WITH
  time <- now,
  alarm <- [c \in {d \in Conns : events[d] # "none"} |-> [at |-> deadline[c], span |-> group[c]]]

(* Reading every group only up to its first unexpired node misses nobody:  *)
(* the groups and queues do what a set of alarms would do, whatever the    *)
(* order of events, updates, deletions and seconds.                        *)
TimerIsAlarms == Alarms!Spec
=============================================================================
