---------------------------- MODULE TimerProofs -----------------------------
(***************************************************************************)
(* Proofs about Timer, for any number of connections, any set of timeouts  *)
(* and any clock, as long as there is memory for the groups: a connection  *)
(* waits exactly when its node is linked, and reading every group only up  *)
(* to its first unexpired node is as good as looking at every deadline.    *)
(***************************************************************************)
EXTENDS Timer, FiniteSetTheorems, WellFoundedInduction, TLAPS

Waits(c) == events[c] # "none"

Distinct(q) == \A m, n \in DOMAIN q : q[m] = q[n] => m = n

TimerTypeOK ==
  /\ clock \in Nat /\ now \in Nat /\ now <= clock
  /\ groups \in SUBSET Timeouts
  /\ queue \in [Timeouts -> Seq(Conns)]
  /\ deadline \in [Conns -> Nat] /\ group \in [Conns -> Timeouts]
  /\ events \in [Conns -> {"none", "read", "write"}]

(* A group has nodes of waiting connections only, once each, in the order   *)
(* of their deadlines, none of which is further away than the timeout.      *)
GroupShape(t) ==
  LET q == queue[t]
  IN /\ Distinct(q)
     /\ \A n \in DOMAIN q : Waits(q[n]) /\ group[q[n]] = t /\ deadline[q[n]] <= now + t
     /\ \A m, n \in DOMAIN q : m < n => deadline[q[m]] <= deadline[q[n]]

(* And every waiting connection is in its group. *)
TimerInv ==
  /\ TimerTypeOK /\ ~wild
  /\ \A t \in Timeouts : GroupShape(t)
  /\ \A c \in Conns : Waits(c) => Contains(queue[group[c]], c)

(* A set of numbers that is not empty has a least one. *)
LEMMA LeastNat ==
  ASSUME NEW S \in SUBSET Nat, S # {}
  PROVE  \E n \in S : \A m \in S : n <= m
  <1> DEFINE R == {ss \in Nat \X Nat : ss[1] < ss[2]}
  <1>1. IsWellFoundedOn(R, Nat) BY NatLessThanWellFounded, Zenon DEF OpToRel
  <1>2. PICK x \in S : \A y \in S : ~(<<y, x>> \in R) BY <1>1, WFMin
  <1>3. ASSUME NEW y \in S PROVE x <= y
    <2>1. ~(y < x) BY <1>2
    <2> QED BY <2>1
  <1> QED BY <1>3

-----------------------------------------------------------------------------
(* Lists.                                                                  *)

LEMMA TimeoutNat == \A t \in Timeouts : t \in Nat
  BY TimerAssumption

(* The list r is what is left of q without c, in the same order. *)
Without(q, c, r) ==
  /\ r \in Seq(Conns) /\ Distinct(r)
  /\ \A n \in DOMAIN r : r[n] # c
  /\ \A n \in DOMAIN r : \E k \in DOMAIN q : r[n] = q[k]
  /\ \A k \in DOMAIN q : q[k] # c => \E n \in DOMAIN r : r[n] = q[k]
  /\ \A m, n \in DOMAIN r : m < n =>
       \E k, l \in DOMAIN q : k < l /\ r[m] = q[k] /\ r[n] = q[l]

LEMMA ListDel ==
  ASSUME NEW q \in Seq(Conns), NEW c \in Conns, Distinct(q)
  PROVE  Without(q, c, list_del(q, c))
  <1> DEFINE r == list_del(q, c)
  <1>1. CASE ~Contains(q, c)
    <2>1. r = q BY <1>1 DEF list_del
    <2>2. \A n \in DOMAIN q : q[n] # c BY <1>1 DEF Contains
    <2>3. Without(q, c, q) BY <2>2 DEF Without
    <2> QED BY <2>1, <2>3, Zenon
  <1>2. CASE Contains(q, c)
    <2> DEFINE k == CHOOSE n \in DOMAIN q : q[n] = c
    <2>1. k \in 1 .. Len(q) /\ q[k] = c BY <1>2 DEF Contains
    <2> HIDE DEF k
    <2>2. r = [n \in 1 .. Len(q) - 1 |-> IF n < k THEN q[n] ELSE q[n + 1]]
      BY <1>2 DEF list_del, k
    <2> HIDE DEF r
    <2>3. Len(q) - 1 \in Nat /\ \A n \in 1 .. Len(q) : q[n] \in Conns BY <2>1
    <2>4. r \in Seq(Conns) /\ Len(r) = Len(q) - 1 BY <2>1, <2>2, <2>3
    <2> DEFINE at(n) == IF n < k THEN n ELSE n + 1
    <2>5. \A n \in DOMAIN r : at(n) \in DOMAIN q /\ at(n) # k /\ r[n] = q[at(n)]
      BY <2>1, <2>2, <2>4
    <2>6. \A m, n \in DOMAIN r : m < n => at(m) < at(n) BY <2>1, <2>4
    <2>7. \A n \in DOMAIN r : r[n] # c BY <2>1, <2>5 DEF Distinct
    <2>8. Distinct(r)
      <3> SUFFICES ASSUME NEW m \in DOMAIN r, NEW n \in DOMAIN r, r[m] = r[n] PROVE m = n
        BY DEF Distinct
      <3>1. at(m) = at(n) BY <2>5 DEF Distinct
      <3>2. m \in Nat /\ n \in Nat BY <2>4
      <3> QED BY <2>6, <3>1, <3>2
    <2>9. ASSUME NEW l \in DOMAIN q, q[l] # c PROVE \E n \in DOMAIN r : r[n] = q[l]
      <3>1. CASE l < k
        <4>1. l \in DOMAIN r /\ r[l] = q[l] BY <3>1, <2>1, <2>2, <2>4
        <4> QED BY <4>1
      <3>2. CASE l > k
        <4>1. l - 1 \in DOMAIN r /\ r[l - 1] = q[l] BY <3>2, <2>1, <2>2, <2>4
        <4> QED BY <4>1
      <3>3. l # k BY <2>1, <2>9
      <3> QED BY <3>1, <3>2, <3>3, <2>1
    <2> HIDE DEF at
    <2>10. \A n \in DOMAIN r : \E l \in DOMAIN q : r[n] = q[l] BY <2>5
    <2>11. \A m, n \in DOMAIN r : m < n =>
             \E i, l \in DOMAIN q : i < l /\ r[m] = q[i] /\ r[n] = q[l]
      BY <2>5, <2>6
    <2>12. \A l \in DOMAIN q : q[l] # c => \E n \in DOMAIN r : r[n] = q[l] BY <2>9
    <2>13. Without(q, c, r) BY <2>4, <2>7, <2>8, <2>10, <2>11, <2>12, Zenon DEF Without
    <2> QED BY <2>13 DEF r
  <1> QED BY <1>1, <1>2

(* The list r is q with c at the end. *)
Extended(q, c, r) ==
  /\ r \in Seq(Conns) /\ Distinct(r)
  /\ DOMAIN r = 1 .. Len(q) + 1 /\ r[Len(q) + 1] = c
  /\ \A n \in DOMAIN q : r[n] = q[n]

LEMMA ListAppend ==
  ASSUME NEW q \in Seq(Conns), NEW c \in Conns, Distinct(q), \A n \in DOMAIN q : q[n] # c
  PROVE  Extended(q, c, Append(q, c))
  <1>1. /\ Append(q, c) \in Seq(Conns) /\ DOMAIN Append(q, c) = 1 .. Len(q) + 1
        /\ Append(q, c)[Len(q) + 1] = c
        /\ \A n \in DOMAIN q : Append(q, c)[n] = q[n]
    OBVIOUS
  <1>2. Distinct(Append(q, c)) BY <1>1 DEF Distinct
  <1> QED BY <1>1, <1>2 DEF Extended

LEMMA ContainsAppend ==
  ASSUME NEW q \in Seq(Conns), NEW c \in Conns
  PROVE  Contains(Append(q, c), c) /\ \A d : Contains(q, d) => Contains(Append(q, c), d)
  <1>1. /\ Len(Append(q, c)) = Len(q) + 1 /\ Append(q, c)[Len(q) + 1] = c
        /\ \A n \in 1 .. Len(q) : Append(q, c)[n] = q[n]
    OBVIOUS
  <1>2. Len(q) + 1 \in 1 .. Len(q) + 1 /\ \A n \in 1 .. Len(q) : n \in 1 .. Len(q) + 1
    OBVIOUS
  <1> QED BY <1>1, <1>2, Zenon DEF Contains

-----------------------------------------------------------------------------
(* The invariant.                                                          *)

LEMMA TimerInitInv == TimerInit => TimerInv
  <1> SUFFICES ASSUME TimerInit PROVE TimerInv OBVIOUS
  <1> USE DEF TimerInit
  <1>1. (CHOOSE t \in Timeouts : TRUE) \in Timeouts
    <2>1. \E t : t \in Timeouts BY TimerAssumption
    <2> QED BY <2>1
  <1>2. TimerTypeOK BY <1>1 DEF TimerTypeOK
  <1>3. \A t \in Timeouts : GroupShape(t) BY DEF GroupShape, Distinct
  <1> QED BY <1>2, <1>3 DEF TimerInv, Waits

(* A timer with other queues. *)
LEMMA OtherQueue ==
  ASSUME NEW ok, NEW g, NEW q, NEW d, NEW p, NEW r
  PROVE  [[ok |-> ok, groups |-> g, queue |-> q, deadline |-> d, group |-> p] EXCEPT !.queue = r]
           = [ok |-> ok, groups |-> g, queue |-> r, deadline |-> d, group |-> p]
  OBVIOUS

LEMMA TimerDelFields ==
  ASSUME NEW c
  PROVE  timer_del(Timer, c) =
           [ok |-> TRUE, groups |-> groups, queue |-> [t \in Timeouts |-> list_del(queue[t], c)],
            deadline |-> deadline, group |-> group]
  <1> DEFINE Q == [t \in Timeouts |-> list_del(queue[t], c)]
             D == [ok |-> TRUE, groups |-> groups, queue |-> Q,
                   deadline |-> deadline, group |-> group]
  <1>1. [t \in Timeouts |-> list_del(Timer.queue[t], c)] = Q BY DEF Timer
  <1> HIDE DEF Q
  <1>2. timer_del(Timer, c) = [Timer EXCEPT !.queue = Q] BY <1>1, Zenon DEF timer_del
  <1>3. PICK ok : ok = TRUE OBVIOUS
  <1>4. Timer = [ok |-> ok, groups |-> groups, queue |-> queue, deadline |-> deadline,
                 group |-> group]
    BY <1>3, Zenon DEF Timer
  <1>5. D = [ok |-> ok, groups |-> groups, queue |-> Q, deadline |-> deadline, group |-> group]
    BY <1>3, Zenon
  <1> HIDE <1>3 DEF D
  <1>6. timer_del(Timer, c) = D BY <1>2, <1>4, <1>5, OtherQueue, Zenon
  <1> QED BY <1>6 DEF D, Q

(* Whichever way event_add goes, the node is taken off its group, if it is  *)
(* on one, and put at the end of the group of the timeout.                  *)
Armed(c, event, timeout) ==
  /\ queue' = [t \in Timeouts |-> IF t = timeout THEN Append(list_del(queue[t], c), c)
                                                 ELSE list_del(queue[t], c)]
  /\ deadline' = [deadline EXCEPT ![c] = now + timeout]
  /\ group' = [group EXCEPT ![c] = timeout]
  /\ events' = [events EXCEPT ![c] = event]
  /\ groups' \in SUBSET Timeouts /\ wild' = FALSE /\ UNCHANGED <<clock, now>>

LEMMA EventAddArms ==
  ASSUME TimerInv, ~GroupFails, NEW c \in Conns, NEW event, NEW timeout \in Timeouts,
         event_add(c, event, timeout)
  PROVE  Armed(c, event, timeout)
  <1> USE DEF TimerInv, TimerTypeOK
  <1>1. /\ \A t \in Timeouts : queue[t] \in Seq(Conns) /\ Distinct(queue[t])
        /\ \A t \in Timeouts : Contains(queue[t], c) => Waits(c) /\ group[c] = t
    BY DEF GroupShape, Contains
  <1>2. \A t \in Timeouts : ~Contains(queue[t], c) => list_del(queue[t], c) = queue[t]
    BY DEF list_del
  <1>3. events[c] # "none" => Linked(Timer, c)
    BY DEF Waits, Linked, Timer
  <1> DEFINE T == IF events[c] # "none" THEN timer_update(Timer, c, timeout, TRUE)
                                        ELSE timer_add(Timer, c, timeout, TRUE)
  <1>4. /\ TimerBecomes(T) /\ (events' = IF T.ok \/ events[c] = event
                                         THEN [events EXCEPT ![c] = event] ELSE events)
        /\ wild' = (wild \/ (events[c] # "none" /\ ~Linked(Timer, c)))
        /\ UNCHANGED <<clock, now>>
    BY DEF event_add
  <1>5. /\ T.ok /\ T.groups \in SUBSET Timeouts
        /\ T.deadline = [deadline EXCEPT ![c] = now + timeout]
        /\ T.group = [group EXCEPT ![c] = timeout]
        /\ T.queue = [t \in Timeouts |-> IF t = timeout THEN Append(list_del(queue[t], c), c)
                                                        ELSE list_del(queue[t], c)]
    <2>1. CASE events[c] = "none"
      <3>1. \A t \in Timeouts : list_del(queue[t], c) = queue[t] BY <1>1, <1>2, <2>1 DEF Waits
      <3>2. T = timer_add(Timer, c, timeout, TRUE) BY <2>1
      <3>3. T = [ok |-> TRUE, groups |-> groups \cup {timeout},
                 queue |-> [queue EXCEPT ![timeout] = Append(@, c)],
                 deadline |-> [deadline EXCEPT ![c] = now + timeout],
                 group |-> [group EXCEPT ![c] = timeout]]
        BY <3>2 DEF timer_add, Timer
      <3>4. [queue EXCEPT ![timeout] = Append(@, c)]
              = [t \in Timeouts |-> IF t = timeout THEN Append(queue[t], c) ELSE queue[t]]
        OBVIOUS
      <3> HIDE DEF T
      <3> QED BY <3>1, <3>3, <3>4
    <2>2. CASE events[c] # "none" /\ timeout = group[c]
      <3>1. \A t \in Timeouts : t # timeout => list_del(queue[t], c) = queue[t]
        BY <1>1, <1>2, <2>2
      <3>2. T = timer_update(Timer, c, timeout, TRUE) BY <2>2
      <3>3. T = [ok |-> TRUE, groups |-> groups,
                 queue |-> [queue EXCEPT ![timeout] = Append(list_del(@, c), c)],
                 deadline |-> [deadline EXCEPT ![c] = now + timeout], group |-> group]
        BY <3>2, <2>2 DEF timer_update, Timer
      <3>4. [queue EXCEPT ![timeout] = Append(list_del(@, c), c)]
              = [t \in Timeouts |-> IF t = timeout THEN Append(list_del(queue[t], c), c) ELSE queue[t]]
        OBVIOUS
      <3>5. group = [group EXCEPT ![c] = timeout] BY <2>2
      <3> HIDE DEF T
      <3> QED BY <3>1, <3>3, <3>4, <3>5
    <2>3. CASE events[c] # "none" /\ timeout # group[c]
      <3>1. T = timer_add(timer_del(Timer, c), c, timeout, TRUE)
        BY <2>3 DEF timer_update, Timer
      <3> DEFINE Q == [t \in Timeouts |-> list_del(queue[t], c)]
                 D == [ok |-> TRUE, groups |-> groups, queue |-> Q,
                       deadline |-> deadline, group |-> group]
      <3>2. T = timer_add(D, c, timeout, TRUE) BY <3>1, TimerDelFields
      <3> HIDE DEF Q
      <3>3. T = [ok |-> TRUE, groups |-> groups \cup {timeout},
                 queue |-> [Q EXCEPT ![timeout] = Append(@, c)],
                 deadline |-> [deadline EXCEPT ![c] = now + timeout],
                 group |-> [group EXCEPT ![c] = timeout]]
        BY <3>2 DEF timer_add
      <3>4. [Q EXCEPT ![timeout] = Append(@, c)]
              = [t \in Timeouts |-> IF t = timeout THEN Append(list_del(queue[t], c), c)
                                                   ELSE list_del(queue[t], c)]
        BY DEF Q
      <3> HIDE DEF T
      <3> QED BY <3>3, <3>4
    <2> QED BY <2>1, <2>2, <2>3
  <1> HIDE DEF T
  <1> QED BY <1>3, <1>4, <1>5 DEF Armed, TimerBecomes

(* What a group is without the node of c. *)
Rest(t, c, r) ==
  /\ r \in Seq(Conns) /\ Distinct(r)
  /\ \A n \in DOMAIN r : /\ r[n] # c /\ Waits(r[n]) /\ group[r[n]] = t
                         /\ deadline[r[n]] <= now + t
  /\ \A m, n \in DOMAIN r : m < n => deadline[r[m]] <= deadline[r[n]]

LEMMA RestShape ==
  ASSUME TimerInv, NEW c \in Conns
  PROVE  /\ \A t \in Timeouts : Rest(t, c, list_del(queue[t], c))
         /\ \A d \in Conns : d # c /\ Waits(d) => Contains(list_del(queue[group[d]], c), d)
  <1>1. ASSUME NEW t \in Timeouts PROVE Rest(t, c, list_del(queue[t], c))
    <2>1. queue[t] \in Seq(Conns) /\ Distinct(queue[t]) /\ GroupShape(t)
      BY DEF TimerInv, TimerTypeOK, GroupShape
    <2>2. Without(queue[t], c, list_del(queue[t], c)) BY <2>1, ListDel
    <2> DEFINE q == queue[t]
               r == list_del(q, c)
    <2>3. /\ \A n \in DOMAIN q : Waits(q[n]) /\ group[q[n]] = t /\ deadline[q[n]] <= now + t
          /\ \A m, n \in DOMAIN q : m < n => deadline[q[m]] <= deadline[q[n]]
      BY <2>1 DEF GroupShape
    <2>4. /\ r \in Seq(Conns) /\ Distinct(r) /\ \A n \in DOMAIN r : r[n] # c
          /\ \A n \in DOMAIN r : \E k \in DOMAIN q : r[n] = q[k]
          /\ \A m, n \in DOMAIN r : m < n => \E k, l \in DOMAIN q : k < l /\ r[m] = q[k] /\ r[n] = q[l]
      BY <2>2 DEF Without
    <2> HIDE DEF q, r
    <2>5. \A n \in DOMAIN r : Waits(r[n]) /\ group[r[n]] = t /\ deadline[r[n]] <= now + t
      BY <2>3, <2>4
    <2>6. \A m, n \in DOMAIN r : m < n => deadline[r[m]] <= deadline[r[n]] BY <2>3, <2>4
    <2>7. Rest(t, c, r) BY <2>4, <2>5, <2>6, Zenon DEF Rest
    <2> QED BY <2>7 DEF q, r
  <1>2. ASSUME NEW d \in Conns, d # c, Waits(d)
        PROVE  Contains(list_del(queue[group[d]], c), d)
    <2> DEFINE q == queue[group[d]]
               r == list_del(q, c)
    <2>1. q \in Seq(Conns) /\ Distinct(q) /\ Contains(q, d)
      BY <1>2 DEF TimerInv, TimerTypeOK, GroupShape
    <2>2. PICK k \in DOMAIN q : q[k] = d BY <2>1 DEF Contains
    <2> HIDE DEF q
    <2>3. Without(q, c, r) BY <2>1, ListDel
    <2> HIDE DEF r
    <2>4. r \in Seq(Conns) /\ \E n \in DOMAIN r : r[n] = d BY <1>2, <2>2, <2>3 DEF Without
    <2>5. Contains(r, d) BY <2>4 DEF Contains
    <2> QED BY <2>5 DEF q, r
  <1> QED BY <1>1, <1>2

LEMMA ArmedInv ==
  ASSUME TimerInv, NEW c \in Conns, NEW event \in {"read", "write"}, NEW timeout \in Timeouts,
         Armed(c, event, timeout)
  PROVE  TimerInv'
  <1> USE DEF Armed
  <1>a. now + timeout \in Nat /\ timeout \in Nat BY TimeoutNat DEF TimerInv, TimerTypeOK
  <1>1. ASSUME NEW t \in Timeouts, NEW r, r = list_del(queue[t], c)
        PROVE  queue'[t] \in Seq(Conns) /\ GroupShape(t)'
    <2>a. Rest(t, c, r) BY <1>1, RestShape
    <2>1. /\ r \in Seq(Conns) /\ Distinct(r)
          /\ \A n \in DOMAIN r : /\ r[n] # c /\ Waits(r[n]) /\ group[r[n]] = t
                                 /\ deadline[r[n]] <= now + t
          /\ \A m, n \in DOMAIN r : m < n => deadline[r[m]] <= deadline[r[n]]
      BY <2>a DEF Rest
    <2>2. \A n \in DOMAIN r : /\ r[n] \in Conns /\ Waits(r[n])' /\ group'[r[n]] = t
                              /\ deadline'[r[n]] = deadline[r[n]] /\ deadline[r[n]] \in Nat
      BY <2>1 DEF TimerInv, TimerTypeOK, Waits
    <2>3. CASE t # timeout
      <3>1. queue'[t] = r BY <1>1, <2>3
      <3> QED BY <2>1, <2>2, <3>1 DEF GroupShape
    <2>4. CASE t = timeout
      <3>1. queue'[t] = Append(r, c) BY <1>1, <2>4
      <3>2. /\ queue'[t] \in Seq(Conns) /\ Distinct(queue'[t])
            /\ DOMAIN queue'[t] = 1 .. Len(r) + 1 /\ queue'[t][Len(r) + 1] = c
            /\ \A n \in DOMAIN r : queue'[t][n] = r[n]
        <4>1. Extended(r, c, queue'[t]) BY <2>1, <3>1, ListAppend
        <4> QED BY <4>1 DEF Extended
      <3>3. Waits(c)' /\ group'[c] = t /\ deadline'[c] = now + t
        BY <2>4 DEF TimerInv, TimerTypeOK, Waits
      <3>4. Len(r) \in Nat /\ DOMAIN r = 1 .. Len(r) BY <2>1
      <3>5. ASSUME NEW n \in DOMAIN queue'[t]
            PROVE  /\ events'[queue'[t][n]] # "none" /\ group'[queue'[t][n]] = t
                   /\ deadline'[queue'[t][n]] <= now + t
        <4>1. CASE n \in DOMAIN r BY <4>1, <2>1, <2>2, <3>2 DEF Waits
        <4>2. CASE n = Len(r) + 1 BY <4>2, <3>2, <3>3, <2>4, <1>a DEF Waits
        <4> QED BY <3>2, <3>4, <4>1, <4>2
      <3>6. ASSUME NEW m \in DOMAIN queue'[t], NEW n \in DOMAIN queue'[t], m < n
            PROVE  deadline'[queue'[t][m]] <= deadline'[queue'[t][n]]
        <4>1. m \in DOMAIN r BY <3>2, <3>4, <3>6
        <4>2. CASE n \in DOMAIN r BY <3>6, <4>1, <4>2, <2>1, <2>2, <3>2
        <4>3. CASE n = Len(r) + 1 BY <4>1, <4>3, <2>1, <2>2, <3>2, <3>3
        <4> QED BY <3>2, <3>4, <4>2, <4>3
      <3> QED BY <3>2, <3>5, <3>6 DEF GroupShape, Waits
    <2> QED BY <2>3, <2>4
  <1>2. ASSUME NEW d \in Conns, Waits(d)' PROVE Contains(queue[group[d]], d)'
    <2>1. CASE d = c
      <3> DEFINE r == list_del(queue[timeout], c)
      <3>1. r \in Seq(Conns) BY RestShape DEF Rest
      <3>2. group'[d] = timeout /\ queue'[timeout] = Append(r, c)
        BY <2>1 DEF TimerInv, TimerTypeOK
      <3> HIDE DEF r
      <3>3. Contains(Append(r, c), c) BY <3>1, ContainsAppend
      <3>4. Contains(queue'[group'[d]], d) BY <2>1, <3>2, <3>3
      <3> QED BY <3>4, Zenon
    <2>2. CASE d # c
      <3> DEFINE t == group[d]
                 r == list_del(queue[t], c)
      <3>1. Waits(d) /\ group'[d] = t /\ t \in Timeouts
        BY <1>2, <2>2 DEF TimerInv, TimerTypeOK, Waits
      <3>2. Contains(r, d) /\ r \in Seq(Conns) BY <2>2, <3>1, RestShape DEF Rest
      <3>3. queue'[t] = r \/ queue'[t] = Append(r, c) BY <3>1
      <3> HIDE DEF r, t
      <3>4. Contains(queue'[t], d) BY <3>2, <3>3, ContainsAppend, Zenon
      <3> QED BY <3>1, <3>4, Zenon
    <2> QED BY <2>1, <2>2
  <1>3. TimerTypeOK'
    <2>1. queue' \in [Timeouts -> Seq(Conns)] BY <1>1
    <2> QED BY <2>1, <1>a DEF TimerInv, TimerTypeOK
  <1> QED BY <1>1, <1>2, <1>3 DEF TimerInv

(* A connection that no longer waits. *)
LEMMA EventDelInv ==
  ASSUME TimerInv, NEW c \in Conns, event_del(c)
  PROVE  TimerInv'
  <1>1. /\ Waits(c) /\ UNCHANGED <<clock, now>> /\ events' = [events EXCEPT ![c] = "none"]
        /\ wild' = (wild \/ ~Linked(Timer, c)) /\ TimerBecomes(timer_del(Timer, c))
    BY DEF event_del, Waits
  <1>2. /\ queue' = [t \in Timeouts |-> list_del(queue[t], c)]
        /\ UNCHANGED <<groups, deadline, group>>
    <2> DEFINE D == timer_del(Timer, c)
    <2>1. /\ D.queue = [t \in Timeouts |-> list_del(queue[t], c)]
          /\ D.groups = groups /\ D.deadline = deadline /\ D.group = group
      BY TimerDelFields
    <2> HIDE DEF D
    <2> QED BY <1>1, <2>1 DEF TimerBecomes, D
  <1>3. wild' = FALSE
    <2>1. Contains(queue[group[c]], c) /\ group[c] \in Timeouts /\ ~wild
      BY <1>1 DEF TimerInv, TimerTypeOK
    <2>2. Linked(Timer, c) BY <2>1 DEF Linked, Timer
    <2> QED BY <1>1, <2>1, <2>2
  <1>4. ASSUME NEW t \in Timeouts PROVE queue'[t] \in Seq(Conns) /\ GroupShape(t)'
    <2> DEFINE r == list_del(queue[t], c)
    <2>1. Rest(t, c, r) /\ queue'[t] = r BY <1>2, RestShape
    <2> HIDE DEF r
    <2>2. /\ r \in Seq(Conns) /\ Distinct(r)
          /\ \A n \in DOMAIN r : /\ r[n] # c /\ Waits(r[n]) /\ group[r[n]] = t
                                 /\ deadline[r[n]] <= now + t
          /\ \A m, n \in DOMAIN r : m < n => deadline[r[m]] <= deadline[r[n]]
      BY <2>1 DEF Rest
    <2>3. \A n \in DOMAIN r : events'[r[n]] # "none"
      BY <1>1, <2>2 DEF TimerInv, TimerTypeOK, Waits
    <2> QED BY <1>1, <1>2, <2>1, <2>2, <2>3 DEF GroupShape, Waits
  <1>5. ASSUME NEW d \in Conns, Waits(d)' PROVE Contains(queue[group[d]], d)'
    <2>1. d # c /\ Waits(d) /\ group[d] \in Timeouts
      BY <1>1, <1>5 DEF TimerInv, TimerTypeOK, Waits
    <2>2. Contains(queue'[group[d]], d) BY <1>2, <2>1, RestShape
    <2> QED BY <1>2, <2>2
  <1>6. TimerTypeOK'
    <2>1. queue' \in [Timeouts -> Seq(Conns)] BY <1>2, <1>4
    <2> QED BY <1>1, <1>2, <2>1 DEF TimerInv, TimerTypeOK
  <1> QED BY <1>3, <1>4, <1>5, <1>6 DEF TimerInv

(* How far timer_expire reads a group: to the first node that has not       *)
(* expired, and because of the order there is no expired one behind it.     *)
LEMMA ExpiredPrefix ==
  ASSUME TimerInv, NEW t \in Timeouts
  PROVE  /\ Expired(queue[t], clock) \in 0 .. Len(queue[t])
         /\ \A k \in DOMAIN queue[t] :
              deadline[queue[t][k]] <= clock <=> k <= Expired(queue[t], clock)
  <1> DEFINE q == queue[t]
             Ok(n) == /\ \A k \in 1 .. n : deadline[q[k]] <= clock
                      /\ n < Len(q) => deadline[q[n + 1]] > clock
             late == {k \in 1 .. Len(q) : deadline[q[k]] > clock}
  <1>1. /\ q \in Seq(Conns) /\ Len(q) \in Nat /\ DOMAIN q = 1 .. Len(q)
        /\ \A k \in DOMAIN q : deadline[q[k]] \in Nat
        /\ \A m, n \in DOMAIN q : m < n => deadline[q[m]] <= deadline[q[n]]
        /\ clock \in Nat
    BY DEF TimerInv, TimerTypeOK, GroupShape
  <1> HIDE DEF q
  <1>2. \E n \in 0 .. Len(q) : Ok(n)
    <2>1. CASE late = {}
      <3>1. Ok(Len(q)) BY <1>1, <2>1
      <3> QED BY <1>1, <3>1
    <2>2. CASE late # {}
      <3>1. late \in SUBSET Nat BY <1>1
      <3>2. PICK m \in late : \A k \in late : m <= k BY <2>2, <3>1, LeastNat
      <3>3. m \in 1 .. Len(q) /\ m - 1 \in 0 .. Len(q) BY <1>1, <3>2
      <3>4. Ok(m - 1) BY <1>1, <3>2, <3>3
      <3> QED BY <3>3, <3>4
    <2> QED BY <2>1, <2>2
  <1> DEFINE n == CHOOSE i \in 0 .. Len(q) : Ok(i)
  <1>3. n \in 0 .. Len(q) /\ Ok(n) BY <1>2
  <1>4. n = Expired(q, clock) BY DEF Expired
  <1> HIDE DEF n
  <1>5. ASSUME NEW k \in DOMAIN q PROVE deadline[q[k]] <= clock <=> k <= n
    <2>1. CASE k <= n BY <1>1, <1>3, <2>1
    <2>2. CASE k = n + 1 BY <1>1, <1>3, <2>2
    <2>3. CASE k > n + 1
      <3>1. n + 1 \in DOMAIN q /\ n < Len(q) BY <1>1, <1>3, <2>3
      <3>2. deadline[q[n + 1]] > clock BY <1>3, <3>1
      <3>3. deadline[q[n + 1]] <= deadline[q[k]] BY <1>1, <2>3, <3>1
      <3>4. /\ clock \in Nat /\ deadline[q[n + 1]] \in Nat /\ deadline[q[k]] \in Nat
            /\ n \in Nat /\ k \in Nat
        BY <1>1, <1>3, <3>1
      <3>5. ~(deadline[q[k]] <= clock) /\ ~(k <= n) BY <2>3, <3>2, <3>3, <3>4
      <3> QED BY <3>5
    <2> QED BY <1>1, <1>3, <2>1, <2>2, <2>3
  <1>6. Expired(queue[t], clock) = n BY <1>4 DEF q
  <1> QED BY <1>1, <1>3, <1>5, <1>6 DEF q

(* Those and only those whose deadline has come no longer wait. *)
LEMMA ExpireEnds ==
  ASSUME TimerInv, timer_expire, NEW c \in Conns
  PROVE  events'[c] = IF Waits(c) /\ deadline[c] <= clock THEN "none" ELSE events[c]
  <1> DEFINE Hit == \E t \in Timeouts : \E k \in 1 .. Expired(queue[t], clock) : queue[t][k] = c
  <1>1. events'[c] = IF Hit THEN "none" ELSE events[c] BY DEF timer_expire
  <1>2. ASSUME Hit PROVE Waits(c) /\ deadline[c] <= clock
    <2>0. PICK t \in Timeouts : \E k \in 1 .. Expired(queue[t], clock) : queue[t][k] = c BY <1>2
    <2>1. PICK k \in 1 .. Expired(queue[t], clock) : queue[t][k] = c BY <2>0
    <2>2. queue[t] \in Seq(Conns) /\ GroupShape(t) BY DEF TimerInv, TimerTypeOK
    <2>3. /\ Expired(queue[t], clock) \in 0 .. Len(queue[t])
          /\ \A i \in DOMAIN queue[t] :
               deadline[queue[t][i]] <= clock <=> i <= Expired(queue[t], clock)
      BY ExpiredPrefix
    <2>4. k \in DOMAIN queue[t] /\ k <= Expired(queue[t], clock) BY <2>2, <2>3
    <2>5. Waits(queue[t][k]) BY <2>2, <2>4 DEF GroupShape
    <2> QED BY <2>1, <2>3, <2>4, <2>5
  <1>3. ASSUME Waits(c), deadline[c] <= clock PROVE Hit
    <2> DEFINE t == group[c]
    <2>1. t \in Timeouts /\ queue[t] \in Seq(Conns) /\ Contains(queue[t], c)
      BY <1>3 DEF TimerInv, TimerTypeOK
    <2>2. PICK k \in DOMAIN queue[t] : queue[t][k] = c BY <2>1 DEF Contains
    <2>3. /\ Expired(queue[t], clock) \in 0 .. Len(queue[t])
          /\ deadline[queue[t][k]] <= clock <=> k <= Expired(queue[t], clock)
      BY <2>1, ExpiredPrefix
    <2>4. k \in 1 .. Expired(queue[t], clock) BY <1>3, <2>1, <2>2, <2>3
    <2> QED BY <2>1, <2>2, <2>4
  <1> HIDE DEF Hit
  <1> QED BY <1>1, <1>2, <1>3

(* What is left of a list behind its first n nodes. *)
LEMMA SubSeqRest ==
  ASSUME NEW S, NEW q \in Seq(S), NEW n \in 0 .. Len(q)
  PROVE  LET r == SubSeq(q, n + 1, Len(q))
         IN /\ r \in Seq(S) /\ Len(r) = Len(q) - n
            /\ \A k \in 1 .. Len(r) : r[k] = q[k + n]
  OBVIOUS

LEMMA ExpireInv ==
  ASSUME TimerInv, timer_expire
  PROVE  TimerInv'
  <1>1. /\ now' = clock /\ UNCHANGED <<clock, groups, deadline, group, wild>>
        /\ queue' = [t \in Timeouts |-> SubSeq(queue[t], Expired(queue[t], clock) + 1, Len(queue[t]))]
    BY DEF timer_expire
  <1>2. /\ clock \in Nat /\ now \in Nat /\ now <= clock
        /\ deadline \in [Conns -> Nat] /\ group \in [Conns -> Timeouts]
    BY DEF TimerInv, TimerTypeOK
  <1> DEFINE Cut(t, q, n, r) ==
               /\ r \in Seq(Conns) /\ GroupShape(t)'
               /\ q \in Seq(Conns) /\ n \in 0 .. Len(q) /\ Len(r) = Len(q) - n
               /\ \A k \in 1 .. Len(r) : r[k] = q[k + n]
               /\ \A k \in DOMAIN q : deadline[q[k]] <= clock <=> k <= n
  <1> HIDE DEF Cut
  <1>3. ASSUME NEW t \in Timeouts
        PROVE  Cut(t, queue[t], Expired(queue[t], clock), queue'[t])
    <2>0. PICK q, n, r : q = queue[t] /\ n = Expired(q, clock) /\ r = queue'[t] OBVIOUS
    <2>1. q \in Seq(Conns) /\ GroupShape(t) /\ Len(q) \in Nat /\ DOMAIN q = 1 .. Len(q)
      BY <2>0 DEF TimerInv, TimerTypeOK
    <2>2. n \in 0 .. Len(q) /\ \A k \in DOMAIN q : deadline[q[k]] <= clock <=> k <= n
      BY <2>0, ExpiredPrefix
    <2>3. r = SubSeq(q, n + 1, Len(q)) BY <1>1, <2>0
    <2>4. r \in Seq(Conns) /\ Len(r) = Len(q) - n /\ \A k \in 1 .. Len(r) : r[k] = q[k + n]
      BY <2>1, <2>2, <2>3, SubSeqRest
    <2>5. DOMAIN r = 1 .. Len(r) /\ \A k \in DOMAIN r : k + n \in DOMAIN q /\ ~(k + n <= n)
      BY <2>1, <2>2, <2>4
    <2>6. /\ \A k, m \in DOMAIN q : q[k] = q[m] => k = m
          /\ \A k \in DOMAIN q : Waits(q[k]) /\ group[q[k]] = t /\ deadline[q[k]] <= now + t
          /\ \A k, m \in DOMAIN q : k < m => deadline[q[k]] <= deadline[q[m]]
      BY <2>1, <2>0 DEF GroupShape, Distinct
    <2>7. Distinct(r) BY <2>2, <2>4, <2>5, <2>6 DEF Distinct
    <2>8. ASSUME NEW k \in DOMAIN r
          PROVE  events'[r[k]] # "none" /\ group'[r[k]] = t /\ deadline'[r[k]] <= now' + t
      <3>1. r[k] \in Conns /\ Waits(r[k]) /\ group[r[k]] = t /\ deadline[r[k]] <= now + t
        BY <2>1, <2>4, <2>5, <2>6
      <3>2. ~(deadline[r[k]] <= clock) BY <2>2, <2>4, <2>5
      <3>3. events'[r[k]] = events[r[k]] BY <3>1, <3>2, ExpireEnds
      <3>4. deadline[r[k]] <= clock + t
        <4>1. deadline[r[k]] \in Nat /\ t \in Nat BY <1>2, <3>1, TimeoutNat
        <4> QED BY <1>2, <3>1, <4>1
      <3> QED BY <1>1, <3>1, <3>3, <3>4 DEF Waits
    <2>9. ASSUME NEW k \in DOMAIN r, NEW m \in DOMAIN r, k < m
          PROVE  deadline'[r[k]] <= deadline'[r[m]]
      <3>1. k + n < m + n BY <2>2, <2>4, <2>5, <2>9
      <3> QED BY <1>1, <2>4, <2>5, <2>6, <3>1
    <2>10. GroupShape(t)' BY <2>0, <2>7, <2>8, <2>9 DEF GroupShape, Waits
    <2> QED BY <2>0, <2>1, <2>2, <2>4, <2>10 DEF Cut
  <1>4. ASSUME NEW c \in Conns, Waits(c)' PROVE Contains(queue[group[c]], c)'
    <2>1. Waits(c) /\ ~(deadline[c] <= clock) BY <1>4, ExpireEnds DEF Waits
    <2> DEFINE t == group[c]
               q == queue[t]
               n == Expired(q, clock)
               r == queue'[t]
    <2>2. t \in Timeouts /\ Contains(q, c) BY <2>1, <1>2 DEF TimerInv
    <2>3. /\ r \in Seq(Conns) /\ q \in Seq(Conns) /\ n \in 0 .. Len(q) /\ Len(r) = Len(q) - n
          /\ \A k \in 1 .. Len(r) : r[k] = q[k + n]
          /\ \A k \in DOMAIN q : deadline[q[k]] <= clock <=> k <= n
      <3> HIDE DEF t
      <3>1. Cut(t, q, n, r) BY <1>3, <2>2
      <3> QED BY <3>1 DEF Cut
    <2> HIDE DEF q, n, r
    <2>4. PICK k \in 1 .. Len(q) : q[k] = c BY <2>2 DEF Contains
    <2>5. k > n BY <2>1, <2>3, <2>4
    <2>6. k - n \in 1 .. Len(r) /\ r[k - n] = c BY <2>3, <2>4, <2>5
    <2>7. Contains(r, c) BY <2>6 DEF Contains
    <2>8. Contains(queue'[group'[c]], c) BY <1>1, <2>7 DEF r, t
    <2> QED BY <2>8
  <1>5. TimerTypeOK'
    <2>1. queue' \in [Timeouts -> Seq(Conns)] BY <1>1, <1>3 DEF Cut
    <2>2. events' \in [Conns -> {"none", "read", "write"}]
      BY DEF timer_expire, TimerInv, TimerTypeOK
    <2> QED BY <1>1, <1>2, <2>1, <2>2 DEF TimerInv, TimerTypeOK
  <1>6. \A t \in Timeouts : GroupShape(t)' BY <1>3 DEF Cut
  <1> QED BY <1>1, <1>4, <1>5, <1>6 DEF TimerInv

LEMMA TimerNextInv ==
  ASSUME ~GroupFails, TimerInv, [TimerNext]_timerVars
  PROVE  TimerInv'
  <1>1. CASE Second
    <2>1. clock' \in Nat /\ now <= clock' BY <1>1 DEF Second, TimerInv, TimerTypeOK
    <2> QED BY <1>1, <2>1 DEF Second, TimerInv, TimerTypeOK, GroupShape, Waits
  <1>2. CASE timer_refresh
    <2>1. ASSUME NEW t \in Timeouts PROVE GroupShape(t)'
      <3>1. /\ now' = clock /\ clock \in Nat /\ now \in Nat /\ now <= clock /\ t \in Nat
            /\ GroupShape(t) /\ queue[t] \in Seq(Conns) /\ deadline \in [Conns -> Nat]
            /\ UNCHANGED <<queue, deadline, group, events>>
        BY <1>2, TimeoutNat DEF timer_refresh, TimerInv, TimerTypeOK
      <3>2. ASSUME NEW n \in DOMAIN queue[t] PROVE deadline[queue[t][n]] <= clock + t
        <4>1. deadline[queue[t][n]] \in Nat /\ deadline[queue[t][n]] <= now + t
          BY <3>1 DEF GroupShape
        <4> QED BY <3>1, <4>1
      <3> QED BY <3>1, <3>2 DEF GroupShape, Waits
    <2>2. TimerTypeOK' BY <1>2 DEF timer_refresh, TimerInv, TimerTypeOK
    <2> QED BY <1>2, <2>1, <2>2 DEF timer_refresh, TimerInv, Waits
  <1>3. CASE timer_expire BY <1>3, ExpireInv
  <1>4. ASSUME NEW c \in Conns, event_del(c) PROVE TimerInv' BY <1>4, EventDelInv
  <1>5. ASSUME NEW c \in Conns, NEW event \in {"read", "write"}, NEW timeout \in Timeouts,
               event_add(c, event, timeout)
        PROVE  TimerInv'
    BY <1>5, EventAddArms, ArmedInv
  <1>6. CASE UNCHANGED timerVars
    BY <1>6 DEF timerVars, TimerInv, TimerTypeOK, GroupShape, Waits
  <1> QED BY <1>1, <1>2, <1>3, <1>4, <1>5, <1>6 DEF TimerNext

-----------------------------------------------------------------------------
(* Results.                                                                *)

(* With memory for the groups, timer.c keeps its invariant.                 *)
THEOREM TimerInvariant == ~GroupFails => (TimerSpec => []TimerInv)
  <1>1. TimerInit => TimerInv BY TimerInitInv
  <1>2. ~GroupFails /\ TimerInv /\ [TimerNext]_timerVars => TimerInv' BY TimerNextInv
  <1> SUFFICES ASSUME ~GroupFails PROVE TimerSpec => []TimerInv OBVIOUS
  <1>3. TimerInv /\ [TimerNext]_timerVars => TimerInv' BY <1>2
  <1> QED BY <1>1, <1>3, PTL DEF TimerSpec

LEMMA LinkedOnce ==
  ASSUME TimerInv
  PROVE  LinkedWhileWaiting
  <1>1. ASSUME NEW c \in Conns, NEW t \in Timeouts
        PROVE  Cardinality({i \in DOMAIN queue[t] : queue[t][i] = c}) =
                 IF events[c] # "none" /\ group[c] = t THEN 1 ELSE 0
    <2> DEFINE I == {i \in DOMAIN queue[t] : queue[t][i] = c}
    <2>1. GroupShape(t) BY DEF TimerInv
    <2>2. CASE Waits(c) /\ group[c] = t
      <3>1. Contains(queue[t], c) /\ queue[t] \in Seq(Conns)
        BY <2>2 DEF TimerInv, TimerTypeOK
      <3>2. PICK k \in DOMAIN queue[t] : queue[t][k] = c BY <3>1 DEF Contains
      <3>3. I = {k} BY <2>1, <3>2 DEF GroupShape, Distinct
      <3>4. Cardinality(I) = 1 BY <3>3, FS_Singleton
      <3> QED BY <2>2, <3>4 DEF Waits
    <2>3. CASE ~(Waits(c) /\ group[c] = t)
      <3>1. I = {} BY <2>1, <2>3 DEF GroupShape
      <3>2. Cardinality(I) = 0 BY <3>1, FS_EmptySet
      <3> QED BY <2>3, <3>2 DEF Waits
    <2> QED BY <2>2, <2>3
  <1> QED BY <1>1 DEF TimerInv, LinkedWhileWaiting

(* A connection waits for an event exactly when its node is linked, once,   *)
(* in the group of its timeout: event_del never unlinks a node twice.       *)
THEOREM TimersAreLinked == ~GroupFails => (TimerSpec => []LinkedWhileWaiting)
  <1> SUFFICES ASSUME ~GroupFails PROVE TimerSpec => []LinkedWhileWaiting OBVIOUS
  <1>1. TimerSpec => []TimerInv BY TimerInvariant
  <1>2. TimerInv => LinkedWhileWaiting BY LinkedOnce
  <1> QED BY <1>1, <1>2, PTL

(* The alarms that the state of the timer stands for. *)
Alarm == [c \in {d \in Conns : events[d] # "none"} |-> [at |-> deadline[c], span |-> group[c]]]

LEMMA TimerStep ==
  ASSUME ~GroupFails, TimerInv, [TimerNext]_timerVars
  PROVE  [Alarms!Next]_<<now, Alarm>>
  <1> USE DEF Alarm
  <1>0. /\ now \in Nat /\ clock \in Nat /\ now <= clock
        /\ deadline \in [Conns -> Nat] /\ group \in [Conns -> Timeouts]
        /\ events \in [Conns -> {"none", "read", "write"}]
    BY DEF TimerInv, TimerTypeOK
  <1>1. CASE Second BY <1>1 DEF Second
  <1>2. CASE timer_refresh
    <2>1. now' >= now /\ Alarm' = Alarm BY <1>0, <1>2 DEF timer_refresh
    <2>2. Alarms!Look BY <2>1 DEF Alarms!Look
    <2> QED BY <2>2 DEF Alarms!Next
  <1>3. CASE timer_expire
    <2>1. now' >= now /\ now' = clock /\ UNCHANGED <<deadline, group>>
      BY <1>0, <1>3 DEF timer_expire
    <2>2. \A c \in Conns : events'[c] = IF events[c] # "none" /\ deadline[c] <= clock THEN "none" ELSE events[c]
      BY <1>3, ExpireEnds DEF Waits
    <2>3. {d \in Conns : events'[d] # "none"} =
            {d \in {c \in Conns : events[c] # "none"} : deadline[d] > clock}
      BY <1>0, <2>2
    <2>4. Alarm' = Alarms!Restrict(Alarm, {c \in DOMAIN Alarm : Alarm[c].at > now'})
      BY <1>0, <2>1, <2>3 DEF Alarms!Restrict
    <2>5. Alarms!Ring BY <2>1, <2>4 DEF Alarms!Ring
    <2> QED BY <2>5 DEF Alarms!Next
  <1>4. ASSUME NEW c \in Conns, event_del(c) PROVE Alarms!Next
    <2>1. Waits(c) /\ UNCHANGED now /\ events' = [events EXCEPT ![c] = "none"]
          /\ UNCHANGED <<deadline, group>>
      <3>1. TimerBecomes(timer_del(Timer, c)) BY <1>4 DEF event_del
      <3> DEFINE D == timer_del(Timer, c)
      <3>2. D.deadline = deadline /\ D.group = group BY TimerDelFields
      <3> HIDE DEF D
      <3> QED BY <1>4, <3>1, <3>2 DEF event_del, TimerBecomes, Waits, D
    <2>2. {d \in Conns : events'[d] # "none"} = {d \in Conns : events[d] # "none"} \ {c}
      BY <1>0, <2>1
    <2>3. Alarm' = Alarms!Restrict(Alarm, DOMAIN Alarm \ {c})
      BY <2>1, <2>2 DEF Alarms!Restrict
    <2>4. Alarms!Disarm(c) BY <2>1, <2>3 DEF Alarms!Disarm, Waits
    <2> QED BY <2>4 DEF Alarms!Next
  <1>5. ASSUME NEW c \in Conns, NEW event \in {"read", "write"}, NEW timeout \in Timeouts,
               event_add(c, event, timeout)
        PROVE  Alarms!Next
    <2>1. Armed(c, event, timeout) BY <1>5, EventAddArms
    <2>2. /\ UNCHANGED now /\ events' = [events EXCEPT ![c] = event]
          /\ deadline' = [deadline EXCEPT ![c] = now + timeout]
          /\ group' = [group EXCEPT ![c] = timeout]
      BY <2>1 DEF Armed
    <2>3. {d \in Conns : events'[d] # "none"} = {d \in Conns : events[d] # "none"} \cup {c}
      BY <1>0, <2>2
    <2>4. Alarm' = [d \in DOMAIN Alarm \cup {c} |->
                      IF d = c THEN [at |-> now + timeout, span |-> timeout] ELSE Alarm[d]]
      BY <1>0, <2>2, <2>3
    <2>5. Alarms!Arm(c, timeout) BY <2>2, <2>4 DEF Alarms!Arm
    <2> QED BY <2>5 DEF Alarms!Next
  <1>6. CASE UNCHANGED timerVars BY <1>6 DEF timerVars
  <1> QED BY <1>1, <1>2, <1>3, <1>4, <1>5, <1>6 DEF TimerNext

(* Reading every group only up to its first unexpired node misses nobody:   *)
(* timer_expire rings exactly the alarms that are due, and events and their *)
(* updates set and clear the alarms, whatever the order of steps.           *)
THEOREM TimerImplementsAlarms == ~GroupFails => (TimerSpec => TimerIsAlarms)
  <1> SUFFICES ASSUME ~GroupFails PROVE TimerSpec => TimerIsAlarms OBVIOUS
  <1>1. TimerInit => Alarms!Init
    <2> SUFFICES ASSUME TimerInit PROVE Alarms!Init OBVIOUS
    <2>1. {d \in Conns : events[d] # "none"} = {} BY DEF TimerInit
    <2>2. Alarm = [c \in {} |-> [at |-> 0, span |-> 0]] BY <2>1 DEF Alarm
    <2> QED BY <2>2 DEF Alarm, Alarms!Init, TimerInit
  <1>2. TimerInv /\ [TimerNext]_timerVars => [Alarms!Next]_<<now, Alarm>> BY TimerStep
  <1>3. TimerSpec => []TimerInv BY TimerInvariant
  <1> QED BY <1>1, <1>2, <1>3, PTL DEF TimerSpec, TimerIsAlarms, Alarms!Spec, Alarm
=============================================================================
