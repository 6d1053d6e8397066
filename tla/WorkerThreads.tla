--------------------------- MODULE WorkerThreads ----------------------------
(* Facts about the definitions of Worker, the effects that several of its   *)
(* actions share, and: every step of a worker thread keeps the invariant    *)
(* IInv of Worker.                                                          *)
EXTENDS Worker, FiniteSetTheorems, TLAPS

(* The requests a worker owns are finitely many. *)
LEMMA OwnedFinite ==
  ASSUME NEW w
  PROVE  IsFiniteSet(Owned(w)) /\ Cardinality(Owned(w)) \in Nat
  <1>1. Owned(w) \in SUBSET Requests
    BY DEF Owned
  <1> QED
    BY <1>1, FS_Subset, FS_CardinalityType, ConstantsAssumption

(* An empty set of owned requests, by its cardinality. *)
LEMMA OwnedEmpty ==
  ASSUME NEW w
  PROVE  Cardinality(Owned(w)) = 0 <=> Owned(w) = {}
  BY OwnedFinite, FS_EmptySet

(* The first of a list that is not empty. *)
LEMMA FirstOf ==
  ASSUME NEW l \in Seq(Workers), l # <<>>
  PROVE  Head(l) \in Elems(l) /\ Head(l) \in Workers
  <1>1. Len(l) \in Nat /\ DOMAIN l = 1 .. Len(l) /\ l = [i \in 1 .. Len(l) |-> l[i]] OBVIOUS
  <1>2. Len(l) # 0
    <2> SUFFICES ASSUME Len(l) = 0 PROVE FALSE OBVIOUS
    <2>1. l = <<>> OBVIOUS
    <2> QED BY <2>1
  <1>3. 1 \in 1 .. Len(l) BY <1>1, <1>2
  <1>4. Head(l) = l[1] OBVIOUS
  <1>5. l[1] \in Workers BY <1>3
  <1>6. l[1] \in Elems(l) BY <1>3 DEF Elems
  <1> QED BY <1>4, <1>5, <1>6

(* current_worker moves on: the same workers, once each. *)
LEMMA RotateSame ==
  ASSUME NEW l \in Seq(Workers), l # <<>>,
         \A i, j \in 1 .. Len(l) : i # j => l[i] # l[j]
  PROVE  /\ Rotate(l) \in Seq(Workers) /\ Elems(Rotate(l)) = Elems(l)
         /\ \A i, j \in 1 .. Len(Rotate(l)) : i # j => Rotate(l)[i] # Rotate(l)[j]
         /\ Head(l) \in Elems(l)
  <1>1. /\ Rotate(l) \in Seq(Workers) /\ Len(Rotate(l)) = Len(l)
        /\ \A i \in 1 .. Len(l) : Rotate(l)[i] = IF i < Len(l) THEN l[i + 1] ELSE l[1]
    BY DEF Rotate
  <1>2. Elems(Rotate(l)) \subseteq Elems(l)
    BY <1>1 DEF Elems
  <1>3. ASSUME NEW i \in 1 .. Len(l)
        PROVE  l[i] \in Elems(Rotate(l))
    <2>1. CASE i = 1
      BY <1>1, <2>1 DEF Elems
    <2>2. CASE i > 1
      <3>1. i - 1 \in 1 .. Len(l) /\ Rotate(l)[i - 1] = l[i]
        BY <1>1, <2>2
      <3> QED
        BY <3>1, <1>1 DEF Elems
    <2> QED
      BY <2>1, <2>2
  <1>4. Elems(Rotate(l)) = Elems(l)
    BY <1>2, <1>3, Zenon DEF Elems
  <1>5. \A i, j \in 1 .. Len(Rotate(l)) : i # j => Rotate(l)[i] # Rotate(l)[j]
    BY <1>1
  <1>6. Head(l) \in Elems(l)
    BY DEF Elems
  <1> QED
    BY <1>1, <1>4, <1>5, <1>6

(* worker_delete removes the doomed workers from the ring and no other. *)
LEMMA SurvivorsRest ==
  ASSUME NEW l \in Seq(Workers), NEW num \in Nat,
         \A i, j \in 1 .. Len(l) : i # j => l[i] # l[j]
  PROVE  LET v == Survivors(l, num)
         IN /\ v \in Seq(Workers)
            /\ \A i, j \in 1 .. Len(v) : i # j => v[i] # v[j]
            /\ Elems(v) \subseteq Elems(l)
            /\ Elems(v) \cap Doomed(l, num) = {}
            /\ Doomed(l, num) \subseteq Elems(l)
  <1> DEFINE v == Survivors(l, num)
  <1>1. CASE num >= Len(l)
    BY <1>1 DEF Survivors, Doomed, Elems
  <1>2. CASE num < Len(l)
    <2>1. /\ v \in Seq(Workers) /\ Len(v) = Len(l) - num
          /\ \A i \in 1 .. Len(v) : v[i] = IF i = 1 THEN l[1] ELSE l[i + num]
      BY <1>2 DEF Survivors
    <2>2. Doomed(l, num) = {l[i] : i \in 2 .. num + 1}
      BY <1>2 DEF Doomed
    <2>3. Doomed(l, num) \subseteq Elems(l)
      BY <2>2, <1>2 DEF Elems
    <2>4. Elems(v) \subseteq Elems(l)
      BY <2>1, <1>2 DEF Elems
    <2>5. \A i, j \in 1 .. Len(v) : i # j => v[i] # v[j]
      BY <2>1, <1>2
    <2>6. ASSUME NEW i \in 1 .. Len(v), NEW j \in 2 .. num + 1
          PROVE  v[i] # l[j]
      BY <2>1, <1>2
    <2>7. Elems(v) \cap Doomed(l, num) = {}
      BY <2>2, <2>6 DEF Elems
    <2> QED
      BY <2>1, <2>3, <2>4, <2>5, <2>7
  <1> QED
    BY <1>1, <1>2

(* worker_conf_check adds the fresh workers to the ring. *)
LEMMA CreateAdds ==
  ASSUME NEW l \in Seq(Workers), NEW n \in Nat, NEW s \in [1 .. n -> Workers],
         l = <<>> => n = 0,
         \A i, j \in 1 .. n : i # j => s[i] # s[j],
         \A i, j \in 1 .. Len(l) : i # j => l[i] # l[j],
         \A i \in 1 .. Len(l), j \in 1 .. n : l[i] # s[j]
  PROVE  LET c == worker_create(l, s)
         IN /\ c \in Seq(Workers) /\ Len(c) = Len(l) + n
            /\ \A i, j \in 1 .. Len(c) : i # j => c[i] # c[j]
            /\ Elems(c) \subseteq Elems(l) \cup Elems(s)
            /\ Elems(s) \subseteq Workers
  <1> DEFINE c == worker_create(l, s)
  <1>1. s \in Seq(Workers) /\ Len(s) = n
    OBVIOUS
  <1>2. /\ c \in Seq(Workers) /\ Len(c) = Len(l) + n
        /\ \A i \in 1 .. Len(c) :
             c[i] = IF i = 1 THEN l[1]
                    ELSE IF i <= n + 1 THEN s[n + 2 - i] ELSE l[i - n]
    BY <1>1 DEF worker_create
  <1> HIDE DEF c
  <1>a. ASSUME NEW i \in 1 .. Len(c)
        PROVE  \/ i = 1 /\ 1 \in 1 .. Len(l) /\ c[i] = l[1]
               \/ i \in 2 .. n + 1 /\ n + 2 - i \in 1 .. n /\ c[i] = s[n + 2 - i]
               \/ i > n + 1 /\ i - n \in 2 .. Len(l) /\ c[i] = l[i - n]
    <2>1. Len(l) \in Nat /\ Len(c) = Len(l) + n
      BY <1>2
    <2>2. Len(l) > 0
      BY <2>1
    <2> QED
      BY <1>2, <2>1, <2>2
  <1>3. ASSUME NEW i \in 1 .. Len(c), NEW j \in 1 .. Len(c), i # j
        PROVE  c[i] # c[j]
    <2>1. CASE i = 1 /\ 1 \in 1 .. Len(l) /\ c[i] = l[1]
      BY <2>1, <1>a, <1>3
    <2>2. CASE i \in 2 .. n + 1 /\ n + 2 - i \in 1 .. n /\ c[i] = s[n + 2 - i]
      <3>1. CASE \E k \in 1 .. Len(l) : c[j] = l[k]
        BY <2>2, <3>1
      <3>2. CASE j \in 2 .. n + 1 /\ n + 2 - j \in 1 .. n /\ c[j] = s[n + 2 - j]
        <4>1. n + 2 - i # n + 2 - j
          BY <1>3, <3>2, <2>2
        <4> QED
          BY <2>2, <3>2, <4>1
      <3> QED
        BY <1>a, <3>1, <3>2
    <2>3. CASE i > n + 1 /\ i - n \in 2 .. Len(l) /\ c[i] = l[i - n]
      BY <2>3, <1>a, <1>3
    <2> QED
      BY <1>a, <2>1, <2>2, <2>3
  <1>4. Elems(c) \subseteq Elems(l) \cup Elems(s)
    <2>1. ASSUME NEW i \in 1 .. Len(c)
          PROVE  c[i] \in Elems(l) \cup Elems(s)
      BY <1>1, <1>a DEF Elems
    <2> QED
      BY <2>1 DEF Elems
  <1>5. Elems(s) \subseteq Workers
    BY <1>1 DEF Elems
  <1> QED
    BY <1>2, <1>3, <1>4, <1>5 DEF c

(* A step that moves no request leaves every list and pipe as it is. *)
LEMMA SameHeld ==
  ASSUME UNCHANGED <<at, home>>
  PROVE  /\ \A k, t : Held(k, t)' = Held(k, t)
         /\ \A t : Owned(t)' = Owned(t)
  BY DEF Held, Owned

(* and so every request in its shape. *)
LEMMA SameLinks == LinkShape /\ UNCHANGED reqVars => LinkShape'
  BY DEF LinkShape, Linked, reqVars

(* Handlers change no ring. *)
LEMMA SameRing ==
  ASSUME RingShape, UNCHANGED <<wlist, quit_time, wpc>>, \A w : Owned(w)' = Owned(w),
         \A w \in Workers : wready[w] = {} => wready'[w] = {}
  PROVE  RingShape'
  BY DEF RingShape

(* A write to a dispatch pipe puts one request in, into that pipe. *)
LEMMA WriteGoes ==
  ASSUME at \in [Requests -> {"free", "list", "dispatch", "blocked", "return"}],
         home \in [Requests -> Threads],
         NEW r \in Requests, NEW w, w # Master, worker_do_request_write(r, w),
         NEW q \in Requests, at'[q] = "dispatch", home'[q] # w
  PROVE  at[q] = "dispatch" /\ home'[q] = home[q]
  BY DEF worker_do_request_write

(* What refers to a worker is a request of that worker. *)
LEMMA LinkedHome ==
  ASSUME NEW r \in Requests, Linked(r), NEW w, w # Master,
         w = worker_thread[r] \/ w \in epolls[r]
  PROVE  home[r] = w /\ at[r] # "free"
  BY DEF Linked

(* The argument for worker_destory: a worker outside the ring whose         *)
(* request_nr is 0 is not referred to.                                      *)
LEMMA QuietWorker ==
  ASSUME IInv, NEW w \in Workers, request_nr[w] = 0, quit_time[w] # "zero"
  PROVE  /\ Owned(w) = {}
         /\ w \notin Elems(wlist) /\ w \notin mpipes /\ w # mtarget
         /\ \A r \in Requests : w # worker_thread[r] /\ w \notin epolls[r]
  <1> USE DEF IInv
  <1>1. w # Master /\ w \notin Elems(wlist)
    BY ConstantsAssumption DEF RingShape
  <1>2. ~(mpc = "dispatched" /\ mtarget = w)
    BY <1>1 DEF MasterShape
  <1>3. Cardinality(Owned(w)) = 0 /\ ~(mpc \in {"recycle", "recycled"} /\ mtarget = w /\ mcount > 0)
    BY <1>2, OwnedFinite DEF RequestNrExact, TypeOK
  <1>4. Owned(w) = {}
    BY <1>3, OwnedEmpty
  <1>5. Held("return", w) = {}
    BY <1>4 DEF Held, Owned
  <1>6. w \notin mpipes /\ w # mtarget
    BY <1>1, <1>2, <1>3, <1>5 DEF MasterShape
  <1>7. ASSUME NEW r \in Requests
        PROVE  w # worker_thread[r] /\ w \notin epolls[r]
    <2>1. Linked(r) /\ r \notin Owned(w)
      BY <1>4 DEF LinkShape
    <2> QED
      BY <1>1, <2>1, LinkedHome, Zenon DEF Owned
  <1> QED
    BY <1>1, <1>4, <1>6, <1>7

(* worker_request_return: the request stays with its worker, in the return  *)
(* pipe or on blocked_requests.                                             *)
LEMMA ReturnEffect ==
  ASSUME IInv, NEW w \in Workers, NEW r \in Requests, NEW k \in BOOLEAN,
         at[r] \in {"list", "blocked"}, home[r] = w, request_finalize(r, k)
  PROVE  /\ home' = home /\ active' = active /\ keep' \in [Requests -> BOOLEAN]
         /\ \E a \in {"return", "blocked"} :
              /\ at' = [at EXCEPT ![r] = a]
              /\ worker_thread' = [worker_thread EXCEPT ![r] = IF a = "return" THEN Master ELSE w]
         /\ events' = [events EXCEPT ![r] = FALSE]
         /\ epolls' = [epolls EXCEPT ![r] = {}]
  <1> USE DEF IInv, request_finalize, worker_do_request_write
  <1>1. worker_thread[r] = w /\ w # Master /\ AfterDel(r) = {}
    BY ConstantsAssumption, Zenon DEF LinkShape, Linked, AfterDel
  <1>2. home' = home /\ active' = active
    BY <1>1 DEF TypeOK
  <1>3. keep' \in [Requests -> BOOLEAN]
    BY DEF TypeOK
  <1>4. \E a \in {"return", "blocked"} :
              /\ at' = [at EXCEPT ![r] = a]
              /\ worker_thread' = [worker_thread EXCEPT ![r] = IF a = "return" THEN Master ELSE w]
    BY <1>1, Zenon
  <1> QED
    BY <1>1, <1>2, <1>3, <1>4, Zenon

(* event_add: the request waits in the epoll of the thread it is with. *)
LEMMA EventAddEffect ==
  ASSUME TypeOK, LinkShape, NEW r \in Requests, at[r] \in {"free", "list"}, event_add(r),
         at' = [at EXCEPT ![r] = "list"], UNCHANGED <<home, worker_thread>>
  PROVE  /\ LinkShape' /\ events' = [events EXCEPT ![r] = TRUE]
         /\ epolls' = [epolls EXCEPT ![r] = {home[r]}]
  <1>1. Linked(r)
    BY DEF LinkShape
  <1>2. (IF events[r] THEN epolls[r] ELSE epolls[r] \cup {worker_thread[r]}) = {home[r]}
    BY <1>1 DEF Linked
  <1>3. events' = [events EXCEPT ![r] = TRUE] /\ epolls' = [epolls EXCEPT ![r] = {home[r]}]
    BY <1>2, Zenon DEF event_add
  <1>4. ASSUME NEW q \in Requests, q # r
        PROVE  Linked(q)'
    <2>1. Linked(q)
      BY DEF LinkShape
    <2>2. events'[q] = events[q] /\ epolls'[q] = epolls[q] /\ at'[q] = at[q]
      BY <1>3, <1>4 DEF TypeOK
    <2> QED
      BY <2>1, <2>2 DEF Linked
  <1>5. Linked(r)'
    <2>1. events'[r] = TRUE /\ epolls'[r] = {home[r]} /\ at'[r] = "list"
      BY <1>3 DEF TypeOK
    <2> QED
      BY <1>1, <2>1 DEF Linked
  <1> QED
    BY <1>3, <1>4, <1>5 DEF LinkShape

(* request_do_finalize: the request is idle or free. *)
LEMMA FinalizeEffect ==
  ASSUME IInv, NEW S \in SUBSET Requests, NEW kept \in SUBSET S,
         \A r \in S : home[r] = Master \/ at[r] = "return",
         request_do_finalize(S, kept)
  PROVE  /\ LinkShape'
         /\ at' \in [Requests -> {"free", "list", "dispatch", "blocked", "return"}]
         /\ home' \in [Requests -> Threads] /\ worker_thread' \in [Requests -> Threads]
         /\ events' \in [Requests -> BOOLEAN] /\ epolls' \in [Requests -> SUBSET Threads]
         /\ keep' \in [Requests -> BOOLEAN] /\ active' \in [Requests -> BOOLEAN]
         /\ \A r \in S : /\ epolls'[r] = IF at'[r] = "list" THEN {Master} ELSE {}
                         /\ worker_thread'[r] = Master
                         /\ home'[r] = Master /\ at'[r] \in {"list", "free"}
         /\ \A r \in Requests \ S : /\ epolls'[r] = epolls[r] /\ at'[r] = at[r]
                                    /\ home'[r] = home[r]
                                    /\ worker_thread'[r] = worker_thread[r]
  <1> USE DEF IInv, request_do_finalize
  <1>1. ASSUME NEW r \in S
        PROVE  AfterDel(r) = {}
    BY ConstantsAssumption, Zenon DEF LinkShape, Linked, AfterDel
  <1>2. /\ at' \in [Requests -> {"free", "list", "dispatch", "blocked", "return"}]
        /\ home' \in [Requests -> Threads] /\ worker_thread' \in [Requests -> Threads]
    BY DEF TypeOK, Threads
  <1>3. events' \in [Requests -> BOOLEAN]
    BY Zenon DEF TypeOK
  <1>4. keep' \in [Requests -> BOOLEAN] /\ active' \in [Requests -> BOOLEAN]
    BY Zenon DEF TypeOK
  <1>5. epolls' \in [Requests -> SUBSET Threads]
    BY <1>1 DEF TypeOK, Threads
  <1>6. ASSUME NEW r \in S
        PROVE  /\ epolls'[r] = IF at'[r] = "list" THEN {Master} ELSE {}
               /\ worker_thread'[r] = Master
               /\ home'[r] = Master /\ at'[r] \in {"list", "free"}
               /\ at'[r] # "list" => events'[r] = FALSE
               /\ at'[r] = "list" => events'[r] = TRUE
    <2>1. CASE r \in kept
      BY <1>1, <2>1, Zenon
    <2>2. CASE r \notin kept
      BY <1>1, <2>2
    <2> QED
      BY <2>1, <2>2, Zenon
  <1>7. ASSUME NEW r \in Requests \ S
        PROVE  /\ epolls'[r] = epolls[r] /\ at'[r] = at[r] /\ events'[r] = events[r]
               /\ home'[r] = home[r] /\ worker_thread'[r] = worker_thread[r]
    BY Zenon
  <1>8. ASSUME NEW q \in Requests PROVE Linked(q)'
    <2>1. CASE q \in S
      BY <1>6, <2>1, ConstantsAssumption, Zenon DEF Linked
    <2>2. CASE q \notin S
      <3>1. Linked(q)
        BY DEF LinkShape
      <3> QED
        BY <1>7, <2>2, <3>1 DEF Linked
    <2> QED
      BY <2>1, <2>2
  <1> QED
    BY <1>2, <1>3, <1>4, <1>5, <1>6, <1>7, <1>8, Zenon DEF LinkShape

(* The ring is the same but for the place of current_worker. *)
LEMMA RingRotates ==
  ASSUME IInv, wlist' = wlist \/ (wlist # <<>> /\ wlist' = Rotate(wlist))
  PROVE  /\ wlist' \in Seq(Workers) /\ Elems(wlist)' = Elems(wlist)
         /\ \A i, j \in 1 .. Len(wlist') : i # j => wlist'[i] # wlist'[j]
  <1>1. CASE wlist' = wlist
    BY <1>1 DEF IInv, TypeOK, RingShape, Elems
  <1>2. CASE wlist # <<>> /\ wlist' = Rotate(wlist)
    <2>1. Elems(wlist)' = Elems(Rotate(wlist))
      BY <1>2 DEF Elems
    <2> QED
      BY <1>2, <2>1, RotateSame DEF IInv, TypeOK, RingShape
  <1> QED
    BY <1>1, <1>2
(* A ring that worker_create has extended. *)
LEMMA CreatedRing ==
  ASSUME IInv, NEW n \in Nat, NEW s \in Fresh(n), wlist = <<>> => n = 0
  PROVE  LET l == worker_create(wlist, s)
         IN /\ Elems(s) \subseteq {w \in Workers : wpc[w] = "none"}
            /\ l \in Seq(Workers) /\ Len(l) = Len(wlist) + n
            /\ \A i, j \in 1 .. Len(l) : i # j => l[i] # l[j]
            /\ Elems(l) \subseteq Elems(wlist) \cup Elems(s)
  <1>0. wlist = <<>> => n = 0
    OBVIOUS
  <1>1. /\ s \in [1 .. n -> {w \in Workers : wpc[w] = "none"}]
        /\ \A i, j \in 1 .. n : i # j => s[i] # s[j]
    BY DEF Fresh
  <1>2. s \in [1 .. n -> Workers] /\ Len(s) = n
    BY <1>1
  <1>3. Elems(s) \subseteq {w \in Workers : wpc[w] = "none"}
    BY <1>1, <1>2 DEF Elems
  <1>4. ASSUME NEW i \in 1 .. Len(wlist), NEW j \in 1 .. n
        PROVE  wlist[i] # s[j]
    <2>1. wlist[i] \in Elems(wlist) /\ wlist[i] \in Workers
      BY DEF Elems, IInv, TypeOK
    <2> QED
      BY <1>1, <2>1 DEF IInv, RingShape
  <1>5. wlist \in Seq(Workers) /\ \A i, j \in 1 .. Len(wlist) : i # j => wlist[i] # wlist[j]
    BY DEF IInv, TypeOK, RingShape
  <1>a. \A i \in 1 .. Len(wlist), j \in 1 .. n : wlist[i] # s[j]
    BY <1>4
  <1>6. LET l == worker_create(wlist, s)
        IN /\ l \in Seq(Workers) /\ Len(l) = Len(wlist) + n
           /\ \A i, j \in 1 .. Len(l) : i # j => l[i] # l[j]
           /\ Elems(l) \subseteq Elems(wlist) \cup Elems(s)
    BY <1>0, <1>1, <1>2, <1>a, <1>5, CreateAdds, SMTT(60)
  <1> QED
    BY <1>3, <1>6

-----------------------------------------------------------------------------
(* The steps of a worker thread.                                            *)

(* epoll_wait of a worker. *)
LEMMA WorkerWaitStep ==
  ASSUME IInv, NEW w \in Workers, WorkerWait(w)
  PROVE  IInv'
  <1> USE SameHeld DEF IInv, reqVars, listVars, masterVars, adminVars, Goto
  <1>1. PICK S \in SUBSET {r \in Requests : w \in epolls[r]} :
          wready' = [wready EXCEPT ![w] = S]
    BY Zenon DEF WorkerWait
  <1>2. S \subseteq Requests /\ S \subseteq Held("list", w)
    BY DEF OnlyOwnerTouches, Held
  <1>3. Held("blocked", w) \subseteq Requests
    BY DEF Held
  <1>4. TypeOK'
    BY <1>1, <1>2, <1>3 DEF TypeOK, WorkerWait
  <1>5. RequestNrExact' /\ LinkShape'
    BY SameLinks DEF RequestNrExact, WorkerWait
  <1>6. FreedUnreferenced'
    BY DEF FreedUnreferenced, TypeOK, WorkerWait
  <1>7. OnlyOwnerTouches'
    BY <1>1, <1>2 DEF OnlyOwnerTouches, TypeOK, WorkerWait
  <1>8. RingShape'
    BY <1>1 DEF RingShape, TypeOK, WorkerWait
  <1>9. MasterShape'
    BY DEF MasterShape, WorkerWait
  <1> QED
    BY <1>4, <1>5, <1>6, <1>7, <1>8, <1>9

(* A worker moves on without touching a request. *)
LEMMA WorkerGotoStep ==
  ASSUME IInv, NEW w \in Workers,
         \/ WorkerCheck(w) \/ WorkerEnd(w)
         \/ wtodo[w] = {} /\ (WorkerClean(w) \/ WorkerRetry(w))
  PROVE  IInv'
  <1> USE DEF IInv, Goto
  <1> DEFINE Moves(pc) ==
             /\ wpc' = [wpc EXCEPT ![w] = pc]
             /\ pc \in {"clean", "freed"} => quit_time[w] # "zero"
             /\ pc = "freed" => request_nr[w] = 0
             /\ pc # "events" => wready[w] = {}
             /\ \/ wtodo' = [wtodo EXCEPT ![w] = Held("list", w)]
                \/ wtodo' = [wtodo EXCEPT ![w] = {}] /\ pc # "clean"
                \/ wtodo' = wtodo /\ pc # "clean"
  <1>1. UNCHANGED <<reqVars, listVars, request_nr, wready, wpipe, masterVars, adminVars>>
    BY Zenon DEF WorkerCheck, WorkerEnd, WorkerClean, WorkerRetry
  <1>2. \E pc \in {"clean", "wait", "events", "freed", "check"} : Moves(pc)
    <2>1. CASE WorkerCheck(w)
      BY <2>1, Zenon DEF WorkerCheck, AfterCheck, RingShape, TypeOK
    <2>2. CASE WorkerEnd(w)
      BY <2>2 DEF WorkerEnd
    <2>3. CASE wtodo[w] = {} /\ WorkerClean(w)
      BY <2>3 DEF WorkerClean, AfterCheck, RingShape
    <2>4. CASE wtodo[w] = {} /\ WorkerRetry(w)
      BY <2>4 DEF WorkerRetry
    <2> QED
      BY <2>1, <2>2, <2>3, <2>4
  <1>a. PICK pc \in {"clean", "wait", "events", "freed", "check"} : Moves(pc)
    BY <1>2, Zenon
  <1> USE <1>1, SameHeld DEF reqVars, listVars, masterVars, adminVars
  <1>3. TypeOK'
    <2>1. Held("list", w) \subseteq Requests
      BY DEF Held
    <2>2. wtodo' \in [Workers -> SUBSET Requests]
      BY <1>a, <2>1, ZenonT(30) DEF TypeOK
    <2>3. wpc' \in [Workers -> {"none", "check", "clean", "wait", "retry", "events", "freed"}]
      BY <1>a DEF TypeOK
    <2> QED
      BY <2>2, <2>3 DEF TypeOK
  <1>4. RequestNrExact' /\ LinkShape'
    BY SameLinks DEF RequestNrExact
  <1>5. FreedUnreferenced'
    BY <1>a, QuietWorker, SMTT(20) DEF FreedUnreferenced, TypeOK
  <1>6. OnlyOwnerTouches'
    BY <1>a DEF OnlyOwnerTouches, TypeOK
  <1>7. RingShape'
    BY <1>a DEF RingShape, TypeOK
  <1>8. MasterShape'
    BY DEF MasterShape
  <1> QED
    BY <1>3, <1>4, <1>5, <1>6, <1>7, <1>8

(* A worker returns a request, in a handler or in request_clean. *)
LEMMA ReturnStep ==
  ASSUME IInv, NEW w \in Workers, NEW r \in Requests, NEW k \in BOOLEAN,
         at[r] \in {"list", "blocked"}, home[r] = w, request_finalize(r, k),
         UNCHANGED <<listVars, request_nr, wpc, wpipe, masterVars, adminVars>>,
         \/ wready' = [wready EXCEPT ![w] = @ \ {r}]
         \/ wready' = wready /\ r \notin wready[w],
         \/ wtodo' = [wtodo EXCEPT ![w] = @ \ {r}]
         \/ wtodo' = wtodo /\ wpc[w] = "events"
  PROVE  IInv'
  <1> USE DEF IInv, listVars, masterVars, adminVars
  <1>1. /\ home' = home /\ active' = active /\ keep' \in [Requests -> BOOLEAN]
        /\ events' = [events EXCEPT ![r] = FALSE]
        /\ epolls' = [epolls EXCEPT ![r] = {}]
    BY ReturnEffect
  <1>2. PICK a \in {"return", "blocked"} :
              /\ at' = [at EXCEPT ![r] = a]
              /\ worker_thread' = [worker_thread EXCEPT ![r] = IF a = "return" THEN Master ELSE w]
    BY ReturnEffect, SMTT(20)
  <1>3. \A t : Owned(t)' = Owned(t)
    BY <1>1, <1>2 DEF Owned, TypeOK
  <1>4. \A t : /\ Held("list", t)' = Held("list", t) \ {r}
               /\ Held("return", t) \subseteq Held("return", t)'
               /\ Held("blocked", t) \ {r} \subseteq Held("blocked", t)'
    BY <1>1, <1>2 DEF Held, TypeOK
  <1>5. TypeOK'
    <2>a. wready[w] \ {r} \in SUBSET Requests /\ wtodo[w] \ {r} \in SUBSET Requests
      BY DEF TypeOK
    <2>0. wready' \in [Workers -> SUBSET Requests]
      BY <2>a, Zenon DEF TypeOK
    <2>1. wtodo' \in [Workers -> SUBSET Requests]
      BY <2>a, Zenon DEF TypeOK
    <2>2. at' \in [Requests -> {"free", "list", "dispatch", "blocked", "return"}]
      BY <1>2 DEF TypeOK
    <2>3. worker_thread' \in [Requests -> Threads]
      BY <1>2 DEF TypeOK, Threads
    <2>4. events' \in [Requests -> BOOLEAN] /\ epolls' \in [Requests -> SUBSET Threads]
      BY <1>1 DEF TypeOK
    <2> QED
      BY <1>1, <2>0, <2>1, <2>2, <2>3, <2>4 DEF TypeOK
  <1>6. RequestNrExact'
    BY <1>3 DEF RequestNrExact
  <1>7. FreedUnreferenced'
    <2>1. ASSUME NEW v \in Workers, wpc[v] = "freed"
          PROVE  \A q \in Requests : v # worker_thread'[q] /\ v \notin epolls'[q]
      <3>1. v # w /\ v # Master
        BY <2>1, ConstantsAssumption DEF FreedUnreferenced, LinkShape, Linked, Owned
      <3> QED
        BY <1>1, <1>2, <2>1, <3>1 DEF FreedUnreferenced, TypeOK
    <2> QED
      BY <1>3, <2>1 DEF FreedUnreferenced
  <1>8. OnlyOwnerTouches'
    <2>1. ASSUME NEW q \in Requests
          PROVE  /\ epolls'[q] \subseteq (IF at'[q] = "list" THEN {home'[q]} ELSE {})
                 /\ q \in mready' => at'[q] = "list" /\ home'[q] = Master
      BY <1>1, <1>2, ConstantsAssumption, SMTT(20) DEF OnlyOwnerTouches, TypeOK
    <2>2. ASSUME NEW v \in Workers
          PROVE  /\ wready'[v] \subseteq Held("list", v)'
                 /\ wpc'[v] = "clean" => wtodo'[v] \subseteq Held("list", v)'
                 /\ wpc'[v] = "retry" => wtodo'[v] \subseteq Held("blocked", v)'
      <3>1. v # w => r \notin Held("list", v) /\ r \notin Held("blocked", v)
        BY DEF Held
      <3>2. wready'[v] \subseteq Held("list", v)'
        BY <1>4, <3>1, SMTT(20) DEF OnlyOwnerTouches, TypeOK
      <3>3. wpc'[v] = "clean" => wtodo'[v] \subseteq Held("list", v)'
        BY <1>4, <3>1, SMTT(20) DEF OnlyOwnerTouches, TypeOK
      <3>4. wpc'[v] = "retry" => wtodo'[v] \subseteq Held("blocked", v)'
        BY <1>4, <3>1, SMTT(20) DEF OnlyOwnerTouches, TypeOK
      <3> QED
        BY <3>2, <3>3, <3>4
    <2> QED
      BY <2>1, <2>2 DEF OnlyOwnerTouches
  <1>9. LinkShape'
    <2>1. ASSUME NEW q \in Requests, q # r
          PROVE  /\ at'[q] = at[q] /\ home'[q] = home[q] /\ events'[q] = events[q]
                 /\ epolls'[q] = epolls[q] /\ worker_thread'[q] = worker_thread[q]
      BY <1>1, <1>2, <2>1 DEF TypeOK
    <2>2. /\ at'[r] = a /\ home'[r] = w /\ events'[r] = FALSE /\ epolls'[r] = {}
          /\ worker_thread'[r] = IF a = "return" THEN Master ELSE w
      BY <1>1, <1>2 DEF TypeOK
    <2>3. ASSUME NEW q \in Requests, q = r
          PROVE  Linked(q)'
      BY <2>2, <2>3 DEF Linked
    <2>4. ASSUME NEW q \in Requests, q # r
          PROVE  Linked(q)'
      <3>1. Linked(q)
        BY DEF LinkShape
      <3> QED
        BY <2>1, <2>4, <3>1, Zenon DEF Linked
    <2> QED
      BY <2>3, <2>4 DEF LinkShape
  <1>10. RingShape'
    <2>1. \A v \in Workers : wready[v] = {} => wready'[v] = {}
      BY DEF TypeOK
    <2> QED
      BY <1>3, <2>1, SameRing, Zenon
  <1>11. MasterShape'
    BY <1>3, <1>4 DEF MasterShape
  <1> QED
    BY <1>5, <1>6, <1>7, <1>8, <1>9, <1>10, <1>11

(* The four places that call it. *)
LEMMA WorkerReturnsStep ==
  ASSUME IInv, NEW w \in Workers,
         \/ wtodo[w] # {} /\ (WorkerClean(w) \/ WorkerRetry(w))
         \/ \E r \in Requests : WorkerFinish(w, r) \/ WorkerTimeout(w, r)
  PROVE  IInv'
  <1> USE DEF IInv, workerVars
  <1>0. wtodo[w] \subseteq Requests
    BY DEF TypeOK
  <1>1. CASE wtodo[w] # {} /\ WorkerClean(w)
    <2>1. PICK r \in wtodo[w] : /\ request_finalize(r, FALSE)
                                /\ wtodo' = [wtodo EXCEPT ![w] = @ \ {r}]
                                /\ UNCHANGED wpc
      BY <1>1, Zenon DEF WorkerClean
    <2>2. /\ r \in Requests /\ at[r] = "list" /\ home[r] = w /\ wready[w] = {}
          /\ UNCHANGED <<listVars, request_nr, wready, wpipe, masterVars, adminVars>>
      BY <1>0, <1>1, <2>1, ZenonT(60) DEF WorkerClean, OnlyOwnerTouches, Held, RingShape
    <2> QED
      BY <2>1, <2>2, ReturnStep, Zenon
  <1>2. CASE wtodo[w] # {} /\ WorkerRetry(w)
    <2>1. PICK r \in wtodo[w] : /\ request_finalize(r, FALSE)
                                /\ wtodo' = [wtodo EXCEPT ![w] = @ \ {r}]
                                /\ UNCHANGED wpc
      BY <1>2, Zenon DEF WorkerRetry
    <2>2. /\ r \in Requests /\ at[r] = "blocked" /\ home[r] = w /\ r \notin wready[w]
          /\ UNCHANGED <<listVars, request_nr, wready, wpipe, masterVars, adminVars>>
      BY <1>0, <1>2, <2>1, ZenonT(60) DEF WorkerRetry, OnlyOwnerTouches, Held
    <2> QED
      BY <2>1, <2>2, ReturnStep, Zenon
  <1>3. ASSUME NEW r \in Requests, WorkerFinish(w, r)
        PROVE  IInv'
    <2>1. PICK k \in {keep[r], FALSE} : request_finalize(r, k)
      BY <1>3, Zenon DEF WorkerFinish
    <2>2. k \in BOOLEAN
      BY Zenon DEF TypeOK
    <2>3. at[r] = "list" /\ home[r] = w
      BY <1>3 DEF WorkerFinish, OnlyOwnerTouches, Held
    <2> QED
      BY <1>3, <2>1, <2>2, <2>3, ReturnStep, Zenon DEF WorkerFinish
  <1>4. ASSUME NEW r \in Requests, WorkerTimeout(w, r)
        PROVE  IInv'
    <2>1. at[r] = "list" /\ home[r] = w /\ r \notin wready[w]
      BY <1>4, Zenon DEF WorkerTimeout, Held
    <2> QED
      BY <1>4, <2>1, ReturnStep, Zenon DEF WorkerTimeout
  <1> QED
    BY <1>1, <1>2, <1>3, <1>4

(* worker_request_receive: requests of the dispatch pipe join               *)
(* working_requests of the same worker.                                     *)
LEMMA WorkerReceiveStep ==
  ASSUME IInv, NEW w \in Workers, WorkerReceive(w)
  PROVE  IInv'
  <1> USE DEF IInv, listVars, masterVars, adminVars
  <1>1. PICK S \in SUBSET Held("dispatch", w) :
          /\ at' = [r \in Requests |-> IF r \in S THEN "list" ELSE at[r]]
          /\ wready' = [wready EXCEPT ![w] = @ \cup S]
          /\ wpipe' = [wpipe EXCEPT ![w] = Cardinality(S) = ReadMax]
    BY Zenon DEF WorkerReceive
  <1>2. S \subseteq Requests /\ \A r \in S : at[r] = "dispatch" /\ home[r] = w
    BY DEF Held
  <1>3. /\ UNCHANGED <<home, worker_thread, events, epolls, keep, active, listVars,
                       request_nr, wpc, wtodo, masterVars, adminVars>>
        /\ wpc[w] = "events"
    BY DEF WorkerReceive
  <1>4. \A t : Owned(t)' = Owned(t)
    BY <1>1, <1>2, <1>3 DEF Owned
  <1>5. \A t : /\ Held("return", t)' = Held("return", t)
               /\ Held("blocked", t)' = Held("blocked", t)
               /\ Held("list", t)' = Held("list", t) \cup (IF t = w THEN S ELSE {})
    BY <1>1, <1>2, <1>3 DEF Held
  <1>6. TypeOK'
    <2>1. wready' \in [Workers -> SUBSET Requests]
      BY <1>1, <1>2 DEF TypeOK
    <2>2. wpipe' \in [Workers -> BOOLEAN]
      BY <1>1 DEF TypeOK
    <2>3. at' \in [Requests -> {"free", "list", "dispatch", "blocked", "return"}]
      BY <1>1 DEF TypeOK
    <2> QED
      BY <1>3, <2>1, <2>2, <2>3 DEF TypeOK
  <1>7. RequestNrExact' /\ FreedUnreferenced'
    BY <1>3, <1>4 DEF RequestNrExact, FreedUnreferenced
  <1>8. OnlyOwnerTouches'
    <2>1. \A r \in Requests :
            /\ epolls'[r] \subseteq (IF at'[r] = "list" THEN {home'[r]} ELSE {})
            /\ r \in mready' => at'[r] = "list" /\ home'[r] = Master
      BY <1>1, <1>2, <1>3 DEF OnlyOwnerTouches
    <2>2. \A v \in Workers :
            /\ wready'[v] \subseteq Held("list", v)'
            /\ wpc'[v] = "clean" => wtodo'[v] \subseteq Held("list", v)'
            /\ wpc'[v] = "retry" => wtodo'[v] \subseteq Held("blocked", v)'
      BY <1>1, <1>3, <1>5, SMTT(60) DEF OnlyOwnerTouches, TypeOK
    <2> QED
      BY <2>1, <2>2 DEF OnlyOwnerTouches
  <1>9. LinkShape'
    <2> SUFFICES ASSUME NEW q \in Requests
                 PROVE  Linked(q)'
      BY DEF LinkShape
    <2>1. Linked(q)
      BY DEF LinkShape
    <2>2. at'[q] = IF q \in S THEN "list" ELSE at[q]
      BY <1>1
    <2>3. q \in S => at[q] = "dispatch"
      BY <1>2
    <2> QED
      BY <1>3, <2>1, <2>2, <2>3, Zenon DEF Linked
  <1>10. RingShape' /\ MasterShape'
    <2>1. RingShape' BY <1>1, <1>3, <1>4, <1>5, ZenonT(60) DEF RingShape, TypeOK
    <2>2. MasterShape' BY <1>1, <1>3, <1>4, <1>5, ZenonT(60) DEF MasterShape, TypeOK
    <2> QED BY <2>1, <2>2
  <1> QED
    BY <1>6, <1>7, <1>8, <1>9, <1>10

(* A handler of a worker waits for the next event. *)
LEMMA WorkerAgainStep ==
  ASSUME IInv, NEW w \in Workers, NEW r \in Requests, WorkerAgain(w, r)
  PROVE  IInv'
  <1> USE DEF IInv, listVars, masterVars, adminVars
  <1>1. /\ UNCHANGED <<at, home, worker_thread, keep, active, listVars, request_nr,
                       wpc, wpipe, wtodo, masterVars, adminVars>>
        /\ wready' = [wready EXCEPT ![w] = @ \ {r}]
        /\ event_add(r) /\ wpc[w] = "events" /\ at[r] = "list" /\ home[r] = w
    <2>1. r \in Held("list", w)
      BY Zenon DEF WorkerAgain, OnlyOwnerTouches
    <2>2. at[r] = "list" /\ home[r] = w
      BY <2>1 DEF Held
    <2> QED
      BY <2>2, Zenon DEF WorkerAgain
  <1>2. at' = [at EXCEPT ![r] = "list"]
    BY <1>1 DEF TypeOK
  <1>3. /\ LinkShape' /\ events' = [events EXCEPT ![r] = TRUE]
        /\ epolls' = [epolls EXCEPT ![r] = {w}]
    BY <1>1, <1>2, EventAddEffect, Zenon
  <1>4. TypeOK'
    <2>0. wready[w] \ {r} \in SUBSET Requests
      BY DEF TypeOK
    <2>1. wready' \in [Workers -> SUBSET Requests]
      BY <1>1, <2>0 DEF TypeOK
    <2>2. events' \in [Requests -> BOOLEAN] /\ epolls' \in [Requests -> SUBSET Threads]
      BY <1>3 DEF TypeOK, Threads
    <2> QED
      BY <1>1, <2>1, <2>2 DEF TypeOK
  <1>5. RequestNrExact' /\ MasterShape'
    BY <1>1, SameHeld, Zenon DEF RequestNrExact, MasterShape
  <1>6. FreedUnreferenced'
    BY <1>1, <1>3, SameHeld DEF FreedUnreferenced, TypeOK
  <1>7. OnlyOwnerTouches' /\ RingShape'
    <2>1. OnlyOwnerTouches'
      <3>1. \A k, t : Held(k, t)' = Held(k, t) BY <1>1, SameHeld
      <3>2. \A q \in Requests :
              /\ epolls'[q] \subseteq (IF at'[q] = "list" THEN {home'[q]} ELSE {})
              /\ q \in mready' => at'[q] = "list" /\ home'[q] = Master
        BY <1>1, <1>3, SMTT(60) DEF OnlyOwnerTouches, TypeOK
      <3>3. \A v \in Workers :
              /\ wready'[v] \subseteq Held("list", v)'
              /\ wpc'[v] = "clean" => wtodo'[v] \subseteq Held("list", v)'
              /\ wpc'[v] = "retry" => wtodo'[v] \subseteq Held("blocked", v)'
        BY <1>1, <3>1 DEF OnlyOwnerTouches, TypeOK
      <3> QED BY <3>2, <3>3 DEF OnlyOwnerTouches
    <2>2. RingShape' BY <1>1, <1>3, SameHeld, ZenonT(60) DEF RingShape, TypeOK
    <2> QED BY <2>1, <2>2
  <1> QED
    BY <1>3, <1>4, <1>5, <1>6, <1>7
=============================================================================
