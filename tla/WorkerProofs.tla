---------------------------- MODULE WorkerProofs ----------------------------
(* The theorems about Worker: the hand-over of requests, for any number of  *)
(* requests and workers and any pipe capacity.                              *)
EXTENDS WorkerThreads

-----------------------------------------------------------------------------
(* The steps of the master that hand no request over.                       *)

(* Steps that move the program counter of the master, and the clock. *)
LEMMA MasterLoopStep ==
  ASSUME IInv, EventsDone \/ MasterEnd \/ DeadlinePasses \/ ReloadCrash
  PROVE  IInv'
  <1> USE SameHeld DEF IInv, reqVars, listVars, workerVars, masterVars, adminVars,
       EventsDone, MasterEnd, DeadlinePasses, ReloadCrash, Reloading
  <1>1. TypeOK'
    <2>1. mpc' \in {"check", "wait", "events", "expire", "dispatched", "recycle",
                    "recycled", "exited", "crashed"}
      BY DEF TypeOK
    <2>2. quitting' \in BOOLEAN /\ late' \in BOOLEAN
      BY Zenon DEF TypeOK
    <2>3. reloads' \in Nat
      BY DEF TypeOK
    <2> QED
      BY <2>1, <2>2, <2>3 DEF TypeOK
  <1>2. RequestNrExact' /\ FreedUnreferenced' /\ MasterShape'
    BY DEF RequestNrExact, FreedUnreferenced, MasterShape
  <1>3. OnlyOwnerTouches' /\ LinkShape' /\ RingShape'
    BY SameLinks DEF OnlyOwnerTouches, RingShape
  <1> QED
    BY <1>1, <1>2, <1>3

(* epoll_wait of the master. *)
LEMMA MasterWaitStep == IInv /\ MasterWait => IInv'
  <1> SUFFICES ASSUME IInv, MasterWait PROVE IInv'
    OBVIOUS
  <1> USE SameHeld DEF IInv, MasterWait, reqVars, listVars, workerVars, adminVars
  <1>1. TypeOK'
    BY DEF TypeOK
  <1>2. RequestNrExact'
    BY DEF RequestNrExact, MasterShape
  <1>3. FreedUnreferenced'
    BY DEF FreedUnreferenced, TypeOK, Held, Owned
  <1>4. OnlyOwnerTouches'
    BY DEF OnlyOwnerTouches
  <1>5. LinkShape'
    BY SameLinks
  <1>6. RingShape'
    BY DEF RingShape
  <1>7. MasterShape'
    BY DEF MasterShape
  <1> QED
    BY <1>1, <1>2, <1>3, <1>4, <1>5, <1>6, <1>7

(* The end of worker_request_dispatch. *)
LEMMA DispatchCountStep == IInv /\ DispatchCount => IInv'
  <1> SUFFICES ASSUME IInv, DispatchCount PROVE IInv'
    OBVIOUS
  <1> USE SameHeld DEF IInv, reqVars, listVars, workerVars, adminVars, DispatchCount
  <1>1. mtarget \in Workers /\ Master \notin Workers
    BY ConstantsAssumption DEF MasterShape, TypeOK, Elems
  <1>2. TypeOK'
    BY <1>1 DEF TypeOK, Threads
  <1>3. RequestNrExact'
    BY <1>1, OwnedFinite DEF RequestNrExact, MasterShape, TypeOK
  <1>4. FreedUnreferenced' /\ MasterShape'
    BY <1>1 DEF FreedUnreferenced, MasterShape
  <1>5. OnlyOwnerTouches' /\ LinkShape' /\ RingShape'
    BY SameLinks DEF OnlyOwnerTouches, RingShape
  <1> QED
    BY <1>2, <1>3, <1>4, <1>5

(* The end of worker_request_recycle. *)
LEMMA RecycleCountStep == IInv /\ RecycleCount => IInv'
  <1> SUFFICES ASSUME IInv, RecycleCount PROVE IInv'
    OBVIOUS
  <1> USE SameHeld DEF IInv, reqVars, listVars, workerVars, adminVars, RecycleCount
  <1>1. mtarget \in Workers /\ Master \notin Workers
    BY ConstantsAssumption DEF MasterShape
  <1>2. request_nr[mtarget] - mcount = Cardinality(Owned(mtarget))
    BY <1>1, OwnedFinite DEF RequestNrExact, TypeOK
  <1>3. TypeOK'
    BY <1>1, <1>2, OwnedFinite DEF TypeOK, Threads
  <1>4. RequestNrExact'
    BY <1>1, <1>2, OwnedFinite DEF RequestNrExact, TypeOK
  <1>5. FreedUnreferenced' /\ MasterShape'
    BY <1>1 DEF FreedUnreferenced, MasterShape
  <1>6. OnlyOwnerTouches' /\ LinkShape' /\ RingShape'
    BY SameLinks DEF OnlyOwnerTouches, RingShape
  <1> QED
    BY <1>3, <1>4, <1>5, <1>6

(* A recycle_fd is readable: its worker has requests in the pipe, so it has *)
(* not been freed.                                                          *)
LEMMA RecycleBeginStep ==
  ASSUME IInv, NEW w \in Workers, RecycleBegin(w)
  PROVE  IInv'
  <1> USE SameHeld, ConstantsAssumption
      DEF RecycleBegin, IInv, reqVars, listVars, workerVars, adminVars
  <1>1. TypeOK' /\ LinkShape'
    BY SameLinks DEF TypeOK, Threads
  <1>2. RequestNrExact' /\ FreedUnreferenced' /\ OnlyOwnerTouches'
    BY DEF RequestNrExact, FreedUnreferenced, OnlyOwnerTouches
  <1>3. RingShape'
    BY DEF RingShape
  <1>4. MasterShape'
    BY DEF MasterShape
  <1> QED
    BY <1>1, <1>2, <1>3, <1>4

(* The master finishes requests of its own. *)
LEMMA MasterFinalizesStep ==
  ASSUME IInv, NEW S \in SUBSET Requests, NEW kept \in SUBSET S,
         \A r \in S : home[r] = Master,
         request_do_finalize(S, kept),
         UNCHANGED <<new_workers, quit_time, request_nr, workerVars, mtarget, mcount,
                     mpipes, adminVars>>,
         wlist' = wlist \/ (wlist # <<>> /\ wlist' = Rotate(wlist)),
         mpc' = mpc \/ (mpc = "check" /\ mpc' \in {"exited", "wait"}),
         mready' \subseteq mready \ S
  PROVE  IInv'
  <1>0. \A r \in S : home[r] = Master \/ at[r] = "return"
    OBVIOUS
  <1>1. /\ LinkShape'
        /\ \A r \in S : /\ epolls'[r] = IF at'[r] = "list" THEN {Master} ELSE {}
                        /\ worker_thread'[r] = Master
                        /\ home'[r] = Master /\ at'[r] \in {"list", "free"}
        /\ \A r \in Requests \ S : /\ epolls'[r] = epolls[r] /\ at'[r] = at[r]
                                   /\ home'[r] = home[r]
                                   /\ worker_thread'[r] = worker_thread[r]
    BY <1>0, FinalizeEffect, Zenon
  <1> USE DEF IInv, workerVars, adminVars
  <1>2. \A w \in Workers : Owned(w)' = Owned(w) /\ \A k : Held(k, w)' = Held(k, w)
    <2> SUFFICES ASSUME NEW w \in Workers
                 PROVE  Owned(w)' = Owned(w) /\ \A k : Held(k, w)' = Held(k, w)
      OBVIOUS
    <2>1. ASSUME NEW r \in Requests
          PROVE  /\ home'[r] = w <=> home[r] = w
                 /\ home[r] = w => at'[r] = at[r]
      <3>1. CASE r \in S BY <1>1, <3>1, ConstantsAssumption
      <3>2. CASE r \notin S BY <1>1, <3>2
      <3> QED BY <3>1, <3>2
    <2>2. Owned(w)' = Owned(w) BY <2>1 DEF Owned
    <2>3. \A k : Held(k, w)' = Held(k, w) BY <2>1 DEF Held
    <2> QED BY <2>2, <2>3
  <1>3. TypeOK'
    <2>1. /\ at' \in [Requests -> {"free", "list", "dispatch", "blocked", "return"}]
          /\ home' \in [Requests -> Threads] /\ worker_thread' \in [Requests -> Threads]
          /\ events' \in [Requests -> BOOLEAN] /\ epolls' \in [Requests -> SUBSET Threads]
          /\ keep' \in [Requests -> BOOLEAN] /\ active' \in [Requests -> BOOLEAN]
      BY FinalizeEffect, Zenon
    <2>2. wlist' \in Seq(Workers) /\ mready' \in SUBSET Requests
      BY RingRotates DEF TypeOK
    <2>3. mpc' \in {"check", "wait", "events", "expire", "dispatched", "recycle",
                    "recycled", "exited", "crashed"}
      BY DEF TypeOK
    <2> QED
      BY <2>1, <2>2, <2>3 DEF TypeOK
  <1>4. RequestNrExact'
    BY <1>2 DEF RequestNrExact, MasterShape
  <1>5. FreedUnreferenced'
    BY <1>1, <1>2, RingRotates, ConstantsAssumption, SMTT(60) DEF FreedUnreferenced
  <1>6. OnlyOwnerTouches'
    BY <1>1, <1>2 DEF OnlyOwnerTouches
  <1>7. RingShape'
    BY <1>2, RingRotates DEF RingShape
  <1>8. MasterShape'
    <2>0. mpc' = "dispatched" => mpc = "dispatched" /\ mtarget \in Workers
      BY DEF MasterShape, TypeOK, Elems
    <2>1. mpc' = "dispatched" => mtarget' \in Elems(wlist)' /\ Owned(mtarget)' # {}
      BY <1>2, <2>0, RingRotates DEF MasterShape
    <2> QED
      BY <1>2, <2>1 DEF MasterShape, TypeOK
  <1> QED
    BY <1>1, <1>3, <1>4, <1>5, <1>6, <1>7, <1>8

(* request_check_quit, and the timers of the master. *)
LEMMA MasterCleansStep ==
  ASSUME IInv, MasterCheck \/ \E r \in Requests : MasterTimeout(r)
  PROVE  IInv'
  <1>1. CASE MasterCheck /\ ~quitting
    <2>0. /\ UNCHANGED <<reqVars, listVars, request_nr, workerVars, mtarget, mcount, mready,
                         mpipes, adminVars>>
          /\ mpc = "check" /\ mpc' = "wait"
      BY <1>1, Zenon DEF MasterCheck
    <2> USE <2>0, SameHeld DEF reqVars, listVars, workerVars, adminVars
    <2>1. TypeOK'
      BY DEF IInv, TypeOK
    <2>2. RequestNrExact' /\ FreedUnreferenced' /\ MasterShape'
      BY Zenon DEF IInv, RequestNrExact, FreedUnreferenced, MasterShape
    <2>3. LinkShape'
      BY SameLinks DEF IInv
    <2>4. OnlyOwnerTouches'
      BY DEF IInv, OnlyOwnerTouches
    <2>5. RingShape'
      BY DEF IInv, RingShape
    <2> QED
      BY <2>1, <2>2, <2>3, <2>4, <2>5 DEF IInv
  <1>2. CASE MasterCheck /\ quitting
    <2> DEFINE gone == {r \in Held("list", Master) : late \/ ~active[r]}
    <2>1. /\ gone \in SUBSET Requests /\ {} \in SUBSET gone
          /\ \A r \in gone : home[r] = Master
      BY DEF Held
    <2>2. /\ request_do_finalize(gone, {})
          /\ mpc = "check" /\ mpc' \in {"exited", "wait"}
          /\ UNCHANGED <<new_workers, quit_time, request_nr, workerVars, mtarget, mcount,
                         mpipes, adminVars>>
          /\ wlist' = wlist
      BY <1>2 DEF MasterCheck, listVars
    <2>3. mready' \subseteq mready \ gone
      BY <1>2 DEF MasterCheck, IInv, MasterShape
    <2> HIDE DEF gone
    <2> QED
      BY <2>1, <2>2, <2>3, MasterFinalizesStep
  <1>3. ASSUME NEW r \in Requests, MasterTimeout(r)
        PROVE  IInv'
    <2>1. /\ {r} \in SUBSET Requests /\ {} \in SUBSET {r}
          /\ \A q \in {r} : home[q] = Master
      BY <1>3 DEF MasterTimeout, Held
    <2>2. /\ request_do_finalize({r}, {}) /\ mpc' = mpc /\ wlist' = wlist
          /\ UNCHANGED <<new_workers, quit_time, request_nr, workerVars, mtarget, mcount,
                         mpipes, adminVars>>
      BY <1>3 DEF MasterTimeout, listVars, masterVars
    <2>3. mready' \subseteq mready \ {r}
      BY <1>3 DEF MasterTimeout, IInv, MasterShape, masterVars
    <2> QED
      BY <2>1, <2>2, <2>3, MasterFinalizesStep
  <1> QED
    BY <1>1, <1>2, <1>3

-----------------------------------------------------------------------------
(* The steps of the master that dispatch requests and take them back.       *)

(* The request header is not complete. *)
LEMMA HeaderAgainStep ==
  ASSUME IInv, NEW r \in Requests, at[r] \in {"free", "list"}, home[r] = Master,
         HeaderAgain(r), mready' \subseteq mready,
         UNCHANGED <<new_workers, quit_time, request_nr, workerVars, mcount, mpipes, adminVars>>
  PROVE  IInv'
  <1> USE DEF IInv, workerVars, adminVars
  <1>1. /\ UNCHANGED <<home, worker_thread, keep, wlist, mpc, mtarget>> /\ event_add(r)
        /\ at' = [at EXCEPT ![r] = "list"]
    BY Zenon DEF HeaderAgain
  <1>2. /\ LinkShape' /\ events' = [events EXCEPT ![r] = TRUE]
        /\ epolls' = [epolls EXCEPT ![r] = {Master}]
    BY <1>1, EventAddEffect, Zenon
  <1>3. \A w \in Workers : Owned(w)' = Owned(w) /\ \A k : Held(k, w)' = Held(k, w)
    BY <1>1, ConstantsAssumption DEF Owned, Held, TypeOK
  <1>4. TypeOK'
    <2>1. active' \in [Requests -> BOOLEAN]
      BY Zenon DEF HeaderAgain, TypeOK
    <2>2. events' \in [Requests -> BOOLEAN] /\ epolls' \in [Requests -> SUBSET Threads]
      BY <1>2 DEF TypeOK, Threads
    <2>3. at' \in [Requests -> {"free", "list", "dispatch", "blocked", "return"}]
      BY <1>1 DEF TypeOK
    <2> QED
      BY <1>1, <2>1, <2>2, <2>3 DEF TypeOK
  <1>5. RequestNrExact' /\ RingShape'
    BY <1>1, <1>3 DEF RequestNrExact, RingShape
  <1>6. FreedUnreferenced'
    BY <1>1, <1>2, <1>3, ConstantsAssumption DEF FreedUnreferenced, TypeOK
  <1>7. OnlyOwnerTouches'
    BY <1>1, <1>2, <1>3 DEF OnlyOwnerTouches, TypeOK
  <1>8. MasterShape'
    <2>0. mpc = "dispatched" => mtarget \in Workers
      BY SMTT(20) DEF MasterShape, TypeOK, Elems
    <2> QED
      BY <1>1, <1>3, <2>0 DEF MasterShape, TypeOK
  <1> QED
    BY <1>2, <1>4, <1>5, <1>6, <1>7, <1>8

(* A request more, and the update of request_nr that is still to come. *)
LEMMA CountOne == \A n \in Nat : n = (n + 1) + 0 - 1
  OBVIOUS

(* A complete header is dispatched: the worker is in the ring, so it will   *)
(* see the request before it can be freed.                                  *)
LEMMA HeaderDispatchStep ==
  ASSUME IInv, NEW r \in Requests, at[r] \in {"free", "list"}, home[r] = Master,
         HeaderDispatch(r), mpc = "events", mready' \subseteq mready \ {r},
         Cardinality(Held("dispatch", Head(wlist))) < PipeCap,
         UNCHANGED <<new_workers, quit_time, request_nr, workerVars, mcount, mpipes, adminVars>>
  PROVE  IInv'
  <1> DEFINE w == Head(wlist)
  <1>0. wlist # <<>> /\ wlist' = Rotate(wlist)
    BY DEF HeaderDispatch
  <1>1. w \in Elems(wlist) /\ w \in Workers /\ w # Master
    BY <1>0, RotateSame, ConstantsAssumption DEF IInv, TypeOK, RingShape
  <1>2. /\ at' = [at EXCEPT ![r] = "dispatch"] /\ home' = [home EXCEPT ![r] = w]
        /\ worker_thread' = [worker_thread EXCEPT ![r] = w]
        /\ events' = [events EXCEPT ![r] = FALSE]
        /\ epolls' = [epolls EXCEPT ![r] = AfterDel(r)]
        /\ mpc' = "dispatched" /\ mtarget' = w
    BY <1>1 DEF HeaderDispatch, worker_do_request_write
  <1>3. AfterDel(r) = {}
    BY Zenon DEF IInv, LinkShape, Linked, AfterDel
  <1>4. keep' \in [Requests -> BOOLEAN] /\ active' \in [Requests -> BOOLEAN]
    BY Zenon DEF HeaderDispatch, IInv, TypeOK
  <1>5. /\ wlist' \in Seq(Workers) /\ Elems(wlist)' = Elems(wlist)
        /\ \A i, j \in 1 .. Len(wlist') : i # j => wlist'[i] # wlist'[j]
    BY <1>0, RingRotates
  <1> HIDE DEF w
  <1> USE DEF IInv, workerVars, adminVars
  <1>6. /\ \A v \in Workers : Owned(v)' = IF v = w THEN Owned(v) \cup {r} ELSE Owned(v)
        /\ \A v \in Workers : r \notin Owned(v)
    BY <1>1, <1>2, ConstantsAssumption DEF Owned, TypeOK
  <1>7. /\ \A v \in Workers : Held("return", v)' = Held("return", v)
        /\ \A v \in Workers : Held("list", v)' = Held("list", v)
        /\ \A v \in Workers : Held("blocked", v)' = Held("blocked", v)
    BY <1>2, ConstantsAssumption DEF Held, TypeOK
  <1>8. TypeOK'
    <2>1. /\ at' \in [Requests -> {"free", "list", "dispatch", "blocked", "return"}]
          /\ home' \in [Requests -> Threads] /\ worker_thread' \in [Requests -> Threads]
      BY <1>1, <1>2 DEF TypeOK, Threads
    <2>2. events' \in [Requests -> BOOLEAN] /\ epolls' \in [Requests -> SUBSET Threads]
      BY <1>2, <1>3 DEF TypeOK
    <2>3. mtarget' \in Threads /\ mready' \in SUBSET Requests
      BY <1>1, <1>2 DEF TypeOK, Threads
    <2> QED
      BY <1>2, <1>4, <1>5, <2>1, <2>2, <2>3 DEF TypeOK
  <1>9. RequestNrExact'
    <2> SUFFICES ASSUME NEW v \in Workers
                 PROVE  request_nr'[v] = Cardinality(Owned(v)') + 0 - (IF v = w THEN 1 ELSE 0)
      BY <1>2 DEF RequestNrExact
    <2>1. request_nr'[v] = Cardinality(Owned(v)) /\ Cardinality(Owned(v)) \in Nat
      BY OwnedFinite DEF RequestNrExact, TypeOK
    <2>2. Cardinality(Owned(v) \cup {r}) = Cardinality(Owned(v)) + 1
      BY <1>6, OwnedFinite, FS_AddElement, Zenon
    <2>3. CASE v = w
      <3>1. Owned(v)' = Owned(v) \cup {r}
        BY <1>6, <2>3
      <3> QED
        BY <2>1, <2>2, <2>3, <3>1, CountOne, Zenon
    <2>4. CASE v # w
      <3>1. Owned(v)' = Owned(v)
        BY <1>6, <2>4
      <3> QED
        BY <2>1, <2>4, <3>1
    <2> QED
      BY <2>3, <2>4
  <1>10. FreedUnreferenced'
    <2>1. ASSUME NEW v \in Workers, wpc[v] = "freed"
          PROVE  v # w
      BY <1>1, <2>1 DEF FreedUnreferenced
    <2> QED
      BY <1>2, <1>3, <1>5, <1>6, <2>1 DEF FreedUnreferenced, TypeOK
  <1>11. OnlyOwnerTouches'
    BY <1>2, <1>3, <1>7 DEF OnlyOwnerTouches, TypeOK
  <1>12. LinkShape'
    <2>1. ASSUME NEW q \in Requests, q # r
          PROVE  /\ at'[q] = at[q] /\ home'[q] = home[q] /\ events'[q] = events[q]
                 /\ epolls'[q] = epolls[q] /\ worker_thread'[q] = worker_thread[q]
      BY <1>2, <2>1 DEF TypeOK
    <2>2. /\ at'[r] = "dispatch" /\ home'[r] = w /\ events'[r] = FALSE /\ epolls'[r] = {}
          /\ worker_thread'[r] = w
      BY <1>2, <1>3 DEF TypeOK
    <2>3. Linked(r)'
      BY <1>1, <2>2 DEF Linked
    <2>4. ASSUME NEW q \in Requests, q # r
          PROVE  Linked(q)'
      BY <2>1, <2>4 DEF LinkShape, Linked
    <2> QED
      BY <2>3, <2>4, Zenon DEF LinkShape
  <1>13. RingShape'
    BY <1>1, <1>5, <1>6 DEF RingShape
  <1>14. MasterShape'
    <2>1. Owned(mtarget)' # {}
      BY <1>1, <1>2, <1>6
    <2> QED
      BY <1>1, <1>2, <1>5, <1>7, <2>1 DEF MasterShape, TypeOK
  <1> QED
    BY <1>8, <1>9, <1>10, <1>11, <1>12, <1>13, <1>14

(* request_read_request_header, on a new connection or on an event. *)
LEMMA MasterRequestStep ==
  ASSUME IInv, NEW r \in Requests, MasterAccept(r) \/ MasterEvent(r)
  PROVE  IInv'
  <1>1. at[r] \in {"free", "list"} /\ home[r] = Master
    BY Zenon DEF IInv, MasterAccept, MasterEvent, OnlyOwnerTouches, LinkShape, Linked
  <1>2. mready' \subseteq mready \ {r} /\ mpc = "events"
    BY DEF IInv, MasterAccept, MasterEvent, OnlyOwnerTouches
  <1>3. /\ HeaderAgain(r) \/ HeaderFinish(r) \/ HeaderDispatch(r)
        /\ UNCHANGED <<new_workers, quit_time, request_nr, workerVars, mcount, mpipes, adminVars>>
    BY DEF MasterAccept, MasterEvent, request_read_request_header
  <1>4. CASE HeaderAgain(r)
    BY <1>1, <1>2, <1>3, <1>4, HeaderAgainStep
  <1>5. ASSUME NEW kept \in SUBSET {r}, request_do_finalize({r}, kept),
               wlist' = wlist \/ (wlist # <<>> /\ wlist' = Rotate(wlist)),
               UNCHANGED <<mpc, mtarget>>
        PROVE  IInv'
    <2>1. {r} \in SUBSET Requests /\ \A q \in {r} : home[q] = Master
      BY <1>1
    <2> QED
      BY <1>2, <1>3, <1>5, <2>1, MasterFinalizesStep
  <1>6. CASE HeaderFinish(r)
    BY <1>5, <1>6 DEF HeaderFinish
  <1>7. CASE HeaderDispatch(r)
    <2>1. CASE Cardinality(Held("dispatch", Head(wlist))) < PipeCap
      BY <1>1, <1>2, <1>3, <1>7, <2>1, HeaderDispatchStep
    <2>2. CASE ~(Cardinality(Held("dispatch", Head(wlist))) < PipeCap)
      BY <1>5, <1>7, <2>2, Zenon DEF HeaderDispatch
    <2> QED
      BY <2>1, <2>2
  <1> QED
    BY <1>3, <1>4, <1>6, <1>7

(* worker_request_recycle takes requests out of the return pipe; mcount     *)
(* stands for them until request_nr is updated.                             *)
LEMMA RecycleReadStep == IInv /\ RecycleRead => IInv'
  <1> SUFFICES ASSUME IInv, RecycleRead PROVE IInv'
    OBVIOUS
  <1> DEFINE R == Held("return", mtarget)
  <1>1. PICK S \in SUBSET R :
          /\ Cardinality(S) = Smaller(Cardinality(R), ReadMax)
          /\ request_do_finalize(S, {r \in S : keep[r]})
          /\ mcount' = mcount + Cardinality(S)
          /\ mpc' = IF Cardinality(S) = ReadMax THEN "recycle" ELSE "recycled"
    BY DEF RecycleRead
  <1>2. UNCHANGED <<listVars, request_nr, workerVars, mtarget, mready, mpipes, adminVars>>
    BY DEF RecycleRead
  <1>3. /\ mtarget \in Workers /\ mtarget # Master /\ mpc = "recycle" /\ mtarget \notin mpipes
        /\ mcount > 0 \/ R # {}
    BY ConstantsAssumption DEF IInv, MasterShape, RecycleRead
  <1>4. /\ S \in SUBSET Requests /\ S \subseteq Owned(mtarget)
        /\ \A r \in S : at[r] = "return" /\ home[r] = mtarget
    BY DEF Held, Owned
  <1>5. /\ IsFiniteSet(S) /\ Cardinality(S) \in Nat /\ Cardinality(R) \in Nat
        /\ R # {} => Cardinality(R) > 0
    <2>1. R \in SUBSET Requests
      BY DEF Held
    <2>2. IsFiniteSet(R)
      BY <2>1, FS_Subset, ConstantsAssumption
    <2> QED
      BY <2>2, FS_Subset, FS_CardinalityType, FS_EmptySet
  <1>6. mcount' \in Nat /\ mcount' > 0
    BY <1>1, <1>3, <1>5, ConstantsAssumption DEF Smaller, IInv, TypeOK
  <1> HIDE DEF R
  <1>7. /\ LinkShape'
        /\ at' \in [Requests -> {"free", "list", "dispatch", "blocked", "return"}]
        /\ home' \in [Requests -> Threads] /\ worker_thread' \in [Requests -> Threads]
        /\ events' \in [Requests -> BOOLEAN] /\ epolls' \in [Requests -> SUBSET Threads]
        /\ keep' \in [Requests -> BOOLEAN] /\ active' \in [Requests -> BOOLEAN]
        /\ \A r \in S : /\ epolls'[r] = IF at'[r] = "list" THEN {Master} ELSE {}
                        /\ worker_thread'[r] = Master
                        /\ home'[r] = Master /\ at'[r] \in {"list", "free"}
        /\ \A r \in Requests \ S : /\ epolls'[r] = epolls[r] /\ at'[r] = at[r]
                                   /\ home'[r] = home[r]
                                   /\ worker_thread'[r] = worker_thread[r]
    <2> DEFINE kept == {r \in S : keep[r]}
    <2>1. kept \in SUBSET S /\ request_do_finalize(S, kept)
      BY <1>1
    <2>2. S \in SUBSET Requests /\ \A r \in S : home[r] = Master \/ at[r] = "return"
      BY <1>4
    <2> HIDE DEF kept
    <2> QED
      BY <2>1, <2>2, FinalizeEffect, Zenon
  <1>8. \A w \in Workers : Owned(w)' = IF w = mtarget THEN Owned(w) \ S ELSE Owned(w)
    BY <1>3, <1>4, <1>7, ConstantsAssumption DEF Owned
  <1>9. /\ \A w \in Workers, k \in {"list", "blocked"} : Held(k, w)' = Held(k, w)
        /\ \A w \in Workers : w # mtarget => Held("return", w)' = Held("return", w)
    BY <1>3, <1>4, <1>7, ConstantsAssumption, SMTT(20) DEF Held
  <1> USE DEF IInv, listVars, workerVars, adminVars
  <1>10. TypeOK'
    BY <1>1, <1>2, <1>6, <1>7 DEF TypeOK
  <1>11. RequestNrExact'
    <2> SUFFICES ASSUME NEW w \in Workers
                 PROVE  request_nr[w] = Cardinality(Owned(w)')
                                        + (IF mtarget = w THEN mcount' ELSE 0) - 0
      BY <1>1, <1>2 DEF RequestNrExact
    <2>1. request_nr[w] = Cardinality(Owned(w)) + (IF mtarget = w THEN mcount ELSE 0) - 0
      BY <1>3 DEF RequestNrExact
    <2>2. CASE w = mtarget
      <3>1. Owned(w)' = Owned(w) \ S /\ Owned(w) \cap S = S
        BY <1>4, <1>8, <2>2
      <3>2. Cardinality(Owned(w) \ S) = Cardinality(Owned(w)) - Cardinality(S)
        BY <3>1, OwnedFinite, FS_Difference, Zenon
      <3> QED
        BY <1>1, <1>5, <2>1, <2>2, <3>1, <3>2, OwnedFinite DEF TypeOK
    <2>3. CASE w # mtarget
      <3>1. Owned(w)' = Owned(w)
        BY <1>8, <2>3
      <3> QED
        BY <2>1, <2>3, <3>1
    <2> QED
      BY <2>2, <2>3
  <1>12. FreedUnreferenced'
    <2> SUFFICES ASSUME NEW w \in Workers, wpc'[w] = "freed"
                 PROVE  /\ Owned(w)' = {}
                        /\ w \notin Elems(wlist)' /\ w \notin mpipes' /\ w # mtarget'
                        /\ \A r \in Requests : w # worker_thread'[r] /\ w \notin epolls'[r]
      BY DEF FreedUnreferenced
    <2>1. wpc' = wpc /\ wlist' = wlist /\ mpipes' = mpipes /\ mtarget' = mtarget
      BY <1>2
    <2>2. /\ Owned(w) = {} /\ w \notin Elems(wlist) /\ w \notin mpipes /\ w # mtarget
          /\ \A r \in Requests : w # worker_thread[r] /\ w \notin epolls[r]
      BY <2>1 DEF FreedUnreferenced
    <2>3. Owned(w)' = {} BY <1>8, <2>2
    <2>4. Elems(wlist)' = Elems(wlist) BY <2>1 DEF Elems
    <2>5. w # Master BY ConstantsAssumption
    <2>6. ASSUME NEW r \in Requests PROVE w # worker_thread'[r] /\ w \notin epolls'[r]
      <3>1. CASE r \in S BY <1>7, <2>5, <3>1
      <3>2. CASE r \notin S BY <1>7, <2>2, <3>2
      <3> QED BY <3>1, <3>2
    <2> QED BY <2>1, <2>2, <2>3, <2>4, <2>6
  <1>13. OnlyOwnerTouches'
    <2>1. ASSUME NEW r \in Requests
          PROVE  /\ epolls'[r] \subseteq (IF at'[r] = "list" THEN {home'[r]} ELSE {})
                 /\ r \in mready' => at'[r] = "list" /\ home'[r] = Master
      <3>1. /\ epolls[r] \subseteq (IF at[r] = "list" THEN {home[r]} ELSE {})
            /\ r \in mready' => at[r] = "list" /\ home[r] = Master
        BY <1>2 DEF OnlyOwnerTouches
      <3>2. CASE r \in S
        BY <1>4, <1>7, <3>1, <3>2
      <3>3. CASE r \notin S
        BY <1>7, <3>1, <3>3
      <3> QED
        BY <3>2, <3>3
    <2>2. ASSUME NEW w \in Workers
          PROVE  /\ wready'[w] \subseteq Held("list", w)'
                 /\ wpc'[w] = "clean" => wtodo'[w] \subseteq Held("list", w)'
                 /\ wpc'[w] = "retry" => wtodo'[w] \subseteq Held("blocked", w)'
      BY <1>2, <1>9 DEF OnlyOwnerTouches
    <2> QED
      BY <2>1, <2>2, Zenon DEF OnlyOwnerTouches
  <1>14. RingShape'
    BY <1>2, <1>8, Zenon DEF RingShape
  <1>15. MasterShape'
    BY <1>1, <1>2, <1>3, <1>6, <1>9, Zenon DEF MasterShape, TypeOK
  <1> QED
    BY <1>7, <1>10, <1>11, <1>12, <1>13, <1>14, <1>15

-----------------------------------------------------------------------------
(* The results.                                                             *)

(* The invariant holds at startup. *)
LEMMA InitIInv == Init => IInv
  <1> SUFFICES ASSUME Init PROVE IInv
    OBVIOUS
  <1>1. \A w \in Workers : Owned(w) = {}
    BY DEF Init, Start, Owned
  <1>2. PICK s \in [1 .. InitThreads -> Workers] :
          /\ \A i, j \in 1 .. InitThreads : i # j => s[i] # s[j]
          /\ wlist = s
          /\ wpc = [w \in Workers |-> IF w \in Elems(s) THEN "check" ELSE "none"]
    BY Zenon DEF Init, Start
  <1>3. wlist \in Seq(Workers) /\ Len(wlist) = InitThreads
    BY <1>2, ConstantsAssumption
  <1>4. TypeOK
    BY <1>2, <1>3, ConstantsAssumption, Zenon DEF Init, Start, TypeOK, Threads
  <1>5. RequestNrExact
    <2> SUFFICES ASSUME NEW w \in Workers
                 PROVE  request_nr[w] = Cardinality(Owned(w))
      BY DEF Init, Start, RequestNrExact
    <2> QED
      BY <1>1, FS_EmptySet, Zenon DEF Init, Start
  <1>6. FreedUnreferenced /\ OnlyOwnerTouches /\ LinkShape
    BY <1>1, <1>2, ConstantsAssumption
       DEF Init, Start, FreedUnreferenced, OnlyOwnerTouches, LinkShape, Linked, Held, Elems
  <1>7. RingShape
    BY <1>1, <1>2, <1>3 DEF Init, Start, RingShape, Elems
  <1>8. MasterShape
    BY DEF Init, Start, MasterShape
  <1> QED
    BY <1>4, <1>5, <1>6, <1>7, <1>8 DEF IInv

(* Fresh workers s join the ring and worker_delete takes others out of it.  *)
LEMMA RingChanges ==
  ASSUME IInv, mpc = "events",
         NEW s, Elems(s) \subseteq {w \in Workers : wpc[w] = "none"}, Started(s),
         NEW l \in Seq(Workers), \A i, j \in 1 .. Len(l) : i # j => l[i] # l[j],
         Elems(l) \subseteq Elems(wlist) \cup Elems(s),
         NEW num \in Nat, NEW qt \in {"big", "deadline"}, worker_delete(l, num, qt),
         UNCHANGED <<reqVars, request_nr, wready, wpipe, wtodo, masterVars>>,
         new_workers' \in Nat, quitting' \in BOOLEAN, late' \in BOOLEAN, reloads' \in Nat
  PROVE  IInv'
  <1> DEFINE v == Survivors(l, num)
  <1>1. /\ v \in Seq(Workers) /\ \A i, j \in 1 .. Len(v) : i # j => v[i] # v[j]
        /\ Elems(v) \subseteq Elems(l) /\ Elems(v) \cap Doomed(l, num) = {}
        /\ Doomed(l, num) \subseteq Elems(l)
    BY SurvivorsRest
  <1>2. wlist' = v /\ Elems(wlist)' = Elems(v)
    BY DEF worker_delete, Elems
  <1> HIDE DEF v
  <1>3. \A w \in Workers : quit_time'[w] = IF w \in Doomed(l, num) THEN qt ELSE quit_time[w]
    BY DEF worker_delete
  <1>4. \A w \in Workers : wpc'[w] = IF w \in Elems(s) THEN "check" ELSE wpc[w]
    BY DEF Started
  <1> USE SameHeld DEF IInv, reqVars, masterVars
  <1>5. TypeOK'
    <2>1. quit_time' \in [Workers -> {"zero", "big", "deadline"}]
      BY DEF worker_delete, TypeOK
    <2>2. wpc' \in [Workers -> {"none", "check", "clean", "wait", "retry", "events", "freed"}]
      BY DEF Started, TypeOK
    <2>3. wlist' \in Seq(Workers)
      BY <1>1, <1>2
    <2> QED
      BY <2>1, <2>2, <2>3 DEF TypeOK
  <1>6. RequestNrExact' /\ LinkShape'
    BY SameLinks DEF RequestNrExact
  <1>7. FreedUnreferenced'
    BY <1>1, <1>2, <1>4 DEF FreedUnreferenced
  <1>8. OnlyOwnerTouches'
    <2>1. \A r \in Requests :
            /\ epolls'[r] \subseteq (IF at'[r] = "list" THEN {home'[r]} ELSE {})
            /\ r \in mready' => at'[r] = "list" /\ home'[r] = Master
      BY DEF OnlyOwnerTouches
    <2>2. ASSUME NEW w \in Workers
          PROVE  /\ wready'[w] \subseteq Held("list", w)'
                 /\ wpc'[w] = "clean" => wtodo'[w] \subseteq Held("list", w)'
                 /\ wpc'[w] = "retry" => wtodo'[w] \subseteq Held("blocked", w)'
      <3>1. wready' = wready /\ wtodo' = wtodo OBVIOUS
      <3>2. Held("list", w)' = Held("list", w) /\ Held("blocked", w)' = Held("blocked", w)
        BY SameHeld
      <3>3. wpc'[w] \in {"clean", "retry"} => wpc'[w] = wpc[w] BY <1>4
      <3> QED BY <3>1, <3>2, <3>3 DEF OnlyOwnerTouches
    <2> QED BY <2>1, <2>2 DEF OnlyOwnerTouches
  <1>9. RingShape'
    <2>1. \A i, j \in 1 .. Len(wlist') : i # j => wlist'[i] # wlist'[j]
      BY <1>1, <1>2
    <2>2. ASSUME NEW w \in Workers
          PROVE  /\ w \in Elems(wlist)' => quit_time'[w] = "zero" /\ wpc'[w] # "none"
                 /\ wpc'[w] = "none" => Owned(w)' = {} /\ quit_time'[w] = "zero"
                 /\ wpc'[w] \in {"clean", "freed"} => quit_time'[w] # "zero"
                 /\ wpc'[w] \notin {"retry", "events"} => wready'[w] = {}
      <3>1. w \in Elems(s) => wpc[w] = "none"
        OBVIOUS
      <3>2. w \in Elems(wlist)' => w \notin Doomed(l, num) /\ w \in Elems(wlist) \cup Elems(s)
        BY <1>1, <1>2
      <3>3. w \in Doomed(l, num) => w \in Elems(wlist) \cup Elems(s)
        BY <1>1
      <3> QED
        BY <1>3, <1>4, <3>1, <3>2, <3>3 DEF RingShape
    <2> QED
      BY <2>1, <2>2 DEF RingShape
  <1>10. MasterShape'
    BY DEF MasterShape
  <1> QED
    BY <1>5, <1>6, <1>7, <1>8, <1>9, <1>10

(* olivehc_quit and the reloads. *)
LEMMA AdminStep ==
  ASSUME IInv, olivehc_quit \/ (Reload /\ ~ReloadCrash)
  PROVE  IInv'
  <1>1. /\ wlist \in Seq(Workers) /\ Len(wlist) \in Nat
        /\ \A i, j \in 1 .. Len(wlist) : i # j => wlist[i] # wlist[j]
    BY DEF IInv, TypeOK, RingShape
  <1>2. /\ Elems(<<>>) \subseteq {w \in Workers : wpc[w] = "none"}
        /\ wpc' = wpc => Started(<<>>)
        /\ Elems(wlist) \subseteq Elems(wlist) \cup Elems(<<>>)
    BY SMTT(20) DEF Elems, Started, IInv, TypeOK
  <1>3. CASE olivehc_quit
    <2>1. quitting' \in BOOLEAN /\ late' \in BOOLEAN
      BY <1>3, Zenon DEF olivehc_quit, IInv, TypeOK
    <2>2. /\ mpc = "events" /\ worker_delete(wlist, Len(wlist), "deadline") /\ wpc' = wpc
          /\ UNCHANGED <<reqVars, request_nr, wready, wpipe, wtodo, masterVars>>
          /\ new_workers' \in Nat /\ reloads' \in Nat
      BY <1>3 DEF olivehc_quit, workerVars, IInv, TypeOK
    <2> QED
      BY <1>1, <1>2, <2>1, <2>2, RingChanges
  <1>4. ASSUME Reloading
        PROVE  mpc = "events" /\ reloads' \in Nat
    BY <1>4 DEF Reloading, IInv, TypeOK
  <1>5. ASSUME NEW threads \in 1 .. MaxThreads, ReloadLoad(threads)
        PROVE  IInv'
    <2> DEFINE n == IF threads > Len(wlist) THEN threads - Len(wlist) ELSE 0
               l(s) == worker_create(wlist, s)
    <2>1. n \in Nat /\ wlist # <<>> /\ threads \in Nat /\ Reloading
      BY <1>1, <1>5, ConstantsAssumption DEF ReloadLoad
    <2>2. PICK s \in Fresh(n) : worker_delete(l(s), Len(l(s)) - threads, "big") /\ Started(s)
      BY <1>5 DEF ReloadLoad
    <2>3. /\ Elems(s) \subseteq {w \in Workers : wpc[w] = "none"}
          /\ l(s) \in Seq(Workers) /\ Len(l(s)) = Len(wlist) + n
          /\ \A i, j \in 1 .. Len(l(s)) : i # j => l(s)[i] # l(s)[j]
          /\ Elems(l(s)) \subseteq Elems(wlist) \cup Elems(s)
      BY <2>1, CreatedRing
    <2>4. Len(l(s)) - threads \in Nat
      BY <1>1, <2>1, <2>3
    <2>5. /\ UNCHANGED <<reqVars, request_nr, wready, wpipe, wtodo, masterVars>>
          /\ new_workers' \in Nat /\ quitting' \in BOOLEAN /\ late' \in BOOLEAN
      BY <1>5 DEF ReloadLoad, IInv, TypeOK
    <2> HIDE DEF l, n
    <2> QED
      BY <1>4, <2>1, <2>2, <2>3, <2>4, <2>5, RingChanges
  <1>6. ASSUME NEW threads \in 1 .. MaxThreads, NEW n \in 0 .. MaxThreads,
               ReloadCreateFails(threads, n)
        PROVE  IInv'
    <2> DEFINE l(s) == worker_create(wlist, s)
    <2>1. n \in Nat /\ Reloading /\ (wlist = <<>> => n = 0)
      BY <1>6, ConstantsAssumption DEF ReloadCreateFails
    <2>2. PICK s \in Fresh(n) : worker_delete(l(s), n, "big") /\ Started(s)
      BY <1>6 DEF ReloadCreateFails
    <2>3. /\ Elems(s) \subseteq {w \in Workers : wpc[w] = "none"}
          /\ l(s) \in Seq(Workers) /\ Len(l(s)) = Len(wlist) + n
          /\ \A i, j \in 1 .. Len(l(s)) : i # j => l(s)[i] # l(s)[j]
          /\ Elems(l(s)) \subseteq Elems(wlist) \cup Elems(s)
      BY <2>1, CreatedRing
    <2>4. /\ UNCHANGED <<reqVars, request_nr, wready, wpipe, wtodo, masterVars>>
          /\ new_workers' \in Nat /\ quitting' \in BOOLEAN /\ late' \in BOOLEAN
      BY <1>6, <2>1 DEF ReloadCreateFails, IInv, TypeOK
    <2> HIDE DEF l
    <2> QED
      BY <1>4, <2>1, <2>2, <2>3, <2>4, RingChanges
  <1>7. CASE ReloadCheckFails
    <2>1. /\ Reloading /\ worker_delete(wlist, new_workers, "big") /\ wpc' = wpc
          /\ new_workers \in Nat
          /\ UNCHANGED <<reqVars, request_nr, wready, wpipe, wtodo, masterVars>>
          /\ new_workers' \in Nat /\ quitting' \in BOOLEAN /\ late' \in BOOLEAN
      BY <1>7 DEF ReloadCheckFails, workerVars, IInv, TypeOK
    <2> QED
      BY <1>1, <1>2, <1>4, <2>1, RingChanges
  <1> QED
    BY <1>3, <1>5, <1>6, <1>7 DEF Reload, ReloadFails

(* Every step of every thread keeps the invariant. *)
LEMMA NextIInv == IInv /\ [Next]_vars => IInv'
  <1> SUFFICES ASSUME IInv, [Next]_vars PROVE IInv'
    OBVIOUS
  <1>1. CASE MasterThread
    BY <1>1, MasterCleansStep, MasterWaitStep, DispatchCountStep, RecycleReadStep,
       RecycleCountStep, MasterLoopStep, MasterRequestStep, RecycleBeginStep
       DEF MasterThread
  <1>2. ASSUME NEW r \in Requests, MasterAccept(r)
        PROVE  IInv'
    BY <1>2, MasterRequestStep
  <1>3. CASE olivehc_quit \/ Reload \/ DeadlinePasses
    BY <1>3, AdminStep, MasterLoopStep
  <1>4. ASSUME NEW w \in Workers, WorkerLoop(w)
        PROVE  IInv'
    BY <1>4, WorkerGotoStep, WorkerWaitStep, WorkerReturnsStep, WorkerReceiveStep,
       WorkerAgainStep DEF WorkerLoop
  <1>5. CASE UNCHANGED vars
    <2> USE <1>5, SameHeld DEF vars, reqVars, listVars, workerVars, masterVars, adminVars
    <2>1. TypeOK'
      BY DEF IInv, TypeOK
    <2>2. RequestNrExact' /\ FreedUnreferenced' /\ MasterShape'
      BY DEF IInv, RequestNrExact, FreedUnreferenced, MasterShape
    <2>3. OnlyOwnerTouches' /\ LinkShape' /\ RingShape'
      <3>1. OnlyOwnerTouches' BY DEF IInv, OnlyOwnerTouches
      <3>2. LinkShape' BY SameLinks DEF IInv
      <3>3. RingShape' BY DEF IInv, RingShape
      <3> QED BY <3>1, <3>2, <3>3
    <2> QED
      BY <2>1, <2>2, <2>3 DEF IInv
  <1> QED
    BY <1>1, <1>2, <1>3, <1>4, <1>5 DEF Next, Stopped

(* The inductive invariant of the hand-over between the threads of         *)
(* worker.c holds in every reachable state, for any number of requests,    *)
(* workers, reloads and any capacity of the pipes.                         *)
THEOREM InductiveInvariant == Spec => []IInv
  BY InitIInv, NextIInv, PTL DEF Spec

(* All variables keep their types; request_nr never becomes negative.      *)
THEOREM TypeCorrect == Spec => []TypeOK
  <1>1. IInv => TypeOK
    BY DEF IInv
  <1> QED
    BY <1>1, InductiveInvariant, PTL

(* The counter worker_check_quit relies on is exact.                       *)
THEOREM CounterExact == Spec => []RequestNrExact
  <1>1. IInv => RequestNrExact
    BY DEF IInv
  <1> QED
    BY <1>1, InductiveInvariant, PTL

(* worker_destory frees a worker only when nothing refers to it.           *)
THEOREM NoUseAfterFree == Spec => []FreedUnreferenced
  <1>1. IInv => FreedUnreferenced
    BY DEF IInv
  <1> QED
    BY <1>1, InductiveInvariant, PTL

(* No two threads have hold of the same request: the hand-over through the *)
(* pipes needs no lock.                                                    *)
THEOREM NoLockNeeded == Spec => []OnlyOwnerTouches
  <1>1. IInv => OnlyOwnerTouches
    BY DEF IInv
  <1> QED
    BY <1>1, InductiveInvariant, PTL

(* It chooses a worker of the ring, or refuses the request. *)
LEMMA HeaderToRing ==
  ASSUME IInv, NEW r \in Requests, HeaderDispatch(r), NEW w \in Workers,
         quit_time[w] # "zero", NEW q \in Requests, at'[q] = "dispatch", home'[q] = w
  PROVE  at[q] = "dispatch" /\ home[q] = w
  <1>1. /\ at \in [Requests -> {"free", "list", "dispatch", "blocked", "return"}]
        /\ home \in [Requests -> Threads]
    BY DEF IInv, TypeOK
  <1>2. wlist \in Seq(Workers) /\ wlist # <<>>
    BY DEF HeaderDispatch, IInv, TypeOK
  <1>3. Head(wlist) \in Elems(wlist) /\ Head(wlist) \in Workers BY <1>2, FirstOf
  <1>4. w # Head(wlist) /\ Head(wlist) # Master
    BY <1>3, ConstantsAssumption DEF IInv, RingShape
  <1>5. CASE Cardinality(Held("dispatch", Head(wlist))) < PipeCap
    <2>1. worker_do_request_write(r, Head(wlist))
      BY <1>5, Zenon DEF HeaderDispatch
    <2> QED
      BY <1>1, <1>4, <2>1, WriteGoes, SMTT(20)
  <1>6. CASE ~(Cardinality(Held("dispatch", Head(wlist))) < PipeCap)
    <2>1. PICK kept : request_do_finalize({r}, kept)
      BY <1>6, Zenon DEF HeaderDispatch
    <2> QED
      BY <2>1 DEF request_do_finalize
  <1> QED
    BY <1>5, <1>6

(* Only worker_request_dispatch puts a request into a dispatch pipe, and it *)
(* chooses a worker of the ring.                                           *)
LEMMA DispatchToRing ==
  ASSUME IInv, [Next]_vars, NEW w \in Workers, quit_time[w] # "zero",
         NEW q \in Requests, at'[q] = "dispatch", home'[q] = w
  PROVE  at[q] = "dispatch" /\ home[q] = w
  <1> USE DEF reqVars, listVars, workerVars, masterVars, adminVars
  <1>0. /\ at \in [Requests -> {"free", "list", "dispatch", "blocked", "return"}]
        /\ home \in [Requests -> Threads]
    BY DEF IInv, TypeOK
  <1>1. ASSUME NEW S, NEW kept, request_do_finalize(S, kept)
        PROVE  at[q] = "dispatch" /\ home[q] = w
    BY <1>1 DEF request_do_finalize
  <1>2. ASSUME NEW r, NEW k, request_finalize(r, k)
        PROVE  at[q] = "dispatch" /\ home[q] = w
    BY <1>2 DEF request_finalize, worker_do_request_write, IInv, TypeOK
  <1>3. ASSUME UNCHANGED <<at, home>>
        PROVE  at[q] = "dispatch" /\ home[q] = w
    BY <1>3
  <1>4. ASSUME NEW r \in Requests, MasterAccept(r) \/ MasterEvent(r)
        PROVE  at[q] = "dispatch" /\ home[q] = w
    <2>1. CASE HeaderAgain(r)
      BY <2>1 DEF HeaderAgain, IInv, TypeOK
    <2>2. CASE HeaderFinish(r)
      BY <1>1, <2>2 DEF HeaderFinish
    <2>3. CASE HeaderDispatch(r)
      BY <2>3, HeaderToRing
    <2> QED
      BY <1>4, <2>1, <2>2, <2>3 DEF MasterAccept, MasterEvent, request_read_request_header
  <1>5. CASE MasterThread
    <2>1. CASE MasterCheck
      BY <1>1, <1>3, <2>1, Zenon DEF MasterCheck
    <2>2. CASE RecycleRead
      BY <1>1, <2>2 DEF RecycleRead
    <2>3. ASSUME NEW r \in Requests, MasterTimeout(r)
          PROVE  at[q] = "dispatch" /\ home[q] = w
      BY <1>1, <2>3 DEF MasterTimeout
    <2> QED
      BY <1>3, <1>4, <1>5, <2>1, <2>2, <2>3, Zenon
         DEF MasterThread, MasterWait, DispatchCount, RecycleCount, EventsDone, MasterEnd,
             RecycleBegin
  <1>6. ASSUME NEW v \in Workers, WorkerLoop(v)
        PROVE  at[q] = "dispatch" /\ home[q] = w
    <2>1. CASE WorkerClean(v)
      BY <1>2, <1>3, <2>1, Zenon DEF WorkerClean
    <2>2. CASE WorkerRetry(v)
      BY <1>2, <1>3, <2>2, Zenon DEF WorkerRetry
    <2>3. CASE WorkerReceive(v)
      <3>1. PICK S : at' = [r \in Requests |-> IF r \in S THEN "list" ELSE at[r]]
        BY <2>3 DEF WorkerReceive
      <3>2. home' = home BY <2>3 DEF WorkerReceive
      <3> QED BY <3>1, <3>2
    <2>4. ASSUME NEW r \in Requests, WorkerFinish(v, r) \/ WorkerTimeout(v, r)
          PROVE  at[q] = "dispatch" /\ home[q] = w
      BY <1>2, <2>4, Zenon DEF WorkerFinish, WorkerTimeout
    <2> QED
      BY <1>3, <1>6, <2>1, <2>2, <2>3, <2>4, Zenon
         DEF WorkerLoop, WorkerCheck, WorkerWait, WorkerEnd, WorkerAgain
  <1>7. CASE olivehc_quit \/ Reload \/ DeadlinePasses
    BY <1>3, <1>7 DEF olivehc_quit, Reload, ReloadLoad, ReloadFails, ReloadCreateFails,
                      ReloadCheckFails, ReloadCrash, DeadlinePasses
  <1>8. CASE UNCHANGED vars
    BY <1>3, <1>8, Zenon DEF vars
  <1> QED
    BY <1>4, <1>5, <1>6, <1>7, <1>8 DEF Next, Stopped

(* A worker told to quit gets no further request, whatever reloads and      *)
(* rollbacks do to the ring.                                               *)
THEOREM RetiredGetsNoRequest == Spec => NoDispatchToRetired
  <1>1. IInv /\ [Next]_vars =>
          [\A w \in Workers : quit_time[w] # "zero" =>
             Held("dispatch", w)' \subseteq Held("dispatch", w)]_vars
    BY DispatchToRing DEF Held
  <1> QED
    BY <1>1, InductiveInvariant, PTL DEF Spec, NoDispatchToRetired
=============================================================================
