------------------------------- MODULE Worker -------------------------------
(***************************************************************************)
(* The master thread, the worker threads and the hand-over of requests     *)
(* between them (worker.c, event.c, the thread-crossing half of request.c, *)
(* the loop of olivehc.c).                                                 *)
(*                                                                         *)
(* A request is a pointer.  It is linked on one list (master_requests, or  *)
(* the working_requests or blocked_requests of a worker) or it is in one   *)
(* of the two pipes of a worker.  There is no lock: a thread may touch a   *)
(* request only while the request is on one of its lists.  What HTTP does  *)
(* inside a handler is left to an arbitrary choice of its outcome.         *)
(*                                                                         *)
(* A pipe is a set: nothing depends on the order of the pointers in it.    *)
(* The master's NULL worker_thread is the thread Master.                   *)
(***************************************************************************)
EXTENDS Integers, Sequences, FiniteSets

CONSTANTS
  Requests,      \* ohc_request_t objects of the request slab
  Workers,       \* ohc_worker_t objects that worker_create may allocate
  Master,        \* the master thread
  InitThreads,   \* "threads" of the configuration at startup
  MaxThreads,    \* bound: largest "threads" of a reloaded configuration
  PipeCap,       \* pointers a pipe holds
  ReadMax,       \* pointers one read() of worker_do_request_read takes
  MaxReloads,    \* bound: number of reload commands
  ReloadInQuit   \* does the operator send reload after quit?

ASSUME ConstantsAssumption ==
  /\ IsFiniteSet(Requests) /\ IsFiniteSet(Workers)
  /\ Master \notin Workers
  /\ PipeCap \in Nat \ {0} /\ ReadMax \in Nat \ {0}
  /\ InitThreads \in Nat \ {0} /\ MaxThreads \in Nat /\ MaxReloads \in Nat
  /\ ReloadInQuit \in BOOLEAN

VARIABLES
  at,            \* "free", "list", "dispatch", "blocked" or "return"
  home,          \* the thread whose list, or worker whose pipe, holds it
  worker_thread, \* r->worker_thread
  events,        \* r->events # 0
  epolls,        \* the threads whose epoll has r->sock_fd registered
  keep,          \* r->keepalive && !r->connection_broken
  active,        \* r->active
  wlist,         \* the ring of workers, current_worker first
  new_workers,
  quit_time,     \* per worker: "zero", "big" (BIG_TIME) or "deadline"
  request_nr,
  wpc,           \* where worker_entry is; "none" before create
  wready,        \* requests in the events[] of this round of a worker
  wpipe,         \* is receive_fd in the events[] of this round?
  wtodo,         \* requests the running request_clean has still to visit
  mpc,           \* where olivehc_master_entry is
  mtarget,       \* worker the master dispatches to or recycles from
  mcount,        \* count of worker_do_request_read, in the master
  mready,        \* requests in the events[] of this round of the master
  mpipes,        \* workers whose recycle_fd is in those events[]
  quitting,      \* the global quit_time # 0
  late,          \* the quit deadline has passed
  reloads        \* reload commands so far

reqVars    == <<at, home, worker_thread, events, epolls, keep, active>>
listVars   == <<wlist, new_workers, quit_time>>
workerVars == <<wpc, wready, wpipe, wtodo>>
masterVars == <<mpc, mtarget, mcount, mready, mpipes>>
adminVars  == <<quitting, late, reloads>>
vars == <<reqVars, listVars, request_nr, workerVars, masterVars, adminVars>>

Threads == Workers \cup {Master}

(* The process is up: main has not returned and nothing crashed. *)
Running == mpc \notin {"exited", "crashed"}

Held(kind, t) == {r \in Requests : at[r] = kind /\ home[r] = t}

Owned(w) == {r \in Requests : at[r] # "free" /\ home[r] = w}

Elems(s) == {s[i] : i \in 1 .. Len(s)}

Smaller(a, b) == IF a < b THEN a ELSE b

(* All ways to line up n fresh workers. *)
Fresh(n) == {s \in [1 .. n -> {w \in Workers : wpc[w] = "none"}] :
               \A i, j \in 1 .. n : i # j => s[i] # s[j]}

(* The process has started with that many workers. *)
Start(threads) ==
  /\ at = [r \in Requests |-> "free"]
  /\ home = [r \in Requests |-> Master]
  /\ worker_thread = [r \in Requests |-> Master]
  /\ events = [r \in Requests |-> FALSE]
  /\ epolls = [r \in Requests |-> {}]
  /\ keep = [r \in Requests |-> FALSE]
  /\ active = [r \in Requests |-> FALSE]
  /\ \E s \in [1 .. threads -> Workers] :
       /\ \A i, j \in 1 .. threads : i # j => s[i] # s[j]
       /\ wlist = s
       /\ wpc = [w \in Workers |-> IF w \in Elems(s) THEN "check" ELSE "none"]
  /\ new_workers = 0
  /\ quit_time = [w \in Workers |-> "zero"]
  /\ request_nr = [w \in Workers |-> 0]
  /\ wready = [w \in Workers |-> {}]
  /\ wpipe = [w \in Workers |-> FALSE]
  /\ wtodo = [w \in Workers |-> {}]
  /\ mpc = "check" /\ mtarget = Master /\ mcount = 0
  /\ mready = {} /\ mpipes = {}
  /\ quitting = FALSE /\ late = FALSE /\ reloads = 0

Init == Start(InitThreads)

-----------------------------------------------------------------------------
(* Events and pipes, used by both kinds of threads.                        *)

(* event_add: epoll and timer of the thread worker_thread names.  Its       *)
(* failures, at which no caller looks, are left out.                        *)
event_add(r) ==
  /\ events' = [events EXCEPT ![r] = TRUE]
  /\ epolls' = [epolls EXCEPT ![r] =
                  IF events[r] THEN @ ELSE @ \cup {worker_thread[r]}]

(* Mutant: event_del forgets epoll_del. *)
AfterDel_NoEpollDel(r) == epolls[r]

(* The registrations event_del leaves. *)
AfterDel(r) == IF events[r] THEN epolls[r] \ {worker_thread[r]} ELSE epolls[r]

(* worker_do_request_write(r, handler, target): leave the lists and the     *)
(* epoll of the old thread, then write the pointer; a full pipe puts r on   *)
(* blocked_requests (worker) or back on master_requests (master).           *)
worker_do_request_write(r, target) ==
  LET old  == worker_thread[r]
      kind == IF target = Master THEN "return" ELSE "dispatch"
      w    == IF target = Master THEN old ELSE target
      ok   == Cardinality(Held(kind, w)) < PipeCap
  IN /\ events' = [events EXCEPT ![r] = FALSE]
     /\ epolls' = [epolls EXCEPT ![r] = AfterDel(r)]
     /\ worker_thread' = [worker_thread EXCEPT ![r] = IF ok THEN target ELSE old]
     /\ at' = [at EXCEPT ![r] = IF ok THEN kind
                                ELSE IF old = Master THEN "list" ELSE "blocked"]
     /\ home' = [home EXCEPT ![r] = IF ok THEN w ELSE old]

(* request_do_finalize, in the master, for every request of S: back to      *)
(* keep-alive idle, or closed and freed.  close(sock_fd) ends every         *)
(* registration.                                                            *)
request_do_finalize(S, kept) ==
  /\ at' = [r \in Requests |-> IF r \in S
              THEN IF r \in kept THEN "list" ELSE "free" ELSE at[r]]
  /\ home' = [r \in Requests |-> IF r \in S THEN Master ELSE home[r]]
  /\ worker_thread' = [r \in Requests |-> IF r \in S THEN Master ELSE worker_thread[r]]
  /\ events' = [r \in Requests |-> IF r \in kept THEN TRUE
                                   ELSE IF r \in S THEN FALSE ELSE events[r]]
  /\ epolls' = [r \in Requests |-> IF r \in S
                  THEN IF r \in kept THEN AfterDel(r) \cup {Master} ELSE {}
                  ELSE epolls[r]]
  /\ active' = [r \in Requests |-> IF r \in S THEN FALSE ELSE active[r]]
  /\ keep' = [r \in Requests |-> IF r \in S THEN FALSE ELSE keep[r]]

(* request_finalize on a worker: worker_request_return. *)
request_finalize(r, k) ==
  /\ worker_do_request_write(r, Master)
  /\ keep' = [keep EXCEPT ![r] = k]
  /\ UNCHANGED active

-----------------------------------------------------------------------------
(* The master thread.                                                      *)

(* The loop condition: request_check_quit cleans master_requests, only the  *)
(* idle ones before the deadline, and ends the loop without connections.    *)
MasterCheck ==
  /\ mpc = "check"
  /\ IF quitting
     THEN LET gone == {r \in Held("list", Master) : late \/ ~active[r]}
          IN /\ request_do_finalize(gone, {})
             /\ mpc' = IF \A r \in Requests : at'[r] = "free"
                       THEN "exited" ELSE "wait"
     ELSE mpc' = "wait" /\ UNCHANGED reqVars
  /\ UNCHANGED <<listVars, request_nr, workerVars, mtarget, mcount, mready,
                 mpipes, adminVars>>

(* epoll_wait: any sockets, and every pipe that is not empty. *)
MasterWait ==
  /\ mpc = "wait"
  /\ mpc' = "events"
  /\ mready' \in SUBSET {r \in Requests : Master \in epolls[r]}
  /\ mpipes' = {w \in Workers : Held("return", w) # {}}
  /\ UNCHANGED <<reqVars, listVars, request_nr, workerVars, mtarget, mcount,
                 adminVars>>

(* request_read_request_header: wait for more; finish in the master (error, *)
(* 404, DELETE ...), with or without keep-alive; or dispatch to the current *)
(* worker and move current_worker on.  Without workers, or with a full      *)
(* pipe, the dispatch fails and the request finishes in the master.         *)
HeaderAgain(r) ==
  /\ event_add(r)
  /\ at' = [at EXCEPT ![r] = "list"]
  /\ \E a \in {TRUE, active[r]} : active' = [active EXCEPT ![r] = a]
  /\ UNCHANGED <<home, worker_thread, keep, wlist, mpc, mtarget>>

HeaderFinish(r) ==
  /\ \E kept \in SUBSET {r} : request_do_finalize({r}, kept)
  /\ UNCHANGED <<wlist, mpc, mtarget>>

Rotate(l) == Tail(l) \o <<Head(l)>>

HeaderDispatch(r) ==
  /\ wlist # <<>>
  /\ wlist' = Rotate(wlist)
  /\ IF Cardinality(Held("dispatch", Head(wlist))) < PipeCap
     THEN /\ worker_do_request_write(r, Head(wlist))
          /\ \E k \in BOOLEAN : keep' = [keep EXCEPT ![r] = k]
          /\ active' = [active EXCEPT ![r] = TRUE]
          /\ mpc' = "dispatched" /\ mtarget' = Head(wlist)
     ELSE /\ \E kept \in SUBSET {r} : request_do_finalize({r}, kept)
          /\ UNCHANGED <<mpc, mtarget>>

request_read_request_header(r) ==
  /\ HeaderAgain(r) \/ HeaderFinish(r) \/ HeaderDispatch(r)
  /\ UNCHANGED <<new_workers, quit_time, request_nr, workerVars, mcount,
                 mpipes, adminVars>>

(* A new connection: request_process_entry, then its first read. *)
MasterAccept(r) ==
  /\ mpc = "events" /\ ~quitting /\ at[r] = "free"
  /\ request_read_request_header(r)
  /\ UNCHANGED mready

MasterEvent(r) ==
  /\ mpc = "events" /\ r \in mready
  /\ mready' = mready \ {r}
  /\ request_read_request_header(r)

(* The last statement of worker_request_dispatch, after the write. *)
DispatchCount ==
  /\ mpc = "dispatched"
  /\ request_nr' = [request_nr EXCEPT ![mtarget] = @ + 1]
  /\ mpc' = "events" /\ mtarget' = Master
  /\ UNCHANGED <<reqVars, listVars, workerVars, mcount, mready, mpipes, adminVars>>

RecycleBegin(w) ==
  /\ mpc = "events" /\ w \in mpipes
  /\ mpipes' = mpipes \ {w}
  /\ mpc' = "recycle" /\ mtarget' = w /\ mcount' = 0
  /\ UNCHANGED <<reqVars, listVars, request_nr, workerVars, mready, adminVars>>

(* One turn of the do-while of worker_do_request_read on recycle_fd. *)
RecycleRead ==
  /\ mpc = "recycle"
  /\ \E S \in SUBSET Held("return", mtarget) :
       /\ Cardinality(S) = Smaller(Cardinality(Held("return", mtarget)), ReadMax)
       /\ request_do_finalize(S, {r \in S : keep[r]})
       /\ mcount' = mcount + Cardinality(S)
       /\ mpc' = IF Cardinality(S) = ReadMax THEN "recycle" ELSE "recycled"
  /\ UNCHANGED <<listVars, request_nr, workerVars, mtarget, mready, mpipes, adminVars>>

(* Mutant: request_nr is decremented once per recycle. *)
RecycleCount_Once ==
  /\ mpc = "recycled"
  /\ request_nr' = [request_nr EXCEPT ![mtarget] = @ - 1]
  /\ mpc' = "events" /\ mtarget' = Master /\ mcount' = 0
  /\ UNCHANGED <<reqVars, listVars, workerVars, mready, mpipes, adminVars>>

(* The last statement of worker_request_recycle. *)
RecycleCount ==
  /\ mpc = "recycled"
  /\ request_nr' = [request_nr EXCEPT ![mtarget] = @ - mcount]
  /\ mpc' = "events" /\ mtarget' = Master /\ mcount' = 0
  /\ UNCHANGED <<reqVars, listVars, workerVars, mready, mpipes, adminVars>>

EventsDone ==
  /\ mpc = "events" /\ mready = {} /\ mpipes = {}
  /\ mpc' = "expire"
  /\ UNCHANGED <<reqVars, listVars, request_nr, workerVars, mtarget, mcount,
                 mready, mpipes, adminVars>>

(* timer_expire after the events: request_timeout_handler breaks the        *)
(* connection.                                                              *)
MasterTimeout(r) ==
  /\ mpc = "expire"
  /\ r \in Held("list", Master) /\ events[r]
  /\ request_do_finalize({r}, {})
  /\ UNCHANGED <<listVars, request_nr, workerVars, masterVars, adminVars>>

MasterEnd ==
  /\ mpc = "expire"
  /\ mpc' = "check"
  /\ UNCHANGED <<reqVars, listVars, request_nr, workerVars, mtarget, mcount,
                 mready, mpipes, adminVars>>

-----------------------------------------------------------------------------
(* The admin port: quit and reload.                                        *)

(* worker_delete(num): num times the worker behind current_worker, which    *)
(* at last is current_worker itself.                                        *)
Doomed(l, num) == IF num >= Len(l) THEN Elems(l) ELSE {l[i] : i \in 2 .. num + 1}

Survivors(l, num) ==
  IF num >= Len(l) THEN <<>> ELSE <<Head(l)>> \o SubSeq(l, num + 2, Len(l))

(* Mutant: the deleted workers stay in the ring. *)
worker_delete_NoListDel(l, num, qt) ==
  /\ wlist' = l
  /\ quit_time' = [w \in Workers |-> IF w \in Doomed(l, num) THEN qt ELSE quit_time[w]]

worker_delete(l, num, qt) ==
  /\ wlist' = Survivors(l, num)
  /\ quit_time' = [w \in Workers |-> IF w \in Doomed(l, num) THEN qt ELSE quit_time[w]]

(* list_add behind current_worker, once for every element of s. *)
worker_create(l, s) ==
  LET n == Len(s)
  IN [i \in 1 .. Len(l) + n |-> IF i = 1 THEN l[1]
                                ELSE IF i <= n + 1 THEN s[n + 2 - i] ELSE l[i - n]]

Started(s) == wpc' = [w \in Workers |-> IF w \in Elems(s) THEN "check" ELSE wpc[w]]

olivehc_quit ==
  /\ mpc = "events" /\ ~quitting
  /\ quitting' = TRUE
  /\ worker_delete(wlist, Len(wlist), "deadline")
  /\ UNCHANGED <<reqVars, new_workers, request_nr, workerVars, masterVars, late,
                 reloads>>

Reloading ==
  /\ mpc = "events" /\ reloads < MaxReloads /\ (quitting => ReloadInQuit)
  /\ reloads' = reloads + 1

(* Every check passes, worker_conf_check creates what is missing, and       *)
(* worker_conf_load deletes what is too much.                               *)
ReloadLoad(threads) ==
  /\ Reloading /\ wlist # <<>>
  /\ LET n == IF threads > Len(wlist) THEN threads - Len(wlist) ELSE 0
     IN \E s \in Fresh(n) :
          LET l == worker_create(wlist, s)
          IN worker_delete(l, Len(l) - threads, "big") /\ Started(s)
  /\ new_workers' = 0
  /\ UNCHANGED <<reqVars, request_nr, wready, wpipe, wtodo, masterVars,
                 quitting, late>>

(* worker_create fails after n of the missing workers. *)
ReloadCreateFails(threads, n) ==
  /\ Reloading /\ n < threads - Len(wlist) /\ (wlist = <<>> => n = 0)
  /\ new_workers' = n
  /\ \E s \in Fresh(n) :
       worker_delete(worker_create(wlist, s), n, "big") /\ Started(s)
  /\ UNCHANGED <<reqVars, request_nr, wready, wpipe, wtodo, masterVars,
                 quitting, late>>

(* A check before worker_conf_check fails (or threads is 0): the rollback   *)
(* deletes new_workers workers, whatever an earlier reload left there.      *)
ReloadCheckFails ==
  /\ Reloading /\ new_workers <= Len(wlist)
  /\ worker_delete(wlist, new_workers, "big")
  /\ UNCHANGED <<reqVars, new_workers, request_nr, workerVars, masterVars,
                 quitting, late>>

(* current_worker is still set but its worker is gone: worker_create or     *)
(* worker_delete follows the NULL link list_del left there.                 *)
ReloadCrash ==
  /\ Reloading
  /\ \/ wlist = <<>>
     \/ new_workers > Len(wlist)
  /\ mpc' = "crashed"
  /\ UNCHANGED <<reqVars, listVars, request_nr, workerVars, mtarget, mcount,
                 mready, mpipes, quitting, late>>

ReloadFails ==
  \/ \E threads \in 1 .. MaxThreads, n \in 0 .. MaxThreads : ReloadCreateFails(threads, n)
  \/ ReloadCheckFails

Reload ==
  \/ \E threads \in 1 .. MaxThreads : ReloadLoad(threads)
  \/ ReloadFails
  \/ ReloadCrash

DeadlinePasses ==
  /\ quitting /\ ~late /\ Running
  /\ late' = TRUE
  /\ UNCHANGED <<reqVars, listVars, request_nr, workerVars, masterVars, quitting,
                 reloads>>

-----------------------------------------------------------------------------
(* A worker thread: worker_entry.                                          *)

Goto(w, pc) == wpc' = [wpc EXCEPT ![w] = pc]

(* Mutant: the worker looks at its own lists instead of request_nr. *)
AfterCheck_OwnLists(w) ==
  IF Held("list", w) \cup Held("blocked", w) = {} THEN "freed" ELSE "wait"

(* Mutant: the worker never sees request_nr reach 0. *)
AfterCheck_Never(w) == "wait"

(* worker_destory when request_nr is 0, else epoll_wait. *)
AfterCheck(w) == IF request_nr[w] = 0 THEN "freed" ELSE "wait"

(* The loop condition; after the deadline worker_check_quit first cleans    *)
(* working_requests.                                                        *)
WorkerCheck(w) ==
  /\ Running /\ wpc[w] = "check"
  /\ Goto(w, IF quit_time[w] = "zero" THEN "wait"
             ELSE IF quit_time[w] = "deadline" /\ late THEN "clean"
             ELSE AfterCheck(w))
  /\ wtodo' = [wtodo EXCEPT ![w] =
                 IF quit_time[w] = "deadline" /\ late THEN Held("list", w) ELSE {}]
  /\ UNCHANGED <<reqVars, listVars, request_nr, wready, wpipe, masterVars, adminVars>>

WorkerClean(w) ==
  /\ Running /\ wpc[w] = "clean"
  /\ IF wtodo[w] = {}
     THEN Goto(w, AfterCheck(w)) /\ UNCHANGED <<reqVars, wtodo>>
     ELSE \E r \in wtodo[w] :
            /\ request_finalize(r, FALSE)
            /\ wtodo' = [wtodo EXCEPT ![w] = @ \ {r}]
            /\ UNCHANGED wpc
  /\ UNCHANGED <<listVars, request_nr, wready, wpipe, masterVars, adminVars>>

WorkerWait(w) ==
  /\ Running /\ wpc[w] = "wait"
  /\ Goto(w, "retry")
  /\ \E S \in SUBSET {r \in Requests : w \in epolls[r]} :
       wready' = [wready EXCEPT ![w] = S]
  /\ wpipe' = [wpipe EXCEPT ![w] = Held("dispatch", w) # {}]
  /\ wtodo' = [wtodo EXCEPT ![w] = Held("blocked", w)]
  /\ UNCHANGED <<reqVars, listVars, request_nr, masterVars, adminVars>>

(* Mutant: the blocked requests are not tried again. *)
WorkerRetry_Skip(w) ==
  /\ Running /\ wpc[w] = "retry"
  /\ Goto(w, "events")
  /\ wtodo' = [wtodo EXCEPT ![w] = {}]
  /\ UNCHANGED <<reqVars, listVars, request_nr, wready, wpipe, masterVars, adminVars>>

(* request_clean(&blocked_requests): the comparison of event_handler with   *)
(* request_finalize is never equal (the handler stored by the first try is  *)
(* request_do_finalize), so the connection is marked broken.                *)
WorkerRetry(w) ==
  /\ Running /\ wpc[w] = "retry"
  /\ IF wtodo[w] = {}
     THEN Goto(w, "events") /\ UNCHANGED <<reqVars, wtodo>>
     ELSE \E r \in wtodo[w] :
            /\ request_finalize(r, FALSE)
            /\ wtodo' = [wtodo EXCEPT ![w] = @ \ {r}]
            /\ UNCHANGED wpc
  /\ UNCHANGED <<listVars, request_nr, wready, wpipe, masterVars, adminVars>>

(* One turn of worker_do_request_read on receive_fd.  The handlers of the   *)
(* requests it read run next, as WorkerEvent steps.                         *)
WorkerReceive(w) ==
  /\ Running /\ wpc[w] = "events" /\ wpipe[w]
  /\ \E S \in SUBSET Held("dispatch", w) :
       /\ Cardinality(S) = Smaller(Cardinality(Held("dispatch", w)), ReadMax)
       /\ at' = [r \in Requests |-> IF r \in S THEN "list" ELSE at[r]]
       /\ wready' = [wready EXCEPT ![w] = @ \cup S]
       /\ wpipe' = [wpipe EXCEPT ![w] = Cardinality(S) = ReadMax]
  /\ UNCHANGED <<home, worker_thread, events, epolls, keep, active, listVars,
                 request_nr, wpc, wtodo, masterVars, adminVars>>

(* The disk or socket blocks: wait for the next event. *)
WorkerAgain(w, r) ==
  /\ Running /\ wpc[w] = "events" /\ r \in wready[w]
  /\ wready' = [wready EXCEPT ![w] = @ \ {r}]
  /\ event_add(r)
  /\ UNCHANGED <<at, home, worker_thread, keep, active, listVars, request_nr,
                 wpc, wpipe, wtodo, masterVars, adminVars>>

(* The response or the body is complete, or failed. *)
WorkerFinish(w, r) ==
  /\ Running /\ wpc[w] = "events" /\ r \in wready[w]
  /\ wready' = [wready EXCEPT ![w] = @ \ {r}]
  /\ \E k \in {keep[r], FALSE} : request_finalize(r, k)
  /\ UNCHANGED <<listVars, request_nr, wpc, wpipe, wtodo, masterVars, adminVars>>

WorkerTimeout(w, r) ==
  /\ Running /\ wpc[w] = "events" /\ wready[w] = {} /\ ~wpipe[w]
  /\ r \in Held("list", w) /\ events[r]
  /\ request_finalize(r, FALSE)
  /\ UNCHANGED <<listVars, request_nr, workerVars, masterVars, adminVars>>

WorkerEnd(w) ==
  /\ Running /\ wpc[w] = "events" /\ wready[w] = {} /\ ~wpipe[w]
  /\ Goto(w, "check")
  /\ UNCHANGED <<reqVars, listVars, request_nr, wready, wpipe, wtodo, masterVars,
                 adminVars>>

-----------------------------------------------------------------------------
MasterThread ==
  \/ MasterCheck \/ MasterWait \/ DispatchCount \/ RecycleRead \/ RecycleCount
  \/ EventsDone \/ MasterEnd
  \/ \E r \in Requests : MasterEvent(r) \/ MasterTimeout(r)
  \/ \E w \in Workers : RecycleBegin(w)

WorkerLoop(w) ==
  \/ WorkerCheck(w) \/ WorkerClean(w) \/ WorkerWait(w) \/ WorkerRetry(w)
  \/ WorkerReceive(w) \/ WorkerEnd(w)
  \/ \E r \in Requests : WorkerAgain(w, r) \/ WorkerFinish(w, r) \/ WorkerTimeout(w, r)

(* main returned: nothing moves any more. *)
Stopped == ~Running /\ UNCHANGED vars

Next ==
  \/ MasterThread
  \/ \E r \in Requests : MasterAccept(r)
  \/ olivehc_quit \/ Reload \/ DeadlinePasses
  \/ \E w \in Workers : WorkerLoop(w)
  \/ Stopped

Spec == Init /\ [][Next]_vars

(* Every thread keeps running its loop, and time passes.  A request on a    *)
(* worker finishes or times out: every wait has a timer (recv_timeout and   *)
(* send_timeout must be positive, server_conf_check) and a body is finite,  *)
(* so a handler cannot answer "again" for ever.                             *)
Fairness ==
  /\ WF_vars(MasterThread) /\ WF_vars(DeadlinePasses)
  /\ \A w \in Workers : WF_vars(WorkerLoop(w))
  /\ \A w \in Workers, r \in Requests :
       SF_vars(WorkerFinish(w, r) \/ WorkerTimeout(w, r))

FairSpec == Spec /\ Fairness

-----------------------------------------------------------------------------
(* Properties.                                                             *)

(* Every variable has its type; in particular the counters of              *)
(* worker_request_dispatch and worker_request_recycle never go negative.   *)
TypeOK ==
  /\ at \in [Requests -> {"free", "list", "dispatch", "blocked", "return"}]
  /\ home \in [Requests -> Threads]
  /\ worker_thread \in [Requests -> Threads]
  /\ events \in [Requests -> BOOLEAN]
  /\ epolls \in [Requests -> SUBSET Threads]
  /\ keep \in [Requests -> BOOLEAN]
  /\ active \in [Requests -> BOOLEAN]
  /\ wlist \in Seq(Workers)
  /\ new_workers \in Nat
  /\ quit_time \in [Workers -> {"zero", "big", "deadline"}]
  /\ request_nr \in [Workers -> Nat]
  /\ wpc \in [Workers -> {"none", "check", "clean", "wait", "retry", "events", "freed"}]
  /\ wready \in [Workers -> SUBSET Requests]
  /\ wpipe \in [Workers -> BOOLEAN]
  /\ wtodo \in [Workers -> SUBSET Requests]
  /\ mpc \in {"check", "wait", "events", "expire", "dispatched", "recycle",
              "recycled", "exited", "crashed"}
  /\ mtarget \in Threads /\ mcount \in Nat
  /\ mready \in SUBSET Requests /\ mpipes \in SUBSET Workers
  /\ quitting \in BOOLEAN /\ late \in BOOLEAN /\ reloads \in Nat

(* request_nr, which only the master updates and only the worker checks    *)
(* (worker.h:23), counts the requests in the pipes and on the lists of the *)
(* worker, up to the update the master is about to make.                   *)
RequestNrExact ==
  \A w \in Workers :
    request_nr[w] = Cardinality(Owned(w))
                    + (IF mpc \in {"recycle", "recycled"} /\ mtarget = w THEN mcount ELSE 0)
                    - (IF mpc = "dispatched" /\ mtarget = w THEN 1 ELSE 0)

(* Once worker_destory has freed a worker, nothing refers to it: not the   *)
(* ring, not the events of the master's current round, not a dispatch or a *)
(* recycle in progress, and no request in any list or pipe.                *)
FreedUnreferenced ==
  \A w \in Workers : wpc[w] = "freed" =>
    /\ Owned(w) = {}
    /\ w \notin Elems(wlist) /\ w \notin mpipes /\ w # mtarget
    /\ \A r \in Requests : w # worker_thread[r] /\ w \notin epolls[r]

(* No lock is needed (README "Multi Thread"): a thread has a request in    *)
(* its epoll, in the events of its current round or in the list it is      *)
(* cleaning only while the request is on a list of that thread.            *)
OnlyOwnerTouches ==
  /\ \A r \in Requests :
       /\ epolls[r] \subseteq (IF at[r] = "list" THEN {home[r]} ELSE {})
       /\ r \in mready => at[r] = "list" /\ home[r] = Master
  /\ \A w \in Workers :
       /\ wready[w] \subseteq Held("list", w)
       /\ wpc[w] = "clean" => wtodo[w] \subseteq Held("list", w)
       /\ wpc[w] = "retry" => wtodo[w] \subseteq Held("blocked", w)

(* The inductive strengthening of the three invariants above.  What the    *)
(* fields of a request are in each of its places:                          *)
Linked(r) ==
  /\ at[r] # "list" => ~events[r]
  /\ epolls[r] = IF events[r] THEN {home[r]} ELSE {}
  /\ at[r] = "free" => home[r] = Master
  /\ at[r] \in {"dispatch", "blocked", "return"} => home[r] \in Workers
  /\ worker_thread[r] = IF at[r] = "return" THEN Master ELSE home[r]

LinkShape == \A r \in Requests : Linked(r)

(* which workers are in the ring, and which own requests:                  *)
RingShape ==
  /\ \A i, j \in 1 .. Len(wlist) : i # j => wlist[i] # wlist[j]
  /\ \A w \in Workers :
       /\ w \in Elems(wlist) => quit_time[w] = "zero" /\ wpc[w] # "none"
       /\ wpc[w] = "none" => Owned(w) = {} /\ quit_time[w] = "zero"
       /\ wpc[w] \in {"clean", "freed"} => quit_time[w] # "zero"
       /\ wpc[w] \notin {"retry", "events"} => wready[w] = {}

(* and what the master holds in its hands.                                 *)
MasterShape ==
  /\ mpc = "dispatched" => mtarget \in Elems(wlist) /\ Owned(mtarget) # {}
  /\ mpc \in {"recycle", "recycled"} => mtarget \in Workers /\ mtarget \notin mpipes
  /\ mpc = "recycle" => mcount > 0 \/ Held("return", mtarget) # {}
  /\ mpc = "recycled" => mcount > 0
  /\ mpc \notin {"dispatched", "recycle", "recycled"} => mtarget = Master
  /\ mpc \notin {"recycle", "recycled"} => mcount = 0
  /\ \A w \in mpipes : Held("return", w) # {}
  /\ mpc \in {"check", "wait", "expire"} => mready = {} /\ mpipes = {}

(* Together with what they strengthen, they survive every step of every    *)
(* thread: request_nr of worker.c stays exact, and a freed worker and a    *)
(* request of another thread stay out of reach.                            *)
IInv ==
  /\ TypeOK /\ RequestNrExact /\ FreedUnreferenced /\ OnlyOwnerTouches
  /\ LinkShape /\ RingShape /\ MasterShape

(* worker_delete: no request is dispatched to a worker once it has been    *)
(* told to quit (worker.c:189).                                            *)
NoDispatchToRetired ==
  [][\A w \in Workers : quit_time[w] # "zero" =>
       Held("dispatch", w)' \subseteq Held("dispatch", w)]_vars

(* A worker told to quit is freed, unless the whole process is gone first. *)
RetiredExits ==
  \A w \in Workers : quit_time[w] # "zero" ~> (wpc[w] = "freed" \/ ~Running)

(* After the quit command the master's loop ends (and the items can be     *)
(* dumped).                                                                *)
QuitCompletes == quitting ~> mpc = "exited"

(* worker.c:194 "worker_conf_rollback() call worker_delete() to delete the *)
(* new workers": a failing reload never deletes a worker that was serving  *)
(* before it.                                                              *)
FailedReloadKeepsWorkers ==
  [][ReloadFails => wlist' = wlist]_vars
=============================================================================
