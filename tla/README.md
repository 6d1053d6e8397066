# OliveHC verification

TLA+ models of OliveHC, an HTTP cache server written in C (`src/`), with TLC
instances that check them and TLAPS proofs about them. Line numbers below refer
to files under `src/`.

## The system

OliveHC keeps cached HTTP responses ("items") on device files. One **master**
thread accepts connections, parses headers and does all the bookkeeping; several
**worker** threads only move bytes between sockets and device files. Threads
communicate through pipes; there is no lock.

| Part | State | Operations | Interacts with |
|---|---|---|---|
| Threads (`worker.c`, `event.c`, `request.c`, loop of `olivehc.c`) | per worker two pipes, working and blocked lists, `request_nr`, `quit_time`; ring with `current_worker`, `new_workers`; per request its list, `worker_thread`, epoll and timer registration | accept, header, dispatch, receive, serve, time out, return, recycle, retry; create, retire, free a worker; quit | everything a request touches |
| One request (`request.c`, `http.c`) | handler, code, bytes processed, range, connection flags | read header and body, write to disk, send whole or in part, finalize | items, connections |
| Size classes (`utils/ipbucket.h`) | queues of free blocks | index, block size, add, delete, update, get, biggest | devices |
| Devices (`device.c`) | per device an order list of items and free blocks, `used`, `consumed`, `badblock`, `fd`; `devices`, `deleted_devices` | get, return, extend and cut free blocks, kick, delete bit by bit, reload | items, size classes, dump |
| Servers (`server.c`) | per server hash, LRU list, passby list, `consumed`, `item_nr`, `connections`; the shared LRU list; items | GET, PUT, POST, DELETE handlers, finalize, expiry, clear, routine, reload | devices, hash, requests |
| Configuration (`conf.c`, `olivehc.c`, `*_conf_check/load/rollback`) | entries, defaults, reserved entries; what the checks acquire | parse, check, load, roll back | workers, devices, servers |
| Dump (`format.c`) | superblock, ports and item records on the device file | store at quit, load at start | devices, servers |
| Hash (`utils/hash.c`) | two generations of buckets while splitting | add, get, delete, expand | servers |
| Timers (`utils/timer.c`) | groups of nodes with equal timeout | add, update, delete, refresh, expire | events |
| Slab, index pointers (`utils/`) | blocks of items; arrays of slots | allocate, free; add, delete | items, devices, servers |
| nginx filter (`nginx-jstore/`) | a context per request, the copied body | access handler, header and body filter | fills the cache |

What makes it hard: requests cross threads while workers are created, retired
and freed; pipes fill up; the quit deadline and timeouts race with requests in
every place; an item is deleted while a worker reads or writes it; blocks are
freed, merged and handed out again meanwhile; devices and servers are removed by
a reload while in use and come back by the next; a reload fails half-way;
allocations fail; the process dies in the dump, in the load or between.
`PROJECT.json` lists these hazards at the lines where they bite, with the
property that covers each or the reason why none does.

## Modules

| Module | Models | Kind |
|---|---|---|
| `Worker` | threads and the hand-over of requests | state machine |
| `WorkerThreads`, `WorkerProofs` | theorems about `Worker`: lemmas on the invariant and the steps of workers; the steps of the master, dispatch and reload, and the results | TLAPS |
| `IPBucket` | size classes and queues | operators |
| `SizeClass` | a walk over all sizes, to check `IPBucket` | state machine |
| `SizeProofs` | theorems about `IPBucket` and `SizeClass` | TLAPS |
| `Device` | devices and free space | operators on the store |
| `Server` | servers, items, passby items, reload, routines; composes `Device` and `IPBucket` | state machine |
| `Format` | dump, load and crash; composes with `Server` | state machine |
| `Request` | one connection: header, body, response | state machine |
| `RequestProofs` | theorems about `Request` | TLAPS |
| `Hash` | the hash while it splits | state machine |
| `Dict` | the dictionary `Hash` implements | abstract specification |
| `HashProofs` | theorems about `Hash`, the refinement among them | TLAPS |
| `Timer` | timer groups under the events of connections | state machine |
| `Deadlines` | the set of alarms `Timer` implements | abstract specification |
| `TimerProofs` | theorems about `Timer`, the refinement among them | TLAPS |
| `Slab` | the slab allocator | state machine |
| `SlabProofs` | theorems about `Slab` | TLAPS |
| `IdxPointer` | index pointers | operators |
| `Reload` | what checks, load and rollback acquire and give back; composes with `IdxPointer` | state machine |
| `Conf` | parsing a configuration and adopting its entries | state machine |
| `Jstore` | the nginx filter | state machine |
| `MCWorker`, `MCWorkerLive`, `MCServer`, `MCServers`, `MCFormat`, `MCParts` | constants, symmetry and, in all but `MCWorker` and `MCServer`, a choice of the instance (`scenario`, in `MCParts` `part`) for TLC | instances |

### Worker

A request is on one list (`at[r] = "list"` or `"blocked"`, of thread `home[r]`) or
in one pipe (`"dispatch"` or `"return"`). `worker_thread`, `events`, `keep` and
`active` are the fields of `ohc_request_t`; `epolls` is what the kernel's epoll
sets contain. The actions of a thread are the steps between two points where
another thread can see a difference: a `write` to a pipe, a `read` from one, and
the update of `request_nr`. So a dispatch is two steps of the master
(`HeaderDispatch`, then `DispatchCount`), and a recycle is `RecycleBegin`,
`RecycleRead` once per read, `RecycleCount`; workers move in between. The ring is
the sequence `wlist` with `current_worker` first. What HTTP does inside a handler
is a choice of its outcomes. A pipe is a set, for nothing depends on its order. A
reload is one step, with the outcomes the code has: loaded, failed in a check, failed
in `worker_create`, and (after `quit`) the use of an unlinked worker. Left out: a failing
`event_add` (no caller looks at the result), after which a request waits without a timer
or, if only the timer failed, is in the epoll without `events` set.

### Request

One connection seen by its handlers: `handler` is `event_handler`, and each handler
is one action per call, with a piece of any size and every error it looks at. Bytes
of an item are numbered, so that `disk` and `output` show which byte is where;
a status line or page is one negative number. `unread` counts what the client has
sent or will send of the request and what the program has not read. `Parsed` is what
the parser may have found. GET, HEAD and DELETE do not read `Content-Length`: of a body
that comes with them (`ignored`), the bytes in the same read as the header are thrown
away by `request_reset`, and the others stay unread. Widths are kept where a number may
be too large: `http_parse_get_range` adds up digits in an `ssize_t`, which wraps at
`SsizeHalf`, and `server_request_finalize` compares with `item->length`, a `uint32_t`.

### IPBucket and SizeClass

`ipbucket_block_size` and `ipbucket_index` are translated with their rounding;
`IPB_BEGIN` and `IPB_END` are the exponents of the smallest and the largest class.
`ipbucket_scan` is the sequence of nodes that repeated calls of `ipbucket_get` take.
`SizeClass` walks over every item length and every size of a free block.

### Device, Server and Format

Everything in `server.c` and `device.c` runs in the master thread, so a handler is
one step, and inside it the C functions are operators from state to state with
their C names. An item is named by its place, `<<device, offset>>`: two items never
share one while they exist, and the names do not grow. Sizes count 512-byte
units (`IPB_BEGIN = 0`): every size is rounded up to whole units before it is used, so
the classes depend on nothing else. A
request that holds an item (`req[r].item`) stands for a worker that is reading or
writing the item's block; `server_request_finalize` is the moment the master gets
the request back, with all of the item processed, less, or a disk error.
An item's expire time and clear count are one flag, `stale`, set by time or by the
clear command. The content of a configuration is the set of device files and the
capacity per port. With `MemFails`, each of three kinds of memory (items, passby items,
and the free blocks and copies of devices) may be missing in a step; then every
allocation of that kind in the step fails, and the others succeed. `store_devices` has
failing items and devices; no run has failing passby items, with which the instance is
too large (`server_passby_store` fails and the item is stored, as without passby).

`Format` adds the contents of the files, cell by cell, and the life of the process.
Workers write bodies into the cells, `Quit` writes ports, records and superblock
over the first cells and may be cut short after any write, `Crash` may come at any
time (the process dies; what it wrote is in the file), `Starts` loads record by record,
and `DiesInLoad` stops between two devices. Three histories: `saved` is what the next
load should bring back, `revived` the files that a reload took into service with a dump
on them, `killed` those in service when the process was last killed.

Left out: statistics, `item_max_size` and the request's own expire time
(they decline without effect), the key's bytes, `passby_begin_consumed`, and the
order in which the lists of servers and of devices are visited (by number here).

### Hash, Timer, Slab, IdxPointer

`Hash` has for every node the table and the bucket it is in, the split pointer and
`starved`, a history of failed allocations. `Timer` has the queue of each
group and, as `event.c` uses it, the event a connection waits for. `Slab` has
the list of blocks and the free items of each. `IdxPointer` has the array and `lowest`.

### Conf and Reload

Both are about `olivehc_load_conf`. In `Conf` a parse folds the lines of a file, with
its includes, into entries, defaults and globals as `conf_parse_file` does, and
`LoadConf` adopts the new entries and copies the others into the running objects;
`Meant` says independently what a text means. The commands are a
global one, `device`, `listen`, a size (`capacity`) and an integer
(`connections_limit`); flags and paths are left out. In `Reload` the checks acquire descriptors, hashes and slots
entry by entry, any may fail, and rollback or load follows.

### Jstore

One main request in nginx: the access handler at every location, the header filter,
then the body filter with buffers of any sizes, of which any may fail to be copied
in one of four ways. `done` may come before the last buffers, because nginx passes
on what is in its temporary file and what is in memory in separate calls. A subrequest
is where it goes and with which body: one that is made and then finds no memory for its
body stays posted at the main location, without one, and the buffers are handed on twice.

## Runs

| Run | Question | Properties | Answer |
|---|---|---|---|
| `worker_handover` | Is `request_nr` exact, is a freed worker unreferenced, does only the owner touch a request, and does a retired worker get no further one, while reloads grow, shrink or fail? | `RequestNrExact`, `FreedUnreferenced`, `OnlyOwnerTouches`, `NoDispatchToRetired` | holds |
| `worker_live` | Does quit end, with blocked returns and full pipes? Is every retired worker freed? | `QuitCompletes`, `RetiredExits` | holds |
| `worker_rollback` | Does a failing reload keep the serving workers? | `FailedReloadKeepsWorkers` | violated: `new_workers` is stale |
| `store_space` | Are order list, queues, counters and links exact under store, replace, delete, abort, bad blocks? | `SpaceExact`, `QueueExact`, `CountsExact`, `LinksExact`, `HitsAreComplete` | holds |
| `store_devices` | Is what a worker uses there, and used by no other writer, while device files come and go and memory fails? | `HeldIsThere`, `NoConflict`, `SpaceExact` | holds |
| `store_servers` | Do links stay exact while servers come and go, with passby items, and are the oldest items evicted first, down to the capacity or to what a visit may delete, with items in use and capacities that a reload switches? | `LinksExact`, `EvictsOldest`, `CapacityKept` | holds |
| `store_removal` | Does a removed device or server go, when each second empties only one block and the other server keeps storing? | `DeviceGoes`, `ServerGoes` | holds |
| `dump` | Does a start bring back what the last quit saved, all of it and nothing else, with intact bodies, whatever is interrupted where? | `RestoresOnlySaved`, `RestoresAllSaved`, `BodiesIntact`, `SpaceExact`, `QueueExact` | holds; the first and the third leave out `revived` files |
| `old_dump` | Is everything lost when the process is killed? | `AbnormalQuitLosesAll` | violated: a file that comes by a reload keeps its old dump |
| `parts` | Each part that shares no state with others, by itself (below) | below | holds |
| `freed_server` | Does a server outlive its connections? | `ServerOutlivesConnections` | violated: `server_destroy` ignores `s->connections` |
| `page_missing` | Is there a page for every code that needs one? | `PageExists` | violated: a disk error in the first `sendfile` of a 200 |

`parts` puts eight small specifications into one run; a behaviour is one of one part:

| Part | Properties |
|---|---|
| `Hash` | `LoadBounded` (splitting keeps pace), `HashIsDictionary` (refinement) |
| `Timer` | `LinkedWhileWaiting`, `TimerIsAlarms` (refinement: nobody is missed by reading a group only up to its first unexpired node) |
| `Slab` | `SlabExact` (no item twice, no freed block in use) |
| `SizeClass` | `ClassFits` (the search finds exactly the blocks that are large enough) |
| `Reload` | `DescriptorsExact` (no leak, no double close, whichever check fails), `SlotsExact`, `OnlyMassRemovalOverruns` (the first two hold until an index array is overrun; the third says when that can be) |
| `Request` | `ResponseExact` (ranges included, if their numbers fit), `StoredExact` (below 4G), `KeptInSync` (but for bodies nobody looks for) |
| `Conf` | `ParsedAsMeant` (contexts, defaults, includes, sizes), `RunsAsLoaded` (what is in use survives every later parse) |
| `Jstore` | `StoresWhole` (whatever reaches the target is a whole response, whichever allocation fails) |

The violated runs are recorded under `findings` in `PROJECT.json` with the lines
they contradict. Other failures break a property above, and are switched off in the
runs by a constant or excluded in the property; what holds, holds without them. Each has
a note under `hazards`: no memory in `device_add` (`Failures`), no memory for a timer
group (`GroupFails`), a short read in the load (`"read"` in `LoadFails`), a disk error after the
first byte of a response, a body left unread after 400 or 500, a body that comes with a
GET, HEAD or DELETE, a range with a number that wraps, an item of more than 4G, responses without a declared length that lose a part, and an nginx that keeps
contexts on a redirect (`ClearsCtx`). No line of the repository speaks of these.

Two more do contradict the repository's `README.md`, and no run shows them:
`server_update` does not copy `connections_limit`, although line 12 says that the
configuration "can be modified by reloading" (`RunsAsLoaded` leaves that setting out);
and when a reload gives a capacity to a server that had none, the items it has stored
stay on the shared list, where nothing expires them for that capacity until they are
hit, although line 93 says "If the space usage of a server exceed its capacity, its items
are expired in accordance with LRU." (`CapacityKept` speaks of the server's own list).

**Bounds.** Worker: two workers are needed for one to be retired while the
other serves, and two requests with pipes of one for a pipe to be full; a read of one
pointer makes every batch border a step; two reloads grow, shrink and fail in any
order. `worker_live` has two scenarios, two requests on one worker and a pipe of one (so
that returns block) and one request on two workers (so that a reload retires
one), because the two together are beyond a small instance. Store: the file of 12
units holds four items of three units, or one of nine (class 10), so splitting,
merging on both sides, eviction for space and the deletion of neighbours all
happen; 30 percent of bad blocks are two items, so the kick happens. `LoopLimit`
stands for 1000 and is smaller than the lists wherever its effect is of interest.
Two requests are enough for a reader and a deleter, or a reader and a writer, of one
item; a third device object lets a file be removed and return while the old one is
being deleted. `store_servers` has two scenarios: one request and key with a server that is
removed and returns, or two requests and keys with one server over its capacity of one
item, where a visit deletes one (`LoopLimit = 0`), so that the oldest item may be in use,
the limit may end the visit, and both may leave the server over its capacity. Dump:
files of three units of two cells, so that a dump covers the first two units and leaves
the third; in one scenario two ports on one file, of which a configuration may leave one
out, in the other two files, of which a configuration may leave one out, on one port.
`LoadFails` lets the load find no memory for items; without memory for the free block
before an item (device.c:558) the space would be lost, which `SpaceExact` excludes. Parts: five nodes in tables
of 1 to 8 buckets, two with one id and two whose hashes differ by a power of two, so
that a table doubles three times and a lookup has to tell them apart; three
connections, two timeouts and a clock up to 2, so that a group has expired and
unexpired nodes; index arrays of 5, which a reload that removes two of
three servers fills and one that removes all three overruns; three blocks of three items; bodies of 0, 1 and 3 bytes,
range ends up to 4 and three that do not fit into an `ssize_t` of 4 bits (they wrap to
a negative and to small numbers), and an `item->length` that is too short for the largest item; words of 4 bits in `Conf`, with shifts that just fit and that do
not; four objects, so that two servers are updated by a reload; bodies up to
3 units in buffers of 0 to 2 with two buffers per call in `Jstore`.

**Deadlock** is checked in every run.

**Fairness.** In `Worker`: the loops run on (they never block for more than a second
in `epoll_wait`), the deadline passes, and a request on a worker finishes or times
out, because each wait has a timer (`server_conf_check` requires positive timeouts)
and a body is finite. In `Server`: the routines run every second, a request comes
back from its worker (which is what `worker_live` is about),
and expire times pass. No fairness is assumed of clients or operators. In `Server` two
of the conditions are written out as "disabled infinitely often or taken infinitely
often", which is weak fairness with the enabling condition spelled out.

## Proofs

Every theorem holds for every value of the constants under the named assumptions of
its module.

**Worker** (`ConstantsAssumption`: finite sets of requests and workers, any pipe size,
any number of reloads). `InductiveInvariant` is `Spec => []IInv`; from it follow
`TypeCorrect`, `CounterExact` (`RequestNrExact`), `NoUseAfterFree`
(`FreedUnreferenced`), `NoLockNeeded` (`OnlyOwnerTouches`), and the action property
`RetiredGetsNoRequest` (`NoDispatchToRetired`).
A worker frees itself when it sees `request_nr = 0` with `quit_time`
set. `RequestNrExact` alone does not show that nothing refers to it, since
the counter is off by the update the master is about to make, and it does not speak of the
master's current round. `IInv` adds three things. `LinkShape`: the fields of a
request in each of its places, so that `home` decides `worker_thread` and the epoll
registrations. `RingShape`: who is in the ring has no `quit_time`, so a retiring
worker is not the target of a dispatch. `MasterShape`: a worker whose pipe is in the
master's events has something in its return pipe, and a recycle that has begun has
taken something or will, so its counter is above zero. Lemma `QuietWorker` combines
them: a retiring worker whose counter is zero owns nothing and is in no event,
dispatch or recycle. One lemma per action shows that `IInv` is preserved; the lemmas
on the ring (`RotateSame`, `SurvivorsRest`, `CreateAdds`) isolate the reasoning
about sequences, and `ReturnEffect`, `EventAddEffect`, `FinalizeEffect` the effects
shared by several actions. The run `worker_handover` checks the named conjuncts; the
shapes are proved and not checked in a run.

**Hash** (any finite set of nodes, any ids and hash function, a first size that is a
power of two up to 2^28). `HashInvariant` (`HashInv`),
`HashLoadBounded` (`LoadBounded`) and `HashImplementsDictionary` (`HashIsDictionary`:
`HashSpec` implements `Dict`, with the nodes of both tables as the set).
`HashInv` says of every node that it is in the bucket where a search looks:
in the old table only under an index that the split pointer has not passed.
That a bucket is split into its two halves needs that hash values modulo twice a size
reduce to those modulo the size. `Keeps` is what makes the load bounded inductive: one
bucket is split per operation, so the nodes added since the last doubling are fewer
than the buckets already split, and a doubling never comes due during another.

**Slab** (any numbers of blocks and items). `SlabIsExact` (`SlabExact`) and
`SlabKeepsOneSpare` (`OneSpareBlock`). The conjunction of both with the types is
inductive: a block is on the list once, exactly if it has free items, so taking the
head finds one; a block that is completely free is last, so the test for a successor
in `slab_free` tells whether it is the only spare.

**Request** (bodies of any length, pieces of any size, integers of any width).
`RequestInvariant`, and from it `BodiesStored` (`StoredExact`, for items that
`item->length` can hold) and `KeptConnectionsInSync` (`KeptInSync`, but for bodies that
come with a GET, HEAD or DELETE). The
invariant says what each handler may find: while a body is received,
`process_size` and what is unread add up to the item with what the client sends beyond
it, and of an item every byte below `process_size` is at its place; a code of 201 goes with
an item, and a connection whose body is declined unread is not kept.

`ResponsesExact` (`ResponseExact`) adds what is
sent: for items of any length and any range whose numbers fit into an `ssize_t` (`Fits`;
they are then parsed as written), every handler continues the response
where the last one stopped, so a response sent to its end is the item or the announced
part of it.

**Timer** (any connections, timeouts and clock, memory for the groups).
`TimerInvariant`, and from it `TimersAreLinked` (`LinkedWhileWaiting`) and
`TimerImplementsAlarms` (`TimerIsAlarms`: the groups implement `Deadlines`). Every
group holds nodes of waiting connections only, once each and in the order of their
deadlines: `timer_expire`, which stops at the first unexpired node of a group, misses
nobody.

**Size classes** (any exponents of the smallest and the largest class).
`ClassesFit` (`ClassFits`): the classes are numbered without a gap from one unit to
the largest power of two, so the index rounded up of an item's size is at most the
index rounded down of a block exactly if the block is large enough.

Only model-checked: liveness and `ENABLED`, outside the prover's reach; `Device`,
`Server` and `Format` (`Server` has a recursive operator for the `try_again` loop of
the PUT handler, and no theorem can be stated in a module that extends it); `Reload`,
`Conf` and `Jstore`, which fold over sequences, where a proof needs induction over
data.

## Not modelled

- The bytes of HTTP headers and of configuration lines (`http.c`, `conf_readline`):
  a model of the parsers would repeat them. Their outcomes are modelled.
- The wrappers of system calls (`utils/socktcp.c`, `utils/epoll.h`): their outcomes
  are choices in the modules. `TCP_CORK` only delays output.
- Pointer manipulation in `utils/list.h`: lists are sequences.
- Statistics, logs and the status page, which only read; daemon start and signals.
- `timer_closest`, which nothing calls, and the timeout 0 of `timer_update`, which no
  caller passes.
- `disk_servers` of `format_load_device` for slots without a port, which is not set. Only a
  damaged record refers to one, or a record of an interrupted dump under the superblock
  of an older one (`revived`); the model skips it.
- The crash of the machine, which may lose what the process wrote.
- 16-bit overflow of `used` and `clear` of an item, reached only with 65536 concurrent
  readers or clear commands.
- The filter's directives, and its part in its own subrequest (it empties the buffers).
- The shell scripts.
