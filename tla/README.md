# c-icap server: specifications, model checking and proofs

TLA+ specifications of the c-icap ICAP server, the TLC configurations that check
them on small instances, and TLAPS proofs of what matters most for instances of
any size. Every definition is translated from the C source; `PROJECT.json` maps
each one to the lines it stands for. Definitions keep the names of the C
functions, variables and fields where there is one.

## 1. The system and its parts

c-icap is a pre-forking, multi-threaded server for ICAP (RFC 3507). A *monitor*
process forks *children*; each child has a *listener* thread that accepts
connections under an inter-process mutex, *worker* threads that serve them, and
a main thread. A worker reads a request, calls a *service* (a loaded module) to
look at or change an HTTP object, and sends the response while the body is still
arriving.

| part | state | operations | talks to |
|---|---|---|---|
| monitor (`mpmt_server.c`) | `childs_queue`, `old_childs_queue`, `c_icap_going_to_term`, `c_icap_reconfigure` | `start_server` loop: start, replace, retire, reap children; `server_reconfigure`; `kill_all_childs` | children: `fork`, SIGTERM, shared memory, command pipes |
| children queue (`proc_threads_queues.c`) | shared table of `child_shared_data_t`: pid, `usedservers`, `requests`, `idle`, `to_be_killed`, `father_said` | `register_child`, `remove_child`, `find_*_child`, `childs_queue_stats` | written by both sides |
| child: main thread | `child_data`, `CHILD_HALT`, `listener_running` | `child_main`, `cancel_all_threads`, `term_handler_child` | listener and workers by flags, signals, conditions, joins |
| child: listener | accepted connection, accept mutex | `listener_thread` | workers through the connections queue and two condition variables |
| connections queue | ring of connections, `queue_mtx`, `cond_mtx`, `queue_cond` | `put_to_queue`, `get_from_queue`, `wait_for_queue` | |
| child: workers | `current_req`, keep-alive counters | `thread_main`, `keepalive_request` | request processing |
| request processing (`request.c`, `request_common.c`) | `ci_request_t`: read buffer, block to send, status, flags | `process_request`, preview, `get_send_body`, `send_remaining_response`, `ci_request_reset` | client socket; service handlers; echo ring buffer |
| bodies, ring buffer (`body.c`) | positions, flags, files | read, write, lock, truncate, destroy | services, echo mode |
| caches (`cache.c`, `modules/shared_cache.c`) | queue and hash of entries; pages in shared memory | search, update | threads; processes |
| memory (`mem.c`), containers (`array.c`) | free lists, chunks; list nodes, vectors in packed memory | alloc, free, resize; add, pop, remove, iterate | everything |
| inter-process mutexes (`os/unix/proc_mutex.c`) | semaphores, locked files, robust mutexes in shared memory | lock, unlock, destroy, repair after a crash | accept mutex, queue, shared cache |
| statistics (`stats.c`, `info.c`) | a block per child, history, histograms, snapshots per second and minute | register, count, merge, report | monitor, children, information service |
| commands (`commands.c`) | list of commands, queue of scheduled ones | register, schedule, execute | monitor, main threads, workers |
| configuration (`cfg_param.c`, `service.c`), modules (`module.c`), ports (`port.c`) | directives and their defaults, tables of services and aliases, selected modules, listening sockets | read, reset, read again | everything that is configured |
| access control (`acl.c`, `access.c`, `default_acl.c`, `http_auth.c`), lookup tables | acls, access lists, authenticators, tables | build, check a connection, check a request | workers |
| headers and entities (`header.c`, `request_common.c`, `simple_api.c`) | text and index, parts of a message | add, remove, pack, read, release | request processing, services |
| connections (`net_io.c`, `os/unix/net_io.c`, `openssl/net_io_ssl.c`) | descriptor, TLS object | connect, accept, wait, read, write, close | listener, workers, client library |
| templates (`txtTemplate.c`), log files (`log.c`), LDAP pools (`modules/ldap_module.c`) | cached texts, open files, pools of connections | load and release, log and reopen, get and release | workers, main thread |
| client library (`client.c`) | state of a non-blocking client | `ci_client_icapfilter` | an ICAP server |
| web server (`http_server.c`) | HTTP state | one request, one page | browsers |

`components` in `PROJECT.json` lists every part, also those left out.

What is hard, and so what the properties are for (`hazards` lists each at its line):

* **Concurrency inside a child.** Conditions are signalled without the mutex
  under which they are awaited, and what was tested is not tested again before a
  wait: wake-ups get lost. Counters and flags (`usedservers`, `idle`,
  `to_be_killed`) are read by others at any time. Correct: a connection has one
  owner, counters do not drift, the accept mutex is released on every path on
  which its unlock does not fail.
* **Two processes and a signal.** The order to stop is a field of shared memory
  and a SIGTERM that the starting child ignores. Correct: the order is noted,
  a stop ends every child, no foreign process is signalled.
* **Generations.** A reconfiguration replaces the shared memory while children
  of the old generation run, start, crash and end. Correct: no child is lost,
  nothing is destroyed in use.
* **Full duplex.** Body data are read, handed over, taken back and sent in one
  loop, cut anywhere by the sockets, and the service decides when the response
  may start. Correct: order and completeness of both streams, one response per
  request, a connection that is kept alive stands at a request boundary, every
  request ends.
* **Partial failure and limits.** Time-outs, failing handlers and writes in the
  middle of a response; a full connections queue, a full echo buffer, all slots
  of the children queue used.
* **Shared between threads or processes, changed in several steps.** A cache, a
  mutex table, a statistics block, a template, a log file or an LDAP pool is looked
  at under one lock (or none) and used after it; a process may die in between.
  Correct: what is found was stored, what is used is not freed, counts are conserved.
* **Read again.** A reconfiguration runs the same code on what the last one left:
  defaults, tables of pointers, sockets, selected modules, formats. Correct: the
  result is that of a fresh start, and nothing points to what was freed.

## 2. Modules

| module | what it is |
|---|---|
| `ChildServer` | one child process: listener, workers, main thread, SIGTERM protocol |
| `ChildServerProofs` | theorems about `ChildServer` |
| `Monitor` | the monitor and the life of its children |
| `IcapRequest` | the requests on one connection |
| `RingBuffer` | `ci_ring_buf` of `body.c` |
| `Fifo` | what a ring buffer promises: a bounded queue |
| `BodyProofs` | the proof that `RingBuffer` implements `Fifo`, and the theorem about `Bodies` |
| `MonitorProofs`, `IcapRequestProofs` | theorems about `Monitor` and `IcapRequest` |
| `SharingProofs` | theorems about `ProcMutex`, `Templates`, `SharedCache` and `Commands` |
| `DescriptorProofs` | theorems about `Logging` and `Connections` |
| `PoolProofs` | the theorems about `LocalCache`, `LdapPool` and `MemPools` |
| `ProofLemmas` | lemmas on numbers and sequences that the proofs share |
| `Bodies` | `ci_membuf`, `ci_cached_file`, `ci_simple_file` |
| `LocalCache`, `SharedCache` | the cache of one process, the cache of several |
| `ProcMutex` | four schemes of inter-process mutexes |
| `MemPools`, `Containers` | buffers and allocators; lists, vectors and arrays |
| `Stats`, `Histograms`, `Snapshots` | counters, distributions, reports per time |
| `Commands` | scheduled commands |
| `Configuration`, `Modules`, `Ports` | what a configuration file sets up, read once and again |
| `LookupTables`, `Access` | tables of text files; acls, access lists, authentication |
| `Headers`, `Entities` | a list of headers as text; the parts of a message |
| `Connections` | one network connection, plain or TLS |
| `Templates`, `Logging`, `LdapPool` | templates, log files and LDAP connections shared by threads |
| `IcapClient` | the client library with a server |
| `MCChildServer`, `MCMonitor`, `MCIcapRequest` | symmetry sets and request kinds for TLC |
| `MCStorage`, `MCServices` | constants of the small modules, which share no state: the variable `part` says which of them a behaviour is about, and the others stay in one initial state |

A definition named `X_Y` with the comment "Mutant" is a wrong version of `X`; no
specification uses it. `mutants` in `PROJECT.json` says which property detects it.

### ChildServer

One action per stretch of code between two accesses to state that another thread
or process may change; `wpc`, `lpc`, `mpc` are the control points.

* *Worker* (`thread_main`): test `to_be_killed`, `get_from_queue`, and if it is
  empty test again and `wait_for_queue`. The wait takes `cond_mtx` only, and
  `put_to_queue` never holds `cond_mtx`, so testing and blocking are two actions and a
  signal may come between them. With a connection: raise `usedservers`, check
  access, the keep-alive loop, close, lower `usedservers`, signal the listener.
* *Listener* (`listener_thread`): lock the accept mutex, poll, accept,
  `put_to_queue` (a connection that does not fit is closed), and after each round
  go down, accept more (`haschild`) or unlock and wait for a free worker.
  `jobs_in_queue` is `put_to_queue`'s result, as in the code. The error
  exits are there, the two failing unlocks that leave the mutex locked included.
* *Main* (`child_main`, `cancel_all_threads`): install signals, look at
  `father_said`, start the listener, leave on an order, interrupt the listener
  (SIGHUP reaches poll and accept, and System V semaphores but not pthread mutexes),
  broadcast once, join the workers round by round; only an immediate shutdown has a timeout.
* *Environment*: the monitor raises `father_said` and then signals; it repeats an
  immediate order; clients connect; other children hold the accept mutex.

What a request does on the wire is in `IcapRequest`; here it is served, with or
without keep-alive, or nothing could be read. Command and start-up hooks are left out.

### Monitor

The monitor's control points are the stages of `start_server`'s loop: decide
(`ReplaceChild`/`RetireChild`, `AddChild`, `StopSpareChild`, `LeaveChildren`), reap
(`check_for_exited_childs`, one action per `waitpid`), reconfigure, and after the
loop `send_term_to_childs` and `wait_childs_to_exit` in turn (`kill_all_childs`).
`childs[g]` is the table of generation `g`; `cur` and `old` are the two queue
pointers. A child is forked, registers in the queue it has inherited, is deaf to
SIGTERM until `child_main`, runs, ends or crashes and stays a zombie until
reaped; then its process id may be used again. Its threads are abstracted to
"serves a request" and "ends after an order". `usedservers` and `idle` change at
any time, so the monitor's look at them is a choice. Counters of started and
closed processes are left out; the merge of a dead child's statistics is in `Stats`.

### IcapRequest

Bodies are sequences of numbered units of data, so that loss, duplication and
reordering show. `wire` holds what the client has sent, `read` what is in
`pstrblock_read`, `req` the fields of `ci_request_t` that decide the control flow,
`loc` the locals of `get_send_body`, `got`/`made` what the service has taken and given,
`resp` what was written.

* `ReadRequest`, `options_responce`, `read_preview_data_*`, `PreviewHandler`
  (`do_request_preview` and `do_fake_preview` with Allow 204/206, `FAKE_ALLOW204`,
  `ALLOW204_AS_200OK_ZERO_ENCAPS`).
* `get_send_body` in four actions per round: wait for the socket (`gsb_Wait`: read
  and/or write any amount, or time out), `gsb_Update` (next part to send, parse
  chunks), `gsb_ServiceIo` (one call of the service: it takes a prefix of the
  pending data, gives data or ends, may unlock), `gsb_Round` (format a chunk,
  what to wait for, go on or stop).
* `EndOfDataHandler`, `rest_*` (`send_remaining_response`), `EndRequest` (log and
  statistics left out; keep-alive or close; `keepalive_request` keeps what was read only
  with `PIPELINING`). The options in force, `conf`, are one of the constant `Configurations`.

The service is external: a handler answers what `service.h` allows.
`EagerServices` adds what the two example services really do outside preview:
`srv_echo` unlocks and answers 204, `srv_ex206` answers 206. The echo service of the server
itself (`mod_echo_io` on a ring buffer) is modelled with the buffer's size and the
limit of `ci_ring_buf_write_direct`; a parse of several chunks takes any number of
the units read. `PipeliningClient` lets a client send a request before it has the
last response; the checked runs do not use it, for with the documented default `Pipelining on`
such a client is served wrongly (section 6), and the comments on `InSync` and `BodyInOrder`
name it as their premise. A wait may always
time out, which also stands for a peer that has gone and for `CHILD_HALT`.

### RingBuffer and Bodies

`ring` is a `ci_ring_buf_t` with its memory, positions as offsets. The calls
`ci_ring_buf_write` and `ci_ring_buf_read` copy one block or two; `WriteBlock` and
`ReadBlock` are a user of `ci_ring_buf_write_direct`/`produce` and
`ci_ring_buf_read_direct`/`consume`. `Contents` maps the memory between the positions
to the queue of `Fifo`, whose steps also say that a call that can move data moves some.

`body` is one body of any kind; `data` is its memory or file by position, and units
are numbered as offered, so `given` can be compared with `accepted`. Each call of the
three kinds is an action: writes with the failures of memory, temporary file and
`write`, reads, truncation, reset, lock and unlock, the map of a complete file as a
read-only buffer. Assumed of the services, as the asserts of the code demand: a body is
locked before it is read, memory is not unlocked past its end, and a file in ring mode is
not truncated or mapped. Left out: the size of a membuf's memory, failing reads,
terminating zeros, attributes, destruction. The variable `damaged` marks the two ways in
which the code itself loses or repeats data (section 6).

### Caches, mutexes, memory and containers

* `LocalCache`: the queue of entries from the oldest to the newest and the hash
  chains. A call under the cache's mutex is one action, except that
  `ci_local_cache_update` reads the clock before it locks (`LocalUpdateStart`);
  `lcLatest` records what was stored last. The failures of an update (no entry old enough,
  copying the key or the value) are there.
* `SharedCache`: slots of one or more pages. An update walks from the home of its
  key to the first slot it may use (`Target`); writing a slot is two actions, so that a
  child can die inside and leave `Torn` bytes. The father creates, children attach, leave and die.
* `ProcMutex`: per scheme, `ci_proc_mutex_lock` with EINTR, unlock, and what the system
  does when a process dies (SEM_UNDO, file locks released, owner of a robust mutex
  dead). `RepairTry` and `RepairRebuild` are the monitor's walk through the table after a
  crash, which initialises again a mutex that was free, whoever has it by then.
* `MemPools`: a block is a pool's or malloc's, with its class and its real size; the
  arithmetic of classes, alignment and packed pieces is the code's. Only a pool's block has the
  header that freeing into a pool writes; `trampled` notes that it was written in front of another. A pool gives the
  block that was freed last. A serial allocator's request fails when no chunk can be built.
* `Containers`: list nodes and `trash` are the code's pointers, so that a cursor that
  points to a removed node shows; `Vector` and `Array` keep index and contents in one
  memory that grows from both ends, with sizes aligned as the pack allocator aligns them. The ghost
  sequence beside each is what it stands for.

### Statistics, commands and reports

* `Stats`: names registered at each reading of a configuration, a block per slot of the
  children queue, `ci_stat_attach_mem`, counting up, down and setting by the child (modulo
  `StatMod`), merge into the history by `remove_child`, and `fill_queue_statistics` that sums block
  after block without a lock. A failing assertion ends the monitor (`aborted`) or the child that
  builds the page ("dead").
* `Histograms`: kinds linear, logarithmic, enumerated, custom. The code's `double`
  quotients and logarithms are exact integer comparisons here, with the choice of the integer
  below where the result is exact, as the computed one may be just under it (four bins over 47
  values: 47 is counted in the third). A starting child clears the bins.
* `Snapshots`: the slots of the last seconds and minutes, the windows of the reports,
  and the mean times per request that `process_request` keeps. `SIXTY`,
  `HourSlots` and `BACKSECS` stand for the code's 60 seconds, 60 slots of minutes and 5 seconds back.
* `Commands`: a request first searches the queue without the lock and then pushes; the
  main loop moves an iterator over the same list, executes due requests outside the lock,
  and an action may schedule again. The list and its trash are the sequences of their nodes,
  and `it->next` (`NextOf`) is the next node of the list that a node is in now: a removed node
  leads into the trash.

### Configuration, modules, ports, access control

* `Configuration`: directives with stored defaults, services and aliases with the table
  that leads from `name.Parameter` to a service, as pointers into arrays that grow
  (`STEP`). `system_reconfigure` is the reset and the second reading in the code's order.
* `Modules`: lists of modules per kind, the lists the configuration selects, the table of
  authentication methods; a module carries the number of its load, so that a selection that
  has survived a release is seen. `AuthMethod x none` ends the process.
* `Ports`: configured ports, open sockets of the monitor and of the children that were
  forked before, kept sockets over a reconfiguration, certificates. A TLS port whose address
  is taken gets no socket or the number of one that OpenSSL has closed.
* `Access` and `LookupTables`: the lines of a configuration build acls and lists; a
  connection is checked by `client_access`, on a request that has been reset and has only
  addresses and the time, and the request that is then read by `icap_access` with
  authentication and groups from tables. `Decision` says what the lines mean, without
  any of the code's structures.

### Messages

* `Headers`: the text of a list, character by character because the property is about
  line ends, with the index of lines; add, remove, append, pack and unpack.
* `Entities`: the request line, the `Encapsulated` header, the parts a message has, what a
  service creates and removes, the trash from which parts are taken again, and several
  requests on one structure.
* `Connections`: the object, its descriptor and the two directions as numbered units; the
  waits of read and write loops, time-outs, signals, peers that close or reset, what the TLS
  variants do differently (when they wait, and which errors they take for no data), accept, connect, hard and lingering close, and
  the second close of a worker after `CI_NO_STATUS`. The descriptor may be given to another
  thread once it is closed.
* `Templates`: the cache with `locked` and `must_free`, used while the file is
  rewritten. `Logging`: formats, log files, `relog` in the main thread. `LdapPool`: pools,
  their limits, the wait on their condition, retries, the command that closes idle
  connections, the answers cached.
* `IcapClient`: preview, `100` and early answers, chunks cut by buffer and socket, reuse of
  the connection, with the server as the peer of an ICAP conversation.

## 3. Runs

| run | instance | shows |
|---|---|---|
| `child_safety` | 1 worker, 3 connections, 2 requests each, spurious wake-ups, failing calls, other children | `TypeOK`, `ConnOwnedOnce`, `UsedServersExact`, `AcceptMutexHeld`, `WorkersJoined` |
| `child_live` | 1 worker, 2 connections | `QueueDrains`, `ListenerWoken`, `FatherHeard`, `ImmediateStops` |
| `child_graceful_stops` | 1 worker, 1 connection | `GracefulStops` is violated |
| `monitor_reconfigure` | 3 process ids, 1 server (2 slots), 1 reconfiguration, 1 crash, failures | `SlotsAreChildren`, `DestroyedUnused` |
| `monitor_live` | 2 process ids, retirement after 1 request, 1 crash | `ChildrenEnd`, `ChildrenReplaced` |
| `monitor_stop` | 2 process ids, no crash | `StopEnds` is violated |
| `monitor_old_queue` | 2 process ids, 1 reconfiguration | `OldQueueReleased` is violated |
| `request` | 2 requests out of 9 kinds, bodies of 1 to 3 units, chunks and ring of 2; the default options (`ALLOW204_AS_200OK_ZERO_ENCAPS` off, `FAKE_ALLOW204` and `PIPELINING` on) and each of them changed | `InSync`, `OneResponse`, `BodyInOrder`, `ResponseComplete`, `RequestEnds` |
| `request_one_response` | 1 request, eager services | `OneResponse` is violated |
| `request_end_of_data` | 1 request, eager services | `EndOfDataAfterBody` is violated |
| `storage` | ring of 3 units, calls of up to 4; bodies of up to 5 units, calls of up to 3, memory of 2, file limit of 3, failures; cache of 2 entries, 2 keys in one chain, 2 threads; 2 mutexes, 3 threads of 2 processes, every scheme; 3 blocks, 4 pieces of real sizes; lists of up to 3 nodes, vectors and arrays of 19 units with pointers of 2 and items of 1 and 3; up to 3 headers out of 3 lines; 2 messages out of 7, 6 request lines, 2 edits; 3 threads at 2 templates of 2 languages; 2 workers, 1 log file, formats and files read twice; 2 threads at 2 LDAP pools with 2 connections; a connection with 3 units and room for 1 | `RingIsFifo`, `GivenInOrder`, `LocalSearchIsLatest`, `MutexSound`, `MemoryIsOwn`, `ContainersAreSequences`, `HeadersAreLines`, `MessageIsOfRequest`, `TemplatesHeld`, `LogsToOpenFiles`, `PoolsExact`, `TransfersExact` |
| `services` | 2 processes and 2 keys with one home on a page of 2 slots; 2 slots of children, 2 children and 2 updates over a reconfiguration, 2 counters modulo 4; 9 histograms; 1 command in a queue of 3; a "minute" of 4 seconds and an "hour" of 2 minutes over 7 seconds; 2 services, 2 aliases, 4 lines read twice; configurations of up to 4 out of 17 access lines, read twice, 10 requests; 5 libraries; 8 port lines, 2 ports; client with bodies of 2 units, 4 previews, 2 requests | `SharedHitIsLatest`, `StatsConserved`, `BinsTellValues`, `RequestsRunOnce`, `ReportsTellTheTruth`, `ReconfiguredAsFresh`, `AccessAsWritten`, `ClientRelays`, `SelectedAreLoaded`, `PortsAsConfigured` |

What the properties of the last two runs say:

* `RingIsFifo`, `GivenInOrder`: buffers and bodies give what was accepted, once and in
  order, and announce the end only after all of it.
* `LocalSearchIsLatest`, `SharedHitIsLatest`: a search finds the value stored last within its time
  to live, and never an older one that was left behind; in the shared cache also over deaths of
  children, except on a page on which one died while it wrote.
* `MutexSound`: exclusion, and no mutex stays locked without a living owner (posix
  semaphores cannot promise the second; mutexes that the monitor has rebuilt cannot promise
  the first).
* `MemoryIsOwn`: a block is as large as asked for and nobody else has any of it, until a block
  of malloc that realloc has shrunk is freed; only allocators in a block of malloc ask for ever.
  `ContainersAreSequences`: list, vector and array hold what was added and not removed,
  in order, and a cursor stays on it; exceptions are a list whose stale `last` has been used and
  an index with an addition behind one that failed.
* `HeadersAreLines`: whatever the order of calls, index and packed text agree.
  `MessageIsOfRequest`: nobody gets headers of an earlier request, and the `Encapsulated`
  header of a response tells where its parts are.
* `TransfersExact`: units cross a connection once and in order; no close hits a descriptor of
  another thread; no descriptor is lost.
* `TemplatesHeld`, `LogsToOpenFiles`, `PoolsExact`: what a thread uses without the lock is neither
  freed nor replaced; files, slots and connections are not lost.
* `StatsConserved`: nothing is lost or counted twice when children end and slots are reused,
  and an undisturbed report counts exactly what came before it read a block; two named cases
  end the monitor by an assertion.
  `BinsTellValues`, `ReportsTellTheTruth`: bins and windows show what was counted.
* `RequestsRunOnce`: a scheduled command runs once.
* `ReconfiguredAsFresh`, `SelectedAreLoaded`, `PortsAsConfigured`: after a
  reconfiguration the server has the parameters, modules and sockets of a fresh start
  with that file, and kept sockets keep their waiting connections.
* `AccessAsWritten`: the decision is that of the first line that fits.
* `ClientRelays`: server and destination get exactly the body and the response, and client
  and server never wait for each other.

Each comment on a property names the exceptions it makes; they are behaviours of the
code, listed in section 6.

Why the bounds are enough. *Child*: with one worker the queue has two places
(`2 * servers`), so three connections fill it and one is refused, and every
lost wake-up needs one worker, the listener and one signal only. Interleavings of
several workers are covered by the proofs, which hold for any number. Two requests
per connection take the keep-alive loop past `MAX_KEEPALIVE_REQUESTS` = 1. A
shutdown timeout of one round reaches both ends of `cancel_all_threads`.
*Monitor*: one server has two slots, which fill when a child is replaced; three
process ids are an old child, a new one and one more that finds no slot; process ids
are reused in all runs. Since a second reconfiguration is refused while the old
queue exists, one reconfiguration has all overlaps of two generations. *Request*:
the kinds are OPTIONS without and with a body, no body, long body, Allow 204/206, partial preview, whole
body in preview, empty preview and a broken chunk; a body of three units is longer
than chunk and ring, so all of them fill; a second request makes keep-alive,
`ci_request_reset` and leftovers in the read buffer matter. *Bodies and rings*:
calls larger than the ring fill it, empty it and wrap at every position; a file in ring
mode passes its limit, and one unit more than the memory moves a cached file to its
temporary file at every fill. *Caches*: two keys in one chain (or with one home) and as
many entries make every update meet the other key; the clock runs past the time to live, so that
entries expire while an update that read the clock earlier waits. *Mutexes*: two
threads of a process tell apart the schemes that work between processes only, a third
is in another process. *Memory*: sizes lie on both sides of the limits of classes and of
chunks, malloc's included; four pieces fill a packed memory from both ends. *Connections*: room for
one unit makes writes short, reads of two cross their boundaries. *Templates, LDAP*: the
number of threads exceeds the slots (connections) by one. *Statistics*: two slots, so that
a child's place is reused while the other counts; two counters, so that one comes with a
reconfiguration and meets the assertion of section 6. *Reports*: the run is longer than the
"minute" and, as it starts at a minute's last second, enters the third minute of an "hour" of
two, so that slots of both kinds are used again. *Configurations*: two readings are one
reconfiguration; a third starts from the same kind of state. *Access*: four lines are two acls
and two list entries, the least in which order, negation and a redefined acl meet.

Deadlock is checked in `child_safety` (where a last state exists only because other
children and clients go on), in `child_graceful_stops` and in the request runs
(a closed connection stutters explicitly). It is not in the others: an ended process
really stops, and the parts of the last two runs end at their bounds.

### Fairness

* `ChildServer!Fairness`: each thread that can run does (weak fairness per worker,
  listener, main thread); requests end because every network wait has a time-out
  (`RequestEnds` is the same statement in `IcapRequest`; the loop of `ci_read` and `ci_write`
  on a connection that was reset, section 6, is the exception that it leaves out); the wait for the listener
  is bounded; signals are delivered; the monitor completes and repeats an immediate
  order (`send_term_to_childs` loops). Nothing makes clients connect, another child
  release the mutex, or a condition wake spuriously.
* `Monitor!Fairness`: the monitor runs; a child comes up, handles signals, and ends
  after an *immediate* order, which is `ImmediateStops` of `ChildServer`. That a child
  ends after a graceful order is not assumed, because it need not (finding 1); where
  it matters it is a premise, `GracefulExits`, of the property (`ChildrenReplaced`)
  or of the specification (`PatientSpec`, for the two violations, which so do not
  rest on finding 1).
* `IcapRequest`: weak fairness of the worker. A socket reported ready gives or
  takes something, and waits end by time-out.

## 4. Proofs

`ChildServerProofs` proves, for any finite non-empty set of workers, any
connections, limits and timeouts (`ChildAssumption`), with spurious wake-ups and
failing calls:

* `TypeCorrect`: `Spec => []TypeOK`. `TypeOK` alone is not inductive: `put_to_queue`
  appends `lcon`, which must be a connection. `TypeInv` adds `PutHolds` (at `put` the
  listener holds one).
* `AcceptMutexCorrect`: `AcceptMutexHeld` with the fact that no listener
  outlives its process (`MutexInv`).
* `UsedServersCorrect`: from typing; a step moves at most one worker in or out of
  the set that `usedservers` counts, and the cardinality follows from the theorems on finite sets.
* `WorkersJoinedCorrect`: needs `Joined` (joined workers have ended, and the main
  thread leaves the loop only when all are joined or the time is out) and
  `HolderPcs` (a thread has a connection only at the control points between taking and
  closing it), both inductive given typing.
* `ConnOwnedCorrect`: `ConnOwnedOnce` is inductive given typing and `HolderPcs`. Each
  step hands a connection from the network to the listener, from there to the queue,
  to a worker and to `closed`; lemmas on `Head`, `Tail` and `Append` give the queue's part.

`BodyProofs` proves, for any size greater than 0, any data and any lengths of calls
(`RingAssumption`):

* `RingWellFormed`: positions stay in the memory, a full ring has equal positions, and
  what lies between the positions has been written (`RingOK`, inductive).
* `RingFifo`: `RingSpec => RingIsFifo`, the refinement of `Fifo`. Two lemmas carry it: a
  block put into the space that `ci_ring_buf_write_direct` offers is appended to the
  contents (`PutBlockAppends`), and what `ci_ring_buf_consume` drops is the first part of
  them (`ConsumeDrops`), each by the four relative places of the positions. A call is one
  block or two, joined by the associativity of concatenation; that it moves something
  follows from the length of the block offered (`DirectBounds`).
* `BodiesGiveInOrder`: `BodySpec => []GivenInOrder`, for any memory limit, file limit and
  lengths of calls, with and without failing I/O. The invariant `BodyOK` says what a body
  holds: as long as it is no ring, its data are what was accepted and its positions the
  lengths of what was accepted and given (`HoldsFlat`); a ring fills its file, and the units
  accepted and not given lie behind the reader and, past the limit, at the beginning
  (`HoldsRing`). It also says which bodies can be damaged (a cached file on disk, a ring) and
  keeps the asserted orders of the positions (`PositionsOK`). That a write into a ring leaves the
  unread units alone, and that a reader goes on where it was after a wrap, are the
  lemmas `PlacesWritten` and `PlacesRead`.

`MonitorProofs` proves, for any finite set of process ids and any number of slots, threads,
reconfigurations and crashes (`MonitorAssumption`):

* `SlotsOfChildren`: `Spec => []SlotsAreChildren`. The property is not inductive: a fork
  has no slot yet, a reap empties one, and process ids come back. `MonInv` has the types,
  that the tables of generations to come are empty (`FutureEmpty`), that a used slot of a queue
  in use names a registered child of that generation that was not reaped (`SlotsNameChildren`), that no
  child has two slots (`OneSlot`), and that every registered child has one (`LivingHaveSlots`).
* `OldQueueUnused`: the action property `DestroyedUnused`, from the same invariant.

`IcapRequestProofs` proves, for any sequence of requests, previews, options and buffer sizes:

* `RequestTypes`: `Spec => []TypeOK`, which includes that the echo buffer and a chunk stay
  within their memory. One lemma per handler; the helper operators (`Responded`,
  `update_send_status`, `format_body_chunk`) have lemmas that say which fields they leave alone.
* `OneResponseEach`: `EagerServices = FALSE => (Spec => []OneResponse)`. What was written
  says little about what may be written next, so the invariant `Phases` relates `resp` and
  the block that waits to be sent to `req.status` and the control point: what is sent and what
  is pending, taken together, is in order, and each status of `update_send_status` bounds the
  rank of the last element. The premise is needed: with services that unlock the response
  and answer 204 outside preview the property is false (`request_one_response`, finding 4).
* `ConnectionInSync` and `BodiesInOrder`: `InSync` and `BodyInOrder`, for any requests, any number
  of them and every way in which reads and `parse_chunk_data` cut the stream, from one invariant,
  `Stream`; both with `PIPELINING` on, `InSync` after every request but an OPTIONS request with a body, which
  nothing reads (then `OffBoundary` says that what is left does not begin with a header). `Stream` says, at every control point, what the bytes not parsed yet (`read \o wire`) are: the
  rest of the preview (`AtReadPreview`), nothing (`AtPreview` after a preview), the rest of the body from the
  unit that the service sees next (`InBody`, also while the client still holds it back for a
  "100 Continue"), and behind it nothing or the first part of the next request (`Unread`); between two
  requests nothing of the last one is left, unless it failed, and then what is left does not begin with a
  header (`Boundary`). Data that are taken or pending are the first units of the body (`InOrder`);
  the wait for a read only comes with nothing pending, which is why moving the buffer loses nothing.
  `ParseRest` says what one call of `parse_chunk_data` does with such a stream. The premises
  are needed: a 206 outside preview leaves a body unread (`EagerServices`), and a preview drops
  what a pipelining client has sent behind it (section 6).
* `ResponsesComplete`: `EagerServices = FALSE => (Spec => []ResponseComplete)`. That a request which
  ends with `CI_OK` was answered to the end depends on every step before it, so the invariant
  `Complete`, on top of `TypeOK` and `Phases`, says how far the response has got: what is written and
  the block to be written hold exactly what `service_io` has given (`DataIs`), each status of
  `update_send_status` fixes the last element that was formatted (`Answering`: a head, a last chunk, a
  trailer, or a final status line), a body that is only parsed has a final status line before it, and no block
  is left when the request has ended well. `Phases` is needed where a handler answers by itself: nothing
  was formatted before.

`SharingProofs` proves, for any threads, processes, slots, keys and pages:

* `MutexesSound`: `MutexSound` for the four schemes of mutexes. The invariant says
  that the dead are outside, that whoever is inside a mutex that was not rebuilt owns it
  (`InsideOwns`), that an owner is inside or dead (`OwnerInside`), and that in the file scheme the
  pthread mutex of the process keeps its other threads out (`FileScheme`).
* `TemplatesAreHeld`: `TemplatesHeld`, which says that the lock count is the number of users and
  that a user's text and language are its slot's, is inductive with the types and `ThreadHolds`
  (a thread that stores, uses or releases has a text, a language and a slot). The counts
  follow from cardinalities in steps of one.
* `SharedHitsAreLatest`: `SharedHitIsLatest`; the invariant says that
  a writer has the mutex of its page and writes at home if its key is there (`Writers`), that an
  entry's recorded hash is its position (`HashIsPosition`), and that a key found at its home has
  the value stored last, or is being written, or was left half-written by a child that died
  (`HomesHoldLatest`).

* `ScheduledRunOnce`: `CommandsSpec => []RequestsRunOnce`, for any threads, commands, times and nodes. The
  counts balance only if the loop and the searches stay where they belong, so `CmdInv` says that
  a node is in the queue or in the trash, once, and was allocated (`NodesOnce`), that the loop's cursor
  and the entry whose action runs are in the queue although other threads push and nodes are used
  again (`LoopInQueue`), and that a search without the lock does not leave the two lists
  (`SearchesLinked`). `FindsEqual` says that `ci_list_remove` finds an entry to take out, which need not be
  the executed one but equals it.

`DescriptorProofs` proves:

* `LogFilesStayOpen`: `LogsToOpenFiles`, for any workers, log files and formats. The invariant
  says who has each lock (`LocksHeld`), that whoever logs or reopens is at a file that there is
  (`AtFiles`), that no two log files have one FILE (`FilesDiffer`), and that the open FILEs
  are exactly theirs (`FilesOpen`).
* `ConnectionsExact`: `TransfersExact`, for any sizes and amounts of data. `Descriptor` says
  when the object's descriptor is its own (not after a lingering close, which leaves it in the
  object), and `Written` that what a write still has follows what was sent, and that
  something is left over only after a failure.

`PoolProofs` proves `CacheSearchesLatest`: `Items > 1 => (LocalCacheSpec => []LocalSearchIsLatest)`,
for any threads, keys, hash function and times. The order of the queue is the order in which
values were stored, whatever the times they carry; the chains have the reverse order
(`ChainsSorted`), so the first entry found for a key is the newest, and the newest has the value
stored last (`NewestIsLatest`). An entry that is reused is the oldest of all, hence the last
one of its key, and is as old as the time to live. A cache of one entry is excluded, for its second
update reads through a null pointer (section 6).

It also proves `LdapPoolsExact`: `LdapSpec => []PoolsExact`, for any finite set of threads, any
uris, keys, pools and limits. The property says when a lonely thread may wait, which a step of
another thread can spoil, so the invariant `LdInv` says more: nobody searches before the
configuration is read (`Reading`); a connection that a thread has is bound, nobody else's,
neither idle nor about to be closed, and the used ones of a pool are exactly those some thread
serves (`HeldOnce`); an idle connection is bound and idle once (`IdleOnce`); a pool counts what
it has (`PoolCounts`); and, while nothing was missed, a pool with a thread that waits has room for no
more connections than there are threads woken or about to signal, the idle ones counted too if
the thread would take one (`Awaited`). The last one is what makes one signal per release
enough. `OneThreadInv` reduces a step of one thread to what it does to its pool's counters.

The third is `MemoryOwned`: `MemPoolsSpec => []MemoryIsOwn`, for any numbers and sizes of blocks,
pieces and chunks. `PoolIsClass` shows that the tables and shifts
of `mem.c` find the smallest class that is large enough; the real size is then monotone and its own
real size (`RealSizes`), which is what lets realloc shrink a block, and free return it to a smaller
pool, without a block in a list that is too small for it. `HeadersOK` says which blocks have a pool's
header: those a pool has allocated, and they go back to a pool; one of malloc goes to a pool only
after realloc has shrunk one, which is the exception the property names. For the serial allocator
the invariant adds that the further chunks all have one size, the first one's unless that is a block
of malloc (`ChunkStable`), and that there is a second chunk too many only while a request that fits
into it is served, or one that none will hold (`ChunksFew`, `NeverHeld`); for the pack allocator, that pieces lie before the front or behind the rear.

`ProofLemmas` has the least element of a set of numbers, from the library's well-foundedness of
finite subsets: the provers cannot use its induction theorems, and "the first that matches" needs
it. Constants get assumptions only where the code has them (sizes are positive numbers, sets
of workers are finite, a name for "none" is none of the values); TLC evaluates them in the runs.

Only model-checked: all liveness (fairness and `ENABLED` are out of the prover's
reach) and the violations; what recursive definitions and folds compute over whole
inputs, which needs induction over data (`Headers`, `Histograms`, `Access`, `LookupTables`,
`Stats`, `Ports`, `Modules`, `Entities`, `IcapClient`, the chains of `Containers`); and, not proved
yet, `ReconfiguredAsFresh` and `ReportsTellTheTruth`.

## 5. Findings

Each is a run with the expected result "violation" and quotes what a comment or
document says.

1. `child_graceful_stops`: the broadcast that ends a graceful shutdown may come
   between a worker's last test and its wait; the child then waits until the monitor
   orders an immediate stop.
2. `monitor_stop`: `wait_childs_to_exit` looks only at children that have noted
   IMMEDIATELY; one that has ended otherwise keeps its slot and the loop never ends.
3. `monitor_old_queue`: a child forked before and registered after a reconfiguration
   is never told to stop, and later reconfigurations are ignored.
4. `request_one_response`: a 204 outside preview from a service that has unlocked the
   response is followed by a second response header.
5. `request_end_of_data`: a 206 outside preview skips the body; the end-of-data handler
   runs and the connection is kept alive with the body unread.

## 6. Seen while reading, not checked as a property

Where a module makes one of these an exception of its property, the comment on the
property says so.

Processes and threads:

* The listener uses `put_to_queue`'s result (0 or 1) as the number of queued jobs.
* When `ci_proc_mutex_unlock` fails for good the listener ends and leaves the accept
  mutex locked (`mpmt_server.c:839`, `:872`); no child accepts until this one, which then
  stops gracefully, has ended.
* The keep-alive limit admits one request more than configured.
* A connection accepted while the workers leave a graceful shutdown is queued for
  nobody and closed at exit; an immediate order may be overwritten by the graceful one
  that follows the listener's death. `cancel_all_threads` gives up after its timeout and
  the exit frees what running workers use (`mpmt_server.c:286`).
* `exit_status` is not reset between children reaped in one round, so those after a
  crashed one count as crashed; forked children that have not registered are not
  counted against `MaxServers`; a second child may be retired before the first has
  noted its order; if the new queue cannot be created, `kill_all_childs` gets NULL.
* After a crash the monitor initialises again a pthread mutex that was free when it tried
  it, also when a child has taken it meanwhile (`proc_mutex.c:485-491`).
* A worker closes a connection twice after `CI_NO_STATUS`; this is harmless because
  `ci_connection_hard_close` resets the descriptor (`mpmt_server.c:641`, `:680`).

Requests and messages:

* A request pipelined behind a body may be parsed as a chunk, and behind a preview
  it is dropped; `get_send_body(req, 1)` that fails keeps keep-alive; a wait that times out
  with the whole body received lets the end-of-data handler run on a part of it; a
  service that gives 0 bytes in `send_remaining_response` ends the response without
  its last chunk; the body of an OPTIONS request is not read and is taken for the next request; with
  `Pipelining off` what was read behind the last chunk, the next request included, is dropped
  (`request.c:173`, `:219`); a response without body that `get_send_body` sends early gets trailers
  that its header did not announce (`request.c:754`, `:899`).
* An echo of a body larger than the echo buffer may be cut, in a complete 200 response.
* An empty header value gets the CR of the packed line (`header.c:364`); `ci_headers_setsize`
  moves the buffer without the index (`:147`); a second `Encapsulated` header overwrites the
  parts of the first, and `num > 5` admits one part more than the array takes; released request headers are
  found in the trash (`simple_api.c`), and a REQMOD answered with a created response adds
  `Via` to them; `ci_request_set_log_str` writes at `[size]` (`request_common.c:460`).
* Client: pieces of a preview overwrite each other (`client.c:833-840`), a source that
  gives 0 bytes ends the preview, a destination that takes a part is given the same start
  again, a 200 instead of 100 after a preview is read without its body, and a 204 that comes
  while the body is being sent ends the request with the rest of it unsent (`client.c:727`).
* Network: `ci_read` and `ci_write` loop for ever on a plain connection that was reset
  during a wait, because the error result has the retry bit (`os/unix/net_io.c:318`, `:349`);
  `ci_connection_read_tls` reads again only after a timeout (`net_io_ssl.c:641`), and
  `ci_connection_write_tls` returns the bytes of the last piece (`:674`); a TLS connect waits
  again after a timeout; a TLS handshake blocks the listener that holds the accept
  mutex (`:763`); a TLS end of stream may count as "nothing yet" by a stale errno
  (`:692-708`); a failed TLS connect leaks its BIO (`net_io.c:335`); a lingering close of a
  plain connection leaves the descriptor in the object.
* The web server sends an empty page on a kept connection without a length (`http_server.c:128`).

Storage:

* A simple file with a limit that enters ring mode while the reader is at its first byte
  stores nothing; a reader that then reaches the limit reads the whole file again as new
  data. A failed or short write to the file of a cached file counts as done. Both are
  marked by `damaged` in `Bodies`.
* `ci_membuf_write` and `ci_cached_file_write` note the end of the data although the call
  that brings it fails; `ci_simple_file_truncate` to 0 does nothing.
* A local cache with one entry loses its queue (`cache.c:371`). The size check of the shared
  cache forgets one byte (`shared_cache.c:279`); a child that has not attached yet finds the
  cache destroyed by its father (`:125`, `:351`).
* A malloc block that realloc has shrunk is freed into a pool, whose header overwrites what is in
  front of it (`mem.c:329`, `:355`, `:968`); a serial allocator in a malloc block, as that of
  `cfg_lib.c:41`, asks for ever for a piece that only its empty first chunk holds (`:573`); `ci_buffer_alloc(0)` has
  the index -1 (`:221`).
* A failed add keeps its place in the index (`array.c:558`, `:133`), so that one that succeeds
  before a pop leaves a hole in it; `ci_list_remove` of the last item leaves `last` on it
  (`:938-1003`), and a push_back after it, as `memcached.c:289`, links a new item to the removed one.
* The cache of templates never evicts, and the decision of one releaser to free a template is
  overwritten by that of another (`txtTemplate.c:167`).
* LDAP: three events tell no waiting thread that it may go on (`ldap_module.c:302-305`,
  `:408-420`); a pool without a user is compared by `strcmp` with NULL (`:197`).

Statistics, commands, logs:

* A merge after a reconfiguration that added counters fails an assertion (`stats.c:498`),
  against the comment above it; a child that ends before it attaches its block makes the block
  of the one before count twice, or, in a place that is used for the first time, ends the monitor
  (`proc_threads_queues.c:344`) and any child that builds a page meanwhile (`info.c:346`);
  `ID > stats_count` admits one too many (`:283`); logarithmic histograms narrower than 2 to the
  number of bins less one fail an assertion (`:886`, `:910`); every child that starts clears the
  bins that all share, and not the counter beside them (`:614`, `proc_threads_queues.c:156`).
* The snapshot of a minute is always started again (`info.c:1529`); means divide by the number
  of children, which may be 0 (`:1503`).
* `commands_reset` at a reconfiguration drops the periodic command of the information
  service (`mpmt_server.c:1156`); the search without the lock ignores a request for one that
  has just run (`commands.c:235`); a clean-up handler that schedules a command deadlocks (`:309`).
* `disable_logs` is not reset at a reconfiguration (`log.c:97`); the check for a duplicate log
  file skips the last one; the server log is tested outside its lock (`:406`); `log_server` uses one
  `va_list` for several loggers.

Configuration:

* The tables of services and aliases point into arrays that are reallocated when they grow
  (`cfg_param.c:315`); an alias hides a later service's table (`:292`); `CI_TMPDIR` is not
  restored at a reconfiguration (`:665`).
* `AuthMethod x none` passes a NULL list (`module.c:511`); only 20 bytes of the table of
  methods are cleared (`:450`).
* A time acl without days never matches (`acl.c:360`, `:446`); an unparsable value of an acl is
  accepted (`:962`); the parameter of a second line of the same acl is ignored (`:943`); a negated acl
  passes the type check of `client_access` (`default_acl.c:138`), where `c-icap.conf.in:617`
  allows only `src`, `srvip` and `port`, and since nothing of the request has been read an
  acl of credentials or headers then never holds and one of methods sees `UNKNOWN`
  (`request.c:149`); of two rows with one key a
  `hash:` table answers the last and a `file:` table the first (`hash.c:126`).
* The result of opening a TLS port is ignored (`net_io_ssl.c:566`); a port that changes between
  ICAP and HTTP keeps its protocol (`port.c:40`, `:60`); a `TlsPort` line without options makes a
  plain port; a file without ports fails an assertion at a reconfiguration (`:79`).

## 7. Plan

What is left, in this order:

1. Theorems: `ClientRelays` of `IcapClient`, once its parser is stated without folds, as that of
   `IcapRequest` is; then `ReconfiguredAsFresh` and `ReportsTellTheTruth`.
2. An abstract child (fork, order, end) that `ChildServer` implements and `Monitor` uses.
3. `IcapClient` composed with `IcapRequest` instead of the server it has now; `Access` composed
   with `ChildServer`'s worker.
4. The web server's protocol; object pools and dynamic arrays.

## 8. Not modelled

* Shared memory segments (`os/unix/shared_mem.c`): four ways to ask the operating system for
  the same thing; `SharedCache`, `Stats`, `Monitor` and `ProcMutex` use them.
* The web server (`http_server.c`): one GET and one page that is ready, on the request
  engine's loop; its connection is `Connections`.
* Encodings, file types, text formats, regular expressions: sequential conversions on
  external libraries, without state to check.
* TLS options, certificates and contexts: OpenSSL's; what the server does with a TLS
  connection is in `Connections` and `Ports`.
* Debug output, syslog; wrappers of threads, time and files.
* Modules that adapt databases, memcached and interpreters; of the optional modules
  `shared_cache.c` and `ldap_module.c` are modelled.
* The Windows port, which the Unix build does not contain; example services, which are the
  external service of `IcapRequest`; client program, load generator and database tools.

Within modelled parts, `components` in `PROJECT.json` says what is left out: the setters of single
directives, digest authentication, the parsing of single data types, trailers and
URLs, page layout.
