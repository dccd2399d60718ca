# A TLA+ model of ananicy-cpp-ng

ananicy-cpp-ng is a daemon that learns of every process the kernel starts or
renames, looks up a rule for its name, and sets the priorities and the slice
the rule asks for. This directory holds a model of it in TLA+: one module per
component, TLC configurations that check them on small instances, and proofs
that TLAPS checks for instances of any size.

Paths below are relative to `src/src/ananicy-cpp-ng-v2.0.0/` unless they start
with `src/`. `PROJECT.json` maps each definition to its lines.

## 1. The system

### Components, their state and their operations

| component | source | state | operations |
|---|---|---|---|
| process queue, mutex build | `include/utility/synchronized_queue.hpp` | `m_queue`, mutex, condition variable | `push`, `poll`, `pop` |
| process queue, lock-free build (the default, `USE_EXPERIMENTAL_IMPL`) | `include/utility/atomic_queue/atomic_queue.h`, `synchronized_queue.hpp` | `head_`, `tail_`, a state and an element per slot | `push`, `pop`, `was_size`, `poll` |
| process listener (netlink) | `src/platform/linux/process.cpp`, `libananicycppng_netlink/` | the netlink program, `prev_pid`, `m_status`, the event thread | constructor (scan, subscribe), `start`, `handle_events`, restart, `full_scan`, `stop` |
| process listener (BPF, `USE_BPF_PROC_IMPL`) | `process.cpp`, `libananicycppng_bpf/` | the program and its perf buffer, `g_exiting`, the kernel side's two `prev_pid` | the same, with `handle_event` and the programs `handle_exec` and `handle_fork` |
| worker | `src/worker.cpp` | a thread, `processed_count` | `start`, `work`, `stop` |
| priorities | `src/platform/linux/priority.cpp` | none (the kernel's) | `set_priority`, `set_sched`, `set_io_priority`, `set_oom_score_adjust` |
| cgroups | `src/platform/linux/cgroups.cpp` | none (systemd's) | `add_pid_to_cgroup`, `create_cgroup`, `set_cpu_quota` |
| configuration | `src/config.cpp` | a map from key to text | `reload`, one reader per key |
| rules | `src/rules.cpp` | maps of rules, types and cgroups | loading, `get_rule`, `create_cgroups`, `show_*` |
| singleton lock | `src/platform/linux/singleton_process.cpp` | a named shared memory object, which outlives its creator | `try_create`, `remove`, `close_shm` |
| reload mailbox | `singleton_process.cpp` | a System V segment; the reader thread | `try_write`, `read_queue` |
| main, signal handler | `src/main.cpp`, `src/utils.cpp` | `m_need_exit`, a condition variable | start-up, the loop, the stop sequence, `on_signal` |
| command names | `process.cpp`, `process_info.cpp` | `exe_fail_count` | `get_command_from_pid` |
| argument parser | `src/utility/argument_parsing/` | the values of the arguments | `parse_args` |

The other parts (stand-alone monitors, BPF helpers, `sd_notify`, debugging
aids, tests, benchmarks) are listed in `PROJECT.json` with the reason each is
left out.

### How they interact

    kernel --events--> event thread --push--> queue --poll--> worker --calls--> kernel
       \--/proc--> scan (event thread, main) --push--^          \--D-Bus--> systemd
    signal --> InterruptHandler --> main loop --stop--> listener, then worker
    --reload --> segment --> reader thread --> Config::reload --(no lock)--> worker
    start --> shared memory object (refused when it exists)

The daemon has up to four threads: main, the event thread, the worker and the
reader of reload messages. Main and the event thread push processes; the worker
alone takes them. The reader thread and the worker share the configuration
without a lock. Other invocations reach the daemon through the two shared
memory objects, which survive crashes.

### What is hard here

* The queue: several producers, a wait with a deadline, wrap-around of the
  ring's counters, more producers than free slots, and a `poll` that tests and
  then pops without a deadline.
* The listener: the scan comes before the subscription, overruns lose events,
  failures of the socket are only partly noticed, and the stop races a restart.
* The stop: the order of two joins over a queue that blocks when it is full, a
  wait without a predicate, an inner loop that does not look at its stop token.
* Processes exec and exit between their report and each call made for them.
* Crashes leave the shared memory behind; removal is by name.
* The mailbox is plain memory: writes tear and race with the erasing, and an
  instance that stops reads it beside its successor.
* Main destroys its locals under threads that may still run, and removes the
  object that keeps a second daemon away before it stops the first.
* A process makes and ends threads while the worker goes through a list of
  them, and the last entry of the list decides what the call returns.
* Two threads count failures in one static without a lock.
* In the BPF build a stop reaches the event thread through two flags, one of
  which a restart resets.
* Parsing and merging are sequential, but full of cases: an option at the end
  of the line, an option as the value of an option, nulls in rules and types.

Each of these is listed under `hazards` in `PROJECT.json`, at its line, with
the properties that would notice it going wrong.

## 2. Modules

| module | models | correspondence |
|---|---|---|
| `ProcessFifo` | what the users of the queue rely on | an abstract FIFO queue: calls, answers, returns |
| `SyncQueue` | the mutex build | an action per step between lock operations: `Lock`, `Emplace`, `NotifyOne` of `push`; test, sleep, wake, last test, take, return of `poll` and `pop`; `wait_for` releases the mutex and sleeps in one step, spurious wake-ups included |
| `AtomicRing` | the default build | an action per atomic operation: `Claim` (`fetch_add` of `head_`), `BeginStore` and `EndStore` (the slot's state), the tests of `poll`, `TakeTicket`, `BeginLoad`, `EndLoad` |
| `ProcessListener` | netlink listener, scans, stop | the kernel (fork, exec, exit, socket buffer, overrun) is the environment; the event thread and main take a step per call that another thread or the kernel can come between |
| `RuleApplication` | worker, priorities, cgroups, configuration | `wpc` is the attribute the worker is about to set; each call succeeds, finds no process, is denied or fails, and the step includes what the code makes of the result; `AssignLine` is one line of a reload |
| `CommandName` | `get_command_from_pid` | a step per read of `/proc`, and the load and the store of `exe_fail_count++` apart; of the name, only which method finds it |
| `ThreadPriorities` | `set_priority`, `set_latency_nice`; extends `CommandName` with the threads of the process | `Open` is the listing, `Visit` one turn of the loop with the errno it leaves, `TestErrno` the result; the kernel clones, execs and ends threads in between |
| `SingletonLock` | singleton lock and the service manager | instances start, own the object, stop or crash; systemd starts its own again; the administrator may remove an orphan, which is all that the warning of the option is for (`main.cpp:57`) |
| `ReloadMailbox` | `--reload`; extends `SingletonLock` with a reader per instance | a message is two parts that are written and erased one at a time; each reader attaches, looks, sleeps, compares, reloads, erases; the actions of the lock say what becomes of the reader |
| `BpfListener` | the BPF build of the listener, with the programs in the kernel | as `ProcessListener`; the stop is four steps (`g_exiting`, `request_stop`, join, destroy), the restart five; using what was freed ends in "aborted" |
| `ArgParser` | `parse_args` | a step per element the loop looks at; an element is a word, a long option or a cluster of letters |
| `Rules` | loading of rule files, `get_rule`, what makes `create_cgroups` throw | a step per file and per line; a JSON object is a function, null and "no string" are values of their own |
| `Startup` | `main` up to the listener | composes `ArgParser` and `Rules` with the order of the requests, the configuration file (`conf_file`), the actions, the privilege and the shared memory object |
| `Daemon` | main from the creation of the object on, signal handler, event thread, worker, queue, reader, and the lifetime of main's locals | composes the threads: the queue is a counter with a capacity, an event is a number of processes to push; `destroyed` counts the locals main has destroyed, in their order; each way in which a thread ends the process is a step to "aborted" (`EarlySignal`, `HandleSignals`, `ScanThrows`, `Wait`, `EventFails`, `WorkerPoll`, `MayAbortIf`). `Lock` reads the whole as an instance of `SingletonLock` |

`MCRuleApplication` gives `RuleApplication` its rules and configurations, and
says which of its processes are mere bystanders;
`MCStartup` gives `Startup` its arguments, command lines and rule files.
The proofs are in `SyncQueueProofs`, `AtomicRingProofs`, `ProcessListenerProofs`,
`BpfListenerProofs`, `ThreadPrioritiesProofs`, `RulesProofs`,
`ReloadMailboxProofs` (with those of `SingletonLock`) and `DaemonProofs`.

Operators named `Mut...` are plausible bugs: each property of a passing run is
violated when one definition is replaced by the mutant `PROJECT.json` names.

### Abstractions

* A process is a pid and a name; a name is one of a small set. In the listeners
  the three ways in which the code finds a name are one read; `CommandName` has
  them, without the name.
* The threads of a process are told apart in `ThreadPriorities` only;
  `RuleApplication` takes from it that a call may end in "not found" although
  the process lives (`ApplyGone`).
* Undefined behaviour, such as a reload through a destroyed callback, is a
  choice between the end of the process and nothing visible (`MayAbortIf`).
* Memory is sequentially consistent in `AtomicRing`. The code uses acquire and
  release orders on the state of a slot and relaxed ones on the counters; that
  these are enough is not shown.
* In `AtomicRing` and `Daemon` the start-up scan fits in the queue (`ScanSize`,
  `Processes`). The code does not check it: with more than 32768 processes the
  constructor of the listener would wait for a consumer that does not exist yet.
* The queue of `ProcessListener` is the abstract one, so only the last name
  reported for each process is kept; `SyncQueue` implements that queue, and
  `AtomicRing` does until it is overfull.
* `missed`, `overtaken` and `overfull`, like the variables marked *history*, record what
  happened for the properties; no guard reads them.
* In `BpfListener` the scans of `--manual-scanning` are left out (they are in
  `ProcessListener`), so one thread pushes at a time and reading and pushing a
  process are one step. The kernel handles one event at a time: on two CPUs the
  unsynchronised statics could also lose an update. A poll may take any record,
  because the buffers of different CPUs are not ordered.
* In `Rules` a line is its two brackets, what stands before and after them, and
  the rule between; whether the rest is JSON is decided by what `clean_line`
  leaves of it. `RulesAsWritten` reads the lines without `clean_line`: a line
  tells of a program when it has its brackets and a name. Objects have no objects in them, as in the rule files, so
  `merge_patch` does not recurse. A `CPUQuota` that is no number counts as a
  string.
* In `Startup` the arguments no decision before the listener depends on
  (`--benchmark`, `--bpf-min-us`) are left out; in the model's alphabet `1`
  stands for the texts `stoull` accepts. A configuration file is missing, the
  default, or another one whose `check_freq` is a number or not.
* `recv` interrupted by a signal (EINTR) goes back to the test of the loop, as
  its timeout (EAGAIN) does, and is left out.

## 3. Runs

| run | instance | shows |
|---|---|---|
| `sync_queue` | 2 producers with 2 pushes, 2 readers that poll or pop | `FrontNeverEmpty`, `WakeupsCover`, `ImplementsFifo`, `Delivery`: two readers are the least that can steal from each other between a notification and the re-acquisition of the mutex |
| `ring` | 2 slots, 2 producers with 3 pushes, counters modulo 10 starting at 0 or 9 | with 3 and 4 tickets for 2 slots, producers meet in a slot; the counters wrap within the run. `SlotExclusive`, `NoLoss`, `NoEmptyWait`, `FifoWhileItFits`, `Delivery` |
| `listener` | 2 processes, 2 names, one event of socket buffer, one exec, one fault of four kinds, stops, both modes | the one-event buffer overruns on the second event; faults hit the first connection or a restart. `NoUseAfterDestroy`, `StopReturns`, `Detection`, `DetectionByScanning` |
| `rules` | 2 processes, of which one starts as a plain shell and one may exec, 3 names, none to two reports that wait at the start, a reload of one key, kernels with and without latency nice, 3 configurations | a process runs under two rules, is realtime or not, any call for it may fail, and the reports of both stand in the queue in any order. `LastRuleWins`, `LatniceSettled`, `AllHandled` |
| `mailbox` | 2 instances with a reader each (the service and one by hand), 1 client, 2 requests, 1 edit of the file, 1 end that skips the stop sequence, any leftover in the segment, an attach that may fail | a late instance and its successor, on one object and in one segment, with a client between them. `AtMostOneOwner`, `NoUnaskedReload`, `BackUnlessOrphaned`, `IdleRequestServed` |
| `daemon` | queue of 2, scans of 2, each set of options, benchmark count 0 or 3, 2 signals, odd rules or not, any `check_freq` after each reload | main and the event thread can both wait for room; a second signal meets the destruction; any thread may end the process where its code can. `NobodyLeftBehind`, `Outlived`, `ShutsDown`, `ImplementsLock` |
| `procfs` | 2 callers, a method given up after 2 failures, 3 denials, 3 threads born at any time | lost updates and lost resets of the count; threads that end, exec and are made while the loop runs. `OnlyDenialsCount`, `NoThreadSkipped`, `GoneForAReason` |
| `startup` | command lines of up to two of the elements, or three of a few of them (`MCStartup`); four rule directories, each set of enabled kinds, four configuration files, root or not, an object or none | unknown options, values that look like options, a value missing at the end, a cluster; rules that replace each other in and across files, nulls, wrong types, indented lines. `ParsedAsWritten`, `RuleOverridesType`, `RulesAsWritten`, `EffectsAsAsked` |
| `bpf` | 2 processes, 2 names, a buffer of one record, 2 execs, 2 faults, stops | a fault for the poll and one for the restart it causes; the second exec can be skipped or lost. `NothingUsedFreed`, `StopReturns`, `Detection` |

The type invariant is checked too, or proved instead (`SyncQueue`, `Daemon`,
`ReloadMailbox`). Deadlock is checked where the system goes on for ever
(`sync_queue`, `ring`, `mailbox`, `procfs`, and `startup` through its `Ended`)
and not where it may stop (`listener`, `bpf`, `daemon`, `rules`: the daemon
exits, or the bounded environment has nothing more to do).

Bounds: `MaxPushes`, `Backlog`, `MaxExecs`, `MaxFaults`, `MaxChanges`,
`MaxReloads`, `MaxCrashes`, `MaxEdits`, `MaxRequests`, `MaxSignals`,
`MaxDenials` limit what the environment does, never what the code does after
it. Two processes, threads or requests are what the races above need. Two
clients that tear each other's message, or three instances, are within the
proofs of `ReloadMailboxProofs`, whose runs would be too large; three threads
in `procfs` are the leader, one that ends and one that is made. `procfs` gives
a method up after 2 failures, where the code takes 5: one more than a lost
update can hide. Of the two processes in `rules` one starts as a plain shell
(`MCInit`, `Bystanders`) and only one execs once: they differ in nothing but
their pids, and starting both as anything would double the run. Both may have
trouble, when the shell execs.

### Fairness, and why the code justifies it

* Threads run: weak fairness on the next step of each thread. A thread that
  spins on a slot is a disabled step, not an unfair one.
* `Timeout` of `AtomicRing` is strongly fair: `wait_for` turns its duration into
  an absolute deadline, so spurious wake-ups do not postpone it. In `SyncQueue`
  the mutex is strongly fair: a thread that keeps asking for it gets it.
* `Push` in `Daemon` is strongly fair: the ring hands a free slot to the ticket
  that waits for it (`AtomicRing` has the detail). `Delivery` in
  `AtomicRing` uses weak fairness for the rest.
* In `ReloadMailbox` each reader, the thread of each instance between its start
  and its end, and a client that has begun to write go on.
* Nothing forces the environment: no fairness on forks, execs, signals,
  events, requests, crashes, spurious wake-ups or stops. One exception, in
  `SingletonLock` and `ReloadMailbox`: systemd restarts the service
  (`Restart=always`). That an administrator ever removes an orphan is not
  assumed.

## 4. What is proved

All theorems hold for every value of the constants that satisfies the named
assumptions. There is no induction over data and no liveness in them.

* `SyncQueueProofs`. `TypeCorrect` is inductive by itself. `FrontSafe`
  (`front()` never on an empty queue) needs that the mutex has one owner and
  that a reader about to take is that owner and saw the queue non-empty, which
  nobody can undo without the mutex. `NoLostWakeup` (`WakeupsCover`) needs in
  addition that a producer owes at most one notification and that a reader
  leaves the set of sleepers only with a notification or on its own way to a
  test; then the processes in the queue never outnumber what is on its way to
  them while somebody sleeps. `Refinement` maps each step to a step of
  `ProcessFifo` or a stutter: `Emplace` to `Put`, the take to `Give`, the
  failed last test to `Refuse`.
* `AtomicRingProofs`. `SlotsExclusive`: tickets of different producers may meet
  in one slot, so the claim does not keep them apart; the compare-exchange on
  the state does. `Owners` says that a slot marked STORING or LOADING has
  exactly one thread inside, and a thread inside its mark.
  `NothingLostInRing` (`NoLoss`) needs what `NoLoss` leaves out: a process is
  claimed once and no two places hold the same one (`Once`); a producer numbers
  its pushes, so what it claims next is new. `NeverWaitsInVain` (`NoEmptyWait`)
  is not about tickets, for in an overfull ring the producer that fills a slot
  need not have the ticket the worker waits with. `Balanced` counts instead:
  for each slot, the producers that wait for it or store in it, and the process
  in it, are as many as the tickets for it that nobody has taken, and the
  worker's. `Distance` adds that the counters differ by the number of processes
  claimed; that number stays below half the range of an `unsigned`
  (`FewEnough`, from `RingAssumption`), so the signed difference of `was_size`
  is right. `FirstInFirstOut` (`FifoWhileItFits`) needs `InOrder`: while no two
  tickets in use share a slot, the k-th process claimed is with the producer of
  the k-th ticket or in its slot. `SlotsApart` is the arithmetic behind it:
  because the size of the ring divides 2^32, tickets less than a ring apart
  have different slots where the counters wrap, too.
* `ProcessListenerProofs`. `NothingDestroyedUsed` needs `HasProgram`: there is
  a program at every point from which the event thread may come to receive, and
  main destroys it only when that thread has ended for good.
  `ListenerTypeCorrect` needs `BornFirst`: no event in the socket, and nothing
  the event thread is about to resolve, tells of a process that is not born.
* `BpfListenerProofs`. `ProgramsInUseLive` needs `HasPrograms`, the same for the
  two pointers of the BPF build as long as `m_status` holds; the two flags that
  a stop sets play no part, only the join does. `BpfTypeCorrect` is inductive
  as it stands.
* `ThreadPrioritiesProofs`. `DenialsCounted` needs `RoomToCount`: the count, or
  a value of it that a caller is about to store, leaves room for every denial
  that is not counted yet, so a late store cannot put it too high.
  `ThreadsReached` and `NotFoundForAReason` need `Lives` (what the listing and
  the process have to do with each other) and `Underway` (a thread that lives
  is visited, made meanwhile, or still listed).
* `ReloadMailboxProofs`. For the lock alone, `OwnershipKept` (an instance that
  relies on the object created the one that is there) is inductive with the
  types: creation is exclusive, a removal is only made by the owner, and the
  administrator removes orphans. `MutualExclusion` follows, because an object
  has one creator. `ServiceImplementsLock` shows that the instances with their
  readers and clients take only steps of the lock, or none; with it `OneDaemon`
  carries `AtMostOneOwner` over. `ReloadsAsked` counts the first character of a
  message: each request writes it once, a reader that reloads will erase it
  before it looks again, and a torn message or a second reader can only destroy
  one (`Counted`).
* `DaemonProofs`. `StopOrderKept` (once the worker has ended, no producer has
  anything to push) needs the invariant `StopOrder`: main pushes only while it
  scans; an event thread that ended owes nothing; the worker is asked to stop
  only after the event thread was joined, at a point from which main never
  scans again; and the worker ends only when asked. The bare property is not
  inductive: it says nothing of the order in which that comes about.
  `NothingOutlived` follows from the last conjunct of `StopOrder`, that main
  destroys nothing before the worker has ended. `DaemonImplementsLock`
  (`ImplementsLock`) needs only `Removal`: from the end of its loop on main has
  removed the object. Then each step is one of the lock or leaves what the lock
  sees alone: an abort, whichever thread causes it, is a crash of the instance
  (`AbortIsCrash`), after which the object is an orphan exactly if main had not
  removed it yet; the failed start of the listener is `ListenerFails`.
* `RulesProofs`. `GetRuleOverridesType`: whatever the rules and types are, the
  two patches of `get_rule` keep each key of the rule, null or not, and add the
  keys of the type that the rule lacks and that are not null. `Patched` says
  what the first patch leaves; the second then has no null of the rule to
  remove (`CompletedOverrides`). It is a fact about every state, so no
  induction over the loading is needed.
  The same module has the worker. `LatniceFollowsKernel` is inductive as it
  stands: a reload looks at the kernel after its last line. `LastRuleStands`
  (`LastRuleWins`) needs two things. `Reports`: the last report of a process in
  the queue is about its present name, and when there is none, the worker has
  the process in hand, or has last handled it, under that name. `Applied`: until
  the first reload, a process in hand has every attribute of its rule that the
  worker has come past (`Past`), and one it is done with has them all, unless it
  was reported again, ended or had trouble. The bare property is not inductive:
  it says nothing of a process whose reports are still in the queue.
  And it has the start of `main`. `LoadedAsWritten` (`RulesAsWritten`) needs
  that a line that tells of a program and is not `Unremoved` is one the loader
  parses (`RemovedParses`), and `LoadedSoFar`: what is left of the file last
  opened is its end, and for every program that one enabled file tells of, the
  last line of it that was loaded and tells of the program stands; the witness
  of "the last" is carried along, so no induction over the lines is needed.
  `ParsedCorrectly` (`ParsedAsWritten`) needs `ParsedSoFar`: the parser stands
  on an element that is no value (`ReadAt`), and without an error each option
  has the value of its last mention before it, and the positional arguments
  those of the words before it, ranked by `Rank`. `Runs` ties the parser to the
  reference: the reference says which elements are values by the parity of the
  run of options before them, the parser by moving its index on. `OnlyAsAsked`
  (`EffectsAsAsked`) adds `SeenSoFar`: what main has found out about the
  arguments by the time it is past them still holds, because nothing parses any
  more; `RequestsHeard` then turns what the parser reports into what the
  command line says. `StartupTypeCorrect` has the types of all three.

The assumptions on the declarations (`DeclarationsAssumption`,
`RequestsAssumption`) are what `parse_args` builds its tables from and what
main declares: no argument is both named and positional, the requests are
flags, and no option with a value has a letter. The last is needed: two
options of a cluster would read one value and move the index twice.

Every safety invariant and action property of the runs is proved. Only
model-checked: the liveness properties (fairness and `ENABLED` are out of the
prover's reach), and the properties the `violation` runs refute.

## 5. Where code and documentation disagree

Each is a run that expects a violation; `PROJECT.json` quotes both sides.

1. `listener_skips`: of two events of one pid in a row the second is dropped,
   so an exec right after a fork leaves the process known under the name of its
   parent (`process.cpp:144-152`).
2. `rules_realtime`: `is_realtime` is read before the rule is applied, so a
   process its rule makes realtime is moved to a slice (`worker.cpp:36, 107`).
3. `mailbox_lost`: a request that arrives between the comparison and the
   erasing is erased unread (`singleton_process.cpp:138-145`).

Seen on the way, without a run of their own:

* The shared memory object of a killed daemon is never removed, and every
  restart by systemd (`Restart=always`, `ananicy-cpp-ng.service:14`) is refused
  (`main.cpp:217`). `BackUnlessOrphaned` excepts exactly the orphan; without
  the exception TLC refutes it, and no fairness of the code could save it.
* The object also stays when the daemon ends itself between its creation and
  the end of main's loop: a rule with a type that is no string or a `CPUQuota`
  that is no number, a `check_freq` that is no number after a reload, a signal
  before the handler is in place (`main.cpp:217-230`), a scan that throws, a
  restart of the listener that leaves no program. To the lock each is a crash
  (`ImplementsLock`).
* The reader and the signal handler outlive what they use: `conf` and
  `m_reload_callback` are destroyed before the reader is joined, and nothing
  restores the signals or clears the `this` that the handler captures
  (`utils.cpp:17-20`). `Daemon` has these steps (`ReaderReload`, `Signal`);
  `Outlived` is about the other threads. Strengthened to the reader, TLC
  refutes it.
* A thread that is the last of the listing and has ended makes a process that
  lives "not found" (`priority.cpp:27, 51`), and the worker drops the rest of
  its rule (`worker.cpp:57-58`).
* "In a row" (`process.cpp:220`) is not what is counted: processes without a
  link do not reset the count, a lost reset keeps it, and once the method is
  given up nothing can bring it back.
* A name read from a deleted executable keeps a space at its end
  (`process.cpp:232`), so no rule matches it.
* `try_write` fails silently while the first daemon since boot has not made
  its segment, and `--reload` exits with success (`main.cpp:127-128`).
* While an instance stops, its reader and its successor's poll one segment: a
  request may be served by the one that ends.
* Reloading is not restarting: a key that was removed from the file keeps its
  value (`config.cpp:84`).
* Any invocation with an action, `dump` and those that root alone may make
  included, writes a missing configuration file (`main.cpp:136`); on a kernel
  without latency nice it says so, and keeps it off on a later kernel.
* `deadline` as a scheduler warns and then sets `SCHED_OTHER`
  (`priority.cpp:134-146`).
* `add_pid_to_cgroup` answers 0 for success (`cgroups.cpp:108`), which the worker
  takes for a failure (`worker.cpp:115`): it goes on to the next process, and
  leaves out the last step for a realtime one.
* The scope of a pid cannot be made twice, so a process stays in the slice of
  the first rule that applied to it (`cgroups.cpp:83`).
* In the BPF build, a stop whose first flag is overwritten by a restart
  (`process.cpp:34, 290`) and whose second comes after the restarted thread has
  looked (`process.cpp:102`) never returns: `overtaken` in `StopReturns`.
* In the BPF build a restart that fails is not noticed: without a program,
  `bpf_program_utils.c:76` dereferences a null pointer; without a buffer, the
  next poll does, or a stop in between frees the program twice
  (`bpf_program.hpp:31`).
* In the BPF build a fork is reported for the parent, not for the child
  (`ananicy_cpp_ng.bpf.c:101-102`).
* "Remove trailing characters" (`rules.cpp:59-61`) counts what to keep from the
  start of the line, so of an indented rule the end stays: with a comment
  behind it, it is rejected. `RulesAsWritten` excepts programs that have such a
  line (`Unremoved`: indented, and something other than blanks behind the
  bracket); without the exception TLC refutes it.
* A `--benchmark-count` that is no number aborts with an uncaught exception
  (`argument_parser.hpp:51`).
* `atomic_queue.h:302, 315` promise FIFO order regardless of the total-order
  option; once more tickets than slots are out, a later ticket of a slot may
  store first. `FifoWhileItFits` states the order up to that point.
* Main removes the shared memory object before it stops its threads
  (`main.cpp:286-292`), so "already running" (`main.cpp:219`) does not exclude
  an instance that is still stopping.
* During a reload the worker can find latency nice on although the kernel lacks
  it: the file's value is assigned first and corrected at the end
  (`config.cpp:77-94`). `LatniceSettled` covers the time between reloads.
* "Moving realtime process to root cgroup" (`worker.cpp:127`) asks systemd for
  the unit `.slice`, which is refused.
* `--reload` says "Reload configuration/rules" (`main.cpp:60`) and reloads the
  configuration only (`main.cpp:223`).
* An unknown action is reported and then treated as `start`
  (`main.cpp:207-208`).

## 6. Not modelled, and why

* Pure output: dumps (`process_info.cpp`), `show`, debugging aids, `sd_notify`,
  `print_help`. They change nothing that another part reads.
* Pure functions of a text or a number, each a lookup: the encoding of I/O
  priorities and the scheduler names of `priority.cpp`, `trim`, what the
  methods of `get_command_from_pid` cut off a name.
* `create_cgroup` and `get_cgroup_version`, which in this version do nothing and
  answer a constant (`cgroups.cpp`).
* Third-party or generated: the libbpf-tools helpers (`trace_helpers.c`,
  `uprobe_helpers.c`, `btf_helpers.c`), the queues of `atomic_queue.h` that the
  daemon does not instantiate, and the two `vmlinux.h`: declarations of kernel
  types generated from BTF, without behaviour, which are 65540 of the
  repository's 72452 lines of code. The models cover most of what remains once
  these, the output and the stand-alone programs are set aside.
* Out of reach of a model over sets of values: JSON syntax, the weak memory
  orders of the ring, and what a data race on the configuration map does to a
  reader when an insertion rehashes it.

## 7. Plan

Done: the queue in both builds, both listeners, command names, the worker with
the threads of a process, the rules and the command line, the lock and the
mailbox together, the composition of the threads with the objects they use, and
eight modules of proofs. What is left, in the order of its value:

1. An abstract listener (reports, then silence after the stop) that both
   listeners implement; `RuleApplication` with the merged rules of `Rules`.
2. The encoding of I/O priorities against a reference.
