# botbots: a verification development

This directory specifies and verifies the `botbots` program: a simulation of
small robots that walk a grid and fight, and the two thread pools the
repository is really about, the *Cortex* and the *MultiQueueThreadpool*.  The
specifications are TLA+ modules translated from the C++ sources; TLC checks
them on small instances, and TLAPS proves the most important results for every
value of the constants.

All source paths below are relative to the repository root.

## 1. Inventory

| component | sources | state | operations | interacts with |
|---|---|---|---|---|
| Cortex | `cortex.h`, `cortex.cpp` | `d_gate` (queue of tasks), `d_processing`, one mutex, two condition variables, the worker threads | constructor, destructor, `enqueue_task`, `process_next_function` (the workers), `process_gate_iteratively`, `start`, `stop`, `drain`, `isStarted`, `size` | any client thread, its own workers, `Task` |
| MultiQueueThreadpool | `multiqueue_threadpool.h/.cpp` | per worker: a queue, a mutex, `d_running`, `d_task_sem`, `d_empty_sem`; `d_processing` | constructor, destructor, `start`, `stop`, `enqueue_task`, `drain`, `isStarted` | any client thread, its own workers, `Task` |
| Task | `task.h`, `boundjob.h` | bound function and arguments | `execute`, destructor | executed and deleted by the pools |
| Synchronisation | `mutex.h`, `condition_variable.h`, `synchronize.h`, `synch_semaphore.h` | wrappers of `pthread_mutex_t`, `pthread_cond_t`, `sem_t` | lock, unlock, wait, signal, post, tryWait | used by the pools |
| Grid | `grid.h`, `grid.cpp` | `vgrid` (cells and their occupants), `live_bots` (map from botbot to cell), `dead_bots`, `cycles_passed`, times, the events vector | constructors, `fill_to_capacity`, `initiate_cycle` (calls `move_bots`), text output | Botbot, Event, main |
| Botbot | `botbot.h`, `botbot.cpp` | nuts, bolts, coordinates, name, generation | construction, `decide_movement`, `set_current_cell`, `battleBots`; `legacy_botbot` counts generations | Grid, Event |
| Event | `event.h`, `event.cpp` | what a battle transferred, and the names | `animate_event` | created by Botbot, printed and deleted by main |
| Main program | `main.cpp` | options, the grid, the events vector | parse the command line, fill the grid, loop: cycle, display, print events | Grid, Event, ncurses |
| ts_queue | `ts_queue.h` | a deque and a mutex | `push`, `back_pop`, `size` | nobody |
| Timer | `timer.h` | two time stamps | start, stop, elapsed time | Grid (statistics), test drivers |
| Test drivers | `cortex.t.cpp`, `multiqueue_threadpool.t.cpp`, `synchronize.t.cpp`, `boundjob.t.cpp` | options, the jobs, the `WorkerData` of raw threads | parse the options; passes through a Cortex, a MultiQueueThreadpool and raw threads; `fill`, `increment` | the pools, `synchronize.h` |
| Alpha and beta series | `cortex/alpha_series`, `cortex/beta_series` | | copies of the files above, built on their own; the alpha series has another parser of options | |

What is hard, by component:

* **Cortex** - threads and unlocked reads.  `stop()` writes `d_processing` and
  broadcasts without the mutex, and a worker reads the flag four times between
  two turns of its loop, once of them after it has released the mutex.  It is
  correct if no task is executed twice or through a NULL pointer, if nobody
  pops an empty gate, if every queued task is executed while the pool stays
  started, and if `drain()` and `stop()` return.
* **MultiQueueThreadpool** - two semaphores and a queue per worker that have to
  agree although they change at different moments; `stop()` posts a token with
  no task behind it; `drain()` takes tokens that may be stale.  It is correct
  if no worker pops an empty queue, if `drain()` returns when, and only when,
  the queues are empty, and if `stop()` and the destructor return.
* **Grid and Botbot** - no threads, but one fact kept in three places (cell, map,
  coordinates), a loop over a map that erases entries of that map, and battles
  in which winner and loser may be the same botbot.  They are correct if the
  three records agree, the iterator stays valid, nuts and bolts are conserved,
  and the dead are gone from the grid.
* **Main program** - the order of calls: the grid is filled once, while it is
  empty; the events vector is handed over after that and before the first cycle;
  events are deleted in the cycle of their battle.  It is correct if the options
  count wherever they stand and the Grid's functions are called in an order that
  keeps what the Grid itself does not check.
* **Test drivers** - they are the programs that really use the pools.  The driver
  of the Cortex hands raw threads the address of a variable that it overwrites
  while they read it; the test of the MultiQueueThreadpool asserts, when `drain()`
  has returned, what `drain()` does not promise; the test of the condition
  variables sleeps for a second where it ought to know.

`PROJECT.json` lists every hazard at its line with the properties that cover it,
or the reason why none does yet.

## 2. Modules

| module | what it is |
|---|---|
| `TaskPool` | abstract: what a pool promises about the tasks handed to it |
| `Cortex` | the Cortex, one action per access to shared state |
| `MultiQueueThreadpool` | the pool with a queue per worker |
| `RawThreadTest` | `runRawThreadTest` of `cortex.t.cpp` |
| `CortexTest` | the driver `cortex.t.cpp`: composes `Cortex`, `MultiQueueThreadpool` and `RawThreadTest` with the calls of its `main()` |
| `AlphaSeries`, `BetaSeries` | the same driver, as each series builds it from its own copies |
| `MqtTest` | the test `multiqueue_threadpool.t.cpp`: `MultiQueueThreadpool`, its `main()` and the jobs |
| `Synchronize` | mutexes and condition variables as operators |
| `SynchronizeTest` | the test `synchronize.t.cpp`, on top of `Synchronize` |
| `Arena` | abstract: what a spectator of the grid sees |
| `Grid` | the grid, its botbots and their battles |
| `Main` | the program `main.cpp`, on top of `Grid` |
| `MC*` (`MC*.cfg`) | small instances of these for TLC |
| `CortexProofs`, `MultiQueueThreadpoolProofs`, `LoadProofs`, `RawThreadTestProofs`, `CortexTestProofs`, `SynchronizeTestProofs`, `GridProofs`, `MainProofs` | theorems |

`Cortex` and `MultiQueueThreadpool` both implement `TaskPool`; `Grid`, when it is
not a fish tank, implements `Arena`; `Main` implements `Grid`.  The first three
refinement mappings are the `INSTANCE` statements at the end of the detailed
modules; the last one is the identity, as `Main` extends `Grid`.

### 2.1 Cortex

Thread 0 is the owner, which constructed the pool and calls everything but
`enqueue_task`; threads 1, 2, ... are the workers; any thread may enqueue.

| variable | code |
|---|---|
| `gate`, `processing` | `d_gate`, `d_processing` |
| `mutex` | who holds `d_mutex` from one action to the next (a critical section that is one action needs no variable) |
| `hasWork`, `queueEmpty` | who is blocked on `d_cv_has_work` and `d_cv_queue_empty` |
| `worker`, `owner`, `resume` | program counters; `resume` is what called `stop()` |
| `ret` | the local variable `ret` (a worker) or `job` (the owner) |
| `task` | what has become of each Task object |

An action ends where another thread could see or change something in between.
A broadcast empties the wait set; a thread that is not in the wait set may take
the mutex again, which is the second half of `pthread_cond_wait`.  `SpuriousWake`
is the liberty POSIX takes.  The build is unoptimised (`Makefile`: `g++ -g`), so
each read of `d_processing` is a load of its own.  The data races on that flag
are therefore modelled as reads of the current value in any interleaving.

Start is one action: a thread that has been created but has not run cannot be
told from one that has not been created.  `size()` and `isStarted()` change
nothing and have no action.  `process_next_function` is public, but nothing in
the repository calls it outside of a worker.

### 2.2 MultiQueueThreadpool

`d_qlock` is held only within one action, and needs no variable.  Everything
outside of it - each semaphore operation, each test of `d_running` - is an action
of its own, so the program counter of a worker has a value for nearly each of
its lines.  Clients scan the queues one at a time with their local variables in
`enqueue`.  The header's contract is part of the model: no `enqueue_task` during
`drain()` (`multiqueue_threadpool.h:51-52`), no `start()` after `stop()` (line 39),
and nobody inside the pool while it is destroyed.

### 2.3 The drivers

`CortexTest` is the owner, and the only client, of both pools.  Its variables are
those of the three modules it composes, renamed where two of them share a name
(`mq_task` is the `task` of the MultiQueueThreadpool), and those of `main()`:

| variable | code |
|---|---|
| `argv`, `arg`, `opts`, `showHelp` | the command line and the local variables of `parseOptions` |
| `step` | where `main()` is: a call begins when the one before has returned |
| `passes` | the loop index of the passes; a new pass constructs two new pools |

A call is the conjunction of the pool's own action and a step of `main()`, so that
nothing of a pool is told twice.  Workers run on their own at any time; the
owner's steps inside a call are taken only by the pool that is being called.

`GenerateNumbers` is what `main()` does between its options and its first pass.  It
allocates a vector of `--elements`, takes remainders of `--range_max` and divides by
the number of elements, so that a number that is not positive, or a `range_max` of 0,
ends the program (`aborted`).

`AlphaSeries` and `BetaSeries` put the same actions together function by function, as a
series is built from copies: `Cortex_stop`, for instance, is the call of `stop()` with
all the steps taken inside it, and is compared with the lines of that function in the
copy.  Functions of the pools that the driver never calls have no definition there.
`cortex.cpp` and `multiqueue_threadpool.cpp` are line for line the files modelled by
`Cortex` and `MultiQueueThreadpool`.  The parser of the alpha series is another one
(`cortex/alpha_series/cortex.t.cpp:133`): it takes the number of an option without
looking whether there is one, which `ParseOptionUnguarded` says; `crashed` is where
`atoi` is called with the null pointer behind the last argument.  `SeriesAsAsked` says
that this happens in the alpha series only, and that neither series ever begins a pass
that was not asked for.

`RawThreadTest` has a step for each write and each read of a field of the
`WorkerData` that all threads but the first share.  The variable is declared inside
of the loop that creates the threads; in an unoptimised build it has one place in
the frame of the function, which outlives the loop and is read through a pointer
afterwards.

`MqtTest` refines the one thing `MultiQueueThreadpool` leaves opaque: its tasks are
`increment()` bound to a counter, and `WorkerFinish` counts.

In `SynchronizeTest` the places of a thread are names, with the place that follows
each where it is used, and the macros `OP_ON_LOCK` and `OP_ON_CV_LOCK` are operators.  `sleep(1)` takes no
step, as it promises nothing.

### 2.4 Grid

One thread calls everything, so an action is one turn of a loop: one botbot
created by `fill_to_capacity`, one botbot moved by `move_bots`, with the battle
and everything that follows from it.

| variable | code |
|---|---|
| `bot` | `GridCell::bot` of each cell |
| `live_bots`, `dead_bots` | the map and the vector |
| `current` | `current_row`, `current_col` of each botbot |
| `nuts`, `bolts` | `d_nuts`, `d_bolts` |
| `events` | the vector `hold_events` was given |
| `cycles` | `cycles_passed`, counted up to `MaxCycles` and then kept |
| `state`, `left`, `it` | which function the thread is in, and its loop variables |

`rand()` is a nondeterministic choice: of the cell (`random_shuffle`), of the
amounts a botbot is built with, of a step, of the multipliers, of the losses.  A
botbot is the address of its object, which is what orders `live_bots`; its name
and generation number are labels and left out, as are the times.  `Grid` alone
leaves the order of the calls open, within what its functions ask for.

Of the functions that format text, the model has what they say of the grid and not how it
looks: `ToString` which botbot is drawn on which cell, `PopulationToString` where the
living are, who has fallen and who has won, and `StatsToString` the numbers of both.

Two things in the code are as they are in the model, and have no run:

* The escape of an overpowered loser (`botbot.cpp:103-107`) compares two values
  that are both `max` of the same two scores, so it never happens.  (What
  `animate_event`, `event.cpp:53`, takes for an escape is a battle in which nothing
  changed hands, as when the loser has nothing and dies.)
* After a tie winner and loser are both the occupying botbot, which pays itself,
  while `move_bots` treats the attacker as the one that lost.  Nothing is lost on
  the way: `WealthConserved` and `EventsBalance` include ties.

### 2.5 Main

| variable | code |
|---|---|
| `argv`, `i`, `option` | the command line, the loop index and the local variables the parser sets |
| `step` | where `main()` is |
| `held` | whether `hold_events` has been called |
| `screen` | what `main()` has displayed when it leaves, as a sequence of one element |

An argument is what the code asks about it: the number `atoi` makes of it, or the
name that is left without dashes.  A step of `main()` that calls a function of the
Grid is that function's first action; `InsideTheGrid` is what goes on until it
returns.  With `noevent` the vector is not emptied, and `VectorFull` is where the
model stops following it.

## 3. Runs

No run uses symmetry.

| run | expected | question |
|---|---|---|
| `cortex` | pass | is no task executed twice, or through NULL, or dropped outside of `stop()`; is every task served, does `drain()` return, is it a `TaskPool`?  Three workers, three tasks |
| `cortex_stop` | violation | does `stop()` return?  No: lost wake-up |
| `cortex_leak` | violation | does the destructor leave nothing behind, in the calls of the alpha series' driver?  No: a popped job may be dropped |
| `multiqueue` | pass | do semaphores and queues agree, is load spread, does `drain()` mean empty, are tasks served, does `stop()` return, is it a `TaskPool`?  Two queues, two clients, three tasks |
| `multiqueue_drain` | violation | does `drain()` return?  Not the second one in a row |
| `multiqueue_assert` | violation | does the assertion of `multiqueue_threadpool.t.cpp` hold?  Not if the last job is still executing when `drain()` returns |
| `series` | pass | do the drivers of both series run what they are asked to, whichever parser they have; what does a pass through each of the pools lose at most; does the part with the MultiQueueThreadpool end; what do raw threads that share a `WorkerData` read at worst?  Two passes, three jobs, three threads, two workers in each pool |
| `raw_threads` | violation | does a pass through raw threads execute each element once?  No: threads share a `WorkerData` |
| `synchronize` | pass | do the three mutexes of `synchronize.t.cpp` exclude one another and leave nobody waiting; what can still block `main()`?  Three workers |
| `grid` | pass | three botbots on 2 x 3 cells: agreement of the three records, iterator, end of a cycle, refinement of `Arena` |
| `grid_lost` | violation | a fish tank: does a botbot know where it is?  No |
| `main` | pass | the program: options in any order, events handed over before they are used and displayed once, the grid never too full, nobody lost between the living and the fallen, one winner and that one displayed, battles conserve, events account for them.  Two botbots, four addresses |

### What the violations show

* **`cortex_stop`** (`cortex.cpp:137`).  A worker finds `d_processing` set and the
  gate empty; before it waits, `stop()` clears the flag and broadcasts, which
  needs no mutex; the worker then waits for a broadcast that was already made,
  and `pthread_join` waits for the worker.
* **`cortex_leak`** (`cortex/alpha_series/cortex.cpp:81`, and the same line of the
  other copies).  A worker pops a task and unlocks; `drain()` returns, as the gate
  is empty; `stop()` clears the flag; the worker reads it again and returns without
  executing or deleting the task.  The theorem `LeaksOnlyInStop` says that this is
  the only moment it can happen, and `CortexPassLoses` that it costs a pass of the
  driver at most one job for each worker.
* **`multiqueue_drain`** (`multiqueue_threadpool.cpp:137`).  A worker posts one token
  per idle period and `drain()` takes it.  `DrainProceeds` says when `drain()` does
  get on, and `MqtPassEnds` that the one `drain()` of a pass always returns.
* **`multiqueue_assert`** (`multiqueue_threadpool.cpp:145`).  The comment at lines
  139-141 describes the stale token, and the loop covers the case in which the
  queue is not empty yet; it does not cover the worker that has popped the last
  task and is executing it.  `MqtPassComplete` says that the driver, which looks
  only after `stop()`, is safe.
* **`raw_threads`** (`cortex.t.cpp:102`).  The creating loop overwrites the slice of a
  thread that has not read it yet.  `RawInside` and `LastSliceCovered` say what is
  true all the same: nobody leaves `numbers`, and the last slice is executed.
* **`grid_lost`** (`grid.cpp:191`).  In a fish tank, a botbot whose way is blocked stays
  on its cell but keeps the coordinates `decide_movement` gave it, and starts its
  next move from there.

### Bounds

* `cortex`: two workers race for the last task while a third waits, and each
  task can be at a different stage.  The constructor is asked for a fourth
  thread and clamps it.  `cortex_stop` needs one worker and one task only.
* `multiqueue`: the scan of one client can be overtaken by the other's push, all
  tasks can end in one queue, and a worker can execute one while another waits in
  its queue and a third is being pushed.  The owner makes its calls in every
  order the contract permits.  A third thread is asked for, and clamped away.
* `series`: three threads and three jobs, so that a slice of the raw threads has a
  predecessor and a successor.  `MAX_THREADS` is 2, to which both pools clamp: there is a
  job more than there are workers to lose one, and a worker can take several.  Two passes,
  so that the pools are constructed anew, and the raw threads of the second find what the
  first has left in the frame.  Besides it, a call for help, command lines with unknown
  options and with one that lacks its number, and two that leave no numbers to generate.
  `cortex_leak` needs one thread and one job.
* `raw_threads`: eight elements, so that the first slice is longer than the others.
* `synchronize`: one worker more than the test creates.
* `grid`: three botbots are needed for the iterator to stand at a botbot that
  another one kills, and two rows and three columns for a botbot to be two cells
  from another one.  The number of cycles is not bounded, as wealth is
  conserved and `cycles` saturates.  `MaxEvents` is the one bound in a guard: a
  cycle is begun only if the vector has room for one event of each botbot, which
  is always so after `printEvents`.
* `main`: `NutsLimit` 4 with `MIN_NUTS_TO_LOSE` 2 lets a loser lose all, a part or
  nothing, and the multipliers produce every order of scores, ties included; four
  addresses for a grid of two botbots let `fill_to_capacity` make one botbot too many,
  and a second call of it fill the grid again after a death.  The command
  lines ask for the same grid in different ways, with and without the display of
  events, and one has an unknown option.  `MaxEvents` bounds the vector that nobody
  empties.

Deadlock is checked wherever the system may not stop: in the runs of the Cortex alone, of the
Grid and of `main`, of raw threads, and of the test of the MultiQueueThreadpool.  A second
`drain()` of `multiqueue` really blocks for ever, as does the Cortex's `stop()` in a pass of
the driver and a missed signal in `synchronize`, so `CHECK_DEADLOCK` is
off there.

### Fairness

* A worker that can take a step eventually takes one, a thread inside a call goes
  on with it, and tasks return: the scheduler is fair and tasks terminate.
* Nobody is obliged to call the pools or the grid: calls have no fairness in the
  specifications of the components.  In `CortexTest` they have, as `main()` is a
  program and not any client; the workers of the Cortex need none there, because
  its part of a pass may block anyway.
* Weak fairness is enough for the mutex of the Cortex, because the properties
  that are to hold do not depend on one thread winning it against others that
  take it infinitely often.  The same is true of `SynchronizeTest`, where every
  thread takes each mutex a bounded number of times.
* Spurious wake-ups do not go on for ever (`<>[][~SpuriousWake]_vars`) in `Cortex`;
  in `SynchronizeTest` a wait is not in a loop, so they are bounded.

### Mutants

Each property of a passing run has a *mutant*, an operator of the module named in
its comment: the change to the code that the property is there to catch (a
missing `pop`, `unlock`, broadcast or `join`, a semaphore not posted, an iterator not
advanced, a purse read too early, an option that forgets, a job dropped that ought to be
executed, a grid filled again in the middle of the game, a slice one element too long).  `PROJECT.json` says which.

## 4. Theorems

The theorems hold for every value of the constants that the named `ASSUME`s admit:
any number of threads (the MultiQueueThreadpool needs one), any set of tasks with a
`NoTask` outside of it, a grid of any size with any finite set of addresses, any set of
command lines (sequences of arguments, where an argument has a name and a number) that, if
the program understands them, ask for the instance the other constants describe: for
`Main`, whose dimensions are natural numbers, its grid; for the drivers, the numbers of
threads and of elements.  No bound of section 3 is an assumption of a proof.  (`MaxEvents` and
`MaxCycles` are parameters of the specification, and may be any numbers.)

Each proof module has one lemma per action (`WorkerTake` preserves `IInv`, and so
on), a lemma `Init => IInv`, and a lemma that puts the actions together; a theorem
then follows from the invariant.

**Cortex** (`CortexProofs`).  `IInv` consists of the type invariant, `MutexInv` (who holds
the mutex between two actions), `StartedInv` (workers run
only between `start()` and the end of the join), `RetInv` (which program counters
come with a task), `SingleOwnership` and `PopNonEmpty`.  `PopNonEmpty` alone is not
inductive: a worker that is about to pop knows that the gate is not empty only
because it has held the mutex since it looked, which is `MutexInv`.

| theorem | says |
|---|---|
| `Invariance`, `TypeCorrect` | `Spec => []IInv`, `Spec => []TypeOK` |
| `Ownership` | no task is ever in two hands |
| `NeverNull`, `NeverPopsEmpty` | nobody executes NULL, or pops an empty gate, in spite of the unlocked reads |
| `Alone` | after the join nobody else touches the gate |
| `LeaksOnlyInStop` | a popped task is abandoned only while `stop()` is in progress |
| `NoLostWakeup` | while a started pool has a task in its gate, some worker can take a step |
| `DrainNeverAlone` | while `drain()` of a started pool has not returned, it or a worker can take a step |
| `Refinement` | `Spec => PoolSpec` |

`NoLostWakeup` and `DrainNeverAlone` are the safety halves of `EveryTaskServed` and `DrainReturns`.  They rest on
`AwakeInv`: a worker goes to sleep only with the gate empty, and wakes `drain()` before it does;
`enqueue_task` and `drain()` wake all workers before they leave the mutex; so `drain()` sleeps only while no worker
does, and not all workers sleep while there is a task.  Nothing of the kind holds of `stop()`,
which is what `cortex_stop` shows.

**MultiQueueThreadpool** (`MultiQueueThreadpoolProofs`).  The heart of `IInv` is
`TokenBalance`: in each queue the tokens of `task_sem`, plus the one a worker has taken
for a task it has not popped yet, are the tasks of the queue, plus the one of
`stop()`.  `StopInv` says how far `stop()` can be with each queue, and `DrainInv`
that the queues `drain()` has passed are empty, as nobody may enqueue.

| theorem | says |
|---|---|
| `Invariance`, `TypeCorrect` | `Spec => []IInv`, `Spec => []TypeOK`: no semaphore is negative |
| `Balance` | tokens and tasks balance |
| `NeverPopsEmpty` | no worker pops an empty queue, `stop()` or not |
| `EmptyIsIdle` | a token of `empty_sem` belongs to a worker without work |
| `DestructorReturns` | the destructor's wait never blocks |
| `StopWakesAll` | `stop()` joins no worker that waits |
| `DrainEmpties` | `drain()` returns only with every queue empty |
| `Refinement` | `Spec => PoolSpec` |

**The spread of tasks** (`LoadProofs`).  `enqueue_task` reads the sizes of the queues one
after the other, each under its own lock, and pushes on the one that was shortest when
it was read; other clients push in between.  `StaysBalanced` says that the queues of a
pool that is not started differ by no more tasks than there are clients, for finitely
many clients and fewer tasks than `INT_MAX` (with which `lowestAmt` begins).  The
property does not say why: the invariant is `AimInv`.  Call `Aiming(q, v)` the clients whose
best queue so far is `q`, read with at most `v` tasks.  If some queue has at most `v`
tasks, then `Len(queue[q]) + Cardinality(Aiming(q, v)) <= v + Cardinality(Clients)`.
A client that begins to aim at `q` has just read at most `v` there; one that pushes has
compared with all queues, so it was counted, and is not any more.

**Raw threads** (`RawThreadTestProofs`).  The invariant of the creating loop is
`start + (NumThreads - made) * iter_per_thread = NumElements`, from which every slice it
writes, and every mixture of two slices, lies inside of `numbers`, and the last slice
ends where `numbers` does.  The slice of the last thread is never overwritten, as
nothing is created after it.

| theorem | says |
|---|---|
| `RawInvariance`, `RawTypeCorrect` | `RawSpec => []RawInv`, `RawSpec => []RawTypeOK` |
| `TornButInside` | no thread indexes `numbers` out of bounds |
| `LastSliceSafe` | the last slice is executed |

**The driver** (`CortexTestProofs`).  The steps the driver makes of a pool are steps of that
pool (`CortexMoves`, `MqtMoves`), and a pass begins with two new ones, so that the invariants
of `CortexProofs` and `MultiQueueThreadpoolProofs` hold in it (`PoolsInTheDriver`; the two
modules are instantiated, and their assumptions on the constants are proved of the
driver's).  What a pass may lose needs where `main()` is as well:

* `CortexPhase` says what has become of the jobs at each call of a pass.  Once `drain()`
  has returned none is in the gate; when `stop()` is called, the jobs it can make workers
  drop are therefore those in the local variable `ret` of a worker.  A worker has one such
  variable, so `ret` maps the workers onto these jobs (`Dropped`), which are no more than
  `PoolSize` (`DroppedBound`); and as the gate is empty no worker gets another one.
* `MqtPhase` says that a job is on its way to a queue, in one, with a worker or
  executed; that after `drain()` no queue has one; and that nobody may enqueue any more.  When
  `stop()` has returned all workers have ended, which a worker does only with empty hands:
  `MqtPassComplete`.
* `TokensLeft` is why the one `drain()` of a pass returns, where a second one would not: a
  worker that waits has left its token in `empty_sem`, and until `drain()` comes to that queue
  nobody else takes it; if it then finds a job there, `TokenBalance` has a token of
  `task_sem` for the worker.
* `ParserInv`: the options in front of the loop index have the numbers that were given to
  them last, or `showHelp` is set and the command line is not well formed.

`DriverInv` is all of this, and the lemmas prove it of a driver that may have either of the
two parsers (`DriverNext`).  `AlphaStep` then takes the functions of the alpha series apart
and finds only such steps, so that its passes have the same guarantees.

| theorem | says |
|---|---|
| `PoolsInTheDriver` | `TestSpec => [](CP!IInv /\ MP!IInv)`: `main()` calls both pools within their contracts |
| `OptionsAsAsked` | the passes are run as the command line asks, or not at all |
| `CortexLosesFew` | a pass through the Cortex loses at most one job for each worker |
| `MqtLosesNone` | a pass through the MultiQueueThreadpool executes every job |
| `MqtCallsReturn` | no call of the MultiQueueThreadpool in a pass waits for a thread that waits itself |
| `RawInThePass` | `RawInside` and `LastSliceCovered`, pass after pass |
| `AlphaRunsAsAsked` | with the parser of the alpha series, too, a pass is begun only as the command line asks, and what is read beyond a command line is one that is not well formed |
| `AlphaPasses` | a pass of the alpha series loses at most one job per worker in the Cortex and none in the MultiQueueThreadpool, no call of which blocks, and its raw threads stay inside of `numbers` |

**The test of the condition variables** (`SynchronizeTestProofs`).  `Inv` relates who holds each
of the three mutexes, and who waits, to where each thread is.  `SignalsReach` is the heart of it:
unless a signal was too early, `main()` is behind a signal only if all workers are behind the wait
for it, and none is blocked there.  From that, `NobodyIsStuck` goes through the holder of each
mutex: the holder of `_print_lock` only has to unlock it; if it is free, `main()` can go on
unless it is in `pthread_join`; and then the workers that have not ended contend for `_die_lock`,
whose holder wants nothing but `_print_lock`.

| theorem | says |
|---|---|
| `CriticalSections` | `TestSpec => []TestTypeOK`: the critical sections exclude one another |
| `SignalsReachAll` | a signal that no worker was too late for has woken them all |
| `NoDeadlock` | unless a signal was too early, a worker or `main()` can take a step until `main()` has ended |

`NoDeadlock`, like `NoLostWakeup`, `DrainNeverAlone`, `StopWakesAll` and `MqtCallsReturn`, spells out
the guards of the actions (`WorkerCanGo`, `MainCanGo`, `DrainCanGo`), as `ENABLED` is out of the prover's
reach.  It is the safety half of `EndsUnlessMissed`.

**Grid** (`GridProofs`).  `IInv` is the conjunction of the type invariant, `CellsAgree`,
`PositionsInside`, `PositionsAgree` (unless it is a fish tank), `IteratorValid` and
`DeadAreSpent`.  None of the last four is inductive without `CellsAgree`: a battle finds
the botbot it changes through a cell, the entry it erases through the map, and the
next entry of the iterator through both.  `BattleFacts` reduces a battle, with its
dice, its ties and its escape, to an `Outcome`: two different botbots, of which one
pays the other no more than it has.  What `move_bots` makes of it is then checked
conjunct by conjunct, for a loser that dies and one that does not.

| theorem | says |
|---|---|
| `Invariance`, `TypeCorrect` | `Spec => []IInv`, `Spec => []TypeOK`: nobody has less than nothing |
| `Agreement` | cells and map agree |
| `Inside` | `vgrid` is never indexed outside of the grid, not even by a lost botbot of a fish tank |
| `KnowsItsPlace` | without `FishTank`, a botbot's coordinates are those of its cell |
| `IteratorSafe` | the iterator never stays at an erased entry |
| `DeathIsFinal` | no botbot dies twice; the dead are not in the map and own nothing |
| `Balance` | what a turn does to the purses is what its event says |
| `Conservation` | no turn makes or loses a nut or a bolt |
| `Refinement` | without `FishTank`, `Spec => ArenaSpec` |

`Conservation` is about the sum of all purses, which `WealthConserved` takes with a fold over
the set of addresses.  That the fold is a sum - that it is a natural number, that an address
can be taken out of it, that it does not depend on what is outside of the set - is proved
by a least counterexample: among the sets for which it failed there would be one with the
fewest elements (`LeastSet`), and it would hold for that one without one of its elements
(`SumExists`, `SumType`, `SumWithout`, `SumSame`).  A battle is then a transfer between two
addresses (`FightTransfers`), and the other purses are the same before and after.

These cover calls of `fill_to_capacity` at any time between cycles, and fish tanks, of
which no run checks more than `grid_lost`.

**Main** (`MainProofs`).  Every step of `main()` is a step of the Grid or leaves it alone,
so that the theorems of `GridProofs` are theorems of the program.  `MainInv` adds the order
of the calls (`CallOrder`), what is left in the vector of events (`Printed`), and `Room`:
while `fill_to_capacity` runs, the botbots alive and those still to be made are no more
than `MAX_BOTBOTS`.  `Room` is not an invariant of the Grid, where a second call overshoots
(`grid.cpp:289` adds `MAX_BOTBOTS` botbots, against the comment at line 265); it is one of
the program, which calls `fill_to_capacity` while nobody is alive.

| theorem | says |
|---|---|
| `MainImplementsGrid` | `MainSpec => Spec` |
| `MainInvariance`, `MainTypeCorrect` | `MainSpec => [](IInv /\ MainInv)`, `MainSpec => []MainTypeOK` |
| `PointerSet` | no cycle begins before the vector of events is handed over |
| `NothingStale` | the same, and with the display on, no event outlives its cycle |
| `CapacityKept` | the grid never has more than `MAX_BOTBOTS` botbots |
| `AllAccounted` | who entered the grid is alive, or once among the fallen with nothing left, between any two steps |
| `OneWinner` | the screen that is left shows one winner, on the cell that is listed for it, and all others once among the fallen |
| `ParserCorrect` | the options are those the command line asks for, in whatever order it does |
| `BalanceInMain`, `ConservationInMain` | `Balance` and `Conservation`, of the program |

`ParserCorrect` is about a loop: `Parsed` says of the arguments in front of the loop index what
`OptionsHonoured` says of all of them; which of the numbers is the first and which the last
is known only when all have been read.

## 5. Only model-checked

* Liveness: `EveryTaskServed`, `DrainReturns`, `StopReturns`, `DrainProceeds`,
  `CycleReturns`, `MqtPassEnds`, `EndsUnlessMissed`.  The prover has no support for
  liveness under fairness.  What is proved is that nobody is stuck on the way: `NoLostWakeup` and
  `DrainNeverAlone` for the Cortex, the lemma `WaitsForWork` and `StopWakesAll` for `EveryTaskServed` and
  `StopReturns` of the MultiQueueThreadpool, `MqtCallsReturn` for `MqtPassEnds`, and `NoDeadlock` for
  `EndsUnlessMissed`.
* `ENABLED`: that the guards these theorems spell out are those of the actions was compared by
  TLC on the instances of the runs `cortex`, `multiqueue` and `synchronize`.
* The six runs that end in a violation, which are counterexamples and have nothing to prove.

Every invariant and every action property of a passing run is a theorem; `SeriesAsAsked`
puts `OptionsAsAsked` and `AlphaRunsAsAsked` together.

## 6. Not modelled

* The layout and wording of events and of the grid; names; times; generation numbers;
  `Timer`.
* `ts_queue`, which no file includes.
* The overloads of `bind()` in `boundjob.h`, which copy a function and its arguments
  into an object and keep no state that changes (`BoundJob3` is never instantiated),
  and `boundjob.t.cpp`, which calls such objects one after the other and prints.
* What the jobs of `cortex.t.cpp` compute, and the statistics it prints.  `--threads 0`,
  with which the raw test divides by zero, is excluded by an assumption.
* `process_next_function` called by somebody who is not a worker, which nothing in the
  repository does.
* Failure of `pthread_create`, exceptions, and tasks that call their own pool: no task
  in the repository does.
* `tryLock` and `MutexGuard`, and the copies in `cortex/alpha_series` and
  `cortex/beta_series` of files other than the pools and their driver.

## 7. Plan

Done, in this order: `TaskPool`, `Cortex`; `MultiQueueThreadpool`; `Arena`, `Grid`; `Main`;
the drivers and the two series; `Synchronize` and its test; the proofs along with
each of them.

What could follow:

1. Tasks that call back: `enqueue_task` from inside a task, and what
   `process_gate_iteratively` does then.
2. `drain()` of a Cortex without workers, once its contract is stated.
